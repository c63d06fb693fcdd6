SPECIFICATION Spec
CONSTANTS
    t1 = t1  t2 = t2  p1 = p1  p2 = p2  url = url  active = active
    v1 = v1  v2 = v2  r1 = r1  r2 = r2
    Tenants = {t1,t2}
    Ids = {p1,p2}
    Fields = {url,active}
    Values = {v1,v2}
    Requests = {r1,r2}
CHECK_DEADLOCK FALSE
SYMMETRY Interchangeable
INVARIANTS
    RegistryInv
PROPERTIES
    OnlyOwnersWrite DeletedStaysDeleted
