SPECIFICATION APISpec
CONSTANTS
    t1 = t1  t2 = t2  p1 = p1  p2 = p2  p3 = p3
    v1 = v1  r1 = r1  r2 = r2
    Tenants = {t1,t2}
    Ids = {p1,p2,p3}
    Fields = {}
    Values = {v1}
    Requests = {r1,r2}
    Asked = {0,5}
    DefaultLimit = 1
    MaxLimit = 1
    MaxStamp = 3
CHECK_DEADLOCK FALSE
SYMMETRY Interchangeable
INVARIANTS
    APITypeOK OneDeleteIsConfirmed WalkMissesNothing WalkInv
