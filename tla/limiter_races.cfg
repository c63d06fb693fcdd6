SPECIFICATION Spec
CONSTANTS
    r1 = r1  r2 = r2  r3 = r3  r4 = r4
    Requests = {r1,r2,r3,r4}
    Limit = 2
    Window = 2
    Slack = 1
    MaxInFlight = 2
    MaxTime = 4
    Faulty = TRUE
CHECK_DEADLOCK FALSE
SYMMETRY Permuted
INVARIANTS
    LimiterInv AdmissionsAreBounded
PROPERTIES
    RefusedOnlyAtLimit
