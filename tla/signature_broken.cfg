SPECIFICATION Spec
CONSTANTS
    e1 = e1  e2 = e2  c1 = c1  c2 = c2
    Events = {e1,e2}
    Contents = {c1,c2}
    Secret = Secret
    MaxTime = 2
INVARIANTS
    ReceiversCanVerify
