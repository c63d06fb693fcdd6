SPECIFICATION LiveSpec
CONSTANTS
    w1 = w1  w2 = w2  w3 = w3
    Workers = {w1,w2}
    Threshold = 3
    Timeout = 1
INVARIANTS
    BreakerInv SerialInv
PROPERTIES
    OpensOnlyAfterThreshold OpenRefusesUntilTimeout OpenIsLeft
