SPECIFICATION BackoffSpec
CONSTANTS
    t1 = t1  u1 = u1  u2 = u2  w1 = w1
    Tenants = {t1}
    Fields = {"rate_limit","retry_base"}
    Updates = {u1,u2}
    Workers = {w1}
    Asked = {0,9,10}
    DefaultRate = 1
    DefaultRetries = 1
    MaxRetries = 1
    DefaultBase = 3
    MinBase = 2
    MaxColumn = 9
    MaxAttempts = 4
    Millisecond = 2
    MaxDelay = 20
    MaxInt64 = 40
CHECK_DEADLOCK FALSE
SYMMETRY Interchangeable
INVARIANTS
    BackoffInv NeverPanics SettingsAreAccepted BackoffIsWithinLimits
