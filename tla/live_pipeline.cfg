SPECIFICATION LiveSpec
CONSTANTS
    e1 = e1  e2 = e2  p1 = p1  d1 = d1  d2 = d2  s1 = s1  s2 = s2
    NoEvent = NoEvent
    NoOne = NoOne
    Events = {e1}
    Endpoints = {p1}
    EndpointOf <- ToP1
    Dispatchers = {d1,d2}
    Schedulers = {s1}
    MaxAttempts = 2
    Faults = {}
    SlowHolders = FALSE
    MaxCrashes = 1
    MaxRebalances = 1
    MaxDisruptions = 1
    MaxEdits = 1
    MaxLog = 3
    BreakerAnswers = {TRUE}
    BatchSize = 1
INVARIANTS
    FailedHasDeadLetter DeliveredIsAudited RecordsInv
PROPERTIES
    EveryMessageIsProcessed RetriesAreTaken PublishedIsAttempted ImplementsContract RetiredIsLeftAlone
