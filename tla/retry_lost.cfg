SPECIFICATION LiveSpec
CONSTANTS
    e1 = e1  e2 = e2  p1 = p1  d1 = d1  d2 = d2  s1 = s1  s2 = s2
    NoEvent = NoEvent
    NoOne = NoOne
    Events = {e1}
    Endpoints = {p1}
    EndpointOf <- ToP1
    Dispatchers = {d1}
    Schedulers = {s1}
    MaxAttempts = 3
    Faults = {}
    SlowHolders = FALSE
    MaxCrashes = 0
    MaxRebalances = 0
    MaxDisruptions = 1
    MaxEdits = 0
    MaxLog = 4
    BreakerAnswers = {TRUE}
    BatchSize = 1
PROPERTIES
    ScheduledRetryIsMade
