SPECIFICATION Spec
CONSTANTS
    e1 = e1  e2 = e2  p1 = p1  d1 = d1  d2 = d2  s1 = s1  s2 = s2
    NoEvent = NoEvent
    NoOne = NoOne
    Events = {e1}
    Endpoints = {p1}
    EndpointOf <- ToP1
    Dispatchers = {d1,d2}
    Schedulers = {s1,s2}
    MaxAttempts = 2
    Faults = {}
    SlowHolders = FALSE
    MaxCrashes = 1
    MaxRebalances = 1
    MaxDisruptions = 2
    MaxEdits = 0
    MaxLog = 3
    BreakerAnswers = {TRUE}
    BatchSize = 1
SYMMETRY Replicas
INVARIANTS
    PipelineInv NoConcurrentDelivery CommittedAreProcessed AttemptsAreBounded PostsInv
