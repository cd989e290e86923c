SPECIFICATION MCSpec
CONSTANTS
    None = None
    Request <- MCRequest
    Handler = {h1}
    RespId = {1, 2, 3}
    ThreadId = {1, 2, 3}
    TTL = 0
    PurgeInterval = 0
    Refusals = FALSE
    Patience = {TRUE}
    AnyIds = 3
    AnyFaults = 1
    MaxTime = 2
    MaxFaults = 0
    MaxCrashes = 1
    WithToolCalls = TRUE
    Results = TRUE
INVARIANTS
    ChainedInContext
CHECK_DEADLOCK FALSE
