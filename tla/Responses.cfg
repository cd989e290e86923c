SPECIFICATION MCSpec
CONSTANTS
    None = None
    Request <- MCRequest
    Handler = {h1, h2}
    RespId = {1, 2, 3, 4}
    ThreadId = {1, 2, 3, 4}
    TTL = 0
    PurgeInterval = 0
    Refusals = TRUE
    Patience = {TRUE, FALSE}
    AnyIds = 3
    AnyFaults = 1
    MaxTime = 2
    MaxFaults = 2
    MaxCrashes = 1
    WithToolCalls = TRUE
    Results = FALSE
SYMMETRY Symmetric
INVARIANTS
    TypeOK
    ConversationsApart
    RetriedInContext
    OneRecordKept
PROPERTIES
    ThreadHandedOn
CHECK_DEADLOCK FALSE
