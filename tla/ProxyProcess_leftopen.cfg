SPECIFICATION Spec
CONSTANTS
    None = None
    Handler = {h1}
    Fd = {1, 2, 3}
    MaxRetries = 1
INVARIANTS
    NothingLeftOpen
CHECK_DEADLOCK FALSE
