SPECIFICATION FairSpec
CONSTANTS
    None = None
    Handler = {h1}
    Fd = {1, 2, 3}
    MaxRetries = 2
INVARIANTS
    DescriptorsOwned
    ChildrenReaped
    OneKnownChild
    NoWebuiLeft
PROPERTIES
    StopEndsLoop
CHECK_DEADLOCK FALSE
