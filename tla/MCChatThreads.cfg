SPECIFICATION Spec
CONSTANTS
    h1 = h1  h2 = h2  k1 = k1  k2 = k2  m1 = m1  m2 = m2
    hello = hello  more = more
    t1 = t1  t2 = t2  t3 = t3
    EmptyText = EmptyText
    None = None
    Handler = {h1, h2}
    ApiKey = {k1, k2}
    Model = {m1, m2}
    Text = {EmptyText, hello, more}
    ThreadId = {t1, t2, t3}
    KeyModel <- MCKeyModel
    KeyPrompt <- MCKeyPrompt
    Request <- MCRequest
    TTL = 1
    PurgeInterval = 0
    MaxRequests = 3
    MaxTime = 3
    MaxTrouble = 1
SYMMETRY Perms
INVARIANTS
    ThreadIsolation
    OpenedOnce
PROPERTIES
    DroppedThreadStaysDropped
    LiveRowsSurvive
CHECK_DEADLOCK FALSE
