SPECIFICATION CSpec
CONSTANTS
    c1 = c1  c2 = c2  k1 = k1  m1 = m1  p1 = p1  p2 = p2  q2 = q2  q3 = q3  q4 = q4
    prompt = prompt  reply = reply
    EmptyText = EmptyText
    None = None
    Handler = {h1}
    ApiKey = {k1}
    Model = {m1}
    Text = {EmptyText, p1, p2, q2, q3, q4, prompt, reply}
    ThreadId = {1, 2, 3, 4, 5, 6}
    KeyModel <- MCKeyModel
    KeyPrompt <- MCKeyPrompt
    Request <- MCRequest
    Conv = {c1}
    KeyOf <- MCKeyOf
    Question <- MCQuestion
    ReplyText = reply
    TTL = 0
    PurgeInterval = 0
    MaxRequests = 6
    MaxTime = 1
    MaxTrouble = 0
    MaxTurns = 3
    MaxFaults = 1
INVARIANTS
    ContinuesExisting
CHECK_DEADLOCK FALSE
