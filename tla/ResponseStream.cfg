SPECIFICATION RespSpec
CONSTANTS
    lt = lt  th = th  sl = sl
    Char = {lt, th, sl}
    Lt = lt
    OpenTag <- MCOpenTag
    CloseTag <- MCCloseTag
    OutCap = 4
    MaxText = 7
    Splits = {2, 4, 6}
    Data = Data
    Close = Close
    Newline = Newline
    Body <- MCBody
    OpenTool = OpenTool
    CloseTool = CloseTool
    OpenFunc = OpenFunc
    CloseFunc = CloseFunc
    LBrace = LBrace
    RBrace = RBrace
    Name = Name
    Other = Other
    MaxCalls = 2
    MaxWords = 4
    MaxBraces = 5
    Answer <- MCAnswer
    TextBody <- MCTextBody
    ToolBody <- MCToolBody
    LineCap = 5
INVARIANTS
    RespTypeOK
    AllPassedOn
    CutAnywhere
    CallsFound
    ReplyAddsUp
PROPERTIES
    StripsAsWhole
    ScanAdvances
CHECK_DEADLOCK FALSE
