SPECIFICATION ToolSpec
CONSTANTS
    OpenTool = OpenTool
    CloseTool = CloseTool
    OpenFunc = OpenFunc
    CloseFunc = CloseFunc
    LBrace = LBrace
    RBrace = RBrace
    Name = Name
    Other = Other
    MaxCalls = 2
    Answer <- MCAnswer
PROPERTIES
    Returns
CHECK_DEADLOCK FALSE
