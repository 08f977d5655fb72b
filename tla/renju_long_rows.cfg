SPECIFICATION MCSpec
CONSTANTS
    None = None
    Size = 9
    StartingColor = "WHITE"
    WinLength = 7
    WindowRadius = 6
    MaxJudgeDepth = 3
CHECK_DEADLOCK FALSE
INVARIANTS
    RowsJudgedExactly
