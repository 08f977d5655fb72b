SPECIFICATION MCSpec
CONSTANTS
    None = None
    Size = 8
    StartingColor = "WHITE"
    WinLength = 5
    WindowRadius = 6
    MaxJudgeDepth = 3
CHECK_DEADLOCK FALSE
INVARIANTS
    RowsJudgedExactly
    FoursJudgedExactly
    PrefilterSound
