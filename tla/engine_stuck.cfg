SPECIFICATION MCSpec
CONSTANTS
    None = None
    Size = 3
    StartingColor = "WHITE"
    WinLength = 3
    WindowRadius = 6
    MaxJudgeDepth = 3
    Wins <- RenjuWins
    ForbiddenPoints <- RenjuForbidden
    Opening <- Opening3x3
INVARIANTS
    NeverStuckOnTurn
