SPECIFICATION MCSpec
CONSTANTS
    None = None
    Size = 4
    StartingColor = "WHITE"
    WinLength = 3
    WindowRadius = 6
    MaxJudgeDepth = 3
    Wins <- RenjuWins
    ForbiddenPoints <- RenjuForbidden
    Opening <- Opening4x4
INVARIANTS
    BoardMatchesHistory
    ForbiddenFresh
    NoRowOverlooked
PROPERTIES
    ResultsAreDue
    StuckOnlyBySkip
    ImplementsMatch
