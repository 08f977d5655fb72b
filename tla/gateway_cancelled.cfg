SPECIFICATION MCSpec
CONSTANTS
    None = None
    GameType = "GOMOKU"
    StartingColor = "WHITE"
    Area = 2
    Conns = {c1, c2, c3}
    MaxMembers = 3
    TurnLimit = None
    CancelEndpoints = TRUE
    MaxTime = 0
    MaxCommands = 9
    Opener = c1
    Second = c2
    Watchers = {c3}
CHECK_DEADLOCK FALSE
INVARIANTS
    ViewsConverge
