SPECIFICATION MCSpec
CONSTANTS
    None = None
    GameType = "OTHELLO"
    StartingColor = "BLACK"
    Area = 2
    Conns = {c1, c2, c3}
    MaxMembers = 3
    TurnLimit = 1
    CancelEndpoints = FALSE
    MaxTime = 3
    MaxCommands = 5
    Opener = c1
    Second = c2
    Watchers = {c3}
CHECK_DEADLOCK FALSE
INVARIANTS
    ResultAnnounced
