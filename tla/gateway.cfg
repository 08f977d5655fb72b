SPECIFICATION AnySpec
CONSTANTS
    None = None
    GameType = "GOMOKU"
    StartingColor = "WHITE"
    Area = 2
    Conns = {c1, c2, c3}
    MaxMembers = 3
    TurnLimit = None
    CancelEndpoints = FALSE
    MaxTime = 0
    MaxCommands = 9
    TimedLimit = 1
    TimedEnd = 3
    TimedCommands = 5
    Opener = c1
    Second = c2
    Watchers = {c3}
CHECK_DEADLOCK FALSE
INVARIANTS
    UntimedRoomInformed
    TimerArmed
    SleepingTimerIsCurrentOrStale
PROPERTIES
    ExpiredTurnEnds
