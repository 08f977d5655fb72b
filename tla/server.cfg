SPECIFICATION MCSpec
CONSTANTS
    None = None
    Conns = {c1, c2}
    Ids = {i1}
    Window = 2
    MaxMessages = 2
    MaxRuns = 2
    MaxCommands = 7
    MaxTime = 6
    ChatCommands = 7
    Talker = c1
CHECK_DEADLOCK FALSE
INVARIANTS
    RateBounded
    ControllerSound
    AnsweredAccountsKept
    OrphanedOnlyInRace
PROPERTIES
    FailureShown
    ForgottenServersEnd
