SPECIFICATION MCSpec
CONSTANTS
    None = None
    GameType = "GOMOKU"
    StartingColor = "WHITE"
    Area = 4
    Conns = {c1, c2, c3, c4}
    MaxMembers = 3
    TurnLimit = 2
    MaxTime = 5
    MaxRevision = 9
SYMMETRY Symmetry
CHECK_DEADLOCK FALSE
INVARIANTS
    RoomTypeOK
    SeatsConsistent
    UndoRequestValid
    ClockDiscipline
    ClockConserved
    ResultConsistent
PROPERTIES
    EngineCallsLegal
    LoserOpensNextRound
    VotesDieWithThePair
    UndoTakesBackOwnMove
    NoStoneAfterDeadline
    RevisionNamesTurn
    TurnLostOnlyWhenSpent
