SPECIFICATION OthelloSpec
CONSTANTS
    None = None
    Size = 4
INVARIANTS
    CountMatchesBoard
    TurnCanMove
PROPERTIES
    PassesAndEndsOnlyWhenForced
    ImplementsMatch
