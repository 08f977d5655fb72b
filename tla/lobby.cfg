SPECIFICATION MCSpec
CONSTANTS
    None = None
    Conns = {c1, c2, c3}
    Names = {n1, n2}
    MaxRoomMembers = 2
    MaxPlayers = 2
    MaxCommands = 4
    Seated = {c1, c2}
    FirstName = n1
INVARIANTS
    SessionsMatchRooms
    RegistrySound
    RoomListsConverge
PROPERTIES
    GoneMeansGone
CHECK_DEADLOCK FALSE
