SPECIFICATION FairSpec
CONSTANTS
    MAX_PLAYERS = 1
    Zombies = 0
    Fd = {3, 4, 5}
    NoFd = NoFd
    MaxDeparting = 1
    TxCap = 1
    InMax = 2
    HandshakeAge = 2
    SessionAge = 2
    DrainAge = 1
INVARIANTS
    OwnersAreExact
PROPERTIES
    NewSeatIsClean
    PendingIsSettled
    LeaverIsReleased
