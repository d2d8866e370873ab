\* The retries, after 1, 2 and 4 units, are below, at and above the refresh.
SPECIFICATION FairSpec
CONSTANTS
    RoomCount = 2
    MaxPlayers = 1
    Timeout = 2
    Shutdown = 3
    Refresh = 2
    RetryMin = 1
    RetryMax = 4
    Offline = Offline
    None = None
INVARIANTS
    ChangeIsPending
    StopIsBounded
PROPERTIES
    OfflineIsLast
    Converges
