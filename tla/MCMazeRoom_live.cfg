\* Deadlines that must be acted on while ticks keep coming.
SPECIFICATION FairSpec
CONSTANTS
    MAX_PLAYERS = 2
    Zombies = 1
    Width = 5
    Height = 3
    Layout <- MCCorridor
    SPAWN_MIN_DISTANCE = 2
    KillLimit = 2
    RoundIds = 2
    Joy <- MCShots
    NoShot = NoShot
    NoResult = NoResult
PROPERTIES
    GraceIsResolved
    ResultsEnd
    DeathIsTemporary
