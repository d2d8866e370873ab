\* Two seats, the second a zombie's while no human holds it, and a brick
\* between them.
SPECIFICATION Spec
CONSTANTS
    MAX_PLAYERS = 2
    Zombies = 1
    Width = 6
    Height = 3
    Layout <- MCBrickedCorridor
    SPAWN_MIN_DISTANCE = 2
    KillLimit = 2
    RoundIds = 2
    Joy <- MCJoy
    NoShot = NoShot
    NoResult = NoResult
INVARIANTS
    TypeOK
    GraceOwnsEmptyRoom
    KillLimitEndsRound
    ShotsNeedAudience
    Placement
    ShotsDoNotSwap
    HiddenMeansDead
    DormantIsClean
