\* Three seats and one zombie, which moves between seats 1 and 2 as humans
\* come and go.
SPECIFICATION Spec
CONSTANTS
    MAX_PLAYERS = 3
    Zombies = 1
    Width = 6
    Height = 3
    Layout <- MCCorridor
    SPAWN_MIN_DISTANCE = 2
    KillLimit = 1
    RoundIds = 2
    Joy <- MCShots
    NoShot = NoShot
    NoResult = NoResult
INVARIANTS
    WinnerIsLabelled
