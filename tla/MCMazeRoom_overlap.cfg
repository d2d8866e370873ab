\* Three seats and one zombie: it returns to a cell it held long ago.
SPECIFICATION Spec
CONSTANTS
    MAX_PLAYERS = 3
    Zombies = 1
    Width = 6
    Height = 3
    Layout <- MCCorridor
    SPAWN_MIN_DISTANCE = 2
    KillLimit = 1
    RoundIds = 2
    Joy <- MCSteps
    NoShot = NoShot
    NoResult = NoResult
INVARIANTS
    Placement
