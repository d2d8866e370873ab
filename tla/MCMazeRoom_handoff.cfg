\* A connection waits on a zombie's seat while the zombie plays on.
SPECIFICATION Spec
CONSTANTS
    MAX_PLAYERS = 2
    Zombies = 1
    Width = 6
    Height = 3
    Layout <- MCCorridor
    SPAWN_MIN_DISTANCE = 2
    KillLimit = 2
    RoundIds = 2
    Joy <- MCJoy
    NoShot = NoShot
    NoResult = NoResult
PROPERTIES
    HandoffIsClean
