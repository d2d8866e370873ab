SPECIFICATION FairSpec
CONSTANTS
    RoundMod = 4
    b1 = b1
    Brick = {b1}
    LastRound = 0
    QueueMax = 3
    WireCap = 2
    EchoMax = 1
    BrickRepeats = 2
    RespawnRepeats = 1
INVARIANTS
    PiecesMatch
    MazeNeverLacks
    QuietMeansEqual
    ClientsAgree
PROPERTIES
    ResultsStay
    HelloIsSettled
    RoundOpens
