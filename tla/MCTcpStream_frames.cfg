SPECIFICATION FairSpec
CONSTANTS
    Packets <- MCPackets
    CodeMax = 3
    FrameMax = 7
    TxCap = 10
    PipeMax = 6
    DamageMax = 2
INVARIANTS
    NothingFollowsACut
    OnlyWhatWasSent
    DamageIsLocal
PROPERTIES
    PacketsArrive
