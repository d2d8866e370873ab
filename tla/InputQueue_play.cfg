\* Two rounds; numbers wrap; the queue and the ring overflow.
SPECIFICATION Spec
CONSTANTS
    SeqMod = 8
    INPUT_QUEUE_MAX = 2
    RingSize = 2
    MaxLag = 3
    MaxSeq = 10
    MaxRounds = 2
    ChannelCap = 2
    NoSnapshot = NoSnapshot
INVARIANTS
    ServedIsOfThisRound
    NeverStale
PROPERTIES
    AckedWasServedOrDropped
    ReplayIsExact
