\* Up to four frames under way each way, any of them lost; the revisions wrap
\* twice.
SPECIFICATION FairSpec
CONSTANTS
    RevMod = 4
    RELIABLE_QUEUE_MAX = 3
    MaxEvents = 9
    ChannelCap = 4
INVARIANTS
    AckedMeansApplied
PROPERTIES
    EventStreamPromise
    EventsArrive
