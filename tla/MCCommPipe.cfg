CONSTANTS
    Size = 4
    Chunks = 2
    MaxWords = 9
SPECIFICATION FairSpec
INVARIANTS
    TypeOK
    RingExclusive
PROPERTIES
    ImplementsChannel
    FlushedIsDelivered
    WriteReturns
CHECK_DEADLOCK FALSE
