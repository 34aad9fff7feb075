CONSTANTS
    s1 = s1
    s2 = s2
    Senders <- MCSenders
    MaxMsgs <- MCMaxMsgs
    Capacity = 4
    MaxResets = 0
    Indirect = TRUE
SPECIFICATION FairSpec
INVARIANTS
    TypeOK
    DeliveredInOrder
    FramesIntact
    NoForgottenWords
    SemaphoreReturned
PROPERTIES
    EveryMessageDelivered
CHECK_DEADLOCK FALSE
