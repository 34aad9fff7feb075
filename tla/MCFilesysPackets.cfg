CONSTANTS
    Packets = {p1, p2, p3}
    MaxStarted = 2
    BackSize = 2
    Dummy = Dummy
SPECIFICATION Spec
SYMMETRY PacketSymmetry
INVARIANTS
    TypeOK
    RepliedAfterProcessed
    OutstandingIsCounted
    OneDummyAtATime
    PipesDrain
    PendingIsHeld
PROPERTIES
    LateWritesAreTimeouts
CHECK_DEADLOCK FALSE
