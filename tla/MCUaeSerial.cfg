CONSTANTS
    Requests = {r1, w1, b1, q1}
    Reads = {r1}
    Writes = {w1}
    Breaks = {b1}
    Capacity = 2
    MaxAborts = 1
    NoRequest = NoRequest
SPECIFICATION FairSpec
INVARIANTS
    TypeOK
    OnlyAbortsMisuse
    OneMessageAtATime
    NothingLeftBehind
PROPERTIES
    EveryRequestReplied
    AbortedIsReplied
CHECK_DEADLOCK FALSE
