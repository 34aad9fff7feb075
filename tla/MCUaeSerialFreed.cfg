CONSTANTS
    Requests = {r1}
    Reads = {r1}
    Writes = {}
    Breaks = {}
    Capacity = 4
    MaxAborts = 0
    NoRequest = NoRequest
SPECIFICATION ResetSpec
INVARIANTS
    NoUseAfterFree
CHECK_DEADLOCK FALSE
