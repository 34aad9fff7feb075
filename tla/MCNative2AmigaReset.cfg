CONSTANTS
    s1 = s1
    s2 = s2
    Senders <- OneSender
    MaxMsgs <- MCMaxMsgsOfOne
    Capacity = 4
    MaxResets = 1
    Indirect = FALSE
SPECIFICATION ResetSpec
PROPERTY RefusedComesBack
CHECK_DEADLOCK FALSE
