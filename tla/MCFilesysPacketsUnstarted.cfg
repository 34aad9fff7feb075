CONSTANTS
    Packets = {p1, p2}
    MaxStarted = 1
    BackSize = 2
    Dummy = Dummy
SPECIFICATION FairSpec
PROPERTIES
    UnstartedIsReplied
CHECK_DEADLOCK FALSE
