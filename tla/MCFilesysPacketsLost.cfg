CONSTANTS
    Packets = {p1}
    MaxStarted = 2
    BackSize = 2
    Dummy = Dummy
SPECIFICATION FairSpec
PROPERTIES
    ProcessedIsReplied
CHECK_DEADLOCK FALSE
