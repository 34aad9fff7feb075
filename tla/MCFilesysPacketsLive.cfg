CONSTANTS
    Packets = {1, 2}
    MaxStarted = 2
    BackSize = 2
    Dummy = 0
SPECIFICATION OrderedSpec
PROPERTIES
    LateIsReplied
CHECK_DEADLOCK FALSE
