CONSTANTS
    Tasks = {t1, t2}
    Contexts = {c1, c2}
    MaxCalls = 2
    MaxResets = 1
    None = None
SPECIFICATION FairSpec
INVARIANTS
    TypeOK
    OneInControl
    FreedIsUnused
PROPERTIES
    ImplementsFrames
    EveryTrapReturns
    LeaveEnds
CHECK_DEADLOCK FALSE
