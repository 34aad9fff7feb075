CONSTANT Files = {f1, f2}
SPECIFICATION FairSpec
INVARIANTS
    TypeOK
    NothingForgotten
PROPERTIES
    EverythingHappens
CHECK_DEADLOCK FALSE
