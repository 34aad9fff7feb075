CONSTANTS
    MaxPending = 2
    MaxResults = 2
    MaxPosts = 4
SPECIFICATION FairSpec
INVARIANTS
    TypeOK
    ExecutedInOrder
    PassIsBounded
    RetainedIsBounded
PROPERTIES
    KeepsPromise
    EveryActionFinishes
