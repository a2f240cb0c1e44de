SPECIFICATION FairSpec
CONSTANTS
    MaxRequests = 4
    MaxOps = 2
    MaxChanges = 2
    Reported <- MCTwoReported
    BaseRefs = 2
INVARIANTS
    TypeOK
    FreshCheckSettles
    OpAccounted
    RefsExact
PROPERTIES
    NotCompletedAfterDestroy
    OpEnds
CHECK_DEADLOCK FALSE
