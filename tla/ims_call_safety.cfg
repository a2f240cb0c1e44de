SPECIFICATION Spec
CONSTANTS
    CallIds <- MCCallIds
    MaxRequests = 3
    MaxOps = 2
    BaseRefs = 2
    States <- MCSwapStates
    MaxBatch = 1
INVARIANTS
    TypeOK
    OpCompletedOnce
    OpAccounted
    OkMeansEveryRequestSucceeded
    RefsExact
PROPERTIES
    NotCompletedAfterDestroy
    CancelledOpSilent
CHECK_DEADLOCK FALSE
