SPECIFICATION Spec
CONSTANTS
    CallIds <- MCCallIds
    MaxRequests = 3
    MaxOps = 2
    BaseRefs = 2
    States <- MCTwoStates
    MaxBatch = 1
INVARIANTS
    ReferencesKept
CHECK_DEADLOCK FALSE
