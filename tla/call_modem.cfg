SPECIFICATION Spec
CONSTANTS
    CallIds <- MCCallIds
    MaxRequests = 3
    MaxOps = 1
    States <- MCStates
    MaxBatch = 2
    BaseRefs = 4
    MaxEvents = 2
INVARIANTS
    TypeOK
    ListMatchesModem
    NeverTwoActive
PROPERTIES
    HandoverKeepsActive
CHECK_DEADLOCK FALSE
