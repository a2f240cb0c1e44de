SPECIFICATION FairSpec
CONSTANTS
    CallIds <- MCCallIds
    MaxRequests = 2
    MaxOps = 1
    BaseRefs = 2
    States <- AllStates
    MaxBatch = 2
INVARIANTS
    CallsDistinct
    OfonoUpToDate
PROPERTIES
    VoiceLossClearsCalls
    OpEnds
CHECK_DEADLOCK FALSE
