SPECIFICATION Spec
CONSTANTS
    MaxRequests = 2
    MaxOps = 1
    MaxChanges = 1
    Reported <- MCReported
    BaseRefs = 2
INVARIANTS
    SettledStateIsCurrent
CHECK_DEADLOCK FALSE
