SPECIFICATION Spec
CONSTANTS
    MaxRequests = 3
INVARIANTS
    TypeOK
    RefsExact
    RadioOutlivesCallbacks
    OnlyImsDangles
CHECK_DEADLOCK FALSE
