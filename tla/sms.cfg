SPECIFICATION FairSpec
CONSTANTS
    MaxRequests = 4
    IdMod = 3
    BaseRefs = 2
INVARIANTS
    TypeOK
    MessageAccounted
    RefsExact
PROPERTIES
    NotCompletedAfterDestroy
    CancelledMessageSilent
    MessageEnds
CHECK_DEADLOCK FALSE
