SPECIFICATION FairSpec
CONSTANTS
    MaxRequests = 4
    IdMod = 2
    Codes <- MCOneCode
INVARIANTS
    SentCallbackLive
    Accounted
    CompletedAtMostOnce
PROPERTIES
    CancelledIsSilent
    EveryRequestEnds
CHECK_DEADLOCK FALSE
