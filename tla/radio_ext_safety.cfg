SPECIFICATION Spec
CONSTANTS
    MaxRequests = 3
    IdMod = 5
    Codes <- MCCodes
INVARIANTS
    TypeOK
    NoSilentRelease
PROPERTIES
    CompletedByOwnAnswer
    ContractSpec
CHECK_DEADLOCK FALSE
