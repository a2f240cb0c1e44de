SPECIFICATION FairSpec
CONSTANTS
    MaxRequests = 2
    MaxOps = 1
    MaxChanges = 1
    Reported <- MCReported
    BaseRefs = 2
PROPERTIES
    SuccessReportedAsSuccess
CHECK_DEADLOCK FALSE
