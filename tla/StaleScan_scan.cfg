SPECIFICATION FairSpec
CONSTANTS
    Entities = {1, 2, 3, 4}
    Private = {2}
    Requested = {0, 1, 7}
    DefaultLimit = 2
    MaxLimit = 3
    HistorySizes = {0, 2, 4, 9}
    RegistryCosts = {0, 2}
    PageBytes = {2, 7}
    MaxChanges = 1
    MaxFailures = 1
CONSTANTS
    Limits <- MCLimits
    Estimate <- MCEstimate
INVARIANTS
    TypeOK
    SpendsWisely
PROPERTIES
    ImplementsCursorScan
    ScanEnds
CHECK_DEADLOCK FALSE
