SPECIFICATION FairSpec
CONSTANTS
    Records = {1, 2, 3, 4}
    Requested = {0, 2, 7}
    DefaultLimit = 1
    MaxLimit = 2
    MaxBytes = 4
    MaxChanges = 2
CONSTANTS
    Key <- ById
    Place <- ById
    Size <- Sizes
INVARIANT
    TypeOK
PROPERTIES
    ImplementsCursorScan
    WalkEnds
CHECK_DEADLOCK FALSE
