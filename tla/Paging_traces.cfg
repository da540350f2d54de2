SPECIFICATION Spec
CONSTANTS
    Records = {1, 2, 3, 4}
    Requested = {0, 2, 7}
    DefaultLimit = 1
    MaxLimit = 2
    MaxBytes = 4
    MaxChanges = 0
CONSTANTS
    Key <- ById
    Place <- NewestFirst
    Size <- SmallSizes
INVARIANTS
    NothingSkipped
CHECK_DEADLOCK FALSE
