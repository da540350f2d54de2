CONSTANTS
    r1 = r1
    r2 = r2
    None = None
    Request = {r1, r2}
    MaxInFlight = 1
    WarnEvery = 1
    MaxTime = 1
    MaxRejections = 2
CONSTANT
    Limits <- MCLimits
SPECIFICATION FairSpec
INVARIANTS
    TypeOK
    SlotsHeld
    CallsAreAudited
    RejectionsTold
PROPERTY
    EveryCallEnds
CHECK_DEADLOCK FALSE
