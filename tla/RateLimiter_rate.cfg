\* Two tokens, three units to an interval, four intervals: fractions of an
\* interval, an idle time that fills the bucket, and refusals before and after.
SPECIFICATION Spec
CONSTANTS
    Burst = 2
    Interval = 3
    MaxTime = 12
INVARIANTS
    TypeOK
    RateBounded
    RefusalsAreFair
