CONSTANTS
  c1 = c1
  k1 = k1
  k2 = k2
  None = None
  Caller = {c1}
  Closer = {k1, k2}
  MaxSession = 2
  MaxBackoffAttempt = 1
  Interrupts = TRUE
SPECIFICATION PatientSpec
INVARIANTS
    NoMissedWakeup
    ClosedMeansDrained
PROPERTIES
    ImplementsRemoteCall
    EndsAreHeard
