CONSTANTS
  c1 = c1
  c2 = c2
  None = None
  Caller = {c1, c2}
  Closer = {}
  MaxSession = 2
  MaxBackoffAttempt = 0
  Interrupts = FALSE
SPECIFICATION Spec
SYMMETRY Symmetry
INVARIANTS
    TypeOK
    RepliesDelivered
    RetriesHonest
