CONSTANTS
  c1 = c1
  c2 = c2
  None = None
  Caller = {c1, c2}
  Closer = {}
  MaxSession = 1
  MaxBackoffAttempt = 0
  Interrupts = FALSE
SPECIFICATION FairSpec
PROPERTY
  EveryCallReturns
