SPECIFICATION FairSpec
CONSTANTS
  x1 = x1
  x2 = x2
  x3 = x3
  t1 = t1
  None = None
  Messages = {x1, x2, x3, t1}
  Tapbacks = {t1}
  MaxAttempts <- FirstTwice
  MaxInterrupts = 1
  MaxFaults = 1
CHECK_DEADLOCK FALSE
INVARIANTS Conserved NotStarved ActedOnce
PROPERTY Answered
