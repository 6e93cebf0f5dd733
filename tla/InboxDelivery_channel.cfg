SPECIFICATION Spec
CONSTANTS
  r1 = r1
  r2 = r2
  r3 = r3
  Rows = {r1, r2, r3}
  Verdicts = {r3}
  Unbound = {r3}
  CodexInject = FALSE
  AppliedCap = 3
  MaxWire = 1
  MaxFaults = 2
SYMMETRY Replies
INVARIANTS DeliveredReachedAgent OncePerProcess
PROPERTY ImplementsAtLeastOnce
