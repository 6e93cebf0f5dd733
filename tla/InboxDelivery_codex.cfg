SPECIFICATION FairSpec
CONSTANTS
  r1 = r1
  r2 = r2
  r3 = r3
  Rows = {r1, r2}
  Verdicts = {r2}
  Unbound = {}
  CodexInject = TRUE
  AppliedCap = 2
  MaxWire = 1
  MaxFaults = 2
PROPERTY EventuallyDelivered
