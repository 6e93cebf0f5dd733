SPECIFICATION Spec
CONSTANTS
  p1 = p1
  Processes = {p1}
  Events = {1, 2}
  Owner <- MCOwner
  Cap = 2
  TTL = 2
  Stale = 3
  Latency = 1
  MaxFaults = 1
  MaxSwitches = 1
CHECK_DEADLOCK FALSE
INVARIANTS Conserved DisableTakesHold
PROPERTY Shipped
