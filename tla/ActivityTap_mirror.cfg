SPECIFICATION Spec
CONSTANTS
  None = None
  p1 = p1
  p2 = p2
  Taps = {p1, p2}
  Kind <- MCKind
  Codex = FALSE
  MaxToggles = 2
  MaxStarts = 2
  MaxFaults = 1
CHECK_DEADLOCK FALSE
INVARIANTS Ephemeral Conserved
PROPERTY ContextArrives
