SPECIFICATION FairSpec
CONSTANTS
  m1 = m1
  m2 = m2
  a1 = a1
  a2 = a2
  a3 = a3
  b1 = b1
  None = None
  Machines = {m1, m2}
  Jobs = {a1, a2, a3, b1}
  Home <- ThreeAndOne
  TTL = 2
  AcquireTimeout = 3
  MaxTurn = 3
  MaxFaults = 2
CHECK_DEADLOCK FALSE
INVARIANT TurnsExclude
PROPERTY EveryTurnEnds
