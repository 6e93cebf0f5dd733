SPECIFICATION Spec
CONSTANTS
  None = None
  bash = bash
  edit = edit
  note = note
  s1 = s1
  Requests = {bash, edit}
  Relays = {note}
  Sessions = {s1}
  Kinds <- MCKinds
  SessionOf <- MCSessionOf
  MaxRounds = 2
  MaxInbound = 1
  MaxIds = 4
CHECK_DEADLOCK FALSE
INVARIANTS FrontIsTruthful TapbackAllowsItsOwn NeverEaten ForwardedOnce
