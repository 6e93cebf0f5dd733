SPECIFICATION WatchSpec
CONSTANTS
  s1 = s1
  Sessions = {s1}
  Stale = 1
  Offline = 2
  Chat = 1
  MaxAsks = 1
  Quick = 1
  Grace = 1
  Debounce = 3
  Retract = 1
  MaxLapses = 1
CHECK_DEADLOCK FALSE
INVARIANTS OneTextPerEngagement
PROPERTIES WarningsAreTakenBack GivesUpFairly NoGhost LostIsAnnounced
