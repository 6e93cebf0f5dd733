SPECIFICATION FairSpec
CONSTANTS
  q1 = q1
  q2 = q2
  Requests = {q1, q2}
  Deadline = 2
  PollTimeout = 3
  HookTimeout = 3
  MaxClock = 4
  MaxFaults = 2
CHECK_DEADLOCK FALSE
INVARIANTS AllowIsOnRecord OneVerdict DeadlineBeatsHook
PROPERTIES ClosedIsFinal HookAnswered
