SPECIFICATION Spec
CONSTANTS
  None = None
  c1 = c1
  t1 = t1
  t2 = t2
  Channels = {c1}
  Commands = {t1, t2}
  MaxRemote = 1
  MaxSpawns = 3
  MaxFrames = 2
  Mac = TRUE
  MaxFaults = 1
CHECK_DEADLOCK FALSE
INVARIANTS RemoteStands AwakeIffAway HealsOnReconnect
PROPERTY NotWedged
