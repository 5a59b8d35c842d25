SPECIFICATION FairSpec
CHECK_DEADLOCK FALSE
CONSTANTS
  c1 = c1
  c2 = c2
  None = None
  Clients = {c1, c2}
  Starts = 3
  MaxTime = 2
  Delays = {1, 2}
INVARIANTS TimerIsKept StoppedIsSilent
PROPERTIES TimerEnds
