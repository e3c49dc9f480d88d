CONSTANTS
  None = None
  c1 = c1
  c2 = c2
  c3 = c3
  Conns = {c1, c2, c3}
  NumLoops = 2
SPECIFICATION FairSpec
INVARIANTS KnownChannelsAlive LifeCycle
PROPERTIES ClosedIsReleased ServerStops
CHECK_DEADLOCK FALSE
