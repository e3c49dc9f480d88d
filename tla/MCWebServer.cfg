CONSTANTS
  None = None
  d1 = d1
  d2 = d2
  w1 = w1
  w2 = w2
  Fds = {d1, d2}
  Workers = {w1, w2}
  MAX_FD = 2
  MaxConns = 2
  LateTimeouts = FALSE
SPECIFICATION FairSpec
INVARIANTS ExactlyOneOwner CountMatchesSockets EventHasTimer
PROPERTIES RequestAnswered LeaverReleased
CHECK_DEADLOCK FALSE
