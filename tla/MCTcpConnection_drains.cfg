CONSTANTS
  None = None
  m1 = m1
  m2 = m2
  Messages = {m1, m2}
  Senders = {}
  Closers = {}
  Room = 3
  HighWater = 2
SPECIFICATION FairSpec
PROPERTY OutputDrains
CHECK_DEADLOCK FALSE
