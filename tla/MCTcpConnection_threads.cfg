CONSTANTS
  None = None
  m1 = m1
  m2 = m2
  t1 = t1
  t2 = t2
  Messages = {m1, m2}
  Senders = {t1}
  Closers = {t2}
  Room = 1
  HighWater = 2
SPECIFICATION Spec
SYMMETRY Symmetry
INVARIANT StreamInOrder
CHECK_DEADLOCK FALSE
