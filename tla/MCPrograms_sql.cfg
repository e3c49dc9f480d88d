CONSTANTS
  NumThreads = 2
  Loggers = {1, 2}
  capacity_ = 1
  MaxLines = 4
  k1 = k1
  k2 = k2
  Conns = {k1, k2}
  Verifiers = {1, 2, 3}
  Workers = {1, 2, 3}
  NumTasks = 3
SPECIFICATION MCSpec
INVARIANT OneUserPerConnection
CHECK_DEADLOCK FALSE
