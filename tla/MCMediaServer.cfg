CONSTANTS
  numMin = 1
  numMax = 2
  NUMSTEP = 2
  queueCapacity = 2
  NumProducers = 2
  cps = 1
  burst = 3
  size = 2
  TOKENBUCKET_MAX = 2
  NumDirs = 3
  Libraries <- Directories
SPECIFICATION MCSpec
INVARIANTS CountsExact NoStrandedTask ProducerNotForgotten WithinRate
PROPERTIES PoolGrows DestroyReturns ReadReturns
CHECK_DEADLOCK FALSE
