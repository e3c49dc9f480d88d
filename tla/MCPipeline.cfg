CONSTANTS
  Capacity = 1
  NumPackets <- Packets
SPECIFICATION MCSpec
INVARIANT SomeoneMoves
PROPERTY FileEnds
CHECK_DEADLOCK FALSE
