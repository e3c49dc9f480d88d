CONSTANTS
  Capacity = 1
  NumPackets <- Packets
SPECIFICATION SpecMedia
INVARIANT AllDataWritten
CHECK_DEADLOCK FALSE
