SPECIFICATION LosslessSpec
CONSTANTS
  a = a
  b = b
  Nodes    <- Pair
  Dest     <- PairDest
  DataSize <- OneEach
  Payload  = 2
PROPERTIES AllReceiveThreadsEnd
CHECK_DEADLOCK FALSE
