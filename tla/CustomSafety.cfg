SPECIFICATION Spec
CONSTANTS
  NoPkts = 3
  AckNo  = 4
INVARIANTS ScansInside ServerCopy ClientCopy LastNeverAsked RetrEndsOnClientAck
PROPERTIES LostPacketIsFatal
CHECK_DEADLOCK FALSE
