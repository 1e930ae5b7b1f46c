SPECIFICATION Spec
CONSTANTS
  FileSize  = 4
  Payload   = 2
  EdgeBytes = {0}
  PastEof   <- MCPastEof
  Bytes     <- MCBytes
  Text      <- MCText
INVARIANTS SurplusPacket
CHECK_DEADLOCK FALSE
