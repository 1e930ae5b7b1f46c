SPECIFICATION Spec
CONSTANTS
  FileSize = 4
  Payload   = 2
  EdgeBytes = {0}
  SizeFirst = FALSE
  PastEof   <- MCPastEof
  Bytes     <- MCBytes
  Text      <- MCText
INVARIANTS TextrefTrue
CHECK_DEADLOCK FALSE
ACTION_CONSTRAINTS NoLoss
