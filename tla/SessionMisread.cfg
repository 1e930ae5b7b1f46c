SPECIFICATION Spec
CONSTANTS
  FileSize  = 3
  Payload   = 2
  EdgeBytes = {0}
  SizeFirst = FALSE
  PastEof   <- MCPastEof
  Bytes     <- MCBytes
  Text      <- MCText
INVARIANTS ServerWholeFile
CHECK_DEADLOCK FALSE
