SPECIFICATION FairSpec
CONSTANTS
  FileSize  = 1
  Payload   = 2
  EdgeBytes = {0}
  SizeFirst = TRUE
  PastEof   <- MCPastEof
  Bytes     <- MCBytes
  Text      <- MCText
PROPERTIES SessionEndsUnlessAcksLost
CHECK_DEADLOCK FALSE
