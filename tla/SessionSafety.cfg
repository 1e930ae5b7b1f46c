SPECIFICATION Spec
CONSTANTS
  FileSize  = 3
  Payload   = 2
  EdgeBytes = {0}
  SizeFirst = TRUE
  PastEof   <- MCPastEof
  Bytes     <- MCBytes
  Text      <- MCText
INVARIANTS ServerWholeFile TurnOnlyWithFile
PROPERTIES EchoIsFileTransfer LostAcksAreFatal
CHECK_DEADLOCK FALSE
