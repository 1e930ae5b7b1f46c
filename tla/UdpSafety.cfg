SPECIFICATION FairSpec
CONSTANTS
  FileSize  = 5
  Payload   = 2
  EdgeBytes = {0, 1}
  PastEof   <- MCPastEof
  Bytes     <- MCBytes
  Text      <- MCText
INVARIANTS CountMatchesFile WholeFile ReleasedOnlyWhenDelivered SenderStaysInFile
PROPERTIES EdgeByteStopsTransfer RefinesFileTransfer TransferEnds SenderEndsUnlessAcksLost
CHECK_DEADLOCK FALSE
