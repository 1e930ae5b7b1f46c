SPECIFICATION Spec
CONSTANTS
  a = a
  b = b
  Nodes    <- Pair
  Dest     <- PairDest
  DataSize <- TwoEach
  Payload  = 2
SYMMETRY Swap
ACTION_CONSTRAINTS FewLosses
INVARIANTS FinishMeansStored MarksMatchFile
PROPERTIES DoneWithFlagIsFatal LostFinalAcksAreFatal SilenceIsFatal
CHECK_DEADLOCK FALSE
