SPECIFICATION Spec
CONSTANTS
  root = root
  mid = mid
  leaf = leaf
  Root = root
  Slaves = {mid, leaf}
  Trees <- MCTrees
  NO_OF_SYNC = 1
  MaxRound = 3
  InFlight = 1
INVARIANTS NtpTypeOK SampleFresh EchoNeverCounted EndsInOrder OnlyIntermediateAborts
PROPERTIES LostReplyIsFatal OvershootIsFatal
CHECK_DEADLOCK FALSE
