------------------------------ MODULE MCMyNode ------------------------------
(* MyNode with two nodes.                                                  *)
EXTENDS MyNode, TLC

CONSTANTS a, b

Pair      == {a, b}
PairDest  == [n \in Pair |-> IF n = a THEN <<b>> ELSE <<a>>]
TwoEach   == [n \in Pair |-> 3]
OneEach   == [n \in Pair |-> 1]
Swap      == Permutations(Pair)

(* Of the losses only those of final acks, and of packets 0 once both NACK *)
(* threads are silent: a packet that is never taken is as good as lost,    *)
(* and only the last two properties look at the wire.                      *)
FewLosses ==
  LET lost == wire \ wire' IN
  \/ \A m \in lost : m.seqno = FinalAck
  \/ /\ \A m \in lost : m.seqno = 0
     /\ \A n \in Nodes : nack[n] = "wait" /\ flag[n]
=============================================================================
