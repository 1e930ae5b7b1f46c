------------------------------- MODULE MyNode -------------------------------
(***************************************************************************)
(* The peers of mynode.c: every node sends its file to one or two other    *)
(* nodes over raw ethernet and receives theirs.  In each node main sends   *)
(* every packet once and then starts the NACK thread; the receive thread   *)
(* stores data, answers NACKs, and ends when it believes all is done.  The *)
(* two threads share the list of known peers and a flag that silences the  *)
(* NACK thread while somebody else asks for retransmissions.               *)
(*                                                                         *)
(* The wire holds the packets that can still arrive, in any order and any  *)
(* number of times (sendACKS alone sends 20 copies), until Lose takes the  *)
(* last copy away.                                                         *)
(***************************************************************************)
EXTENDS Integers, Sequences, FiniteSets

CONSTANTS Nodes,
          Dest,      \* Dest[n] is the sequence of the nodes n sends to
          DataSize,  \* DataSize[n] is the size of the file of n
          Payload    \* PAYLOAD

ASSUME NodesAssumption ==
  /\ "nobody" \notin Nodes
  /\ DataSize \in [Nodes -> Nat \ {0}]
  /\ Payload \in Nat \ {0}
  /\ \A n \in Nodes : /\ Dest[n] \in Seq(Nodes)
                       /\ Len(Dest[n]) \in 1..2
                       /\ \A k \in DOMAIN Dest[n] : Dest[n][k] \in Nodes \ {n}

VARIABLES
  seq,          \* main: the next packet of the first pass
  recv,         \* the receive thread: at the top of its loop, receiving, done
  track,        \* the known peers, the latest first (the list at track_head)
  retras,       \* the packets marked as arrived, for every peer
  recievedComplete, finishRestramit,
  flag,
  myfile,       \* the file "myfile", opened anew for every peer
  nack,         \* the NACK thread
  current,      \*   the peer whose packets it looks at
  requestIndex,
  iteratingptr,
  wire

vars == <<seq, recv, track, retras, recievedComplete, finishRestramit, flag,
          myfile, nack, current, requestIndex, iteratingptr, wire>>
trackVars == <<track, retras, recievedComplete, finishRestramit, myfile>>
nackVars  == <<nack, current, requestIndex, iteratingptr>>

-----------------------------------------------------------------------------
(* Packets.                                                                *)

num_of_packets(n) ==
  DataSize[n] \div Payload + (IF DataSize[n] % Payload # 0 THEN 1 ELSE 0)

Pkts(n) == 0..(num_of_packets(n) - 1)

(* How much of the file a packet carries.                                  *)
calc_packet_size(n, seqnum) ==
  IF DataSize[n] % Payload # 0 /\ seqnum = DataSize[n] \div Payload
  THEN DataSize[n] % Payload
  ELSE Payload

Chunk(n, i) == [from |-> n, seqno |-> i, len |-> calc_packet_size(n, i)]

Data(n, d, i) == [kind |-> "data", src |-> n, dest |-> d, seqno |-> i,
                  chunk |-> Chunk(n, i)]
Nack(n, d, i) == [kind |-> "nack", src |-> n, dest |-> d, seqno |-> i]
FinalAck == -1

Peers(n) == {Dest[n][k] : k \in DOMAIN Dest[n]}
Hole     == [from |-> "nobody"]
Nobody   == "nobody"
NoPackets == [p \in Nodes |-> {}]

SendACKS(n) == {Nack(n, d, FinalAck) : d \in Peers(n)}

-----------------------------------------------------------------------------
(* The list of peers.                                                      *)

Known(n) == {track[n][k] : k \in DOMAIN track[n]}

if_all_data_recvd(n) ==
  track[n] # <<>> /\ \A p \in Known(n) : recievedComplete[n][p]

if_all_retras_done(n) ==
  track[n] # <<>> /\ \A p \in Known(n) : finishRestramit[n][p]

EitherDone(n) == if_all_data_recvd(n) \/ if_all_retras_done(n)   \* mutant

alldone(n) == if_all_data_recvd(n) /\ if_all_retras_done(n)

(* add_node puts a new peer in front and opens "myfile" for it: the file   *)
(* is empty again.                                                         *)
TrackWith(n, p) == IF p \in Known(n) THEN track[n] ELSE <<p>> \o track[n]
ReopenedFile(n, p) == [i \in Pkts(n) |-> Hole]                \* mutant
FileWith(n, p)  == IF p \in Known(n) THEN myfile[n] ELSE [i \in Pkts(n) |-> Hole]

TrackHead(n) == IF track[n] = <<>> THEN Nobody ELSE track[n][1]

(* The peer after p in the list, from the end back to the head.            *)
Successor(n, p) ==
  LET k == CHOOSE k \in DOMAIN track[n] : track[n][k] = p
  IN  IF k < Len(track[n]) THEN track[n][k + 1] ELSE track[n][1]

-----------------------------------------------------------------------------
(* main                                                                    *)

SendNext(n) ==
  /\ seq[n] \in Pkts(n)
  /\ wire' = wire \cup {Data(n, d, seq[n]) : d \in Peers(n)}
  /\ seq' = [seq EXCEPT ![n] = @ + 1]
  /\ UNCHANGED <<recv, trackVars, flag, nackVars>>

StartNACKThread(n) ==
  /\ seq[n] \notin Pkts(n)
  /\ nack[n] = "none"
  /\ nack' = [nack EXCEPT ![n] = "test"]
  /\ current' = [current EXCEPT ![n] = TrackHead(n)]
  /\ UNCHANGED <<seq, recv, trackVars, flag, requestIndex, iteratingptr, wire>>

-----------------------------------------------------------------------------
(* recvThread                                                              *)

(* The top of the loop: end, or let the NACK thread go on.                 *)
AllDone(n) ==
  /\ recv[n] = "top"
  /\ alldone(n)
  /\ wire' = wire \cup SendACKS(n)
  /\ recv' = [recv EXCEPT ![n] = "done"]
  /\ UNCHANGED <<seq, trackVars, flag, nackVars>>

GoOn(n) ==
  /\ recv[n] = "top"
  /\ ~alldone(n)
  /\ flag' = [flag EXCEPT ![n] = @ /\ ~if_all_retras_done(n)]
  /\ recv' = [recv EXCEPT ![n] = "recv"]
  /\ UNCHANGED <<seq, trackVars, nackVars, wire>>

(* validate_it: only what is addressed to this node counts.                *)
Takes(n, m, kind) ==
  /\ recv[n] = "recv"
  /\ m.dest = n
  /\ m.kind = kind
  /\ recv' = [recv EXCEPT ![n] = "top"]

(* ifPacketArrived: 1 for a packet in range that was not marked yet.       *)
FirstArrival(n, p, i) == i \in Pkts(n) \ retras[n][p]

AllButOne(n, p)   == Cardinality(retras[n][p]) >= num_of_packets(n) - 1  \* mutant
MoreThanAll(n, p) == Cardinality(retras[n][p]) > num_of_packets(n)       \* mutant
Complete(n, p)    == Cardinality(retras[n][p]) = num_of_packets(n)

ReceiveData(n, m) ==
  LET p == m.src
      i == m.seqno
  IN
  /\ Takes(n, m, "data")
  /\ track' = [track EXCEPT ![n] = TrackWith(n, p)]
  /\ IF FirstArrival(n, p, i)
     THEN /\ retras' = [retras EXCEPT ![n][p] = @ \cup {i}]
          /\ myfile' = [myfile EXCEPT ![n] = [FileWith(n, p) EXCEPT ![i] = m.chunk]]
     ELSE /\ myfile' = [myfile EXCEPT ![n] = FileWith(n, p)]
          /\ UNCHANGED retras
  /\ recievedComplete' =
       [recievedComplete EXCEPT ![n][p] =
          @ \/ Complete(n, p)']
  /\ wire' = wire \cup (IF if_all_data_recvd(n)' THEN SendACKS(n) ELSE {})
  /\ UNCHANGED <<seq, finishRestramit, flag, nackVars>>

ReceiveFinalAck(n, m) ==
  /\ Takes(n, m, "nack")
  /\ m.seqno = FinalAck
  /\ flag' = [flag EXCEPT ![n] = TRUE]
  /\ track' = [track EXCEPT ![n] = TrackWith(n, m.src)]
  /\ myfile' = [myfile EXCEPT ![n] = FileWith(n, m.src)]
  /\ finishRestramit' = [finishRestramit EXCEPT ![n][m.src] = TRUE]
  /\ UNCHANGED <<seq, retras, recievedComplete, nackVars, wire>>

(* The retransmission goes to dest_node[0], whoever asked.                 *)
Answer(n, i) == {Data(n, Dest[n][1], j) : j \in {i} \cap Pkts(n)}

ReceiveNack(n, m) ==
  /\ Takes(n, m, "nack")
  /\ m.seqno # FinalAck
  /\ flag' = [flag EXCEPT ![n] = TRUE]
  /\ wire' = wire \cup Answer(n, m.seqno)
  /\ UNCHANGED <<seq, trackVars, nackVars>>

-----------------------------------------------------------------------------
(* NACKThread                                                              *)

NACKTest(n) ==
  /\ nack[n] = "test"
  /\ nack' = [nack EXCEPT ![n] = IF if_all_data_recvd(n) THEN "exited" ELSE "wait"]
  /\ UNCHANGED <<seq, recv, trackVars, flag, current, requestIndex,
                 iteratingptr, wire>>

(* iterateArray: the next entry that is 0, from iteratingptr on; 0 if there *)
(* is none.                                                                *)
Missing(n) == {i \in Pkts(n) \ retras[n][current[n]] : i >= iteratingptr[n]}

Last(n) == num_of_packets(n) - 1

iterateArray(n, i) ==
  \/ /\ i \in Missing(n)
     /\ \A j \in Missing(n) : i <= j
     /\ iteratingptr' = [iteratingptr EXCEPT ![n] = IF i = Last(n) THEN 0 ELSE i + 1]
  \/ /\ i = 0
     /\ Missing(n) = {}
     /\ iteratingptr' = [iteratingptr EXCEPT ![n] = 0]

SpinsForData(n) == flag[n] /\ ~if_all_data_recvd(n)              \* mutant

Spins(n) == flag[n]

(* while (flag); then the next request.  The thread goes to the next peer  *)
(* only after a request for the last packet.                               *)
NACKNext(n) ==
  /\ nack[n] = "wait"
  /\ ~Spins(n)
  /\ nack' = [nack EXCEPT ![n] = "send"]
  /\ \/ /\ current[n] = Nobody
        /\ requestIndex' = [requestIndex EXCEPT ![n] = 0]
        /\ current' = [current EXCEPT ![n] = TrackHead(n)]
        /\ UNCHANGED iteratingptr
     \/ /\ current[n] # Nobody
        /\ \E i \in Pkts(n) :
             /\ iterateArray(n, i)
             /\ requestIndex' = [requestIndex EXCEPT ![n] = i]
             /\ current' = [current EXCEPT ![n] =
                              IF i = Last(n) THEN Successor(n, @) ELSE @]
  /\ UNCHANGED <<seq, recv, trackVars, flag, wire>>

NACKSend(n) ==
  /\ nack[n] = "send"
  /\ wire' = wire \cup {Nack(n, d, requestIndex[n]) : d \in Peers(n)}
  /\ nack' = [nack EXCEPT ![n] = "test"]
  /\ UNCHANGED <<seq, recv, trackVars, flag, current, requestIndex, iteratingptr>>

-----------------------------------------------------------------------------
Lose(m) ==
  /\ m \in wire
  /\ wire' = wire \ {m}
  /\ UNCHANGED <<seq, recv, trackVars, flag, nackVars>>

Init ==
  /\ seq = [n \in Nodes |-> 0]
  /\ recv = [n \in Nodes |-> "top"]
  /\ track = [n \in Nodes |-> <<>>]
  /\ retras = [n \in Nodes |-> NoPackets]
  /\ recievedComplete = [n \in Nodes |-> [p \in Nodes |-> FALSE]]
  /\ finishRestramit = [n \in Nodes |-> [p \in Nodes |-> FALSE]]
  /\ flag = [n \in Nodes |-> FALSE]
  /\ myfile = [n \in Nodes |-> [i \in Pkts(n) |-> Hole]]
  /\ nack = [n \in Nodes |-> "none"]
  /\ current = [n \in Nodes |-> Nobody]
  /\ requestIndex = [n \in Nodes |-> 0]
  /\ iteratingptr = [n \in Nodes |-> 0]
  /\ wire = {}

RecvStep(n) ==
  \/ AllDone(n)
  \/ GoOn(n)
  \/ \E m \in wire : \/ ReceiveData(n, m)
                     \/ ReceiveFinalAck(n, m)
                     \/ ReceiveNack(n, m)

NACKStep(n) == NACKTest(n) \/ NACKNext(n) \/ NACKSend(n)

NodeStep(n) ==
  \/ SendNext(n)
  \/ StartNACKThread(n)
  \/ RecvStep(n)
  \/ NACKStep(n)

Next == (\E n \in Nodes : NodeStep(n)) \/ (\E m \in wire : Lose(m))

Spec == Init /\ [][Next]_vars

(* Every thread goes on while it can, and reads flag anew in its loop; what *)
(* is sent again and again reaches a node that still needs it once.        *)
FirstData(n, p, i) ==
  FirstArrival(n, p, i) /\ \E m \in wire : m.src = p /\ m.seqno = i /\ ReceiveData(n, m)
Nacked(n, p, i) == \E m \in wire : m.src = p /\ m.seqno = i /\ ReceiveNack(n, m)
FirstFinalAck(n, p) ==
  ~finishRestramit[n][p] /\ \E m \in wire : m.src = p /\ ReceiveFinalAck(n, m)

Fairness ==
  \A n \in Nodes :
    /\ WF_vars(SendNext(n))
    /\ WF_vars(StartNACKThread(n))
    /\ WF_vars(AllDone(n))
    /\ WF_vars(GoOn(n))
    /\ \A p \in Nodes \ {n} :
         /\ \A i \in Pkts(n) : SF_vars(FirstData(n, p, i)) /\ SF_vars(Nacked(n, p, i))
         /\ SF_vars(FirstFinalAck(n, p))
    /\ WF_vars(NACKTest(n))
    /\ SF_vars(NACKNext(n))
    /\ WF_vars(NACKSend(n))

(* The same on a wire that loses nothing.                                  *)
LosslessSpec == Init /\ [][\E n \in Nodes : NodeStep(n)]_vars /\ Fairness

-----------------------------------------------------------------------------
(* Properties.                                                             *)

Chunks == UNION {{Chunk(n, i) : i \in Pkts(n)} : n \in Nodes}

(* Every variable has its type.                                            *)
TypeOK ==
  /\ seq \in [Nodes -> Nat]
  /\ recv \in [Nodes -> {"top", "recv", "done"}]
  /\ \A n \in Nodes :
       /\ Known(n) \subseteq Nodes \ {n}
       /\ retras[n] \in [Nodes -> SUBSET Pkts(n)]
       /\ myfile[n] \in [Pkts(n) -> Chunks \cup {Hole}]
       /\ current[n] \in Known(n) \cup {Nobody}
       /\ requestIndex[n] \in Pkts(n)
       /\ iteratingptr[n] \in Pkts(n)
  /\ recievedComplete \in [Nodes -> [Nodes -> BOOLEAN]]
  /\ finishRestramit \in [Nodes -> [Nodes -> BOOLEAN]]
  /\ flag \in [Nodes -> BOOLEAN]
  /\ nack \in [Nodes -> {"none", "test", "wait", "send", "exited"}]

(* All of p's file is in the file of n.                                    *)
Has(n, p) == \A i \in Pkts(p) : i \in Pkts(n) /\ myfile[n][i] = Chunk(p, i)

(* seqnum = -1 is sent "when all packets are recived" (mynode.c:385): a    *)
(* node that has been told so by p has its whole file stored at p.         *)
FinishMeansStored ==
  \A n \in Nodes : \A p \in Nodes \ {n} : finishRestramit[n][p] => Has(p, n)

(* Between two nodes: what is marked as arrived is what is in the file,    *)
(* and the only NACK thread that has ended has nothing left to ask for.    *)
MarksMatchFile ==
  \A n \in Nodes : \A p \in Nodes \ {n} :
    /\ \A i \in Pkts(n) :
         IF i \in retras[n][p] THEN myfile[n][i] = Chunk(p, i) ELSE myfile[n][i] = Hole
    /\ nack[n] = "exited" => Has(n, p)

(* On a wire without loss every receive thread comes to its end.           *)
AllReceiveThreadsEnd == <>(\A n \in Nodes : recv[n] = "done")

(* The receive thread breaks out of its loop before it could reset flag    *)
(* (mynode.c:262-272): a NACK thread that waits then is left in its loop   *)
(* (mynode.c:404), and main, which joins it, does not "terminate the       *)
(* program" (mynode.c:172).                                                *)
LeftSpinning(n) == recv[n] = "done" /\ nack[n] = "wait" /\ flag[n]
DoneWithFlagIsFatal == [][\A n \in Nodes : LeftSpinning(n) => LeftSpinning(n)']_vars

(* A node that has ended sends no final ack again (mynode.c:265).  When    *)
(* the ones it sent are lost its peer never ends, and if a NACK has set    *)
(* the peer's flag its NACK thread never asks again (mynode.c:317, 404).   *)
Abandoned(n) ==
  /\ recv[n] # "done"
  /\ \E p \in Known(n) :
    /\ recv[p] = "done"
    /\ ~finishRestramit[n][p]
    /\ Nack(p, n, FinalAck) \notin wire
LostFinalAcksAreFatal ==
  [][\A n \in Nodes :
       Abandoned(n) => Abandoned(n)' /\ (flag[n] => flag'[n])]_vars

(* A NACK silences the NACK thread of the node it reaches until that node  *)
(* has been told that its own packets have all arrived (mynode.c:267, 317, *)
(* 404).  Two nodes that each miss a packet of the other, with no request  *)
(* for it and no copy of it under way, have silenced each other: neither   *)
(* asks again, and neither can ever be told.                               *)
Silenced(n, p, i) ==
  /\ nack[n] = "wait" /\ flag[n]
  /\ i < seq[p] /\ i \notin retras[n][p]
  /\ Nack(n, p, i) \notin wire
  /\ Data(p, n, i) \notin wire
Deadlocked(n, p, i, j) == Silenced(n, p, i) /\ Silenced(p, n, j)
SilenceIsFatal ==
  [][\A n \in Nodes : \A p \in Nodes \ {n} : \A i \in Pkts(n), j \in Pkts(p) :
       Deadlocked(n, p, i, j) => Deadlocked(n, p, i, j)']_vars
=============================================================================
