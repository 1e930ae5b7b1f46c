---------------------------- MODULE MyNodeProofs ----------------------------
(***************************************************************************)
(* Proofs about MyNode.  Types, what a node that has ended leaves behind,  *)
(* what it can have, and who is not served, for any nodes and files; what  *)
(* is acknowledged and what is stored, for two nodes.                      *)
(***************************************************************************)
EXTENDS MyNode, FiniteSetTheorems, TLAPS

-----------------------------------------------------------------------------
(* Numbers of packets.                                                     *)

LEMMA DivMod ==
  ASSUME NEW n \in Nat, NEW d \in Nat \ {0}
  PROVE  /\ n \div d \in Nat
         /\ n % d \in 0..(d - 1)
         /\ n = d * (n \div d) + (n % d)
  OBVIOUS

LEMMA NumOfPackets == ASSUME NEW n \in Nodes PROVE num_of_packets(n) \in Nat \ {0}
<1>1. DataSize[n] \in Nat \ {0} /\ Payload \in Nat \ {0}
  BY NodesAssumption
<1>2. /\ DataSize[n] \div Payload \in Nat
      /\ DataSize[n] % Payload \in 0..(Payload - 1)
      /\ DataSize[n] = Payload * (DataSize[n] \div Payload) + (DataSize[n] % Payload)
  BY <1>1, DivMod
<1>3. DataSize[n] \div Payload = 0 => DataSize[n] % Payload # 0
  <2> DEFINE q == DataSize[n] \div Payload
             r == DataSize[n] % Payload
  <2>1. q \in Nat /\ DataSize[n] = Payload * q + r
    BY <1>2
  <2>2. r \in Int
    BY <1>2
  <2> HIDE DEF q, r
  <2>3. q = 0 => Payload * q = 0
    BY <1>1
  <2>4. q = 0 => r # 0
    BY <1>1, <2>1, <2>2, <2>3
  <2> QED
    BY <2>4 DEF q, r
<1> QED
  BY <1>2, <1>3 DEF num_of_packets

LEMMA PktsType ==
  ASSUME NEW n \in Nodes
  PROVE  /\ Pkts(n) \subseteq Nat
         /\ 0 \in Pkts(n)
         /\ FinalAck \notin Pkts(n)
         /\ Last(n) \in Pkts(n)
         /\ IsFiniteSet(Pkts(n))
         /\ Cardinality(Pkts(n)) = num_of_packets(n)
         /\ \A i \in Pkts(n) : i # Last(n) => i + 1 \in Pkts(n)
<1>1. num_of_packets(n) \in Nat \ {0}
  BY NumOfPackets
<1>2. /\ IsFiniteSet(0..(num_of_packets(n) - 1))
      /\ Cardinality(0..(num_of_packets(n) - 1)) = num_of_packets(n)
  <2> HIDE DEF num_of_packets
  <2>1. 0 \in Int /\ num_of_packets(n) - 1 \in Int
    BY <1>1
  <2>2. /\ IsFiniteSet(0..(num_of_packets(n) - 1))
        /\ Cardinality(0..(num_of_packets(n) - 1))
             = IF 0 > num_of_packets(n) - 1 THEN 0 ELSE num_of_packets(n) - 1 - 0 + 1
    BY <2>1, FS_Interval
  <2> QED
    BY <1>1, <2>2
<1> QED
  BY <1>1, <1>2 DEF Pkts, Last, FinalAck

LEMMA PeersType ==
  ASSUME NEW n \in Nodes
  PROVE  Peers(n) \subseteq Nodes \ {n} /\ Dest[n][1] \in Peers(n)
<1>1. Dest[n] \in Seq(Nodes) /\ Len(Dest[n]) \in 1..2
  BY NodesAssumption
<1>2. 1 \in DOMAIN Dest[n]
  BY <1>1
<1> QED
  BY <1>2, NodesAssumption DEF Peers

-----------------------------------------------------------------------------
(* Types.                                                                  *)

(* What is on the wire was sent by a node to another one.                  *)
Sent(m) ==
  \E n \in Nodes, d \in Nodes : n # d /\
    \/ \E i \in Pkts(n) : m = Data(n, d, i)
    \/ \E i \in Pkts(n) \cup {FinalAck} : m = Nack(n, d, i)

WireTypes == \A m \in wire : Sent(m)

ListTypes ==
  /\ track \in [Nodes -> Seq(Nodes)]
  /\ \A n \in Nodes : Known(n) \subseteq Nodes \ {n}

FileTypes ==
  /\ retras \in [Nodes -> [Nodes -> SUBSET Int]]
  /\ myfile = [n \in Nodes |-> myfile[n]]
  /\ \A n \in Nodes :
       /\ \A p \in Nodes : retras[n][p] \subseteq Pkts(n)
       /\ myfile[n] \in [Pkts(n) -> Chunks \cup {Hole}]
  /\ recievedComplete \in [Nodes -> [Nodes -> BOOLEAN]]
  /\ finishRestramit \in [Nodes -> [Nodes -> BOOLEAN]]

NackTypes ==
  /\ nack \in [Nodes -> {"none", "test", "wait", "send", "exited"}]
  /\ current \in [Nodes -> Nodes \cup {Nobody}]
  /\ requestIndex \in [Nodes -> Int]
  /\ iteratingptr \in [Nodes -> Int]
  /\ \A n \in Nodes :
       /\ current[n] \in Known(n) \cup {Nobody}
       /\ requestIndex[n] \in Pkts(n)
       /\ iteratingptr[n] \in Pkts(n)

MainTypes ==
  /\ seq \in [Nodes -> Nat]
  /\ recv \in [Nodes -> {"top", "recv", "done"}]
  /\ flag \in [Nodes -> BOOLEAN]

NodeTypes == MainTypes /\ ListTypes /\ FileTypes /\ NackTypes /\ WireTypes

LEMMA InitNodeTypes == Init => NodeTypes
<1> SUFFICES ASSUME Init PROVE NodeTypes
  OBVIOUS
<1>1. \A n \in Nodes : 0 \in Pkts(n)
  BY PktsType
<1>2. \A n \in Nodes : Known(n) = {}
  BY DEF Init, Known
<1>3. WireTypes
  BY DEF Init, WireTypes
<1>4. MainTypes /\ ListTypes
  BY <1>2 DEF Init, MainTypes, ListTypes
<1>5. NackTypes
  BY <1>1, <1>2 DEF Init, NackTypes
<1>6. FileTypes
  BY DEF Init, FileTypes, NoPackets
<1> QED
  BY <1>3, <1>4, <1>5, <1>6 DEF NodeTypes

LEMMA TrackWithType ==
  ASSUME NodeTypes, NEW n \in Nodes, NEW p \in Nodes \ {n}
  PROVE  /\ TrackWith(n, p) \in Seq(Nodes)
         /\ {TrackWith(n, p)[k] : k \in DOMAIN TrackWith(n, p)} = Known(n) \cup {p}
<1>1. track[n] \in Seq(Nodes)
  BY DEF NodeTypes, ListTypes
<1>2. CASE p \in Known(n)
  BY <1>1, <1>2 DEF TrackWith, Known
<1>3. CASE p \notin Known(n)
  <2> DEFINE t == <<p>> \o track[n]
  <2>1. TrackWith(n, p) = t
    BY <1>3 DEF TrackWith
  <2>2. /\ t \in Seq(Nodes)
        /\ DOMAIN t = 1..(Len(track[n]) + 1)
        /\ \A k \in DOMAIN track[n] : k + 1 \in DOMAIN t /\ t[k + 1] = track[n][k]
        /\ \A k \in DOMAIN t : t[k] = p \/ \E j \in DOMAIN track[n] : t[k] = track[n][j]
    <3>1. Len(t) = Len(track[n]) + 1 /\ DOMAIN track[n] = 1..Len(track[n])
      BY <1>1
    <3>2. t \in Seq(Nodes) /\ DOMAIN t = 1..(Len(track[n]) + 1)
      BY <1>1, <3>1
    <3>3. ASSUME NEW k \in DOMAIN track[n]
          PROVE  k + 1 \in DOMAIN t /\ t[k + 1] = track[n][k]
      BY <1>1, <3>1, <3>2
    <3>4. ASSUME NEW k \in DOMAIN t, k # 1
          PROVE  k - 1 \in DOMAIN track[n] /\ t[k] = track[n][k - 1]
      BY <1>1, <3>1, <3>2, <3>4
    <3>5. t[1] = p
      BY <1>1
    <3> HIDE DEF t
    <3> QED
      BY <3>2, <3>3, <3>4, <3>5
  <2>3. {t[k] : k \in DOMAIN t} \subseteq Known(n) \cup {p}
    BY <2>2 DEF Known
  <2>4. p \in {t[k] : k \in DOMAIN t}
    <3>1. 1 \in DOMAIN t /\ t[1] = p
      BY <1>1
    <3> QED
      BY <3>1
  <2>5. Known(n) \subseteq {t[k] : k \in DOMAIN t}
    <3> SUFFICES ASSUME NEW k \in DOMAIN track[n]
                 PROVE  track[n][k] \in {t[j] : j \in DOMAIN t}
      BY DEF Known
    <3>1. k + 1 \in DOMAIN t /\ t[k + 1] = track[n][k]
      BY <2>2
    <3> HIDE DEF t
    <3> QED
      BY <3>1
  <2> QED
    BY <2>1, <2>2, <2>3, <2>4, <2>5
<1> QED
  BY <1>2, <1>3

LEMMA SuccessorType ==
  ASSUME NodeTypes, NEW n \in Nodes, NEW p \in Known(n)
  PROVE  Successor(n, p) \in Known(n)
<1>1. track[n] \in Seq(Nodes)
  BY DEF NodeTypes, ListTypes
<1> DEFINE k == CHOOSE k \in DOMAIN track[n] : track[n][k] = p
<1>2. k \in DOMAIN track[n]
  BY DEF Known
<1>3. 1 \in DOMAIN track[n] /\ (k < Len(track[n]) => k + 1 \in DOMAIN track[n])
  BY <1>1, <1>2
<1> HIDE DEF k
<1> QED
  BY <1>2, <1>3 DEF Successor, Known, k

LEMMA TrackHeadType ==
  ASSUME NodeTypes, NEW n \in Nodes
  PROVE  TrackHead(n) \in Known(n) \cup {Nobody}
<1>1. track[n] \in Seq(Nodes)
  BY DEF NodeTypes, ListTypes
<1>2. track[n] # <<>> => 1 \in DOMAIN track[n]
  BY <1>1
<1> QED
  BY <1>2 DEF TrackHead, Known

-----------------------------------------------------------------------------
(* Every step keeps the types.                                             *)

LEMMA KnownSame ==
  ASSUME track' = track
  PROVE  \A n \in Nodes : Known(n)' = Known(n)
  BY DEF Known

LEMMA ListSame == ASSUME ListTypes, track' = track PROVE ListTypes'
  BY DEF ListTypes, Known

LEMMA FileSame ==
  ASSUME FileTypes, UNCHANGED <<retras, recievedComplete, finishRestramit, myfile>>
  PROVE  FileTypes'
  BY DEF FileTypes

LEMMA NackSame ==
  ASSUME NackTypes, UNCHANGED <<track, nackVars>>
  PROVE  NackTypes'
  BY DEF NackTypes, nackVars, Known

LEMMA AcksSent ==
  ASSUME NEW n \in Nodes, NEW m \in SendACKS(n)
  PROVE  Sent(m)
  BY PeersType DEF SendACKS, Sent

LEMMA MainStepTypes ==
  ASSUME NodeTypes, NEW n \in Nodes, SendNext(n) \/ StartNACKThread(n)
  PROVE  NodeTypes'
<1> USE DEF NodeTypes
<1>1. CASE SendNext(n)
  <2>1. MainTypes'
    BY <1>1 DEF SendNext, MainTypes
  <2>2. ListTypes' /\ FileTypes' /\ NackTypes'
    BY <1>1, ListSame, FileSame, NackSame DEF SendNext, trackVars
  <2>3. \A d \in Peers(n) : Sent(Data(n, d, seq[n]))
    BY <1>1, PeersType DEF SendNext, Sent
  <2>4. WireTypes'
    BY <1>1, <2>3 DEF SendNext, WireTypes
  <2> QED
    BY <2>1, <2>2, <2>4
<1>2. CASE StartNACKThread(n)
  <2>1. MainTypes'
    BY <1>2 DEF StartNACKThread, MainTypes
  <2>2. ListTypes' /\ FileTypes' /\ WireTypes'
    BY <1>2, ListSame, FileSame DEF StartNACKThread, trackVars, WireTypes
  <2>3. TrackHead(n) \in Known(n) \cup {Nobody} /\ Known(n) \subseteq Nodes
    BY TrackHeadType DEF ListTypes
  <2>4. NackTypes'
    BY <1>2, <2>3, KnownSame DEF StartNACKThread, trackVars, NackTypes
  <2> QED
    BY <2>1, <2>2, <2>4
<1> QED
  BY <1>1, <1>2

LEMMA TopTypes ==
  ASSUME NodeTypes, NEW n \in Nodes, AllDone(n) \/ GoOn(n)
  PROVE  NodeTypes'
<1> USE DEF NodeTypes
<1>1. MainTypes'
  BY DEF AllDone, GoOn, MainTypes
<1>2. ListTypes' /\ FileTypes' /\ NackTypes'
  BY ListSame, FileSame, NackSame DEF AllDone, GoOn, trackVars
<1>3. WireTypes'
  BY AcksSent DEF AllDone, GoOn, WireTypes
<1> QED
  BY <1>1, <1>2, <1>3

LEMMA SentFromPeer ==
  ASSUME NodeTypes, NEW m \in wire
  PROVE  /\ m.src \in Nodes \ {m.dest}
         /\ m.dest \in Nodes
         /\ m.kind = "data" => m.seqno \in Pkts(m.src) /\ m = Data(m.src, m.dest, m.seqno)
         /\ m.kind = "nack" => /\ m.seqno \in Pkts(m.src) \cup {FinalAck}
                               /\ m = Nack(m.src, m.dest, m.seqno)
<1>1. PICK n \in Nodes, d \in Nodes : n # d /\
        \/ \E i \in Pkts(n) : m = Data(n, d, i)
        \/ \E i \in Pkts(n) \cup {FinalAck} : m = Nack(n, d, i)
  BY DEF NodeTypes, WireTypes, Sent
<1>2. CASE \E i \in Pkts(n) : m = Data(n, d, i)
  BY <1>1, <1>2 DEF Data
<1>3. CASE \E i \in Pkts(n) \cup {FinalAck} : m = Nack(n, d, i)
  BY <1>1, <1>3 DEF Nack
<1> QED
  BY <1>1, <1>2, <1>3

(* The list after a packet of p.                                           *)
LEMMA ListGrows ==
  ASSUME NodeTypes, NEW n \in Nodes, NEW p \in Nodes \ {n},
         track' = [track EXCEPT ![n] = TrackWith(n, p)]
  PROVE  /\ ListTypes'
         /\ Known(n)' = Known(n) \cup {p}
         /\ \A q \in Nodes : q # n => Known(q)' = Known(q)
<1>1. track \in [Nodes -> Seq(Nodes)] /\ TrackWith(n, p) \in Seq(Nodes)
  BY TrackWithType DEF NodeTypes, ListTypes
<1>2. track' \in [Nodes -> Seq(Nodes)] /\ track'[n] = TrackWith(n, p)
  BY <1>1
<1>3. Known(n)' = Known(n) \cup {p}
  <2>1. {TrackWith(n, p)[k] : k \in DOMAIN TrackWith(n, p)} = Known(n) \cup {p}
    BY TrackWithType
  <2>2. Known(n)' = {track'[n][k] : k \in DOMAIN track'[n]}
    BY DEF Known
  <2> QED
    BY <1>2, <2>1, <2>2
<1>4. \A q \in Nodes : q # n => Known(q)' = Known(q)
  BY <1>1 DEF Known
<1>5. \A q \in Nodes : Known(q)' \subseteq Nodes \ {q}
  BY <1>3, <1>4 DEF NodeTypes, ListTypes
<1> QED
  BY <1>2, <1>3, <1>4, <1>5 DEF ListTypes

LEMMA NackGrows ==
  ASSUME NodeTypes, NEW n \in Nodes, NEW p \in Nodes \ {n}, UNCHANGED nackVars,
         track' = [track EXCEPT ![n] = TrackWith(n, p)]
  PROVE  NackTypes'
<1>1. \A q \in Nodes : Known(q) \subseteq Known(q)'
  BY ListGrows
<1> QED
  BY <1>1 DEF NodeTypes, NackTypes, nackVars

LEMMA FileWithType ==
  ASSUME NodeTypes, NEW n \in Nodes, NEW p \in Nodes
  PROVE  FileWith(n, p) \in [Pkts(n) -> Chunks \cup {Hole}]
  BY DEF NodeTypes, FileTypes, FileWith

LEMMA ReceiveDataTypes ==
  ASSUME NodeTypes, NEW n \in Nodes, NEW m \in wire, ReceiveData(n, m)
  PROVE  NodeTypes'
<1> DEFINE p == m.src
           i == m.seqno
<1>1. /\ p \in Nodes \ {n} /\ m.dest = n /\ m.kind = "data"
      /\ i \in Pkts(p) /\ m.chunk = Chunk(p, i)
  BY SentFromPeer DEF ReceiveData, Takes, Data
<1>2. m.chunk \in Chunks
  BY <1>1 DEF Chunks
<1>3. /\ recv' = [recv EXCEPT ![n] = "top"]
      /\ track' = [track EXCEPT ![n] = TrackWith(n, p)]
      /\ recievedComplete' = [recievedComplete EXCEPT ![n][p] = @ \/ Complete(n, p)']
      /\ wire' = wire \cup (IF if_all_data_recvd(n)' THEN SendACKS(n) ELSE {})
      /\ UNCHANGED <<seq, finishRestramit, flag, nackVars>>
  BY DEF ReceiveData, Takes
<1>4. MainTypes'
  BY <1>3 DEF NodeTypes, MainTypes
<1>5. ListTypes'
  BY <1>1, <1>3, ListGrows
<1>6. NackTypes'
  BY <1>1, <1>3, NackGrows
<1>7. WireTypes'
  BY <1>3, AcksSent DEF NodeTypes, WireTypes
<1>8. /\ retras' \in [Nodes -> [Nodes -> SUBSET Int]]
      /\ myfile' = [q \in Nodes |-> myfile'[q]]
      /\ \A q \in Nodes :
           /\ \A r \in Nodes : retras'[q][r] \subseteq Pkts(q)
           /\ myfile'[q] \in [Pkts(q) -> Chunks \cup {Hole}]
  <2>1. /\ FileWith(n, p) \in [Pkts(n) -> Chunks \cup {Hole}]
        /\ Pkts(n) \subseteq Int
    BY <1>1, FileWithType, PktsType
  <2>2. CASE FirstArrival(n, p, i)
    <3>1. /\ i \in Pkts(n)
          /\ retras' = [retras EXCEPT ![n][p] = @ \cup {i}]
          /\ myfile' = [myfile EXCEPT ![n] = [FileWith(n, p) EXCEPT ![i] = m.chunk]]
      BY <2>2 DEF ReceiveData, FirstArrival
    <3>2. [FileWith(n, p) EXCEPT ![i] = m.chunk] \in [Pkts(n) -> Chunks \cup {Hole}]
      BY <1>2, <2>1, <3>1
    <3>3. /\ retras' \in [Nodes -> [Nodes -> SUBSET Int]]
          /\ \A q \in Nodes : \A r \in Nodes : retras'[q][r] \subseteq Pkts(q)
      BY <1>1, <2>1, <3>1 DEF NodeTypes, FileTypes
    <3>4. /\ myfile' = [q \in Nodes |-> myfile'[q]]
          /\ \A q \in Nodes : myfile'[q] \in [Pkts(q) -> Chunks \cup {Hole}]
      <4> DEFINE f == [FileWith(n, p) EXCEPT ![i] = m.chunk]
      <4>1. f \in [Pkts(n) -> Chunks \cup {Hole}] /\ myfile' = [myfile EXCEPT ![n] = f]
        BY <3>1, <3>2
      <4> HIDE DEF f
      <4> QED
        BY <4>1 DEF NodeTypes, FileTypes
    <3> QED
      BY <3>3, <3>4
  <2>3. CASE ~FirstArrival(n, p, i)
    <3>1. /\ retras' = retras
          /\ myfile' = [myfile EXCEPT ![n] = FileWith(n, p)]
      BY <2>3 DEF ReceiveData
    <3> QED
      BY <2>1, <3>1 DEF NodeTypes, FileTypes
  <2> QED
    BY <2>2, <2>3
<1>9. recievedComplete' \in [Nodes -> [Nodes -> BOOLEAN]]
  <2>1. Complete(n, p)' \in BOOLEAN
    BY DEF Complete
  <2> DEFINE c == recievedComplete[n][p] \/ Complete(n, p)'
  <2>2. c \in BOOLEAN
    OBVIOUS
  <2>3. recievedComplete' = [recievedComplete EXCEPT ![n] = [@ EXCEPT ![p] = c]]
    BY <1>3
  <2> HIDE DEF c
  <2> QED
    BY <1>1, <2>2, <2>3 DEF NodeTypes, FileTypes
<1>10. FileTypes'
  BY <1>3, <1>8, <1>9 DEF NodeTypes, FileTypes
<1> QED
  BY <1>4, <1>5, <1>6, <1>7, <1>10 DEF NodeTypes

LEMMA ReceiveFinalAckTypes ==
  ASSUME NodeTypes, NEW n \in Nodes, NEW m \in wire, ReceiveFinalAck(n, m)
  PROVE  NodeTypes'
<1>1. m.src \in Nodes \ {n}
  BY SentFromPeer DEF ReceiveFinalAck, Takes
<1>2. MainTypes'
  BY DEF NodeTypes, MainTypes, ReceiveFinalAck, Takes
<1>3. ListTypes' /\ NackTypes'
  BY <1>1, ListGrows, NackGrows DEF ReceiveFinalAck
<1>4. FileTypes'
  <2>1. FileWith(n, m.src) \in [Pkts(n) -> Chunks \cup {Hole}]
    BY <1>1, FileWithType
  <2>2. /\ myfile' = [myfile EXCEPT ![n] = FileWith(n, m.src)]
        /\ finishRestramit' = [finishRestramit EXCEPT ![n][m.src] = TRUE]
        /\ UNCHANGED <<retras, recievedComplete>>
    BY DEF ReceiveFinalAck
  <2>3. finishRestramit' \in [Nodes -> [Nodes -> BOOLEAN]]
    BY <2>2 DEF NodeTypes, FileTypes
  <2>4. /\ myfile' = [q \in Nodes |-> myfile'[q]]
        /\ \A q \in Nodes : myfile'[q] \in [Pkts(q) -> Chunks \cup {Hole}]
    BY <2>1, <2>2 DEF NodeTypes, FileTypes
  <2> QED
    BY <2>2, <2>3, <2>4 DEF NodeTypes, FileTypes
<1>5. WireTypes'
  BY DEF NodeTypes, WireTypes, ReceiveFinalAck
<1> QED
  BY <1>2, <1>3, <1>4, <1>5 DEF NodeTypes

LEMMA AnswerSent ==
  ASSUME NEW n \in Nodes, NEW i, NEW m \in Answer(n, i)
  PROVE  Sent(m)
<1>1. Dest[n][1] \in Nodes \ {n}
  BY PeersType
<1>2. PICK j \in {i} \cap Pkts(n) : m = Data(n, Dest[n][1], j)
  BY DEF Answer
<1> QED
  BY <1>1, <1>2 DEF Sent

LEMMA ReceiveNackTypes ==
  ASSUME NodeTypes, NEW n \in Nodes, NEW m \in wire, ReceiveNack(n, m)
  PROVE  NodeTypes'
<1> USE DEF NodeTypes
<1>1. MainTypes'
  BY DEF ReceiveNack, Takes, MainTypes
<1>2. ListTypes' /\ FileTypes' /\ NackTypes'
  BY ListSame, FileSame, NackSame DEF ReceiveNack, trackVars
<1>3. WireTypes'
  BY AnswerSent DEF ReceiveNack, WireTypes
<1> QED
  BY <1>1, <1>2, <1>3

LEMMA NACKNextType ==
  ASSUME NodeTypes, NEW n \in Nodes, NACKNext(n)
  PROVE  /\ requestIndex' = [requestIndex EXCEPT ![n] = requestIndex'[n]]
         /\ requestIndex'[n] \in Pkts(n)
         /\ current' = [current EXCEPT ![n] = current'[n]]
         /\ current'[n] \in Known(n) \cup {Nobody}
         /\ iteratingptr' = [iteratingptr EXCEPT ![n] = iteratingptr'[n]]
         /\ iteratingptr'[n] \in Pkts(n)
<1>1. CASE current[n] = Nobody /\ requestIndex' = [requestIndex EXCEPT ![n] = 0]
           /\ current' = [current EXCEPT ![n] = TrackHead(n)] /\ UNCHANGED iteratingptr
  BY <1>1, PktsType, TrackHeadType DEF NodeTypes, NackTypes
<1>2. ASSUME current[n] # Nobody, NEW i \in Pkts(n), iterateArray(n, i),
             requestIndex' = [requestIndex EXCEPT ![n] = i],
             current' = [current EXCEPT ![n] = IF i = Last(n) THEN Successor(n, @) ELSE @]
      PROVE  /\ requestIndex' = [requestIndex EXCEPT ![n] = requestIndex'[n]]
             /\ requestIndex'[n] \in Pkts(n)
             /\ current' = [current EXCEPT ![n] = current'[n]]
             /\ current'[n] \in Known(n) \cup {Nobody}
             /\ iteratingptr' = [iteratingptr EXCEPT ![n] = iteratingptr'[n]]
             /\ iteratingptr'[n] \in Pkts(n)
  <2>1. current[n] \in Known(n) /\ Successor(n, current[n]) \in Known(n)
    BY <1>2, SuccessorType DEF NodeTypes, NackTypes
  <2>2. /\ current' = [current EXCEPT ![n] = current'[n]]
        /\ current'[n] \in Known(n) \cup {Nobody}
    BY <1>2, <2>1 DEF NodeTypes, NackTypes
  <2>3. /\ requestIndex' = [requestIndex EXCEPT ![n] = requestIndex'[n]]
        /\ requestIndex'[n] \in Pkts(n)
    BY <1>2 DEF NodeTypes, NackTypes
  <2>4. /\ iteratingptr' = [iteratingptr EXCEPT ![n] = iteratingptr'[n]]
        /\ iteratingptr'[n] \in Pkts(n)
    <3>1. 0 \in Pkts(n) /\ \A j \in Pkts(n) : j # Last(n) => j + 1 \in Pkts(n)
      BY PktsType
    <3>2. iteratingptr' = [iteratingptr EXCEPT ![n] = IF i = Last(n) THEN 0 ELSE i + 1]
          \/ iteratingptr' = [iteratingptr EXCEPT ![n] = 0]
      BY <1>2 DEF iterateArray
    <3>3. PICK j \in Pkts(n) : iteratingptr' = [iteratingptr EXCEPT ![n] = j]
      BY <1>2, <3>1, <3>2
    <3>4. iteratingptr \in [Nodes -> Int]
      BY DEF NodeTypes, NackTypes
    <3> QED
      BY <3>3, <3>4
  <2> QED
    BY <2>2, <2>3, <2>4
<1> QED
  BY <1>1, <1>2 DEF NACKNext

LEMMA NACKTypes ==
  ASSUME NodeTypes, NEW n \in Nodes, NACKTest(n) \/ NACKNext(n) \/ NACKSend(n)
  PROVE  NodeTypes'
<1> USE DEF NodeTypes
<1>1. UNCHANGED <<seq, recv, track, retras, recievedComplete, finishRestramit, myfile, flag>>
  BY DEF NACKTest, NACKNext, NACKSend, trackVars
<1>2. MainTypes' /\ ListTypes' /\ FileTypes'
  BY <1>1, ListSame, FileSame DEF MainTypes
<1>3. CASE NACKTest(n)
  <2>1. NackTypes'
    BY <1>1, <1>3, KnownSame DEF NACKTest, NackTypes
  <2> QED
    BY <1>2, <1>3, <2>1 DEF NACKTest, WireTypes
<1>4. CASE NACKNext(n)
  <2>1. nack' = [nack EXCEPT ![n] = "send"] /\ wire' = wire
    BY <1>4 DEF NACKNext
  <2>2. /\ requestIndex' = [requestIndex EXCEPT ![n] = requestIndex'[n]]
        /\ requestIndex'[n] \in Pkts(n)
        /\ current' = [current EXCEPT ![n] = current'[n]]
        /\ current'[n] \in Known(n) \cup {Nobody}
        /\ iteratingptr' = [iteratingptr EXCEPT ![n] = iteratingptr'[n]]
        /\ iteratingptr'[n] \in Pkts(n)
    BY <1>4, NACKNextType
  <2>3. Pkts(n) \subseteq Int /\ Known(n) \subseteq Nodes
    BY PktsType DEF ListTypes
  <2>4. \A q \in Nodes : Known(q)' = Known(q)
    BY <1>1, KnownSame
  <2>5. NackTypes'
    <3>1. current' \in [Nodes -> Nodes \cup {Nobody}]
      BY <2>2, <2>3 DEF NackTypes
    <3>2. requestIndex' \in [Nodes -> Int] /\ iteratingptr' \in [Nodes -> Int]
      BY <2>2, <2>3 DEF NackTypes
    <3>3. nack' \in [Nodes -> {"none", "test", "wait", "send", "exited"}]
      BY <2>1 DEF NackTypes
    <3>4. ASSUME NEW q \in Nodes
          PROVE  /\ current'[q] \in Known(q)' \cup {Nobody}
                 /\ requestIndex'[q] \in Pkts(q)
                 /\ iteratingptr'[q] \in Pkts(q)
      BY <2>2, <2>4 DEF NackTypes
    <3> QED
      BY <3>1, <3>2, <3>3, <3>4 DEF NackTypes
  <2> QED
    BY <1>2, <2>1, <2>5 DEF WireTypes
<1>5. CASE NACKSend(n)
  <2>1. NackTypes'
    BY <1>1, <1>5, KnownSame DEF NACKSend, NackTypes
  <2>2. \A d \in Peers(n) : Sent(Nack(n, d, requestIndex[n]))
    BY PeersType DEF NackTypes, Sent
  <2>3. WireTypes'
    BY <1>5, <2>2 DEF NACKSend, WireTypes
  <2> QED
    BY <1>2, <2>1, <2>3
<1> QED
  BY <1>3, <1>4, <1>5

LEMMA LoseTypes == ASSUME NodeTypes, NEW m \in wire, Lose(m) PROVE NodeTypes'
  BY ListSame, FileSame, NackSame
  DEF NodeTypes, MainTypes, WireTypes, Lose, trackVars, nackVars

LEMMA NodeTypesStep == NodeTypes /\ [Next]_vars => NodeTypes'
<1> SUFFICES ASSUME NodeTypes, [Next]_vars PROVE NodeTypes'
  OBVIOUS
<1>1. CASE UNCHANGED vars
  BY <1>1, ListSame, FileSame, NackSame DEF NodeTypes, MainTypes, WireTypes, vars, nackVars
<1>2. ASSUME NEW n \in Nodes, NodeStep(n) PROVE NodeTypes'
  BY <1>2, MainStepTypes, TopTypes, ReceiveDataTypes, ReceiveFinalAckTypes, ReceiveNackTypes,
     NACKTypes DEF NodeStep, RecvStep, NACKStep
<1>3. ASSUME NEW m \in wire, Lose(m) PROVE NodeTypes'
  BY <1>3, LoseTypes
<1> QED
  BY <1>1, <1>2, <1>3 DEF Next

LEMMA NodeTypesHold == Spec => []NodeTypes
  BY InitNodeTypes, NodeTypesStep, PTL DEF Spec

(* TypeOK holds for any nodes, destinations and files.                     *)
THEOREM NodeTypeCorrect == Spec => []TypeOK
<1>1. NodeTypes => TypeOK
  BY DEF NodeTypes, MainTypes, ListTypes, FileTypes, NackTypes, TypeOK
<1> QED
  BY <1>1, NodeTypesHold, PTL

-----------------------------------------------------------------------------
(* What a node that has ended leaves behind, for any nodes.                *)

(* A node changes nothing of another one but the wire.                     *)
LEMMA OnlyOwn ==
  ASSUME NodeTypes, NEW n \in Nodes, NodeStep(n), NEW q \in Nodes, q # n
  PROVE  /\ recv'[q] = recv[q]
         /\ track'[q] = track[q]
         /\ retras'[q] = retras[q]
         /\ recievedComplete'[q] = recievedComplete[q]
         /\ finishRestramit'[q] = finishRestramit[q]
         /\ flag'[q] = flag[q]
         /\ myfile'[q] = myfile[q]
         /\ nack'[q] = nack[q]
<1>1. CASE SendNext(n) \/ StartNACKThread(n)
  BY <1>1 DEF SendNext, StartNACKThread, trackVars, nackVars, NodeTypes, NackTypes
<1>2. CASE AllDone(n) \/ GoOn(n)
  BY <1>2 DEF AllDone, GoOn, trackVars, nackVars, NodeTypes, MainTypes
<1>3. ASSUME NEW m \in wire, ReceiveData(n, m)
      PROVE  /\ recv'[q] = recv[q]
             /\ track'[q] = track[q]
             /\ retras'[q] = retras[q]
             /\ recievedComplete'[q] = recievedComplete[q]
             /\ finishRestramit'[q] = finishRestramit[q]
             /\ flag'[q] = flag[q]
             /\ myfile'[q] = myfile[q]
             /\ nack'[q] = nack[q]
  <2>1. /\ recv' = [recv EXCEPT ![n] = "top"]
        /\ track' = [track EXCEPT ![n] = TrackWith(n, m.src)]
        /\ recievedComplete' =
             [recievedComplete EXCEPT ![n][m.src] = @ \/ Complete(n, m.src)']
        /\ UNCHANGED <<finishRestramit, flag, nack>>
    BY <1>3 DEF ReceiveData, Takes, nackVars
  <2>2. retras'[q] = retras[q] /\ myfile'[q] = myfile[q]
    BY <1>3 DEF ReceiveData, NodeTypes, FileTypes
  <2> QED
    BY <2>1, <2>2 DEF NodeTypes, MainTypes, ListTypes, FileTypes
<1>4. ASSUME NEW m \in wire, ReceiveFinalAck(n, m)
      PROVE  /\ recv'[q] = recv[q]
             /\ track'[q] = track[q]
             /\ retras'[q] = retras[q]
             /\ recievedComplete'[q] = recievedComplete[q]
             /\ finishRestramit'[q] = finishRestramit[q]
             /\ flag'[q] = flag[q]
             /\ myfile'[q] = myfile[q]
             /\ nack'[q] = nack[q]
  BY <1>4 DEF ReceiveFinalAck, Takes, nackVars, NodeTypes, MainTypes, ListTypes, FileTypes
<1>5. ASSUME NEW m \in wire, ReceiveNack(n, m)
      PROVE  /\ recv'[q] = recv[q]
             /\ flag'[q] = flag[q]
             /\ UNCHANGED <<trackVars, nack>>
  BY <1>5 DEF ReceiveNack, Takes, nackVars, NodeTypes, MainTypes
<1>6. CASE NACKTest(n) \/ NACKNext(n) \/ NACKSend(n)
  BY <1>6 DEF NACKTest, NACKNext, NACKSend, trackVars, NodeTypes, NackTypes
<1> QED
  BY <1>1, <1>2, <1>3, <1>4, <1>5, <1>6 DEF NodeStep, RecvStep, NACKStep, trackVars

(* A receive thread that has ended does nothing any more.                  *)
LEMMA DoneStays ==
  ASSUME NodeTypes, NEW n \in Nodes, recv[n] = "done", NodeStep(n)
  PROVE  /\ SendNext(n) \/ StartNACKThread(n) \/ NACKStep(n)
         /\ UNCHANGED <<recv, trackVars, flag>>
<1>1. \A m : ~ReceiveData(n, m) /\ ~ReceiveFinalAck(n, m) /\ ~ReceiveNack(n, m)
  BY DEF ReceiveData, ReceiveFinalAck, ReceiveNack, Takes
<1>2. ~AllDone(n) /\ ~GoOn(n)
  BY DEF AllDone, GoOn
<1>3. SendNext(n) \/ StartNACKThread(n) \/ NACKStep(n)
  BY <1>1, <1>2 DEF NodeStep, RecvStep
<1> QED
  BY <1>3 DEF SendNext, StartNACKThread, NACKStep, NACKTest, NACKNext, NACKSend, trackVars

LEMMA SpinningStays ==
  ASSUME NodeTypes, [Next]_vars, NEW n \in Nodes, LeftSpinning(n)
  PROVE  LeftSpinning(n)'
<1>1. CASE UNCHANGED vars
  BY <1>1 DEF vars, nackVars, LeftSpinning
<1>2. ASSUME NEW m \in wire, Lose(m) PROVE LeftSpinning(n)'
  BY <1>2 DEF Lose, nackVars, LeftSpinning
<1>3. ASSUME NEW q \in Nodes, NodeStep(q), q # n PROVE LeftSpinning(n)'
  BY <1>3, OnlyOwn DEF LeftSpinning
<1>4. CASE NodeStep(n)
  <2>1. recv[n] = "done" /\ nack[n] = "wait" /\ flag[n]
    BY DEF LeftSpinning
  <2>2. SendNext(n) \/ StartNACKThread(n) \/ NACKStep(n)
    BY <1>4, <2>1, DoneStays
  <2>3. SendNext(n)
    BY <2>1, <2>2 DEF StartNACKThread, NACKStep, NACKTest, NACKNext, NACKSend, Spins
  <2> QED
    BY <2>1, <2>3 DEF SendNext, nackVars, LeftSpinning
<1> QED
  BY <1>1, <1>2, <1>3, <1>4 DEF Next

(* DoneWithFlagIsFatal holds for any nodes, destinations and files.        *)
THEOREM SpinningCorrect == Spec => DoneWithFlagIsFatal
<1>1. NodeTypes /\ [Next]_vars => [\A n \in Nodes : LeftSpinning(n) => LeftSpinning(n)']_vars
  BY SpinningStays
<1> QED
  BY <1>1, NodeTypesHold, PTL DEF Spec, DoneWithFlagIsFatal

(* Only the receive thread of p makes final acks of p.                     *)
LEMMA NoNewFinalAck ==
  ASSUME NodeTypes, NEW q \in Nodes, NodeStep(q), NEW p \in Nodes, NEW d \in Nodes,
         Nack(p, d, FinalAck) \in wire', Nack(p, d, FinalAck) \notin wire
  PROVE  q = p /\ recv[p] # "done"
<1> DEFINE a == Nack(p, d, FinalAck)
<1>1. a.kind = "nack" /\ a.src = p /\ a.seqno = FinalAck
  BY DEF Nack
<1>2. \A n \in Nodes : a \in SendACKS(n) => n = p
  BY DEF SendACKS, Nack
<1>3. \A n \in Nodes : \A i : a \notin Answer(n, i)
  BY <1>1 DEF Answer, Data
<1>4. ~SendNext(q)
  BY <1>1 DEF SendNext, Data
<1>5. ~NACKSend(q)
  <2>1. requestIndex[q] # FinalAck
    BY PktsType DEF NodeTypes, NackTypes
  <2> QED
    BY <1>1, <2>1 DEF NACKSend, Nack
<1>6. \A m \in wire : ~ReceiveNack(q, m)
  BY <1>3 DEF ReceiveNack
<1> HIDE DEF a
<1>7. CASE AllDone(q) \/ \E m \in wire : ReceiveData(q, m)
  <2>1. a \in SendACKS(q) /\ recv[q] # "done"
    BY <1>7 DEF AllDone, ReceiveData, Takes, a
  <2> QED
    BY <1>2, <2>1
<1>8. ~UNCHANGED wire
  OBVIOUS
<1> QED
  BY <1>4, <1>5, <1>6, <1>7, <1>8
  DEF NodeStep, RecvStep, NACKStep, StartNACKThread, GoOn, ReceiveFinalAck, NACKTest, NACKNext

(* A node is told only by a final ack that its peer has all packets.       *)
LEMMA ToldByFinalAck ==
  ASSUME NodeTypes, NEW q \in Nodes, NodeStep(q), NEW n \in Nodes, NEW p \in Nodes,
         finishRestramit'[n][p], ~finishRestramit[n][p]
  PROVE  q = n /\ Nack(p, n, FinalAck) \in wire
<1>1. q = n
  BY OnlyOwn
<1>2. finishRestramit' # finishRestramit
  OBVIOUS
<1>3. PICK m \in wire : ReceiveFinalAck(n, m)
  BY <1>1, <1>2
  DEF NodeStep, RecvStep, NACKStep, SendNext, StartNACKThread, AllDone, GoOn, ReceiveData,
      ReceiveNack, NACKTest, NACKNext, NACKSend, trackVars
<1>4. /\ finishRestramit' = [finishRestramit EXCEPT ![n][m.src] = TRUE]
      /\ m.kind = "nack" /\ m.dest = n /\ m.seqno = FinalAck
  BY <1>3 DEF ReceiveFinalAck, Takes
<1>5. m.src = p
  BY <1>4 DEF NodeTypes, FileTypes
<1>6. m = Nack(m.src, m.dest, m.seqno)
  BY <1>4, SentFromPeer
<1> QED
  BY <1>1, <1>4, <1>5, <1>6

LEMMA AbandonedStays ==
  ASSUME NodeTypes, [Next]_vars, NEW n \in Nodes, Abandoned(n)
  PROVE  Abandoned(n)' /\ (flag[n] => flag'[n])
<1>1. PICK p \in Known(n) :
        recv[p] = "done" /\ ~finishRestramit[n][p] /\ Nack(p, n, FinalAck) \notin wire
  BY DEF Abandoned
<1>2. recv[n] # "done" /\ p \in Nodes \ {n}
  BY DEF Abandoned, NodeTypes, ListTypes
<1>3. CASE UNCHANGED vars
  BY <1>1, <1>2, <1>3 DEF vars, Abandoned, Known
<1>4. ASSUME NEW m \in wire, Lose(m) PROVE Abandoned(n)' /\ (flag[n] => flag'[n])
  BY <1>1, <1>2, <1>4 DEF Lose, trackVars, Abandoned, Known
<1>5. ASSUME NEW q \in Nodes, NodeStep(q) PROVE Abandoned(n)' /\ (flag[n] => flag'[n])
  <2>1. Nack(p, n, FinalAck) \notin wire'
    BY <1>1, <1>2, <1>5, NoNewFinalAck
  <2>2. ~finishRestramit'[n][p]
    BY <1>1, <1>2, <1>5, ToldByFinalAck
  <2>3. recv'[p] = "done"
    <3>1. CASE q = p
      BY <1>1, <1>2, <1>5, <3>1, DoneStays
    <3>2. CASE q # p
      BY <1>1, <1>2, <1>5, <3>2, OnlyOwn
    <3> QED
      BY <3>1, <3>2
  <2>4. ~if_all_retras_done(n) /\ ~alldone(n)
    BY <1>1 DEF if_all_retras_done, alldone
  <2>5. recv'[n] # "done" /\ (flag[n] => flag'[n])
    <3>1. CASE q # n
      BY <1>2, <1>5, <3>1, OnlyOwn
    <3>2. CASE q = n
      <4>1. ~AllDone(n)
        BY <2>4 DEF AllDone
      <4>2. CASE GoOn(n)
        BY <2>4, <4>2 DEF GoOn, NodeTypes, MainTypes
      <4>3. CASE \E m \in wire : ReceiveData(n, m) \/ ReceiveFinalAck(n, m) \/ ReceiveNack(n, m)
        BY <4>3 DEF ReceiveData, ReceiveFinalAck, ReceiveNack, Takes, NodeTypes, MainTypes
      <4>4. CASE SendNext(n) \/ StartNACKThread(n) \/ NACKStep(n)
        BY <1>2, <4>4 DEF SendNext, StartNACKThread, NACKStep, NACKTest, NACKNext, NACKSend
      <4> QED
        BY <1>5, <3>2, <4>1, <4>2, <4>3, <4>4 DEF NodeStep, RecvStep
    <3> QED
      BY <3>1, <3>2
  <2>6. p \in Known(n)'
    <3>1. CASE q # n
      BY <1>1, <1>5, <3>1, OnlyOwn DEF Known
    <3>2. CASE q = n
      <4>1. CASE \E m \in wire : ReceiveData(n, m) \/ ReceiveFinalAck(n, m)
        <5>1. PICK m \in wire : ReceiveData(n, m) \/ ReceiveFinalAck(n, m)
          BY <4>1
        <5>2. m.src \in Nodes \ {n} /\ track' = [track EXCEPT ![n] = TrackWith(n, m.src)]
          BY <5>1, SentFromPeer DEF ReceiveData, ReceiveFinalAck, Takes
        <5> QED
          BY <1>1, <5>2, ListGrows
      <4>2. CASE UNCHANGED track
        BY <1>1, <4>2 DEF Known
      <4> QED
        BY <1>5, <3>2, <4>1, <4>2
        DEF NodeStep, RecvStep, NACKStep, SendNext, StartNACKThread, AllDone, GoOn,
            ReceiveNack, NACKTest, NACKNext, NACKSend, trackVars
    <3> QED
      BY <3>1, <3>2
  <2> QED
    BY <2>1, <2>2, <2>3, <2>5, <2>6 DEF Abandoned
<1> QED
  BY <1>3, <1>4, <1>5 DEF Next

(* LostFinalAcksAreFatal holds for any nodes, destinations and files.      *)
THEOREM AbandonedCorrect == Spec => LostFinalAcksAreFatal
<1>1. NodeTypes /\ [Next]_vars =>
        [\A n \in Nodes : Abandoned(n) => Abandoned(n)' /\ (flag[n] => flag'[n])]_vars
  BY AbandonedStays
<1> QED
  BY <1>1, NodeTypesHold, PTL DEF Spec, LostFinalAcksAreFatal

-----------------------------------------------------------------------------
(* Three nodes or more.                                                    *)

(* The NACK thread goes to the next peer only after a request for the last *)
(* packet of this one (mynode.c:410).  When that packet has arrived it is  *)
(* never requested again: the thread asks for packet 0 of the same peer    *)
(* for good, and whatever is missing of another peer is never asked for.   *)
Stuck(n, p) ==
  /\ nack[n] # "none" /\ current[n] = p
  /\ p \in Known(n) /\ Last(n) \in retras[n][p] /\ Last(n) # 0
StuckOnPeer == [][\A n, p \in Nodes : Stuck(n, p) => Stuck(n, p)']_vars

(* What a step does to what Stuck speaks of.                               *)
LEMMA MarksStay ==
  ASSUME NodeTypes, [Next]_vars, NEW n \in Nodes, NEW p \in Nodes
  PROVE  retras[n][p] \subseteq retras'[n][p] /\ Known(n) \subseteq Known(n)'
<1>1. ASSUME NEW q \in Nodes, NEW m \in wire, ReceiveData(q, m) \/ ReceiveFinalAck(q, m)
      PROVE  retras[n][p] \subseteq retras'[n][p] /\ Known(n) \subseteq Known(n)'
  <2>1. /\ m.src \in Nodes \ {q}
        /\ track' = [track EXCEPT ![q] = TrackWith(q, m.src)]
        /\ retras' = retras \/ retras' = [retras EXCEPT ![q][m.src] = @ \cup {m.seqno}]
    BY <1>1, SentFromPeer DEF ReceiveData, ReceiveFinalAck, Takes
  <2>2. retras[n][p] \subseteq retras'[n][p]
    <3>1. retras \in [Nodes -> [Nodes -> SUBSET Int]]
      BY DEF NodeTypes, FileTypes
    <3>2. CASE retras' = [retras EXCEPT ![q][m.src] = @ \cup {m.seqno}]
      BY <2>1, <3>1, <3>2
    <3> QED
      BY <2>1, <3>2
  <2>3. Known(n) \subseteq Known(n)'
    BY <2>1, ListGrows
  <2> QED
    BY <2>2, <2>3
<1>2. CASE UNCHANGED <<track, retras>>
  BY <1>2 DEF Known
<1> QED
  BY <1>1, <1>2
  DEF Next, vars, NodeStep, RecvStep, NACKStep, SendNext, StartNACKThread, AllDone, GoOn,
      ReceiveNack, NACKTest, NACKNext, NACKSend, Lose, trackVars

LEMMA StuckStays ==
  ASSUME NodeTypes, [Next]_vars, NEW n \in Nodes, NEW p \in Nodes, Stuck(n, p)
  PROVE  Stuck(n, p)'
<1>1. /\ p \in Known(n)' /\ Last(n) \in retras'[n][p] /\ Last(n) # 0
      /\ nack[n] # "none" /\ current[n] = p
  BY MarksStay DEF Stuck, Last, num_of_packets
<1>2. nack'[n] # "none" /\ current'[n] = p
  <2>1. ASSUME NEW q \in Nodes, NodeStep(q) PROVE nack'[n] # "none" /\ current'[n] = p
    <3>1. CASE StartNACKThread(q)
      BY <1>1, <3>1 DEF StartNACKThread, NodeTypes, NackTypes
    <3>2. CASE NACKTest(q) \/ NACKSend(q)
      BY <1>1, <3>2 DEF NACKTest, NACKSend, NodeTypes, NackTypes
    <3>3. CASE NACKNext(q)
      <4>1. nack' = [nack EXCEPT ![q] = "send"] /\ (q # n => current'[n] = p)
        BY <1>1, <3>3 DEF NACKNext, NodeTypes, NackTypes
      <4>2. CASE q = n
        <5>1. current[n] # Nobody
          BY <1>1, NodesAssumption DEF Nobody
        <5>2. \A i \in Pkts(n) : iterateArray(n, i) => i # Last(n)
          BY <1>1 DEF iterateArray, Missing, Stuck
        <5> QED
          BY <1>1, <3>3, <4>2, <5>1, <5>2 DEF NACKNext, NodeTypes, NackTypes
      <4> QED
        BY <1>1, <4>1, <4>2 DEF NodeTypes, NackTypes
    <3>4. CASE UNCHANGED <<nack, current>>
      BY <1>1, <3>4
    <3> QED
      BY <2>1, <3>1, <3>2, <3>3, <3>4
      DEF NodeStep, RecvStep, NACKStep, SendNext, AllDone, GoOn, ReceiveData, ReceiveFinalAck,
          ReceiveNack, nackVars
  <2> QED
    BY <1>1, <2>1 DEF Next, vars, nackVars, Lose
<1> QED
  BY <1>1, <1>2 DEF Stuck, Last, num_of_packets

(* StuckOnPeer holds for any nodes, destinations and files.                *)
THEOREM StuckCorrect == Spec => StuckOnPeer
<1>1. NodeTypes /\ [Next]_vars => [\A n, p \in Nodes : Stuck(n, p) => Stuck(n, p)']_vars
  BY StuckStays
<1> QED
  BY <1>1, NodeTypesHold, PTL DEF Spec, StuckOnPeer

-----------------------------------------------------------------------------
(* What is marked, for any nodes.  num_of_packets is that of the node's    *)
(* own file, also where it stands for the peer's (mynode.c:301).           *)

AllMarked(n, p) == recievedComplete[n][p] => retras[n][p] = Pkts(n)

MarkInv ==
  /\ \A n \in Nodes : \A p \in Nodes \ {n} :
       retras[n][p] \subseteq Pkts(p) /\ AllMarked(n, p)
  /\ \A n \in Nodes : recv[n] = "done" => alldone(n)

LEMMA AllArrived ==
  ASSUME NEW n \in Nodes, NEW S \in SUBSET Pkts(n), Cardinality(S) = num_of_packets(n)
  PROVE  S = Pkts(n)
  BY PktsType, FS_Subset

LEMMA AllDoneSame ==
  ASSUME NEW n \in Nodes, track'[n] = track[n], recievedComplete'[n] = recievedComplete[n],
         finishRestramit'[n] = finishRestramit[n]
  PROVE  alldone(n)' <=> alldone(n)
  BY DEF alldone, if_all_data_recvd, if_all_retras_done, Known

LEMMA DataMarks ==
  ASSUME NodeTypes, NodeTypes', MarkInv, NEW n \in Nodes, NEW m \in wire, ReceiveData(n, m)
  PROVE  \A p \in Nodes \ {n} : retras'[n][p] \subseteq Pkts(p) /\ AllMarked(n, p)'
<1> DEFINE s == m.src
           i == m.seqno
<1>1. s \in Nodes \ {n} /\ i \in Pkts(s)
  BY SentFromPeer DEF ReceiveData, Takes
<1>2. \/ retras' = retras
      \/ i \in Pkts(n) /\ retras' = [retras EXCEPT ![n][s] = @ \cup {i}]
  BY DEF ReceiveData, FirstArrival
<1>3. recievedComplete' = [recievedComplete EXCEPT ![n][s] = @ \/ Complete(n, s)']
  BY DEF ReceiveData
<1> HIDE DEF s, i
<1> SUFFICES ASSUME NEW p \in Nodes \ {n}
             PROVE  retras'[n][p] \subseteq Pkts(p) /\ AllMarked(n, p)'
  OBVIOUS
<1>4. /\ retras[n][p] \subseteq retras'[n][p]
      /\ retras'[n][p] \subseteq retras[n][p] \cup (IF p = s THEN {i} ELSE {})
  BY <1>1, <1>2 DEF NodeTypes, FileTypes
<1>5. retras'[n][p] \subseteq Pkts(p)
  BY <1>1, <1>4 DEF MarkInv
<1>6. retras'[n][p] \in SUBSET Pkts(n)
  BY DEF NodeTypes, FileTypes
<1>7. CASE recievedComplete[n][p]
  <2>1. retras[n][p] = Pkts(n)
    BY <1>7 DEF MarkInv, AllMarked
  <2> QED
    BY <1>4, <1>5, <1>6, <2>1 DEF AllMarked, Pkts, num_of_packets
<1>8. CASE p = s /\ Complete(n, s)'
  <2>1. Cardinality(retras'[n][p]) = num_of_packets(n)
    BY <1>8 DEF Complete, num_of_packets
  <2>2. retras'[n][p] = Pkts(n)
    BY <1>6, <2>1, AllArrived
  <2> QED
    BY <1>5, <2>2 DEF AllMarked, Pkts, num_of_packets
<1>9. CASE ~recievedComplete'[n][p]
  BY <1>5, <1>9 DEF AllMarked
<1>10. recievedComplete'[n][p] => recievedComplete[n][p] \/ (p = s /\ Complete(n, s)')
  BY <1>1, <1>3 DEF NodeTypes, FileTypes
<1> QED
  BY <1>7, <1>8, <1>9, <1>10

LEMMA OwnMarks ==
  ASSUME NodeTypes, NodeTypes', MarkInv, NEW n \in Nodes, NodeStep(n)
  PROVE  /\ \A p \in Nodes \ {n} : retras'[n][p] \subseteq Pkts(p) /\ AllMarked(n, p)'
         /\ recv'[n] = "done" => alldone(n)'
<1>1. ASSUME UNCHANGED <<retras, recievedComplete>>
      PROVE  \A p \in Nodes \ {n} : retras'[n][p] \subseteq Pkts(p) /\ AllMarked(n, p)'
  BY <1>1 DEF MarkInv, AllMarked, Pkts, num_of_packets
<1>2. CASE SendNext(n) \/ StartNACKThread(n) \/ NACKStep(n)
  <2>1. UNCHANGED <<recv, trackVars>>
    BY <1>2 DEF SendNext, StartNACKThread, NACKStep, NACKTest, NACKNext, NACKSend
  <2> QED
    BY <1>1, <2>1, AllDoneSame DEF trackVars, MarkInv
<1>3. CASE AllDone(n) \/ GoOn(n)
  <2>1. UNCHANGED trackVars /\ (recv'[n] = "done" => alldone(n))
    BY <1>3 DEF AllDone, GoOn, NodeTypes, MainTypes
  <2> QED
    BY <1>1, <2>1, AllDoneSame DEF trackVars
<1>4. ASSUME NEW m \in wire, ReceiveData(n, m) \/ ReceiveFinalAck(n, m) \/ ReceiveNack(n, m)
      PROVE  recv'[n] # "done"
  BY <1>4 DEF ReceiveData, ReceiveFinalAck, ReceiveNack, Takes, NodeTypes, MainTypes
<1>5. ASSUME NEW m \in wire, ReceiveData(n, m)
      PROVE  \A p \in Nodes \ {n} : retras'[n][p] \subseteq Pkts(p) /\ AllMarked(n, p)'
  BY <1>5, DataMarks
<1>6. ASSUME NEW m \in wire, ReceiveFinalAck(n, m) \/ ReceiveNack(n, m)
      PROVE  \A p \in Nodes \ {n} : retras'[n][p] \subseteq Pkts(p) /\ AllMarked(n, p)'
  BY <1>1, <1>6 DEF ReceiveFinalAck, ReceiveNack, trackVars
<1> QED
  BY <1>2, <1>3, <1>4, <1>5, <1>6 DEF NodeStep, RecvStep

LEMMA MarkStep == NodeTypes /\ MarkInv /\ [Next]_vars => MarkInv'
<1> SUFFICES ASSUME NodeTypes, MarkInv, [Next]_vars PROVE MarkInv'
  OBVIOUS
<1>1. NodeTypes'
  BY NodeTypesStep
<1>2. CASE UNCHANGED <<recv, trackVars>>
  BY <1>2, AllDoneSame DEF MarkInv, AllMarked, Pkts, num_of_packets, trackVars
<1>3. ASSUME NEW q \in Nodes, NodeStep(q) PROVE MarkInv'
  <2> SUFFICES ASSUME NEW n \in Nodes
               PROVE  /\ \A p \in Nodes \ {n} : /\ retras'[n][p] \subseteq Pkts(p)
                                                /\ AllMarked(n, p)'
                      /\ recv'[n] = "done" => alldone(n)'
    BY DEF MarkInv, Pkts, num_of_packets
  <2>1. CASE n = q
    BY <1>1, <1>3, <2>1, OwnMarks
  <2>2. CASE n # q
    <3>1. /\ UNCHANGED <<recv[n], track[n], retras[n]>>
          /\ recievedComplete'[n] = recievedComplete[n]
          /\ finishRestramit'[n] = finishRestramit[n]
      BY <1>3, <2>2, OnlyOwn
    <3> QED
      BY <3>1, AllDoneSame DEF MarkInv, AllMarked, Pkts, num_of_packets
  <2> QED
    BY <2>1, <2>2
<1> QED
  BY <1>2, <1>3 DEF Next, vars, trackVars, Lose

LEMMA MarksHold == Spec => [](NodeTypes /\ MarkInv)
<1>1. Init => MarkInv
  BY DEF Init, MarkInv, AllMarked, NoPackets
<1> QED
  BY <1>1, MarkStep, NodeTypesHold, PTL DEF Spec

LEMMA NoMorePackets ==
  ASSUME NEW n \in Nodes, NEW p \in Nodes, Pkts(n) \subseteq Pkts(p)
  PROVE  num_of_packets(n) <= num_of_packets(p)
<1>1. /\ num_of_packets(n) \in Nat \ {0} /\ num_of_packets(p) \in Nat \ {0}
      /\ Last(n) \in Pkts(p)
  BY NumOfPackets, PktsType
<1> QED
  BY <1>1 DEF Pkts, Last

(* A node whose receive thread has ended (mynode.c:262-268) knows of       *)
(* somebody, has from everybody it knows as many packets as its own file   *)
(* has, and nobody it knows has a file of fewer packets; from a peer with  *)
(* more packets it has only the first ones (mynode.c:301, 370).            *)
EndsOnlyWithLongerFiles ==
  \A n \in Nodes : recv[n] = "done" =>
    /\ Known(n) # {}
    /\ \A p \in Known(n) :
         /\ finishRestramit[n][p] /\ retras[n][p] = Pkts(n)
         /\ num_of_packets(n) <= num_of_packets(p)

THEOREM LongerFilesCorrect == Spec => []EndsOnlyWithLongerFiles
<1>1. ASSUME NodeTypes, MarkInv PROVE EndsOnlyWithLongerFiles
  <2> SUFFICES ASSUME NEW n \in Nodes, recv[n] = "done"
               PROVE  /\ Known(n) # {}
                      /\ \A p \in Known(n) :
                           /\ finishRestramit[n][p] /\ retras[n][p] = Pkts(n)
                           /\ num_of_packets(n) <= num_of_packets(p)
    BY DEF EndsOnlyWithLongerFiles
  <2>1. track[n] # <<>> /\ \A p \in Known(n) : recievedComplete[n][p] /\ finishRestramit[n][p]
    BY <1>1 DEF MarkInv, alldone, if_all_data_recvd, if_all_retras_done
  <2>2. track[n] \in Seq(Nodes) /\ Known(n) \subseteq Nodes \ {n}
    BY <1>1 DEF NodeTypes, ListTypes
  <2>3. 1 \in DOMAIN track[n]
    BY <2>1, <2>2
  <2>4. track[n][1] \in Known(n)
    BY <2>3 DEF Known
  <2>5. \A p \in Known(n) : retras[n][p] = Pkts(n) /\ Pkts(n) \subseteq Pkts(p)
    BY <1>1, <2>1, <2>2 DEF MarkInv, AllMarked
  <2> QED
    BY <2>1, <2>2, <2>4, <2>5, NoMorePackets
<1> QED
  BY <1>1, MarksHold, PTL

-----------------------------------------------------------------------------
(* Who is not served.                                                      *)

(* main sends packet i to everybody once, and what the receive thread      *)
(* sends again goes to dest_node[0], whoever asked (mynode.c:360).  When   *)
(* the packet for another node is lost that node never gets it.            *)
Unserved(n, p, i) ==
  /\ p # Dest[n][1]
  /\ i < seq[n] /\ i \notin retras[p][n] /\ Data(n, p, i) \notin wire

(* If it counts the packet, it never ends once it has heard of n.          *)
SecondNotServed ==
  [][\A n \in Nodes : \A p \in Nodes \ {n} : \A i \in Pkts(n) :
       Unserved(n, p, i) =>
         /\ Unserved(n, p, i)'
         /\ i \in Pkts(p) /\ n \in Known(p) => recv'[p] # "done"]_vars

LEMMA SentStays ==
  ASSUME NodeTypes, [Next]_vars, NEW n \in Nodes, NEW i \in Nat, i < seq[n]
  PROVE  i < seq'[n]
<1>1. seq \in [Nodes -> Nat]
  BY DEF NodeTypes, MainTypes
<1>2. seq[n] <= seq'[n]
  BY <1>1 DEF Next, vars, nackVars, Lose, NodeStep, RecvStep, NACKStep, SendNext,
              StartNACKThread, AllDone, GoOn, ReceiveData, ReceiveFinalAck, ReceiveNack,
              NACKTest, NACKNext, NACKSend
<1>3. seq'[n] \in Nat
  BY NodeTypesStep DEF NodeTypes, MainTypes
<1> QED
  BY <1>1, <1>2, <1>3

LEMMA NotSentAgain ==
  ASSUME NodeTypes, NEW n \in Nodes, NEW p \in Nodes \ {n}, NEW i \in Nat,
         i < seq[n], Data(n, p, i) \notin wire,
         \A m \in wire : ReceiveNack(n, m) => Data(n, p, i) \notin Answer(n, m.seqno),
         NEW q \in Nodes, NodeStep(q)
  PROVE  Data(n, p, i) \notin wire'
<1> DEFINE d == Data(n, p, i)
<1>1. d.kind = "data" /\ d.src = n /\ d.dest = p /\ d.seqno = i /\ d \notin wire
  BY DEF Data
<1>2. \A m \in SendACKS(q) : m.kind = "nack"
  BY DEF SendACKS, Nack
<1>3. \A r \in Nodes : \A j : Nack(q, r, j).kind = "nack"
  BY DEF Nack
<1>4. \A m, j : m \in Answer(q, j) => m.src = q
  BY DEF Answer, Data
<1>5. CASE SendNext(q)
  <2>1. d \notin {Data(q, r, seq[q]) : r \in Peers(q)}
    <3> SUFFICES ASSUME NEW r \in Peers(q), d = Data(q, r, seq[q]) PROVE FALSE
      OBVIOUS
    <3>1. q = n /\ i = seq[q]
      BY <1>1 DEF Data
    <3> QED
      BY <3>1
  <2> QED
    BY <1>1, <1>5, <2>1 DEF SendNext
<1>6. CASE NACKSend(q)
  <2>1. Peers(q) \subseteq Nodes
    BY PeersType
  <2> QED
    BY <1>1, <1>3, <1>6, <2>1 DEF NACKSend
<1>7. CASE AllDone(q) \/ \E m \in wire : ReceiveData(q, m)
  BY <1>1, <1>2, <1>7 DEF AllDone, ReceiveData
<1>8. CASE \E m \in wire : ReceiveNack(q, m)
  BY <1>1, <1>4, <1>8 DEF ReceiveNack
<1>9. CASE UNCHANGED wire
  BY <1>1, <1>9
<1> QED
  BY <1>5, <1>6, <1>7, <1>8, <1>9
  DEF NodeStep, RecvStep, NACKStep, StartNACKThread, GoOn, ReceiveFinalAck, NACKTest, NACKNext

LEMMA NotMarked ==
  ASSUME NodeTypes, NEW n \in Nodes, NEW p \in Nodes \ {n}, NEW i,
         i \notin retras[p][n], Data(n, p, i) \notin wire, NEW q \in Nodes, NodeStep(q)
  PROVE  i \notin retras'[p][n]
<1>1. CASE q # p
  BY <1>1, OnlyOwn
<1>2. CASE q = p /\ UNCHANGED retras
  BY <1>2
<1>3. ASSUME NEW m \in wire, ReceiveData(p, m), ~UNCHANGED retras
      PROVE  i \notin retras'[p][n]
  <2>1. m.dest = p /\ m.kind = "data" /\ retras' = [retras EXCEPT ![p][m.src] = @ \cup {m.seqno}]
    BY <1>3 DEF ReceiveData, Takes
  <2>2. m = Data(m.src, m.dest, m.seqno) /\ m.src \in Nodes
    BY <2>1, SentFromPeer
  <2>3. m.src # n \/ m.seqno # i
    BY <2>1, <2>2
  <2>4. retras'[p][n] \subseteq retras[p][n] \cup (IF m.src = n THEN {m.seqno} ELSE {})
    BY <2>1, <2>2 DEF NodeTypes, FileTypes
  <2> QED
    BY <2>3, <2>4
<1> QED
  BY <1>1, <1>2, <1>3
  DEF NodeStep, RecvStep, NACKStep, SendNext, StartNACKThread, AllDone, GoOn, ReceiveFinalAck,
      ReceiveNack, NACKTest, NACKNext, NACKSend, trackVars

LEMMA UnservedStays ==
  ASSUME NodeTypes, MarkInv, [Next]_vars,
         NEW n \in Nodes, NEW p \in Nodes \ {n}, NEW i \in Pkts(n), Unserved(n, p, i)
  PROVE  /\ Unserved(n, p, i)'
         /\ i \in Pkts(p) /\ n \in Known(p) => recv'[p] # "done"
<1>1. p # Dest[n][1] /\ i < seq[n] /\ i \in Nat /\ seq \in [Nodes -> Nat]
  BY PktsType DEF Unserved, NodeTypes, MainTypes
<1>2. i < seq'[n]
  BY <1>1, SentStays
<1>3. i \notin retras'[p][n] /\ Data(n, p, i) \notin wire'
  <2>1. CASE UNCHANGED <<retras, wire>>
    BY <2>1 DEF Unserved
  <2>2. ASSUME NEW m \in wire, Lose(m) PROVE i \notin retras'[p][n] /\ Data(n, p, i) \notin wire'
    BY <2>2 DEF Lose, trackVars, Unserved
  <2>3. ASSUME NEW m \in wire PROVE Data(n, p, i) \notin Answer(n, m.seqno)
    BY <1>1 DEF Answer, Data
  <2>4. Data(n, p, i) \notin wire /\ i \notin retras[p][n]
    BY DEF Unserved
  <2> QED
    BY <1>1, <2>1, <2>2, <2>3, <2>4, NotSentAgain, NotMarked DEF Next, vars
<1>4. Unserved(n, p, i)'
  <2>1. Data(n, p, i)' = Data(n, p, i)
    BY DEF Data, Chunk, calc_packet_size
  <2> QED
    BY <1>1, <1>2, <1>3, <2>1 DEF Unserved
<1>5. ASSUME i \in Pkts(p), n \in Known(p), recv'[p] = "done" PROVE FALSE
  <2>1. MarkInv' /\ n \in Known(p)'
    BY <1>5, MarkStep, MarksStay
  <2>2. recievedComplete'[p][n]
    BY <1>5, <2>1 DEF MarkInv, alldone, if_all_data_recvd
  <2>3. retras'[p][n] = Pkts(p)
    BY <2>1, <2>2 DEF MarkInv, AllMarked, Pkts, num_of_packets
  <2> QED
    BY <1>3, <1>5, <2>3
<1> QED
  BY <1>4, <1>5

(* SecondNotServed holds for any nodes, destinations and files.            *)
THEOREM SecondNotServedCorrect == Spec => SecondNotServed
<1>1. NodeTypes /\ MarkInv /\ [Next]_vars =>
        [\A n \in Nodes : \A p \in Nodes \ {n} : \A i \in Pkts(n) :
           Unserved(n, p, i) =>
             /\ Unserved(n, p, i)'
             /\ i \in Pkts(p) /\ n \in Known(p) => recv'[p] # "done"]_vars
  BY UnservedStays
<1> QED
  BY <1>1, MarksHold, PTL DEF Spec, SecondNotServed

-----------------------------------------------------------------------------
(* Two nodes.                                                              *)

(* Each has the other one as its only peer.                                *)
TwoNodes == \E x, y \in Nodes : Nodes = {x, y}

(* Their files have the same number of packets.                            *)
SamePackets == \A n, p \in Nodes : num_of_packets(n) = num_of_packets(p)

LEMMA OnlyPeer ==
  ASSUME TwoNodes, NEW n \in Nodes, NEW p \in Nodes \ {n}
  PROVE  Nodes \ {n} = {p}
  BY DEF TwoNodes

(* What n has of p, as long as n has not heard of p, and when it is done.  *)
Unheard(n, p) ==
  p \notin Known(n) => /\ retras[n][p] = {}
                       /\ ~recievedComplete[n][p]
                       /\ ~finishRestramit[n][p]

FileMarked(n, p) ==
  \A i \in Pkts(n) : myfile[n][i] = IF i \in retras[n][p] THEN Chunk(p, i) ELSE Hole

ToldTruly(n, p) == finishRestramit[n][p] => recievedComplete[p][n]

EndedTruly(n, p) ==
  /\ nack[n] = "exited" => recievedComplete[n][p]
  /\ recv[n] = "done" => recievedComplete[n][p] /\ finishRestramit[n][p]

PairInv ==
  \A n \in Nodes : \A p \in Nodes \ {n} :
    Unheard(n, p) /\ FileMarked(n, p) /\ ToldTruly(n, p) /\ EndedTruly(n, p)

(* A final ack on the wire comes from a node that has the whole file.      *)
AcksTrue ==
  \A m \in wire : m.kind = "nack" /\ m.seqno = FinalAck => recievedComplete[m.src][m.dest]

TwoInv == NodeTypes /\ MarkInv /\ PairInv /\ AcksTrue

LEMMA InitTwoInv == Init => TwoInv
<1> SUFFICES ASSUME Init PROVE TwoInv
  OBVIOUS
<1>1. NodeTypes
  BY InitNodeTypes
<1>2. AcksTrue
  BY DEF Init, AcksTrue
<1>3. PairInv
  BY DEF Init, PairInv, Unheard, FileMarked, ToldTruly, EndedTruly, NoPackets
<1>4. MarkInv
  BY DEF Init, MarkInv, AllMarked, NoPackets
<1> QED
  BY <1>1, <1>2, <1>3, <1>4 DEF TwoInv

LEMMA AllKnown ==
  ASSUME TwoNodes, NodeTypes, NEW n \in Nodes, NEW p \in Nodes \ {n}
  PROVE  /\ if_all_data_recvd(n) => p \in Known(n) /\ recievedComplete[n][p]
         /\ if_all_retras_done(n) => finishRestramit[n][p]
<1>1. track[n] \in Seq(Nodes) /\ Known(n) \subseteq {p}
  BY OnlyPeer DEF NodeTypes, ListTypes
<1>2. track[n] # <<>> => 1 \in DOMAIN track[n]
  BY <1>1
<1>3. track[n] # <<>> => p \in Known(n)
  <2>1. track[n] # <<>> => track[n][1] \in Known(n)
    BY <1>2 DEF Known
  <2> QED
    BY <1>1, <2>1
<1> QED
  BY <1>3 DEF if_all_data_recvd, if_all_retras_done

LEMMA AllKnownNext ==
  ASSUME TwoNodes, NodeTypes', NEW n \in Nodes, NEW p \in Nodes \ {n}, if_all_data_recvd(n)'
  PROVE  recievedComplete'[n][p]
<1>1. track'[n] \in Seq(Nodes) /\ Known(n)' \subseteq {p}
  BY OnlyPeer DEF NodeTypes, ListTypes
<1>2. track'[n] # <<>>
  BY DEF if_all_data_recvd
<1>3. 1 \in DOMAIN track'[n]
  BY <1>1, <1>2
<1>4. p \in Known(n)'
  <2>1. track'[n][1] \in Known(n)'
    BY <1>3 DEF Known
  <2> QED
    BY <1>1, <2>1
<1> QED
  BY <1>4 DEF if_all_data_recvd

(* Final acks sent by a node that is complete are true.                    *)
LEMMA AcksStayTrue ==
  ASSUME TwoNodes, TwoInv, NEW n \in Nodes,
         wire' \subseteq wire \cup SendACKS(n),
         \A q \in Nodes, r \in Nodes : recievedComplete[q][r] => recievedComplete'[q][r],
         SendACKS(n) \cap wire' \subseteq wire \/ \A p \in Nodes \ {n} : recievedComplete'[n][p]
  PROVE  AcksTrue'
<1> SUFFICES ASSUME NEW m \in wire', m.kind = "nack", m.seqno = FinalAck
             PROVE  recievedComplete'[m.src][m.dest]
  BY DEF AcksTrue
<1>1. CASE m \in wire
  <2>1. m.src \in Nodes /\ m.dest \in Nodes /\ recievedComplete[m.src][m.dest]
    BY <1>1, SentFromPeer DEF TwoInv, AcksTrue
  <2> QED
    BY <2>1
<1>2. CASE m \notin wire
  <2>1. m \in SendACKS(n) /\ \A p \in Nodes \ {n} : recievedComplete'[n][p]
    BY <1>2
  <2>2. PICK d \in Peers(n) : m = Nack(n, d, FinalAck)
    BY <2>1 DEF SendACKS
  <2>3. m.src = n /\ m.dest = d /\ d \in Nodes \ {n}
    BY <2>2, PeersType DEF Nack
  <2> QED
    BY <2>1, <2>3
<1> QED
  BY <1>1, <1>2

(* Nothing but the wire, or the program counters before their ends, moves. *)
LEMMA PairSame ==
  ASSUME PairInv, UNCHANGED trackVars,
         \A n \in Nodes : nack'[n] = "exited" => nack[n] = "exited",
         \A n \in Nodes : recv'[n] = "done" => recv[n] = "done"
  PROVE  PairInv'
  BY DEF PairInv, trackVars, Unheard, FileMarked, ToldTruly, EndedTruly, Known

(* A step that puts no final ack on the wire.                              *)
LEMMA AcksSame ==
  ASSUME AcksTrue, UNCHANGED recievedComplete,
         \A m \in wire' : m \in wire \/ m.kind # "nack" \/ m.seqno # FinalAck
  PROVE  AcksTrue'
  BY DEF AcksTrue

LEMMA MainStepTwo ==
  ASSUME TwoInv, NEW n \in Nodes, SendNext(n) \/ StartNACKThread(n)
  PROVE  PairInv' /\ AcksTrue'
<1>1. \A q \in Nodes : nack'[q] = "exited" => nack[q] = "exited"
  BY DEF SendNext, StartNACKThread, nackVars, TwoInv, NodeTypes, NackTypes
<1>2. UNCHANGED <<recv, trackVars, recievedComplete>>
  BY DEF SendNext, StartNACKThread, trackVars
<1>3. \A m \in wire' : m \in wire \/ m.kind # "nack"
  BY DEF SendNext, StartNACKThread, Data
<1> QED
  BY <1>1, <1>2, <1>3, PairSame, AcksSame DEF TwoInv

LEMMA TopTwo ==
  ASSUME TwoNodes, TwoInv, NEW n \in Nodes, AllDone(n) \/ GoOn(n)
  PROVE  PairInv' /\ AcksTrue'
<1>1. CASE GoOn(n)
  <2>1. \A q \in Nodes : recv'[q] = "done" => recv[q] = "done"
    BY <1>1 DEF GoOn, TwoInv, NodeTypes, MainTypes
  <2> QED
    BY <1>1, <2>1, PairSame, AcksSame DEF GoOn, TwoInv, nackVars, trackVars
<1>2. CASE AllDone(n)
  <2>1. \A p \in Nodes \ {n} : recievedComplete[n][p] /\ finishRestramit[n][p]
    BY <1>2, AllKnown DEF AllDone, alldone, TwoInv
  <2>2. /\ recv' = [recv EXCEPT ![n] = "done"]
        /\ wire' = wire \cup SendACKS(n)
        /\ UNCHANGED <<track, retras, recievedComplete, finishRestramit, myfile, nack>>
    BY <1>2 DEF AllDone, trackVars, nackVars
  <2>3. PairInv'
    BY <2>1, <2>2
    DEF TwoInv, NodeTypes, MainTypes, PairInv, Unheard, FileMarked, ToldTruly,
        EndedTruly, Known
  <2>4. AcksTrue'
    BY <2>1, <2>2, AcksStayTrue
  <2> QED
    BY <2>3, <2>4
<1> QED
  BY <1>1, <1>2

LEMMA ReceiveDataTwo ==
  ASSUME TwoNodes, TwoInv, NEW n \in Nodes, NEW m \in wire, ReceiveData(n, m)
  PROVE  PairInv' /\ AcksTrue'
<1> DEFINE p == m.src
           i == m.seqno
<1>1. p \in Nodes \ {n} /\ m.chunk = Chunk(p, i)
  BY SentFromPeer DEF ReceiveData, Takes, Data, TwoInv
<1>2. NodeTypes /\ NodeTypes'
  BY ReceiveDataTypes DEF TwoInv
<1>3. /\ recv' = [recv EXCEPT ![n] = "top"]
      /\ track' = [track EXCEPT ![n] = TrackWith(n, p)]
      /\ recievedComplete' = [recievedComplete EXCEPT ![n][p] = @ \/ Complete(n, p)']
      /\ wire' = wire \cup (IF if_all_data_recvd(n)' THEN SendACKS(n) ELSE {})
      /\ UNCHANGED <<finishRestramit, nack>>
  BY DEF ReceiveData, Takes, nackVars
<1>4. /\ p \in Known(n)'
      /\ \A q \in Nodes : q # n => Known(q)' = Known(q)
  <2> HIDE DEF p
  <2>1. /\ Known(n)' = Known(n) \cup {p}
        /\ \A q \in Nodes : q # n => Known(q)' = Known(q)
    BY <1>1, <1>2, <1>3, ListGrows
  <2> QED
    BY <2>1
<1>5. \A q \in Nodes : q # n => retras'[q] = retras[q] /\ myfile'[q] = myfile[q]
  BY <1>2 DEF ReceiveData, NodeTypes, FileTypes
<1>6. /\ recievedComplete'[n][p] = (recievedComplete[n][p] \/ Complete(n, p)')
      /\ \A q \in Nodes, r \in Nodes :
           q # n \/ r # p => recievedComplete'[q][r] = recievedComplete[q][r]
      /\ \A q \in Nodes, r \in Nodes : recievedComplete[q][r] => recievedComplete'[q][r]
  BY <1>1, <1>2, <1>3 DEF NodeTypes, FileTypes
<1>7. /\ retras[n][p] \subseteq retras'[n][p]
      /\ retras'[n][p] \subseteq Pkts(n)
      /\ FileMarked(n, p)'
  <2>1. FileMarked(n, p) /\ Unheard(n, p)
    BY <1>1 DEF TwoInv, PairInv
  <2>2. \A j \in Pkts(n) : FileWith(n, p)[j] = IF j \in retras[n][p] THEN Chunk(p, j) ELSE Hole
    BY <2>1 DEF FileMarked, Unheard, FileWith
  <2>3. FileWith(n, p) \in [Pkts(n) -> Chunks \cup {Hole}] /\ retras'[n][p] \subseteq Pkts(n)
    BY <1>1, <1>2, FileWithType DEF NodeTypes, FileTypes
  <2>4. CASE FirstArrival(n, p, i)
    <3>1. /\ i \in Pkts(n)
          /\ retras' = [retras EXCEPT ![n][p] = @ \cup {i}]
          /\ myfile' = [myfile EXCEPT ![n] = [FileWith(n, p) EXCEPT ![i] = m.chunk]]
      BY <2>4 DEF ReceiveData, FirstArrival
    <3>2. retras'[n][p] = retras[n][p] \cup {i}
      BY <1>1, <1>2, <3>1 DEF NodeTypes, FileTypes
    <3>3. myfile'[n] = [FileWith(n, p) EXCEPT ![i] = Chunk(p, i)]
      BY <1>1, <1>2, <3>1 DEF NodeTypes, FileTypes
    <3> QED
      BY <2>2, <2>3, <3>1, <3>2, <3>3 DEF FileMarked
  <2>5. CASE ~FirstArrival(n, p, i)
    <3>1. retras' = retras /\ myfile'[n] = FileWith(n, p)
      BY <1>2, <2>5 DEF ReceiveData, NodeTypes, FileTypes
    <3> QED
      BY <2>2, <2>3, <3>1 DEF FileMarked
  <2> QED
    BY <2>4, <2>5
<1>9. PairInv'
  <2> SUFFICES ASSUME NEW q \in Nodes, NEW r \in Nodes \ {q}
               PROVE  (Unheard(q, r) /\ FileMarked(q, r) /\ ToldTruly(q, r)
                        /\ EndedTruly(q, r))'
    BY DEF PairInv
  <2>1. Unheard(q, r) /\ FileMarked(q, r) /\ ToldTruly(q, r) /\ EndedTruly(q, r)
    BY DEF TwoInv, PairInv
  <2>2. ToldTruly(q, r)'
    BY <1>3, <1>6, <2>1 DEF ToldTruly
  <2>3. recv'[q] = "done" => recv[q] = "done"
    BY <1>2, <1>3 DEF NodeTypes, MainTypes
  <2>4. EndedTruly(q, r)'
    BY <1>3, <1>6, <2>1, <2>3 DEF EndedTruly
  <2>5. CASE q = n
    <3>1. r = p
      BY <1>1, <2>5, OnlyPeer
    <3>2. Unheard(q, r)'
      BY <1>4, <2>5, <3>1 DEF Unheard
    <3> QED
      BY <1>7, <2>2, <2>4, <2>5, <3>1, <3>2
  <2>6. CASE q # n
    <3>1. Unheard(q, r)' /\ FileMarked(q, r)'
      BY <1>3, <1>4, <1>5, <1>6, <2>1, <2>6 DEF Unheard, FileMarked
    <3> QED
      BY <2>2, <2>4, <3>1
  <2> QED
    BY <2>5, <2>6
<1>10. AcksTrue'
  <2>1. CASE if_all_data_recvd(n)'
    <3>1. \A r \in Nodes \ {n} : recievedComplete'[n][r]
      BY <1>2, <2>1, AllKnownNext
    <3> QED
      BY <1>3, <1>6, <2>1, <3>1, AcksStayTrue
  <2>2. CASE ~if_all_data_recvd(n)'
    BY <1>3, <1>6, <2>2, AcksStayTrue
  <2> QED
    BY <2>1, <2>2
<1> QED
  BY <1>9, <1>10

LEMMA ReceiveFinalAckTwo ==
  ASSUME TwoNodes, TwoInv, NEW n \in Nodes, NEW m \in wire, ReceiveFinalAck(n, m)
  PROVE  PairInv' /\ AcksTrue'
<1> DEFINE p == m.src
<1>1. /\ p \in Nodes \ {n} /\ m.dest = n /\ m.kind = "nack" /\ m.seqno = FinalAck
  BY SentFromPeer DEF ReceiveFinalAck, Takes, TwoInv
<1>2. recievedComplete[p][n]
  BY <1>1 DEF TwoInv, AcksTrue
<1>3. /\ recv' = [recv EXCEPT ![n] = "top"]
      /\ track' = [track EXCEPT ![n] = TrackWith(n, p)]
      /\ myfile' = [myfile EXCEPT ![n] = FileWith(n, p)]
      /\ finishRestramit' = [finishRestramit EXCEPT ![n][p] = TRUE]
      /\ UNCHANGED <<retras, recievedComplete, nack, wire>>
  BY DEF ReceiveFinalAck, Takes, nackVars
<1>4. NodeTypes
  BY DEF TwoInv
<1>5. /\ p \in Known(n)'
      /\ \A q \in Nodes : q # n => Known(q)' = Known(q)
  <2> HIDE DEF p
  <2>1. /\ Known(n)' = Known(n) \cup {p}
        /\ \A q \in Nodes : q # n => Known(q)' = Known(q)
    BY <1>1, <1>3, <1>4, ListGrows
  <2> QED
    BY <2>1
<1>6. /\ \A q \in Nodes : q # n => myfile'[q] = myfile[q]
      /\ myfile'[n] = FileWith(n, p)
  BY <1>3, <1>4 DEF NodeTypes, FileTypes
<1>7. /\ finishRestramit'[n][p]
      /\ \A q \in Nodes, r \in Nodes :
           q # n \/ r # p => finishRestramit'[q][r] = finishRestramit[q][r]
  BY <1>1, <1>3, <1>4 DEF NodeTypes, FileTypes
<1>8. PairInv'
  <2> SUFFICES ASSUME NEW q \in Nodes, NEW r \in Nodes \ {q}
               PROVE  (Unheard(q, r) /\ FileMarked(q, r) /\ ToldTruly(q, r)
                        /\ EndedTruly(q, r))'
    BY DEF PairInv
  <2>1. Unheard(q, r) /\ FileMarked(q, r) /\ ToldTruly(q, r) /\ EndedTruly(q, r)
    BY DEF TwoInv, PairInv
  <2>2. ToldTruly(q, r)'
    BY <1>2, <1>3, <1>7, <2>1 DEF ToldTruly
  <2>3. recv'[q] = "done" => recv[q] = "done"
    BY <1>3, <1>4 DEF NodeTypes, MainTypes
  <2>4. EndedTruly(q, r)'
    BY <1>3, <1>7, <2>1, <2>3 DEF EndedTruly
  <2>5. CASE q = n
    <3>1. r = p
      BY <1>1, <2>5, OnlyPeer
    <3>2. Unheard(q, r)'
      BY <1>5, <2>5, <3>1 DEF Unheard
    <3>3. FileMarked(q, r)'
      BY <1>3, <1>6, <2>1, <2>5, <3>1 DEF FileMarked, Unheard, FileWith
    <3> QED
      BY <2>2, <2>4, <3>2, <3>3
  <2>6. CASE q # n
    <3>1. Unheard(q, r)' /\ FileMarked(q, r)'
      BY <1>3, <1>5, <1>6, <1>7, <2>1, <2>6 DEF Unheard, FileMarked
    <3> QED
      BY <2>2, <2>4, <3>1
  <2> QED
    BY <2>5, <2>6
<1>9. AcksTrue'
  BY <1>3 DEF TwoInv, AcksTrue
<1> QED
  BY <1>8, <1>9

LEMMA ReceiveNackTwo ==
  ASSUME TwoInv, NEW n \in Nodes, NEW m \in wire, ReceiveNack(n, m)
  PROVE  PairInv' /\ AcksTrue'
<1>1. \A q \in Nodes : recv'[q] = "done" => recv[q] = "done"
  BY DEF ReceiveNack, Takes, TwoInv, NodeTypes, MainTypes
<1>2. UNCHANGED <<trackVars, recievedComplete, nack>>
  BY DEF ReceiveNack, trackVars, nackVars
<1>3. \A a \in wire' : a \in wire \/ a.kind # "nack"
  BY DEF ReceiveNack, Answer, Data
<1> QED
  BY <1>1, <1>2, <1>3, PairSame, AcksSame DEF TwoInv

LEMMA NACKTwo ==
  ASSUME TwoNodes, TwoInv, NEW n \in Nodes, NACKTest(n) \/ NACKNext(n) \/ NACKSend(n)
  PROVE  PairInv' /\ AcksTrue'
<1>1. UNCHANGED <<recv, trackVars, recievedComplete>>
  BY DEF NACKTest, NACKNext, NACKSend, trackVars
<1>2. CASE NACKTest(n)
  <2>1. nack'[n] = "exited" => \A p \in Nodes \ {n} : recievedComplete[n][p]
    BY <1>2, AllKnown DEF NACKTest, TwoInv, NodeTypes, NackTypes
  <2>2. \A q \in Nodes : q # n => nack'[q] = nack[q]
    BY <1>2 DEF NACKTest, TwoInv, NodeTypes, NackTypes
  <2>3. PairInv'
    BY <1>1, <2>1, <2>2
    DEF TwoInv, PairInv, trackVars, Unheard, FileMarked, ToldTruly, EndedTruly, Known
  <2>4. AcksTrue'
    BY <1>1, <1>2, AcksSame DEF NACKTest, TwoInv
  <2> QED
    BY <2>3, <2>4
<1>3. CASE NACKNext(n) \/ NACKSend(n)
  <2>1. \A q \in Nodes : nack'[q] = "exited" => nack[q] = "exited"
    BY <1>3 DEF NACKNext, NACKSend, TwoInv, NodeTypes, NackTypes
  <2>2. requestIndex[n] # FinalAck
    BY PktsType DEF TwoInv, NodeTypes, NackTypes
  <2>3. \A m \in wire' : m \in wire \/ m.seqno # FinalAck
    BY <1>3, <2>2 DEF NACKNext, NACKSend, Nack
  <2> QED
    BY <1>1, <2>1, <2>3, PairSame, AcksSame DEF TwoInv
<1> QED
  BY <1>2, <1>3

LEMMA TwoInvStep == TwoNodes /\ TwoInv /\ [Next]_vars => TwoInv'
<1> SUFFICES ASSUME TwoNodes, TwoInv, [Next]_vars PROVE TwoInv'
  OBVIOUS
<1>1. NodeTypes'
  BY NodeTypesStep DEF TwoInv
<1>2. ASSUME UNCHANGED vars PROVE PairInv' /\ AcksTrue'
  <2>1. UNCHANGED <<recv, nack, trackVars, recievedComplete, wire>>
    BY <1>2 DEF vars, trackVars, nackVars
  <2> QED
    BY <2>1, PairSame, AcksSame DEF TwoInv
<1>3. ASSUME NEW n \in Nodes, NodeStep(n) PROVE PairInv' /\ AcksTrue'
  BY <1>3, MainStepTwo, TopTwo, ReceiveDataTwo, ReceiveFinalAckTwo, ReceiveNackTwo, NACKTwo
  DEF NodeStep, RecvStep, NACKStep
<1>4. ASSUME NEW m \in wire, Lose(m) PROVE PairInv' /\ AcksTrue'
  <2>1. UNCHANGED <<recv, nack, trackVars, recievedComplete>> /\ wire' \subseteq wire
    BY <1>4 DEF Lose, trackVars, nackVars
  <2> QED
    BY <2>1, PairSame, AcksSame DEF TwoInv
<1>5. PairInv' /\ AcksTrue'
  BY <1>2, <1>3, <1>4 DEF Next
<1>6. MarkInv'
  BY MarkStep DEF TwoInv
<1> QED
  BY <1>1, <1>5, <1>6 DEF TwoInv

LEMMA TwoInvariance == TwoNodes => (Spec => []TwoInv)
<1> SUFFICES ASSUME TwoNodes PROVE Spec => []TwoInv
  OBVIOUS
<1>1. TwoInv /\ [Next]_vars => TwoInv'
  BY TwoInvStep
<1> QED
  BY <1>1, InitTwoInv, PTL DEF Spec

(* What n has of p when its recievedComplete says so.                      *)
LEMMA CompletePrefix ==
  ASSUME TwoNodes, TwoInv, NEW n \in Nodes, NEW p \in Nodes \ {n}, recievedComplete[n][p]
  PROVE  /\ num_of_packets(n) <= num_of_packets(p)
         /\ \A i \in Pkts(n) : i \in Pkts(p) /\ myfile[n][i] = Chunk(p, i)
<1>1. retras[n][p] = Pkts(n) /\ retras[n][p] \subseteq Pkts(p)
  BY DEF TwoInv, MarkInv, AllMarked
<1>2. FileMarked(n, p)
  BY DEF TwoInv, PairInv
<1> QED
  BY <1>1, <1>2, NoMorePackets DEF FileMarked

LEMMA CompleteHas ==
  ASSUME TwoNodes, SamePackets, TwoInv, NEW n \in Nodes, NEW p \in Nodes \ {n},
         recievedComplete[n][p]
  PROVE  Has(n, p)
<1>1. Pkts(n) = Pkts(p)
  BY DEF SamePackets, Pkts
<1> QED
  BY <1>1, CompletePrefix DEF Has

(* Between two nodes, whatever their files: a node that has been told so   *)
(* by its peer has at least as many packets as the peer, and the peer has  *)
(* stored the first of them, as many as its own file has (mynode.c:301,    *)
(* 385).                                                                   *)
FinishMeansPrefix ==
  \A n \in Nodes : \A p \in Nodes \ {n} : finishRestramit[n][p] =>
    /\ num_of_packets(p) <= num_of_packets(n)
    /\ \A i \in Pkts(p) : i \in Pkts(n) /\ myfile[p][i] = Chunk(n, i)

THEOREM PrefixCorrect == TwoNodes => (Spec => []FinishMeansPrefix)
<1> SUFFICES ASSUME TwoNodes PROVE Spec => []FinishMeansPrefix
  OBVIOUS
<1>1. TwoInv => FinishMeansPrefix
  <2> SUFFICES ASSUME TwoInv, NEW n \in Nodes, NEW p \in Nodes \ {n}, finishRestramit[n][p]
               PROVE  /\ num_of_packets(p) <= num_of_packets(n)
                      /\ \A i \in Pkts(p) : i \in Pkts(n) /\ myfile[p][i] = Chunk(n, i)
    BY DEF FinishMeansPrefix
  <2>1. recievedComplete[p][n] /\ n \in Nodes \ {p}
    BY DEF TwoInv, PairInv, ToldTruly
  <2> QED
    BY <2>1, CompletePrefix
<1> QED
  BY <1>1, TwoInvariance, PTL

(* Two nodes whose files differ in their numbers of packets never come to  *)
(* their ends (mynode.c:262-268): the one with more packets never has      *)
(* enough of the other's, and the other one is never told that it has.     *)
NoneEnds == \A n \in Nodes : recv[n] # "done"

THEOREM DifferentLengthsNeverEnd == TwoNodes /\ ~SamePackets => (Spec => []NoneEnds)
<1> SUFFICES ASSUME TwoNodes, ~SamePackets PROVE Spec => []NoneEnds
  OBVIOUS
<1>1. TwoInv => NoneEnds
  <2> SUFFICES ASSUME TwoInv, NEW n \in Nodes, recv[n] = "done" PROVE FALSE
    BY DEF NoneEnds
  <2>1. PICK p \in Nodes \ {n} : num_of_packets(n) # num_of_packets(p)
    BY DEF TwoNodes, SamePackets
  <2>2. recievedComplete[n][p] /\ recievedComplete[p][n] /\ n \in Nodes \ {p}
    BY DEF TwoInv, PairInv, EndedTruly, ToldTruly
  <2>3. /\ num_of_packets(n) <= num_of_packets(p) /\ num_of_packets(p) <= num_of_packets(n)
        /\ num_of_packets(n) \in Nat /\ num_of_packets(p) \in Nat
    BY <2>2, CompletePrefix, NumOfPackets
  <2> QED
    BY <2>1, <2>3
<1> QED
  BY <1>1, TwoInvariance, PTL

(* FinishMeansStored holds between any two nodes whose files have the same *)
(* number of packets: what a node has been told is stored, is.             *)
THEOREM FinishCorrect == TwoNodes /\ SamePackets => (Spec => []FinishMeansStored)
<1> SUFFICES ASSUME TwoNodes, SamePackets PROVE Spec => []FinishMeansStored
  OBVIOUS
<1>1. TwoInv => FinishMeansStored
  <2> SUFFICES ASSUME TwoInv, NEW n \in Nodes, NEW p \in Nodes \ {n}, finishRestramit[n][p]
               PROVE  Has(p, n)
    BY DEF FinishMeansStored
  <2>1. recievedComplete[p][n] /\ n \in Nodes \ {p}
    BY DEF TwoInv, PairInv, ToldTruly
  <2> QED
    BY <2>1, CompleteHas
<1> QED
  BY <1>1, TwoInvariance, PTL

(* MarksMatchFile holds between such nodes.                                *)
THEOREM MarksCorrect == TwoNodes /\ SamePackets => (Spec => []MarksMatchFile)
<1> SUFFICES ASSUME TwoNodes, SamePackets PROVE Spec => []MarksMatchFile
  OBVIOUS
<1>1. TwoInv => MarksMatchFile
  <2> SUFFICES ASSUME TwoInv, NEW n \in Nodes, NEW p \in Nodes \ {n}
               PROVE  /\ \A i \in Pkts(n) :
                           IF i \in retras[n][p] THEN myfile[n][i] = Chunk(p, i)
                                                 ELSE myfile[n][i] = Hole
                      /\ nack[n] = "exited" => Has(n, p)
    BY DEF MarksMatchFile
  <2>1. FileMarked(n, p) /\ EndedTruly(n, p)
    BY DEF TwoInv, PairInv
  <2>2. nack[n] = "exited" => Has(n, p)
    BY <2>1, CompleteHas DEF EndedTruly
  <2> QED
    BY <2>1, <2>2 DEF FileMarked
<1> QED
  BY <1>1, TwoInvariance, PTL

-----------------------------------------------------------------------------
(* Two nodes that have silenced each other.                                *)

LEMMA MissesKnown ==
  ASSUME TwoNodes, TwoInv, NEW n \in Nodes, NEW p \in Nodes \ {n}, NEW i \in Pkts(n),
         i \notin retras[n][p]
  PROVE  ~recievedComplete[n][p] /\ ~finishRestramit[p][n] /\ ~if_all_retras_done(p)
<1>1. ~recievedComplete[n][p] /\ n \in Nodes \ {p}
  BY DEF TwoInv, MarkInv, AllMarked
<1>2. ~finishRestramit[p][n]
  BY <1>1 DEF TwoInv, PairInv, ToldTruly
<1> QED
  BY <1>1, <1>2, AllKnown DEF TwoInv

LEMMA SilentThread ==
  ASSUME NodeTypes, NEW n \in Nodes, nack[n] = "wait", flag[n], ~if_all_retras_done(n),
         NEW q \in Nodes, NodeStep(q)
  PROVE  nack'[n] = "wait" /\ flag'[n] /\ (q = n => ~NACKSend(q))
<1>1. CASE q # n
  BY <1>1, OnlyOwn
<1>2. CASE q = n
  <2>1. ~NACKTest(n) /\ ~NACKNext(n) /\ ~NACKSend(n) /\ ~StartNACKThread(n)
    BY DEF NACKTest, NACKNext, NACKSend, StartNACKThread, Spins
  <2>2. q = n => ~NACKSend(q)
    BY <2>1
  <2>3. nack'[n] = "wait" /\ flag'[n]
    <3>1. CASE GoOn(n)
      BY <3>1 DEF GoOn, NodeTypes, MainTypes, nackVars
    <3>2. CASE SendNext(n) \/ AllDone(n)
      BY <3>2 DEF SendNext, AllDone, nackVars
    <3>3. CASE \E m \in wire : ReceiveData(n, m) \/ ReceiveFinalAck(n, m) \/ ReceiveNack(n, m)
      BY <3>3 DEF ReceiveData, ReceiveFinalAck, ReceiveNack, nackVars, NodeTypes, MainTypes
    <3> QED
      BY <1>2, <2>1, <3>1, <3>2, <3>3 DEF NodeStep, RecvStep, NACKStep
  <2> QED
    BY <2>2, <2>3
<1> QED
  BY <1>1, <1>2

(* Nobody else asks in the name of n.                                      *)
LEMMA NotAsked ==
  ASSUME NodeTypes, NEW n \in Nodes, NEW p \in Nodes, NEW i \in Nat,
         Nack(n, p, i) \notin wire, NEW q \in Nodes, NodeStep(q), q = n => ~NACKSend(q)
  PROVE  Nack(n, p, i) \notin wire'
<1> DEFINE a == Nack(n, p, i)
<1>1. a.kind = "nack" /\ a.src = n /\ a.seqno = i /\ i # FinalAck
  BY DEF Nack, FinalAck
<1>2. a \notin SendACKS(q)
  BY <1>1 DEF SendACKS, Nack
<1>3. \A j : a \notin Answer(q, j)
  BY <1>1 DEF Answer, Data
<1>4. ~SendNext(q) \/ a \notin wire'
  BY <1>1 DEF SendNext, Data
<1>5. ~NACKSend(q) \/ a \notin wire'
  BY <1>1 DEF NACKSend, Nack
<1> HIDE DEF a
<1>6. a \notin wire
  BY DEF a
<1>7. a \notin wire'
  BY <1>2, <1>3, <1>4, <1>5, <1>6
  DEF NodeStep, RecvStep, NACKStep, StartNACKThread, AllDone, GoOn, ReceiveData,
      ReceiveFinalAck, ReceiveNack, NACKTest, NACKNext
<1> QED
  BY <1>7 DEF a

LEMMA SilenceStays ==
  ASSUME TwoNodes, TwoInv, [Next]_vars,
         NEW n \in Nodes, NEW p \in Nodes \ {n}, NEW i \in Pkts(n), NEW j \in Pkts(p),
         Deadlocked(n, p, i, j)
  PROVE  Silenced(n, p, i)'
<1>1. NodeTypes /\ i \in Nat
  BY PktsType DEF TwoInv
<1>2. /\ nack[n] = "wait" /\ flag[n] /\ i < seq[p] /\ i \notin retras[n][p]
      /\ Nack(n, p, i) \notin wire /\ Data(p, n, i) \notin wire /\ j \notin retras[p][n]
  BY DEF Deadlocked, Silenced
<1>3. Nack(n, p, i)' = Nack(n, p, i) /\ Data(p, n, i)' = Data(p, n, i)
  BY DEF Nack, Data, Chunk, calc_packet_size
<1>4. i < seq'[p]
  BY <1>1, <1>2, SentStays
<1>5. CASE UNCHANGED vars
  BY <1>2, <1>3, <1>5 DEF vars, nackVars, Silenced
<1>6. ASSUME NEW m \in wire, Lose(m) PROVE Silenced(n, p, i)'
  BY <1>2, <1>3, <1>6 DEF Lose, trackVars, nackVars, Silenced
<1>7. ASSUME NEW q \in Nodes, NodeStep(q) PROVE Silenced(n, p, i)'
  <2>1. ~if_all_retras_done(n)
    BY <1>2, MissesKnown
  <2>2. nack'[n] = "wait" /\ flag'[n] /\ (q = n => ~NACKSend(q))
    BY <1>1, <1>2, <1>7, <2>1, SilentThread
  <2>3. Nack(n, p, i) \notin wire'
    BY <1>1, <1>2, <1>7, <2>2, NotAsked
  <2>4. ASSUME NEW m \in wire, ReceiveNack(p, m) PROVE Data(p, n, i) \notin Answer(p, m.seqno)
    <3>1. m.kind = "nack" /\ m.dest = p
      BY <2>4 DEF ReceiveNack, Takes
    <3>2. m = Nack(m.src, m.dest, m.seqno) /\ m.src \in Nodes \ {p}
      BY <1>1, <3>1, SentFromPeer
    <3>3. m.src = n
      BY <3>2, OnlyPeer
    <3>4. m.seqno # i
      BY <1>2, <3>1, <3>2, <3>3
    <3> QED
      BY <3>4 DEF Answer, Data
  <2>5. Data(p, n, i) \notin wire'
    BY <1>1, <1>2, <1>7, <2>4, NotSentAgain
  <2>6. i \notin retras'[n][p]
    BY <1>1, <1>2, <1>7, NotMarked
  <2> QED
    BY <1>3, <1>4, <2>2, <2>3, <2>5, <2>6 DEF Silenced
<1> QED
  BY <1>5, <1>6, <1>7 DEF Next

(* SilenceIsFatal holds between any two nodes, whatever their files: a     *)
(* node's flag falls only when its peer has sent it a final ack, and the   *)
(* peer, which misses a packet, cannot have.                               *)
THEOREM SilenceCorrect == TwoNodes => (Spec => SilenceIsFatal)
<1> SUFFICES ASSUME TwoNodes PROVE Spec => SilenceIsFatal
  OBVIOUS
<1>1. TwoInv /\ [Next]_vars =>
        [\A n \in Nodes : \A p \in Nodes \ {n} : \A i \in Pkts(n), j \in Pkts(p) :
           Deadlocked(n, p, i, j) => Deadlocked(n, p, i, j)']_vars
  <2> SUFFICES ASSUME TwoInv, [Next]_vars,
                      NEW n \in Nodes, NEW p \in Nodes \ {n}, NEW i \in Pkts(n),
                      NEW j \in Pkts(p), Deadlocked(n, p, i, j)
               PROVE  Deadlocked(n, p, i, j)'
    OBVIOUS
  <2>1. Deadlocked(p, n, j, i) /\ n \in Nodes \ {p} /\ p \in Nodes
    BY DEF Deadlocked
  <2>2. Silenced(n, p, i)'
    BY SilenceStays
  <2>3. Silenced(p, n, j)'
    BY <2>1, SilenceStays
  <2> QED
    BY <2>2, <2>3 DEF Deadlocked
<1> QED
  BY <1>1, TwoInvariance, PTL DEF Spec, SilenceIsFatal
=============================================================================
