-------------------------- MODULE UdpTransferProofs --------------------------
(***************************************************************************)
(* Proofs about UdpTransfer, for every file size, payload and contents.    *)
(***************************************************************************)
EXTENDS UdpTransfer, FiniteSetTheorems, TLAPS

-----------------------------------------------------------------------------
(* Arithmetic of sizes.                                                    *)

LEMMA DivMod ==
  ASSUME NEW n \in Nat, NEW d \in Nat \ {0}
  PROVE  /\ n \div d \in Nat
         /\ n % d \in 0..(d - 1)
  OBVIOUS

LEMMA Sizes == TotalSeq \in Nat /\ LeftByte \in 0..(Payload - 1)
  BY DivMod, SizesAssumption DEF TotalSeq, LeftByte

(* A retransmission carries at least one byte and at most a payload        *)
(* (client.c:169-176).                                                     *)
LEMMA RetransmitSizeType ==
  ASSUME filesize \in Nat, NEW p
  PROVE  RetransmitSize(p) \in 1..Payload
<1>1. filesize % Payload \in 0..(Payload - 1)
  BY DivMod, SizesAssumption
<1>2. Payload \in 1..Payload
  BY SizesAssumption
<1> QED
  BY <1>1, <1>2, SizesAssumption DEF RetransmitSize

LEMMA HoleNotChunk == Hole \notin Chunk
  BY SizesAssumption DEF Hole, Chunk

LEMMA OriginalType == Original \in [Seqs -> Chunk \cup {Hole}]
<1> SUFFICES ASSUME NEW i \in Seqs, ChunkSize(i) # 0
             PROVE  [buf |-> Text[i], size |-> ChunkSize(i)] \in Chunk
  BY DEF Original
<1>1. Text[i] \in Bytes
  BY BytesAssumption
<1>2. ChunkSize(i) \in 1..Payload
  BY Sizes, SizesAssumption DEF ChunkSize, Seqs
<1> QED
  BY <1>1, <1>2 DEF Chunk

-----------------------------------------------------------------------------
(* The inductive invariant.                                                *)

LEMMA WrittenFinite == IsFiniteSet(Written) /\ Cardinality(Written) \in Nat
<1>1. IsFiniteSet(Seqs)
  BY Sizes, FS_Interval DEF Seqs
<1>2. Written \subseteq Seqs
  BY DEF Written
<1> QED
  BY <1>1, <1>2, FS_Subset, FS_CardinalityType

LEMMA InitIndInv == Init => IndInv
<1> SUFFICES ASSUME Init PROVE IndInv
  OBVIOUS
<1>1. Written = {}
  BY DEF Init, Written
<1>2. TypeOK
  BY Sizes, SizesAssumption, OriginalType DEF Init, TypeOK, Seqs
<1>3. CountMatchesFile
  BY <1>1, FS_EmptySet DEF CountMatchesFile, Init
<1> QED
  BY <1>1, <1>2, <1>3 DEF Init, IndInv, SourceFixed, SizeAgreed, DgramsTrue,
       IntsTrue, AckSeen, NakInRange, StoredMarked, StoredTrue, BeforeLoop,
       AfterLoop, Finished

(* A step that leaves the receiver's file alone leaves alone what is said  *)
(* about the number of packets in it.                                      *)
LEMMA SameFile ==
  ASSUME UNCHANGED <<file, totalPacketsArrived>>
  PROVE  /\ Written' = Written
         /\ CountMatchesFile' <=> CountMatchesFile
<1>1. Written' = Written
  BY DEF Written
<1> QED
  BY <1>1 DEF CountMatchesFile

LEMMA StartSenderInv == IndInv /\ StartSender => IndInv'
<1> SUFFICES ASSUME IndInv, StartSender PROVE IndInv'
  OBVIOUS
<1> USE DEF IndInv, StartSender, mainVars, nakVars
<1>1. Written' = Written /\ CountMatchesFile'
  BY SameFile
<1>2. TypeOK'
  BY DEF TypeOK
<1> QED
  BY <1>1, <1>2 DEF SourceFixed, SizeAgreed, DgramsTrue, IntsTrue, AckSeen,
       NakInRange, StoredMarked, StoredTrue, BeforeLoop, AfterLoop,
       Finished

LEMMA SendNextInv == IndInv /\ SendNext => IndInv'
<1> SUFFICES ASSUME IndInv, SendNext PROVE IndInv'
  OBVIOUS
<1> USE DEF IndInv, SendNext, mainVars, nakVars
<1>1. Written' = Written /\ CountMatchesFile'
  BY SameFile
<1> DEFINE d == Dgram(seq, src[seq])
<1>2. /\ d \in Message
      /\ d.kind = "dgram"
      /\ d.first \in Seqs
      /\ d.chunk = src[d.first]
  BY DEF TypeOK, MoreToSend, Dgram, Message
<1> HIDE DEF d
<1>3. toReceiver' = toReceiver \cup {d}
  BY DEF d
<1>4. TypeOK'
  BY <1>2, <1>3 DEF TypeOK
<1>5. DgramsTrue'
  BY <1>2, <1>3 DEF DgramsTrue
<1> QED
  BY <1>1, <1>4, <1>5 DEF SourceFixed, SizeAgreed, IntsTrue, AckSeen,
       NakInRange, StoredMarked, StoredTrue, BeforeLoop, AfterLoop,
       Finished

(* The reply to a NAK of a packet of the file is the chunk itself: the     *)
(* short last packet is the only one for which RetransmitSize is not       *)
(* Payload (client.c:169-185).                                             *)
LEMMA AnswerTrue ==
  ASSUME src \in [Seqs -> Chunk \cup {Hole}], SourceFixed, NEW i \in Seqs
  PROVE  /\ Copied(i) \in Chunk
         /\ src[i] # Hole => Copied(i) = src[i]
<1>1. RetransmitSize(i) \in 1..Payload
  BY RetransmitSizeType, SizesAssumption DEF SourceFixed
<1>2. src[i].buf \in Bytes
  BY BytesAssumption DEF Chunk, Hole
<1>3. Copied(i) = [buf |-> src[i].buf, size |-> RetransmitSize(i)]
  BY DEF Copied
<1>4. Copied(i) \in Chunk
  BY <1>1, <1>2, <1>3 DEF Chunk
<1>5. ASSUME src[i] # Hole
      PROVE  Copied(i) = src[i]
  <2>1. src[i] = [buf |-> Text[i], size |-> ChunkSize(i)] /\ ChunkSize(i) # 0
    BY <1>5 DEF SourceFixed, Original
  <2>2. RetransmitSize(i) = ChunkSize(i)
    BY <2>1, Sizes, SizesAssumption
       DEF SourceFixed, RetransmitSize, ChunkSize, Seqs, TotalSeq, LeftByte
  <2> QED
    BY <1>3, <2>1, <2>2
<1> QED
  BY <1>4, <1>5

LEMMA AnswerInv ==
  ASSUME NEW m, IndInv, Answer(m)
  PROVE  IndInv'
<1> USE DEF IndInv, Answer, IsAck, sendVars, mainVars, nakVars
<1>1. Written' = Written /\ CountMatchesFile'
  BY SameFile
<1> DEFINE d == Dgram(m.first, Copied(m.first))
<1>2. m.first \in Seqs
  BY DEF IntsTrue, Seqs
<1>3. /\ Copied(m.first) \in Chunk
      /\ src[m.first] # Hole => Copied(m.first) = src[m.first]
  BY <1>2, AnswerTrue DEF TypeOK
<1>4. /\ d \in Message
      /\ d.kind = "dgram"
      /\ d.first \in Seqs
      /\ src[d.first] # Hole => d.chunk = src[d.first]
  BY <1>2, <1>3, Sizes DEF Dgram, Message, Seqs
<1> HIDE DEF d
<1>5. toReceiver' = toReceiver \cup {d}
  BY DEF d
<1>6. TypeOK'
  BY <1>4, <1>5 DEF TypeOK
<1>7. DgramsTrue'
  BY <1>4, <1>5 DEF DgramsTrue
<1> QED
  BY <1>1, <1>6, <1>7 DEF SourceFixed, SizeAgreed, IntsTrue, AckSeen,
       NakInRange, StoredMarked, StoredTrue, BeforeLoop, AfterLoop,
       Finished

LEMMA CrashInv ==
  ASSUME NEW m, IndInv, Crash(m)
  PROVE  IndInv'
<1> USE DEF IndInv, Crash, sendVars, mainVars, nakVars
<1>1. Written' = Written /\ CountMatchesFile'
  BY SameFile
<1>2. TypeOK'
  BY DEF TypeOK
<1> QED
  BY <1>1, <1>2 DEF SourceFixed, SizeAgreed, DgramsTrue, IntsTrue, AckSeen,
       NakInRange, StoredMarked, StoredTrue, BeforeLoop, AfterLoop,
       Finished

(* Only an ack has a first int below 0, and it was sent by a receiver that *)
(* has finished.                                                           *)
LEMMA ReleaseSenderInv ==
  ASSUME NEW m, IndInv, ReleaseSender(m)
  PROVE  IndInv'
<1> USE DEF IndInv, ReleaseSender, IsAck, mainVars, nakVars
<1>1. Written' = Written /\ CountMatchesFile'
  BY SameFile
<1>2. TypeOK'
  BY DEF TypeOK
<1>3. AckSeen'
  <2>1. m.first = -1
    BY DEF IntsTrue, Seqs
  <2> QED
    BY <2>1 DEF IntsTrue, AckSeen
<1> QED
  BY <1>1, <1>2, <1>3 DEF SourceFixed, SizeAgreed, DgramsTrue, IntsTrue,
       NakInRange, StoredMarked, StoredTrue, BeforeLoop, AfterLoop,
       Finished

LEMMA StartReceiverInv == IndInv /\ StartReceiver(FileSize) => IndInv'
<1> SUFFICES ASSUME IndInv, StartReceiver(FileSize) PROVE IndInv'
  OBVIOUS
<1> USE DEF IndInv, StartReceiver, sendVars
<1>1. Written = {} /\ Written' = {}
  BY DEF BeforeLoop, Written
<1>2. CountMatchesFile'
  BY <1>1 DEF CountMatchesFile
<1>3. totalSeq = 0 /\ totalSeq' = TotalSeq
  BY DEF SizeAgreed, TotalSeq
<1>5. totalPacketsArrived' = 0
  BY <1>1, FS_EmptySet DEF CountMatchesFile
<1>4. TypeOK'
  BY <1>3, Sizes DEF TypeOK, Seqs
<1> QED
  BY <1>1, <1>2, <1>3, <1>4, <1>5, Sizes
  DEF SourceFixed, SizeAgreed, DgramsTrue, IntsTrue,
       AckSeen, NakInRange, StoredMarked, StoredTrue, BeforeLoop, AfterLoop,
       Finished

LEMMA CallocInv == IndInv /\ Calloc => IndInv'
<1> SUFFICES ASSUME IndInv, Calloc PROVE IndInv'
  OBVIOUS
<1> USE DEF IndInv, Calloc, sendVars, nakVars
<1>1. Written' = Written /\ CountMatchesFile'
  BY SameFile
<1>2. Written = {}
  BY DEF BeforeLoop
<1>3. TypeOK'
  BY DEF TypeOK, Seqs
<1> QED
  BY <1>1, <1>2, <1>3 DEF SourceFixed, SizeAgreed, DgramsTrue, IntsTrue,
       AckSeen, NakInRange, StoredMarked, StoredTrue, BeforeLoop, AfterLoop,
       Finished

(* A packet is stored at most once, because storing it marks it: so the    *)
(* count grows with the set of stored packets (client.c:365-371).          *)
LEMMA ReceiveInv ==
  ASSUME NEW m, IndInv, Receive(m)
  PROVE  IndInv'
<1> USE DEF IndInv, Receive, AllArrived, sendVars, nakVars
<1>1. /\ m.first \in Seqs
      /\ m.chunk \in Chunk
      /\ src[m.first] # Hole => m.chunk = src[m.first]
  BY DEF DgramsTrue, TypeOK, Message
<1>2. CASE FirstArrival(m.first)
  <2>1. m.first \notin Written /\ m.first \notin allNodes
    BY <1>2 DEF FirstArrival, StoredMarked
  <2>2. file' = [file EXCEPT ![m.first] = m.chunk]
    BY <1>2
  <2>3. Written' = Written \cup {m.first}
    BY <1>1, <2>2, HoleNotChunk DEF Written, TypeOK
  <2>4. Cardinality(Written') = Cardinality(Written) + 1
    BY <2>1, <2>3, WrittenFinite, FS_AddElement
  <2>5. CountMatchesFile'
    BY <1>2, <2>4 DEF CountMatchesFile
  <2>6. TypeOK'
    <3>1. file' \in [Seqs -> Chunk \cup {Hole}]
      BY <1>1, <2>2 DEF TypeOK
    <3>2. allNodes' \subseteq 0..totalSeq'
      BY <1>2 DEF TypeOK, FirstArrival
    <3>3. totalPacketsArrived' \in Nat
      BY <1>2 DEF TypeOK
    <3> QED
      BY <3>1, <3>2, <3>3 DEF TypeOK
  <2>7. StoredTrue'
    BY <1>1, <2>2, <2>3 DEF StoredTrue, TypeOK, Written
  <2>8. StoredMarked'
    BY <1>2, <2>3 DEF StoredMarked
  <2> QED
    BY <2>5, <2>6, <2>7, <2>8 DEF SourceFixed, SizeAgreed, DgramsTrue,
         IntsTrue, AckSeen, NakInRange, BeforeLoop, AfterLoop, Finished
<1>3. CASE ~FirstArrival(m.first)
  <2>1. Written' = Written /\ CountMatchesFile'
    BY <1>3, SameFile
  <2>2. TypeOK'
    BY <1>3 DEF TypeOK
  <2> QED
    BY <1>3, <2>1, <2>2 DEF SourceFixed, SizeAgreed, DgramsTrue, IntsTrue,
         AckSeen, NakInRange, StoredMarked, StoredTrue, BeforeLoop, AfterLoop,
       Finished
<1> QED
  BY <1>2, <1>3

LEMMA SendAcksInv == IndInv /\ SendAcks => IndInv'
<1> SUFFICES ASSUME IndInv, SendAcks PROVE IndInv'
  OBVIOUS
<1> USE DEF IndInv, SendAcks, sendVars, nakVars
<1>1. Written' = Written /\ CountMatchesFile'
  BY SameFile
<1>2. TypeOK'
  BY DEF TypeOK, Ack, IntMsg, Message
<1>3. IntsTrue'
  BY DEF IntsTrue, Ack, IntMsg
<1> QED
  BY <1>1, <1>2, <1>3 DEF SourceFixed, SizeAgreed, DgramsTrue, AckSeen,
       NakInRange, StoredMarked, StoredTrue, BeforeLoop, AfterLoop,
       Finished

LEMMA JoinInv == IndInv /\ Join => IndInv'
<1> SUFFICES ASSUME IndInv, Join PROVE IndInv'
  OBVIOUS
<1> USE DEF IndInv, Join, sendVars, mainVars, nakVars
<1>1. Written' = Written /\ CountMatchesFile'
  BY SameFile
<1>2. TypeOK'
  BY DEF TypeOK
<1> QED
  BY <1>1, <1>2 DEF SourceFixed, SizeAgreed, DgramsTrue, IntsTrue, AckSeen,
       NakInRange, StoredMarked, StoredTrue, BeforeLoop, AfterLoop,
       Finished

LEMMA NakCheckInv == IndInv /\ NakCheck => IndInv'
<1> SUFFICES ASSUME IndInv, NakCheck PROVE IndInv'
  OBVIOUS
<1> USE DEF IndInv, NakCheck, sendVars, mainVars, nakVars
<1>1. Written' = Written /\ CountMatchesFile'
  BY SameFile
<1>2. TypeOK'
  BY DEF TypeOK
<1> QED
  BY <1>1, <1>2 DEF SourceFixed, SizeAgreed, DgramsTrue, IntsTrue, AckSeen,
       NakInRange, StoredMarked, StoredTrue, BeforeLoop, AfterLoop,
       Finished

(* What the scan finds is a packet in range, and so is the place where it  *)
(* goes on (client.c:65-77).                                               *)
LEMMA IterateInv == IndInv /\ Iterate => IndInv'
<1> SUFFICES ASSUME IndInv, Iterate PROVE IndInv'
  OBVIOUS
<1> USE DEF IndInv, Iterate, sendVars, mainVars
<1>1. Written' = Written /\ CountMatchesFile'
  BY SameFile
<1>2. requestIndex' \in -1..totalSeq /\ iteratingptr' \in 0..totalSeq
  BY DEF TypeOK, Missing, Seqs
<1>3. TypeOK'
  BY <1>2 DEF TypeOK
<1>4. NakInRange'
  BY DEF NakInRange, Missing, TypeOK, Seqs
<1> QED
  BY <1>1, <1>3, <1>4
  DEF SourceFixed, SizeAgreed, DgramsTrue, IntsTrue, AckSeen,
       StoredMarked, StoredTrue, BeforeLoop, AfterLoop,
       Finished

LEMMA NakSendInv == IndInv /\ NakSend => IndInv'
<1> SUFFICES ASSUME IndInv, NakSend PROVE IndInv'
  OBVIOUS
<1> USE DEF IndInv, NakSend, sendVars, mainVars
<1>1. Written' = Written /\ CountMatchesFile'
  BY SameFile
<1>2. TypeOK'
  BY DEF TypeOK, IntMsg, Message
<1>3. requestIndex \in Seqs
  BY Sizes DEF TypeOK, NakInRange, Seqs
<1>4. IntsTrue'
  BY <1>3 DEF IntsTrue, IntMsg, Seqs
<1> QED
  BY <1>1, <1>2, <1>4 DEF SourceFixed, SizeAgreed, DgramsTrue, AckSeen,
       NakInRange, StoredMarked, StoredTrue, BeforeLoop, AfterLoop,
       Finished

LEMMA LoseToSenderInv ==
  ASSUME NEW m, IndInv, LoseToSender(m)
  PROVE  IndInv'
<1> USE DEF IndInv, LoseToSender, sendVars, mainVars, nakVars
<1>1. Written' = Written /\ CountMatchesFile'
  BY SameFile
<1>2. TypeOK'
  BY DEF TypeOK
<1> QED
  BY <1>1, <1>2 DEF SourceFixed, SizeAgreed, DgramsTrue, IntsTrue, AckSeen,
       NakInRange, StoredMarked, StoredTrue, BeforeLoop, AfterLoop,
       Finished

LEMMA LoseToReceiverInv ==
  ASSUME NEW m, IndInv, LoseToReceiver(m)
  PROVE  IndInv'
<1> USE DEF IndInv, LoseToReceiver, sendVars, mainVars, nakVars
<1>1. Written' = Written /\ CountMatchesFile'
  BY SameFile
<1>2. TypeOK'
  BY DEF TypeOK
<1> QED
  BY <1>1, <1>2 DEF SourceFixed, SizeAgreed, DgramsTrue, IntsTrue, AckSeen,
       NakInRange, StoredMarked, StoredTrue, BeforeLoop, AfterLoop,
       Finished

LEMMA StutterInv == IndInv /\ UNCHANGED vars => IndInv'
<1> SUFFICES ASSUME IndInv, UNCHANGED vars PROVE IndInv'
  OBVIOUS
<1> USE DEF IndInv, vars
<1>1. Written' = Written /\ CountMatchesFile'
  BY SameFile
<1> QED
  BY <1>1 DEF TypeOK, SourceFixed, SizeAgreed, DgramsTrue, IntsTrue, AckSeen,
       NakInRange, StoredMarked, StoredTrue, BeforeLoop, AfterLoop,
       Finished

LEMMA StepIndInv == IndInv /\ [Next]_vars => IndInv'
<1> SUFFICES ASSUME IndInv, [Next]_vars PROVE IndInv'
  OBVIOUS
<1>1. CASE StartReceiver(FileSize)
  BY <1>1, StartReceiverInv
<1>2. CASE SenderStep
  BY <1>2, StartSenderInv, SendNextInv, AnswerInv, CrashInv, ReleaseSenderInv
     DEF SenderStep
<1>3. CASE ReceiverStep
  BY <1>3, CallocInv, ReceiveInv, SendAcksInv, JoinInv, NakCheckInv,
     IterateInv, NakSendInv DEF ReceiverStep
<1>4. CASE Lose
  BY <1>4, LoseToSenderInv, LoseToReceiverInv DEF Lose
<1>5. CASE UNCHANGED vars
  BY <1>5, StutterInv
<1> QED
  BY <1>1, <1>2, <1>3, <1>4, <1>5 DEF Next

THEOREM Invariance == Spec => []IndInv
  BY InitIndInv, StepIndInv, PTL DEF Spec

(* Every variable keeps its type, in particular the indices of the scan of *)
(* iterateArrayAgain (client.c:59-79) stay in range.                       *)
THEOREM TypeCorrect == Spec => []TypeOK
<1>1. IndInv => TypeOK
  BY DEF IndInv
<1> QED
  BY <1>1, Invariance, PTL

-----------------------------------------------------------------------------
(* What the invariant means for the file.                                  *)

(* The count that ends the loop is that of all packets: none is missing.   *)
LEMMA FinishedMeansAll == IndInv /\ Finished => Written = Seqs
<1> SUFFICES ASSUME IndInv, Finished PROVE Written = Seqs
  OBVIOUS
<1>1. totalSeq = TotalSeq /\ totalPacketsArrived = TotalSeq + 1
  BY DEF IndInv, SizeAgreed, AfterLoop, Finished
<1>2. Cardinality(Written) = TotalSeq + 1
  BY <1>1 DEF IndInv, CountMatchesFile
<1>3. IsFiniteSet(Seqs) /\ Cardinality(Seqs) = TotalSeq + 1
  BY Sizes, FS_Interval DEF Seqs
<1>4. Written \subseteq Seqs
  BY DEF Written
<1> QED
  BY <1>2, <1>3, <1>4, FS_Subset

LEMMA FinishedMeansDelivered ==
  IndInv /\ Finished => \A i \in Seqs : src[i] # Hole => file[i] = src[i]
  BY FinishedMeansAll DEF IndInv, StoredTrue

(* If the last packet is a short one every place of the file has a chunk.  *)
LEMMA NoHoleInSource ==
  ASSUME IndInv, LeftByte # 0
  PROVE  \A i \in Seqs : src[i] # Hole
<1> SUFFICES ASSUME NEW i \in Seqs PROVE src[i] # Hole
  OBVIOUS
<1>1. ChunkSize(i) # 0
  BY SizesAssumption DEF ChunkSize
<1>2. src[i].size = ChunkSize(i)
  BY <1>1 DEF IndInv, SourceFixed, Original
<1> QED
  BY <1>1, <1>2 DEF Hole

(* The counter the receiver goes by is the number of packets it stored.    *)
THEOREM CountCorrect == Spec => []CountMatchesFile
<1>1. IndInv => CountMatchesFile
  BY DEF IndInv
<1> QED
  BY <1>1, Invariance, PTL

(* For every size that is not a multiple of PAYLOAD, "we got the whole     *)
(* file" (server.c:292) is true when it is said.                           *)
THEOREM WholeFileCorrect == LeftByte # 0 => (Spec => []WholeFile)
<1> SUFFICES ASSUME LeftByte # 0 PROVE Spec => []WholeFile
  OBVIOUS
<1>1. ASSUME IndInv, Finished PROVE file = src
  <2>1. \A i \in Seqs : file[i] = src[i]
    BY <1>1, FinishedMeansDelivered, NoHoleInSource
  <2> QED
    BY <1>1, <2>1 DEF IndInv, TypeOK
<1>2. IndInv => WholeFile
  BY <1>1 DEF WholeFile
<1> QED
  BY <1>2, Invariance, PTL

(* For every size: the sender's retransmit thread ends only when the       *)
(* receiver has every chunk of its file.                                   *)
THEOREM ReleaseCorrect == Spec => []ReleasedOnlyWhenDelivered
<1>1. ASSUME IndInv, retr = "exited"
      PROVE  \A i \in Seqs : src[i] # Hole => file[i] = src[i]
  <2>1. Finished
    BY <1>1 DEF IndInv, AckSeen, Finished
  <2> QED
    BY <1>1, <2>1, FinishedMeansDelivered
<1>2. IndInv => ReleasedOnlyWhenDelivered
  BY <1>1 DEF ReleasedOnlyWhenDelivered
<1> QED
  BY <1>2, Invariance, PTL

-----------------------------------------------------------------------------
(* Where the sender reads.                                                 *)

LEMMA NaksInFile ==
  ASSUME IndInv, LeftByte # 0, NEW m \in toSender, ~IsAck(m)
  PROVE  InFile(m.first)
<1>1. m.first \in Seqs
  BY DEF IndInv, IntsTrue, IsAck, Seqs
<1>2. src[m.first] # Hole
  BY <1>1, NoHoleInSource
<1>3. Copied(m.first) = src[m.first]
  BY <1>1, <1>2, AnswerTrue DEF IndInv, TypeOK
<1>4. RetransmitSize(m.first) = src[m.first].size
  BY <1>3 DEF Copied
<1>5. RetransmitSize(m.first) \in 1..Payload
  BY RetransmitSizeType DEF IndInv, TypeOK
<1> QED
  BY <1>1, <1>4, <1>5, SizesAssumption DEF InFile

(* For every size that is not a multiple of PAYLOAD: no NAK makes the      *)
(* sender copy from behind the end of its file (client.c:179).             *)
THEOREM SenderStaysInFileCorrect == LeftByte # 0 => (Spec => []SenderStaysInFile)
<1> SUFFICES ASSUME LeftByte # 0 PROVE Spec => []SenderStaysInFile
  OBVIOUS
<1> DEFINE NotCrashed == retr # "crashed"
<1>1. Init => NotCrashed
  BY DEF Init
<1>2. ASSUME IndInv, NotCrashed, [Next]_vars PROVE NotCrashed'
  <2>1. CASE SenderStep
    <3>1. ASSUME NEW m \in toSender PROVE ~Crash(m)
      BY <1>2, NaksInFile DEF Crash
    <3> QED
      BY <1>2, <2>1, <3>1
      DEF SenderStep, StartSender, SendNext, Answer, ReleaseSender, sendVars
  <2>2. CASE ~SenderStep
    <3>1. retr' = retr
      BY <1>2, <2>2
      DEF Next, ReceiverStep, Lose, StartReceiver, Calloc, Receive, SendAcks,
          Join, NakCheck, Iterate, NakSend, LoseToSender, LoseToReceiver,
          sendVars, vars
    <3> QED
      BY <1>2, <3>1
  <2> QED
    BY <2>1, <2>2
<1>3. IndInv /\ NotCrashed => SenderStaysInFile
  BY NaksInFile DEF SenderStaysInFile
<1> HIDE DEF NotCrashed
<1> QED
  BY <1>1, <1>2, <1>3, Invariance, PTL DEF Spec

-----------------------------------------------------------------------------
(* The protocol implements FileTransfer.                                   *)

LEMMA InitRefines == Init => Abs!Init
<1> SUFFICES ASSUME Init PROVE Abs!Init
  OBVIOUS
<1> QED
  BY OriginalType DEF Init, Abs!Init, Abs!File, Finished

LEMMA DeliveredAfterStep == (IndInv /\ Finished => Abs!Delivered)'
<1>1. IndInv /\ Finished => Abs!Delivered
  BY FinishedMeansDelivered DEF Abs!Delivered
<1> QED
  BY <1>1, PTL

(* Storing a packet for the first time is the abstract delivery; the last  *)
(* one also completes the file.                                            *)
LEMMA ReceiveRefines ==
  ASSUME NEW m, IndInv, IndInv', Receive(m)
  PROVE  Abs!Next \/ UNCHANGED Abs!vars
<1> USE DEF IndInv, Receive, AllArrived, sendVars
<1>1. /\ m.first \in Seqs
      /\ m.chunk \in Chunk
      /\ src[m.first] # Hole => m.chunk = src[m.first]
  BY DEF DgramsTrue, TypeOK, Message
<1>2. CASE FirstArrival(m.first)
  <2>1. file[m.first] = Hole
    BY <1>1, <1>2 DEF FirstArrival, StoredMarked, Written
  <2>2. Finished' => Abs!Delivered'
    BY DeliveredAfterStep
  <2>3. ~Finished
    BY DEF Finished
  <2>4. Abs!Deliver(m.first, m.chunk)
    BY <1>1, <1>2, <2>1, <2>2, <2>3 DEF Abs!Deliver, Finished
  <2> QED
    BY <1>1, <2>4 DEF Abs!Next
<1>3. CASE ~FirstArrival(m.first)
  <2>1. totalPacketsArrived # totalSeq + 1
    BY DEF AfterLoop, Finished
  <2> QED
    BY <1>3, <2>1 DEF Abs!vars, Finished
<1> QED
  BY <1>2, <1>3

LEMMA StepRefines ==
  ASSUME IndInv, IndInv', [Next]_vars
  PROVE  [Abs!Next]_(Abs!vars)
<1>1. CASE \E m \in toReceiver : Receive(m)
  BY <1>1, ReceiveRefines
<1>2. CASE \E m \in toSender : ReleaseSender(m)
  <2>1. Finished /\ retr' = "exited" /\ retr # "exited"
    <3>1. AckSeen'
      BY DEF IndInv
    <3> QED
      BY <1>2, <3>1 DEF ReleaseSender, AckSeen, Finished, mainVars
  <2>2. UNCHANGED <<src, file, rcv>>
    BY <1>2 DEF ReleaseSender, mainVars
  <2>3. Abs!Release
    BY <2>1, <2>2 DEF Abs!Release, Finished
  <2> QED
    BY <2>3 DEF Abs!Next
<1>3. CASE StartReceiver(FileSize)
  <2>1. file' = file
    BY <1>3 DEF StartReceiver, IndInv, BeforeLoop, Written, TypeOK
  <2> QED
    BY <1>3, <2>1 DEF StartReceiver, sendVars, Abs!vars, Finished
<1>4. CASE UNCHANGED vars
  BY <1>4 DEF vars, Abs!vars, Finished
<1>5. CASE /\ SenderStep \/ ReceiverStep \/ Lose
           /\ ~\E m \in toReceiver : Receive(m)
           /\ ~\E m \in toSender : ReleaseSender(m)
  <2>1. /\ UNCHANGED <<src, file>>
        /\ (retr' = "exited") = (retr = "exited")
        /\ Finished' = Finished
    BY <1>5
    DEF SenderStep, StartSender, SendNext, Answer, Crash, ReceiverStep,
        Calloc, SendAcks, Join, NakCheck, Iterate, NakSend, Lose,
        LoseToSender, LoseToReceiver, sendVars, mainVars, Finished
  <2> QED
    BY <2>1 DEF Abs!vars
<1> QED
  BY <1>1, <1>2, <1>3, <1>4, <1>5 DEF Next

(* For every size: sender and receiver together do what FileTransfer       *)
(* promises of a file copy.                                                *)
THEOREM Refinement == Spec => RefinesFileTransfer
<1>1. IndInv /\ IndInv' /\ [Next]_vars => [Abs!Next]_(Abs!vars)
  BY StepRefines
<1> QED
  BY <1>1, InitRefines, Invariance, PTL
  DEF Spec, RefinesFileTransfer, Abs!Spec

-----------------------------------------------------------------------------
(* The byte behind allNodes (server.c:257): a mark without a packet is     *)
(* never made good, and the receiver never has all its packets.            *)
THEOREM EdgeCorrect == Spec => EdgeByteStopsTransfer
<1>1. (IndInv /\ Finished => Written = Seqs)'
  BY FinishedMeansAll, PTL
<1>2. ASSUME IndInv, IndInv', [Next]_vars, EdgeStuck
      PROVE  EdgeStuck' /\ ~Finished'
  <2>1. totalSeq \in allNodes /\ file[totalSeq] = Hole /\ totalSeq \in Seqs
    BY <1>2 DEF EdgeStuck, IndInv, TypeOK
  <2>2. rcv # "idle" /\ rcv # "alloc"
    BY <1>2, <2>1 DEF IndInv, BeforeLoop
  <2>3. ASSUME \E m \in toReceiver : Receive(m) PROVE EdgeStuck'
    <3> PICK m \in toReceiver : Receive(m)
      BY <2>3
    <3>1. totalSeq' = totalSeq /\ totalSeq \in allNodes'
      BY <2>1 DEF Receive
    <3>2. file'[totalSeq] = file[totalSeq]
      BY <1>2, <2>1 DEF Receive, FirstArrival, IndInv, TypeOK
    <3> QED
      BY <2>1, <3>1, <3>2 DEF EdgeStuck
  <2>4. ASSUME ~\E m \in toReceiver : Receive(m) PROVE EdgeStuck'
    <3>1. UNCHANGED <<totalSeq, allNodes, file>>
      BY <1>2, <2>2, <2>4
      DEF Next, SenderStep, StartSender, SendNext, Answer, Crash,
          ReleaseSender, StartReceiver, ReceiverStep, Calloc, SendAcks, Join,
          NakCheck, Iterate, NakSend, Lose, LoseToSender, LoseToReceiver,
          sendVars, mainVars, vars
    <3> QED
      BY <2>1, <3>1 DEF EdgeStuck
  <2>5. EdgeStuck'
    BY <2>3, <2>4
  <2>6. ~Finished'
    BY <1>1, <1>2, <2>5 DEF EdgeStuck, Written, IndInv, TypeOK
  <2> QED
    BY <2>5, <2>6
<1>3. IndInv /\ IndInv' /\ [Next]_vars
        => [EdgeStuck => EdgeStuck' /\ ~Finished']_vars
  BY <1>2
<1> QED
  BY <1>3, Invariance, PTL DEF Spec, EdgeByteStopsTransfer

-----------------------------------------------------------------------------
(* A size that is a multiple of PAYLOAD: the packet that the file does not *)
(* have holds one thing only, wherever it is.                              *)

Surplus == [buf |-> PastEof, size |-> Payload]

SurplusInv ==
  /\ file[TotalSeq] \in {Hole, Surplus}
  /\ \A m \in toReceiver : m.first = TotalSeq => m.chunk = Surplus

LEMMA SourceEnds ==
  ASSUME IndInv, LeftByte = 0
  PROVE  TotalSeq \in Seqs /\ src[TotalSeq] = Hole /\ Copied(TotalSeq) = Surplus
<1>1. TotalSeq \in Seqs
  BY Sizes DEF Seqs
<1>2. src[TotalSeq] = Hole
  BY <1>1, Sizes DEF IndInv, SourceFixed, Original, ChunkSize
<1>3. RetransmitSize(TotalSeq) = Payload
  BY DEF RetransmitSize, IndInv, SourceFixed, LeftByte
<1> QED
  BY <1>1, <1>2, <1>3 DEF Copied, Surplus, Hole

LEMMA SurplusStep ==
  ASSUME IndInv, LeftByte = 0, SurplusInv, [Next]_vars
  PROVE  SurplusInv'
<1>1. CASE SendNext
  <2>1. seq # TotalSeq
    BY <1>1, SourceEnds DEF SendNext, MoreToSend
  <2>2. \A m \in toReceiver' : m \in toReceiver \/ m.first # TotalSeq
    BY <1>1, <2>1 DEF SendNext, Dgram
  <2> QED
    BY <1>1, <2>2 DEF SendNext, mainVars, SurplusInv
<1>2. CASE \E k \in toSender : Answer(k)
  <2> PICK k \in toSender : Answer(k)
    BY <1>2
  <2>1. \A m \in toReceiver' :
          m \in toReceiver \/ m = Dgram(k.first, Copied(k.first))
    BY DEF Answer
  <2>2. \A m \in toReceiver' : m.first = TotalSeq => m.chunk = Surplus
    BY <2>1, SourceEnds DEF SurplusInv, Dgram
  <2> QED
    BY <2>2 DEF Answer, mainVars, SurplusInv
<1>3. CASE StartReceiver(FileSize)
  BY <1>3, SourceEnds DEF StartReceiver, SurplusInv
<1>4. CASE \E m \in toReceiver : Receive(m)
  <2> PICK m \in toReceiver : Receive(m)
    BY <1>4
  <2>1. file \in [Seqs -> Chunk \cup {Hole}]
    BY DEF IndInv, TypeOK
  <2>2. file' = file \/ file' = [file EXCEPT ![m.first] = m.chunk]
    BY DEF Receive
  <2>3. file'[TotalSeq] \in {Hole, Surplus}
    BY <2>1, <2>2, SourceEnds DEF SurplusInv
  <2> QED
    BY <2>3 DEF Receive, SurplusInv
<1>5. CASE /\ ~SendNext /\ ~StartReceiver(FileSize)
           /\ ~\E m \in toSender : Answer(m)
           /\ ~\E m \in toReceiver : Receive(m)
  <2>1. file' = file /\ toReceiver' \subseteq toReceiver
    BY <1>5
    DEF Next, SenderStep, StartSender, Crash, ReleaseSender, ReceiverStep,
        Calloc, SendAcks, Join, NakCheck, Iterate, NakSend, Lose,
        LoseToSender, LoseToReceiver, sendVars, mainVars, vars
  <2> QED
    BY <2>1 DEF SurplusInv
<1> QED
  BY <1>1, <1>2, <1>3, <1>4, <1>5

(* When the size is a multiple of PAYLOAD the receiver ends up with the    *)
(* file and PAYLOAD bytes of what lies behind it (server.c:247,291), for   *)
(* whatever order the packets come in.                                     *)
THEOREM SurplusCorrect == Spec => []SurplusPacket
<1>1. CASE LeftByte = 0
  <2>1. Init => SurplusInv
    BY Sizes DEF Init, SurplusInv, Seqs
  <2>2. IndInv /\ SurplusInv /\ [Next]_vars => SurplusInv'
    BY <1>1, SurplusStep
  <2>3. ASSUME IndInv, SurplusInv, Finished
        PROVE  /\ \A i \in Seqs : src[i] # Hole => file[i] = src[i]
               /\ file[TotalSeq] = Surplus
    <3>1. file[TotalSeq] # Hole
      BY <1>1, <2>3, FinishedMeansAll, SourceEnds DEF Written
    <3> QED
      BY <2>3, <3>1, FinishedMeansDelivered DEF SurplusInv
  <2>4. IndInv /\ SurplusInv => SurplusPacket
    BY <2>3 DEF SurplusPacket, Surplus
  <2> QED
    BY <2>1, <2>2, <2>4, Invariance, PTL DEF Spec
<1>2. CASE LeftByte # 0
  <2>1. SurplusPacket
    BY <1>2 DEF SurplusPacket
  <2> QED
    BY <2>1, PTL
<1> QED
  BY <1>1, <1>2

-----------------------------------------------------------------------------
(* One direction on sockets that the other direction uses too.  Whatever   *)
(* reaches the receiver, this holds of it as long as a dgram carries a     *)
(* chunk; and this is what its steps and those of the sender do.           *)

(* The NAK thread runs until everything has arrived, and a mark without a  *)
(* packet can only be the one behind the block.                            *)
GapInv ==
  /\ nak = "idle" => rcv = "idle"
  /\ nak = "exited" => Finished
  /\ allNodes \ Written \subseteq {totalSeq}

RcvInv ==
  /\ totalSeq \in Seqs
  /\ rcv \in {"idle", "alloc", "recv", "ack", "join", "done"}
  /\ allNodes \subseteq 0..totalSeq
  /\ totalPacketsArrived \in Nat
  /\ file \in [Seqs -> Chunk \cup {Hole}]
  /\ nak \in {"idle", "check", "iterate", "send", "exited"}
  /\ requestIndex \in -1..totalSeq
  /\ iteratingptr \in 0..totalSeq
  /\ rcv = "idle" => totalSeq = 0 /\ nak = "idle"
  /\ NakInRange
  /\ StoredMarked
  /\ CountMatchesFile
  /\ BeforeLoop
  /\ AfterLoop
  /\ GapInv

ChunksCarried == \A m \in toReceiver : m.kind = "dgram" => m.chunk \in Chunk

ReceiverKeeps == UNCHANGED <<src, filesize, seq, retr, toReceiver>>

(* It sends NAKs of packets in range, and an ack when it has all of them.  *)
Reported(m) ==
  \/ \E i \in 0..totalSeq : m = IntMsg(i)
  \/ m = Ack /\ rcv = "ack" /\ rcv' = "join"

(* It fills an empty place with the chunk of a dgram.                      *)
Stored(m) ==
  /\ m \in toReceiver
  /\ m.kind = "dgram"
  /\ m.first \in Seqs
  /\ file[m.first] = Hole
  /\ ~Finished
  /\ file' = [file EXCEPT ![m.first] = m.chunk]

ReceiverDoes ==
  /\ totalSeq' = totalSeq
  /\ rcv # "idle" /\ rcv' # "idle"
  /\ rcv = "join" => rcv' \in {"join", "done"}
  /\ rcv = "done" => rcv' = "done"
  /\ \A m \in toSender' : m \in toSender \/ Reported(m)
  /\ \/ file' = file /\ (Finished' <=> Finished)
     \/ \E m \in toReceiver : Stored(m)

SenderKeeps ==
  UNCHANGED <<src, filesize, totalSeq, rcv, allNodes, totalPacketsArrived, file,
              nak, requestIndex, iteratingptr, toSender>>

(* What a receiver makes of the file: a place that the file has not, in    *)
(* the one case that there is one, holds what lies behind it.              *)
Final == [i \in Seqs |-> IF Original[i] = Hole THEN Surplus ELSE Original[i]]

(* The sender sends chunks, under numbers of packets or those it was asked *)
(* for; and true ones, if its file is the original or what another         *)
(* receiver has made of it.                                                *)
Served(m) ==
  /\ retr # "idle"
  /\ m = Dgram(m.first, m.chunk)
  /\ m.chunk \in Chunk
  /\ m.first \in Seqs \/ \E k \in toSender : ~IsAck(k) /\ m.first = k.first
  /\ src \in {Original, Final} /\ filesize = FileSize /\ m.first \in Seqs
       => m.chunk = Final[m.first]

SenderDoes ==
  /\ seq' \in Nat
  /\ retr' \in {"waiting", "exited", "crashed"}
  /\ retr = "exited" => retr' = "exited"
  /\ retr' = "exited" => retr = "exited" \/ \E m \in toSender : IsAck(m)
  /\ \A m \in toReceiver' : m \in toReceiver \/ Served(m)

LEMMA SameReceiver ==
  ASSUME RcvInv,
         UNCHANGED <<totalSeq, rcv, allNodes, totalPacketsArrived, file,
                     nak, requestIndex, iteratingptr>>
  PROVE  RcvInv'
<1>1. Written' = Written /\ CountMatchesFile'
  BY SameFile DEF RcvInv
<1> QED
  BY <1>1 DEF RcvInv, NakInRange, StoredMarked, BeforeLoop, AfterLoop, GapInv, Finished

LEMMA ReceiverInit ==
  ASSUME rcv = "idle", totalSeq = 0, allNodes = {}, totalPacketsArrived = 0,
         file = [i \in Seqs |-> Hole], nak = "idle", requestIndex = -1, iteratingptr = 0
  PROVE  RcvInv
<1>1. Written = {}
  BY DEF Written
<1> QED
  BY <1>1, Sizes, FS_EmptySet DEF RcvInv, NakInRange, StoredMarked, CountMatchesFile,
     BeforeLoop, AfterLoop, GapInv, Finished, Seqs

LEMMA ReceiverStarts ==
  ASSUME RcvInv, NEW size, size \div Payload \in Seqs, StartReceiver(size)
  PROVE  /\ RcvInv'
         /\ ReceiverKeeps
         /\ rcv = "idle" /\ rcv' = "alloc"
         /\ totalSeq' = size \div Payload
         /\ file' = file
         /\ toSender' = toSender
<1> USE DEF RcvInv, StartReceiver, sendVars
<1>1. Written = {} /\ file' = file
  BY DEF BeforeLoop, Written
<1>2. Written' = Written /\ CountMatchesFile'
  BY <1>1, SameFile
<1>3. totalPacketsArrived = 0
  BY <1>1, FS_EmptySet DEF CountMatchesFile
<1>4. totalSeq' \in Seqs /\ totalSeq = 0
  OBVIOUS
<1>5. /\ totalSeq' \in Nat
      /\ 0..totalSeq \subseteq 0..totalSeq'
      /\ -1..totalSeq \subseteq -1..totalSeq'
  BY <1>4, Sizes DEF Seqs
<1>6. RcvInv'
  BY <1>1, <1>2, <1>3, <1>4, <1>5
     DEF NakInRange, StoredMarked, BeforeLoop, AfterLoop, GapInv, Finished
<1> QED
  BY <1>1, <1>6 DEF ReceiverKeeps

LEMMA ReceiverStores ==
  ASSUME RcvInv, ChunksCarried, NEW m \in toReceiver, Receive(m)
  PROVE  RcvInv' /\ ReceiverKeeps /\ ReceiverDoes
<1> USE DEF RcvInv, Receive, AllArrived, sendVars, nakVars, ReceiverKeeps
<1>1. m.chunk \in Chunk
  BY DEF ChunksCarried
<1>2. CASE FirstArrival(m.first)
  <2>1. m.first \in Seqs /\ m.first \notin Written /\ m.first \notin allNodes
    BY <1>2, Sizes DEF FirstArrival, StoredMarked, Seqs
  <2>2. file' = [file EXCEPT ![m.first] = m.chunk]
    BY <1>2
  <2>3. Written' = Written \cup {m.first}
    BY <1>1, <2>1, <2>2, HoleNotChunk DEF Written
  <2>4. Cardinality(Written') = Cardinality(Written) + 1
    BY <2>1, <2>3, WrittenFinite, FS_AddElement
  <2>5. CountMatchesFile'
    BY <1>2, <2>4 DEF CountMatchesFile
  <2>6. file' \in [Seqs -> Chunk \cup {Hole}]
    BY <1>1, <2>1, <2>2
  <2>7. allNodes' = allNodes \cup {m.first} /\ m.first \in 0..totalSeq
    BY <1>2 DEF FirstArrival
  <2>8. StoredMarked'
    BY <2>3, <2>7 DEF StoredMarked
  <2>9. totalPacketsArrived' = totalPacketsArrived + 1
    BY <1>2
  <2>10. AfterLoop' /\ rcv' \in {"recv", "ack"}
    BY <2>9 DEF AfterLoop, Finished
  <2>11. NakInRange' /\ BeforeLoop' /\ GapInv'
    BY <2>3, <2>7, <2>10 DEF NakInRange, BeforeLoop, GapInv, Finished
  <2>12. totalPacketsArrived' \in Nat
    BY <2>9
  <2>13. UNCHANGED <<totalSeq, nak, requestIndex, iteratingptr>>
    OBVIOUS
  <2>14. Stored(m)
    BY <2>1, <2>2 DEF Stored, Written, Finished
  <2> HIDE DEF Receive
  <2>15. allNodes' \subseteq 0..totalSeq'
    BY <2>7, <2>13
  <2>16. RcvInv'
    BY <2>5, <2>6, <2>8, <2>10, <2>11, <2>12, <2>13, <2>15
  <2> QED
    BY <2>10, <2>13, <2>14, <2>16 DEF ReceiverDoes, Receive
<1>3. CASE ~FirstArrival(m.first)
  <2>1. Written' = Written /\ CountMatchesFile'
    BY <1>3, SameFile
  <2>2. totalPacketsArrived # totalSeq + 1
    BY DEF AfterLoop, Finished
  <2>3. RcvInv'
    BY <1>3, <2>1, <2>2 DEF NakInRange, StoredMarked, BeforeLoop, AfterLoop, GapInv, Finished
  <2> QED
    BY <1>3, <2>2, <2>3 DEF ReceiverDoes, Finished
<1> QED
  BY <1>2, <1>3

LEMMA ReceiverMoves ==
  ASSUME RcvInv, ChunksCarried, ReceiverStep
  PROVE  RcvInv' /\ ReceiverKeeps /\ ReceiverDoes
<1>1. CASE Calloc
  <2> USE <1>1 DEF RcvInv, Calloc, sendVars, nakVars, ReceiverKeeps
  <2>1. Written' = Written /\ CountMatchesFile' /\ Written = {}
    BY SameFile DEF BeforeLoop
  <2>2. RcvInv'
    BY <2>1, Sizes DEF NakInRange, StoredMarked, BeforeLoop, AfterLoop, GapInv, Finished, Seqs
  <2> QED
    BY <2>2 DEF ReceiverDoes, Finished
<1>2. CASE \E m \in toReceiver : Receive(m)
  BY <1>2, ReceiverStores
<1>3. CASE SendAcks
  <2> USE <1>3 DEF RcvInv, SendAcks, sendVars, nakVars, ReceiverKeeps
  <2>1. Written' = Written /\ CountMatchesFile'
    BY SameFile
  <2>2. RcvInv'
    BY <2>1 DEF NakInRange, StoredMarked, BeforeLoop, AfterLoop, GapInv, Finished
  <2> QED
    BY <2>2 DEF ReceiverDoes, Finished, Reported
<1>4. CASE Join \/ NakCheck
  <2> USE <1>4 DEF RcvInv, Join, NakCheck, sendVars, mainVars, nakVars, ReceiverKeeps
  <2>1. Written' = Written /\ CountMatchesFile'
    BY SameFile
  <2>2. GapInv'
    BY <2>1 DEF AllArrived, AfterLoop, GapInv, Finished
  <2>3. RcvInv'
    BY <2>1, <2>2 DEF NakInRange, StoredMarked, BeforeLoop, AfterLoop, Finished
  <2> QED
    BY <2>3 DEF ReceiverDoes, Finished
<1>5. CASE Iterate
  <2> USE <1>5 DEF RcvInv, Iterate, sendVars, mainVars, ReceiverKeeps
  <2>1. Written' = Written /\ CountMatchesFile'
    BY SameFile
  <2>2. /\ requestIndex' \in -1..totalSeq
        /\ iteratingptr' \in 0..totalSeq
        /\ nak' = "send" => requestIndex' \in 0..totalSeq
    BY Sizes DEF Missing, Seqs
  <2>3. RcvInv'
    BY <2>1, <2>2 DEF NakInRange, StoredMarked, BeforeLoop, AfterLoop, GapInv, Finished
  <2> QED
    BY <2>3 DEF ReceiverDoes, Finished
<1>6. CASE NakSend
  <2> USE <1>6 DEF RcvInv, NakSend, sendVars, mainVars, ReceiverKeeps
  <2>1. Written' = Written /\ CountMatchesFile'
    BY SameFile
  <2>2. RcvInv'
    BY <2>1 DEF NakInRange, StoredMarked, BeforeLoop, AfterLoop, GapInv, Finished
  <2>3. requestIndex \in 0..totalSeq
    BY DEF NakInRange
  <2> QED
    BY <2>2, <2>3 DEF ReceiverDoes, Finished, Reported
<1> QED
  BY <1>1, <1>2, <1>3, <1>4, <1>5, <1>6 DEF ReceiverStep

LEMMA CopiedType ==
  ASSUME src \in [Seqs -> Chunk \cup {Hole}], filesize \in Nat, NEW i
  PROVE  Copied(i) \in Chunk
<1>1. RetransmitSize(i) \in 1..Payload
  BY RetransmitSizeType
<1>2. i \in Seqs => src[i].buf \in Bytes
  BY BytesAssumption DEF Chunk, Hole
<1>3. Copied(i) = [buf |-> IF i \in Seqs THEN src[i].buf ELSE PastEof,
                   size |-> RetransmitSize(i)]
  BY DEF Copied
<1> QED
  BY <1>1, <1>2, <1>3, BytesAssumption DEF Chunk

LEMMA FinalType == Final \in [Seqs -> Chunk]
<1>1. Surplus \in Chunk
  BY BytesAssumption, SizesAssumption DEF Surplus, Chunk
<1> QED
  BY <1>1, OriginalType DEF Final

LEMMA CopiedFinal ==
  ASSUME src \in {Original, Final}, filesize = FileSize, NEW i \in Seqs
  PROVE  /\ Copied(i) = Final[i]
         /\ src[i] # Hole => src[i] = Final[i]
         /\ RetransmitSize(i) = Final[i].size
<1>1. src[i] # Hole => src[i] = Final[i]
  BY DEF Final
<1>2. src[i].buf = Final[i].buf
  BY DEF Final, Hole, Surplus
<1>3. RetransmitSize(i) = IF ChunkSize(i) = 0 THEN Payload ELSE ChunkSize(i)
  BY SizesAssumption, Sizes DEF RetransmitSize, ChunkSize, TotalSeq, LeftByte, Seqs
<1>4. Final[i].size = IF ChunkSize(i) = 0 THEN Payload ELSE ChunkSize(i)
  <2>1. CASE ChunkSize(i) = 0
    BY <2>1 DEF Final, Original, Surplus
  <2>2. CASE ChunkSize(i) # 0
    <3>1. Original[i] = [buf |-> Text[i], size |-> ChunkSize(i)]
      BY <2>2 DEF Original
    <3>2. Original[i] # Hole
      BY <2>2, <3>1 DEF Hole
    <3> QED
      BY <2>2, <3>1, <3>2 DEF Final
  <2> QED
    BY <2>1, <2>2
<1>5. Final[i] = [buf |-> Final[i].buf, size |-> Final[i].size]
  BY FinalType DEF Chunk
<1>6. Copied(i) = [buf |-> src[i].buf, size |-> RetransmitSize(i)]
  BY DEF Copied
<1> QED
  BY <1>1, <1>2, <1>3, <1>4, <1>5, <1>6

LEMMA SenderMoves ==
  ASSUME src \in [Seqs -> Chunk \cup {Hole}], filesize \in Nat, seq \in Nat,
         retr \in {"idle", "waiting", "exited", "crashed"}, SenderStep
  PROVE  SenderKeeps /\ SenderDoes
<1> USE DEF SenderKeeps, SenderDoes, sendVars, mainVars, nakVars
<1>1. CASE StartSender
  BY <1>1 DEF StartSender
<1>2. CASE SendNext
  <2> USE <1>2 DEF SendNext
  <2> DEFINE d == Dgram(seq, src[seq])
  <2>1. seq \in Seqs /\ src[seq] \in Chunk
    BY DEF MoreToSend
  <2>2. d.first = seq /\ d.chunk = src[seq]
    BY DEF Dgram
  <2>3. src \in {Original, Final} /\ filesize = FileSize => src[seq] = Final[seq]
    BY <2>1, CopiedFinal, HoleNotChunk
  <2>4. Served(d)
    BY <2>1, <2>2, <2>3 DEF Served
  <2> QED
    BY <2>4
<1>3. CASE \E m \in toSender : Answer(m)
  <2> PICK m \in toSender : Answer(m)
    BY <1>3
  <2> USE DEF Answer
  <2> DEFINE d == Dgram(m.first, Copied(m.first))
  <2>1. Copied(m.first) \in Chunk
    BY CopiedType
  <2>2. d.first = m.first /\ d.chunk = Copied(m.first)
    BY DEF Dgram
  <2>3. src \in {Original, Final} /\ filesize = FileSize /\ m.first \in Seqs
          => Copied(m.first) = Final[m.first]
    BY CopiedFinal
  <2>4. Served(d)
    BY <2>1, <2>2, <2>3 DEF Served
  <2> QED
    BY <2>4
<1>4. CASE \E m \in toSender : Crash(m)
  BY <1>4 DEF Crash
<1>5. CASE \E m \in toSender : ReleaseSender(m)
  BY <1>5 DEF ReleaseSender
<1> QED
  BY <1>1, <1>2, <1>3, <1>4, <1>5 DEF SenderStep

(* With the right size the count that ends the loop is that of all packets, *)
(* so that none is missing.                                                *)
LEMMA FullReceiver ==
  ASSUME RcvInv, Finished, totalSeq = TotalSeq
  PROVE  Written = Seqs
<1>1. Cardinality(Written) = TotalSeq + 1
  BY DEF RcvInv, AfterLoop, CountMatchesFile
<1>2. IsFiniteSet(Seqs) /\ Cardinality(Seqs) = TotalSeq + 1
  BY Sizes, FS_Interval DEF Seqs
<1>3. Written \subseteq Seqs
  BY DEF Written
<1> QED
  BY <1>1, <1>2, <1>3, FS_Subset

(* As long as the receiver waits it asks: its NAK thread runs, and but for *)
(* a packet that the byte behind the block passes for, there is one left   *)
(* to ask for.                                                             *)
StillAsking ==
  rcv \in {"alloc", "recv"} =>
    /\ nak \in {"check", "iterate", "send"}
    /\ rcv = "recv" => EdgeStuck \/ \E i \in 0..totalSeq : i \notin allNodes

LEMMA ReceiverAsks ==
  ASSUME RcvInv
  PROVE  StillAsking
<1>1. SUFFICES ASSUME rcv = "recv", ~EdgeStuck, 0..totalSeq \subseteq allNodes
               PROVE  FALSE
  BY DEF StillAsking, RcvInv, GapInv, Finished
<1>2. totalSeq \in Seqs /\ totalSeq \in Nat
  BY Sizes DEF RcvInv, Seqs
<1>3. totalSeq \in Written
  BY <1>1, <1>2 DEF EdgeStuck, Written
<1>4. Written = 0..totalSeq
  BY <1>1, <1>3 DEF RcvInv, GapInv, StoredMarked
<1>5. Cardinality(Written) = totalSeq + 1
  BY <1>2, <1>4, FS_Interval
<1> QED
  BY <1>1, <1>5 DEF RcvInv, CountMatchesFile, AfterLoop, Finished

LEMMA ReceiverInvStep ==
  ASSUME IndInv, RcvInv, [Next]_vars
  PROVE  RcvInv'
<1>1. CASE StartReceiver(FileSize)
  <2>1. FileSize \div Payload \in Seqs
    BY Sizes DEF Seqs, TotalSeq
  <2> QED
    BY <1>1, <2>1, ReceiverStarts
<1>2. CASE ReceiverStep
  BY <1>2, ReceiverMoves DEF IndInv, DgramsTrue, ChunksCarried, TypeOK, Message
<1>3. CASE SenderStep
  BY <1>3, SenderMoves, SameReceiver DEF IndInv, TypeOK, SenderKeeps
<1>4. CASE Lose
  BY <1>4, SameReceiver DEF Lose, LoseToSender, LoseToReceiver, mainVars, nakVars
<1>5. CASE UNCHANGED vars
  BY <1>5, SameReceiver DEF vars
<1> QED
  BY <1>1, <1>2, <1>3, <1>4, <1>5 DEF Next

(* No packet is given up: until the last one is there (client.c:88-104,    *)
(* server.c:162-178) the receiver asks for one that is missing, whatever   *)
(* is lost.                                                                *)
THEOREM AskingCorrect == Spec => []StillAsking
<1>1. Init => RcvInv
  BY ReceiverInit DEF Init
<1>2. IndInv /\ RcvInv /\ [Next]_vars => RcvInv'
  BY ReceiverInvStep
<1>3. RcvInv => StillAsking
  BY ReceiverAsks
<1> QED
  BY <1>1, <1>2, <1>3, Invariance, PTL DEF Spec
=============================================================================
