--------------------------- MODULE UdpSessionProofs ---------------------------
(***************************************************************************)
(* Proofs about UdpSession, for every file, payload and edge byte.  What   *)
(* one direction does on sockets that the other one uses too is proved in  *)
(* UdpTransferProofs; here is what the two make of each other's datagrams. *)
(***************************************************************************)
EXTENDS UdpSession, TLAPS

FwdP == INSTANCE UdpTransferProofs WITH
  src <- textfile, filesize <- cfilesize, seq <- cseq, retr <- cretr,
  totalSeq <- stotalSeq, rcv <- srcv, allNodes <- sallNodes,
  totalPacketsArrived <- sarrived, file <- textref, nak <- snak,
  requestIndex <- srequest, iteratingptr <- sscan,
  toSender <- toClient, toReceiver <- toServer

BwdP == INSTANCE UdpTransferProofs WITH
  src <- textref, filesize <- sfilesize, seq <- sseq, retr <- sretr,
  totalSeq <- ctotalSeq, rcv <- crcv, allNodes <- callNodes,
  totalPacketsArrived <- carrived, file <- textback, nak <- cnak,
  requestIndex <- crequest, iteratingptr <- cscan,
  toSender <- toServer, toReceiver <- toClient

-----------------------------------------------------------------------------
(* The invariant.                                                          *)

File == [Seqs -> Chunk \cup {Hole}]

(* What is first in a datagram: a packet's number, the size, or the ack.   *)
Nums == Seqs \cup {FileSize}
Msgs == [kind : {"int"}, first : Nums \cup {-1}]
          \cup [kind : {"dgram"}, first : Nums, chunk : Chunk]

Told(net) == \E m \in net : m.first = -1

(* The file as both copies end up with it: when its size is a multiple of  *)
(* PAYLOAD there is a packet behind it, as long as the others, that only a *)
(* NAK brings (client.c:169-179, server.c:82-91).                          *)
Surplus == [buf |-> PastEof, size |-> Payload]
Final   == [i \in Seqs |-> IF Original[i] = Hole THEN Surplus ELSE Original[i]]

TrueDgram(m) == m.kind = "dgram" /\ m.first \in Seqs => m.chunk = Final[m.first]
TrueCopy(f)  == \A i \in Seqs : f[i] \in {Hole, Final[i]}

SendTypes ==
  /\ hello \in BOOLEAN
  /\ textfile = Original /\ cfilesize = FileSize
  /\ cseq \in Nat /\ sseq \in Nat /\ sfilesize \in Nat
  /\ cretr \in {"idle", "waiting", "exited", "crashed"}
  /\ sretr \in {"idle", "waiting", "exited", "crashed"}

WireTypes == toServer \subseteq Msgs /\ toClient \subseteq Msgs

(* Each half of a program begins only after the other side has finished    *)
(* the half before, and an ack on its way comes from one that has.         *)
PhaseInv ==
  /\ Told(toClient) \/ cretr = "exited" => srcv \in {"join", "done"}
  /\ Told(toServer) \/ sretr = "exited" => crcv \in {"join", "done"}
  /\ crcv # "idle" => cretr = "exited" /\ ctotalSeq = TotalSeq
  /\ sretr # "idle" => srcv = "done"

CopyInv == TrueCopy(textref) /\ \A m \in toServer : TrueDgram(m)

GenInv == FwdP!RcvInv /\ BwdP!RcvInv /\ SendTypes /\ WireTypes /\ PhaseInv /\ CopyInv

-----------------------------------------------------------------------------
(* What the steps of either direction do, from the lemmas on UdpTransfer.  *)

LEMMA FwdSteps ==
  /\ Fwd!SenderStep <=> FwdP!SenderStep
  /\ Fwd!ReceiverStep <=> FwdP!ReceiverStep
  /\ \A size : Fwd!StartReceiver(size) <=> FwdP!StartReceiver(size)
  BY DEF
  Fwd!SenderStep, Fwd!StartSender, Fwd!SendNext, Fwd!Answer, Fwd!Crash,
     Fwd!ReleaseSender, Fwd!MoreToSend, Fwd!Copied, Fwd!RetransmitSize,
     Fwd!InFile, Fwd!sendVars, Fwd!mainVars, Fwd!nakVars, Fwd!ReceiverStep,
     Fwd!Calloc, Fwd!Receive, Fwd!SendAcks, Fwd!Join, Fwd!NakCheck,
     Fwd!Iterate, Fwd!NakSend, Fwd!FirstArrival, Fwd!AllArrived,
     Fwd!Missing, Fwd!StartReceiver, Fwd!IntMsg, Fwd!Dgram, Fwd!Ack,
     Fwd!IsAck, Fwd!Chunk, Fwd!Hole, Fwd!Seqs, Fwd!TotalSeq,
     FwdP!SenderStep, FwdP!StartSender, FwdP!SendNext, FwdP!Answer,
     FwdP!Crash, FwdP!ReleaseSender, FwdP!MoreToSend, FwdP!Copied,
     FwdP!RetransmitSize, FwdP!InFile, FwdP!sendVars, FwdP!mainVars,
     FwdP!nakVars, FwdP!ReceiverStep, FwdP!Calloc, FwdP!Receive,
     FwdP!SendAcks, FwdP!Join, FwdP!NakCheck, FwdP!Iterate, FwdP!NakSend,
     FwdP!FirstArrival, FwdP!AllArrived, FwdP!Missing, FwdP!StartReceiver,
     FwdP!IntMsg, FwdP!Dgram, FwdP!Ack, FwdP!IsAck, FwdP!Chunk, FwdP!Hole,
     FwdP!Seqs, FwdP!TotalSeq

LEMMA BwdSteps ==
  /\ Bwd!SenderStep <=> BwdP!SenderStep
  /\ Bwd!ReceiverStep <=> BwdP!ReceiverStep
  /\ \A size : Bwd!StartReceiver(size) <=> BwdP!StartReceiver(size)
  BY DEF
  Bwd!SenderStep, Bwd!StartSender, Bwd!SendNext, Bwd!Answer, Bwd!Crash,
     Bwd!ReleaseSender, Bwd!MoreToSend, Bwd!Copied, Bwd!RetransmitSize,
     Bwd!InFile, Bwd!sendVars, Bwd!mainVars, Bwd!nakVars, Bwd!ReceiverStep,
     Bwd!Calloc, Bwd!Receive, Bwd!SendAcks, Bwd!Join, Bwd!NakCheck,
     Bwd!Iterate, Bwd!NakSend, Bwd!FirstArrival, Bwd!AllArrived,
     Bwd!Missing, Bwd!StartReceiver, Bwd!IntMsg, Bwd!Dgram, Bwd!Ack,
     Bwd!IsAck, Bwd!Chunk, Bwd!Hole, Bwd!Seqs, Bwd!TotalSeq,
     BwdP!SenderStep, BwdP!StartSender, BwdP!SendNext, BwdP!Answer,
     BwdP!Crash, BwdP!ReleaseSender, BwdP!MoreToSend, BwdP!Copied,
     BwdP!RetransmitSize, BwdP!InFile, BwdP!sendVars, BwdP!mainVars,
     BwdP!nakVars, BwdP!ReceiverStep, BwdP!Calloc, BwdP!Receive,
     BwdP!SendAcks, BwdP!Join, BwdP!NakCheck, BwdP!Iterate, BwdP!NakSend,
     BwdP!FirstArrival, BwdP!AllArrived, BwdP!Missing, BwdP!StartReceiver,
     BwdP!IntMsg, BwdP!Dgram, BwdP!Ack, BwdP!IsAck, BwdP!Chunk, BwdP!Hole,
     BwdP!Seqs, BwdP!TotalSeq

LEMMA Bounds == TotalSeq \in Nat /\ FileSize \in Nat
  BY SizesAssumption DEF TotalSeq

LEMMA FwdNames ==
  /\ FwdP!Seqs = Seqs /\ FwdP!TotalSeq = TotalSeq /\ FwdP!Chunk = Chunk
  /\ FwdP!Hole = Hole /\ FwdP!Original = Original /\ FwdP!Ack = Ack
  /\ \A i : FwdP!IntMsg(i) = IntMsg(i)
  /\ \A i, c : FwdP!Dgram(i, c) = Dgram(i, c)
  /\ \A m : FwdP!IsAck(m) <=> m.first < 0
  /\ FwdP!Final = Final
  BY DEF FwdP!Final, FwdP!Surplus, Final, Surplus,
     FwdP!Seqs, FwdP!TotalSeq, FwdP!Chunk, FwdP!Hole, FwdP!Original, FwdP!Ack,
     FwdP!IntMsg, FwdP!Dgram, FwdP!IsAck, FwdP!ChunkSize, FwdP!LeftByte,
     Seqs, TotalSeq, Chunk, Hole, Original, Ack, IntMsg, Dgram, ChunkSize, LeftByte

LEMMA FwdTypes ==
  ASSUME FwdP!RcvInv
  PROVE  /\ stotalSeq \in Seqs
         /\ srcv \in {"idle", "alloc", "recv", "ack", "join", "done"}
         /\ textref \in File
         /\ srcv = "idle" => stotalSeq = 0
         /\ srcv \in {"idle", "alloc"} => textref = [i \in Seqs |-> Hole]
         /\ srcv \in {"ack", "join", "done"} <=> sarrived = stotalSeq + 1
  BY FwdNames
     DEF FwdP!RcvInv, FwdP!BeforeLoop, FwdP!AfterLoop, FwdP!Written, FwdP!Finished, File

LEMMA FwdSame ==
  ASSUME FwdP!RcvInv, UNCHANGED serverRcvVars
  PROVE  FwdP!RcvInv'
  BY FwdNames, FwdP!SameReceiver, SizesAssumption, BytesAssumption, SessionAssumption
     DEF serverRcvVars

LEMMA FwdStarts ==
  ASSUME FwdP!RcvInv, NEW size, size \div Payload \in Seqs, Fwd!StartReceiver(size)
  PROVE  /\ FwdP!RcvInv'
         /\ UNCHANGED <<textfile, cfilesize, cseq, cretr, textref, toServer, toClient>>
         /\ srcv = "idle" /\ srcv' = "alloc"
         /\ stotalSeq' = size \div Payload
<1>1. FwdP!StartReceiver(size)
  BY FwdSteps
<1> QED
  BY <1>1, FwdNames, FwdP!ReceiverStarts, SizesAssumption, BytesAssumption, SessionAssumption
     DEF FwdP!ReceiverKeeps

LEMMA FwdReceives ==
  ASSUME FwdP!RcvInv, WireTypes, Fwd!ReceiverStep
  PROVE  /\ FwdP!RcvInv'
         /\ UNCHANGED <<textfile, cfilesize, cseq, cretr, stotalSeq, toServer>>
         /\ srcv # "idle" /\ srcv' # "idle"
         /\ srcv = "join" => srcv' \in {"join", "done"}
         /\ srcv = "done" => srcv' = "done"
         /\ \A m \in toClient' :
              \/ m \in toClient
              \/ \E i \in 0..stotalSeq : m = IntMsg(i)
              \/ m = Ack /\ srcv = "ack" /\ srcv' = "join"
         /\ \/ /\ textref' = textref
               /\ srcv' \in {"ack", "join", "done"} <=> srcv \in {"ack", "join", "done"}
            \/ \E m \in toServer :
                 /\ m.kind = "dgram" /\ m.first \in Seqs
                 /\ textref[m.first] = Hole
                 /\ srcv \notin {"ack", "join", "done"}
                 /\ textref' = [textref EXCEPT ![m.first] = m.chunk]
<1>1. FwdP!ReceiverStep
  BY FwdSteps
<1>2. FwdP!ChunksCarried
  BY FwdNames DEF FwdP!ChunksCarried, WireTypes, Msgs
<1>3. FwdP!RcvInv' /\ FwdP!ReceiverKeeps /\ FwdP!ReceiverDoes
  BY <1>1, <1>2, FwdNames, FwdP!ReceiverMoves, SizesAssumption, BytesAssumption, SessionAssumption
<1> QED
  BY <1>3, FwdNames
     DEF FwdP!ReceiverKeeps, FwdP!ReceiverDoes, FwdP!Reported, FwdP!Stored, FwdP!Finished

LEMMA FwdSends ==
  ASSUME SendTypes, WireTypes, textfile \in File, Fwd!SenderStep
  PROVE  /\ UNCHANGED <<textfile, cfilesize, stotalSeq, srcv, sallNodes, sarrived, textref,
                        snak, toClient>>
         /\ FwdP!RcvInv => FwdP!RcvInv'
         /\ cseq' \in Nat
         /\ cretr' \in {"waiting", "exited", "crashed"}
         /\ cretr = "exited" => cretr' = "exited"
         /\ cretr' = "exited" => cretr = "exited" \/ Told(toClient)
         /\ \A m \in toServer' :
              \/ m \in toServer
              \/ /\ cretr # "idle"
                 /\ m \in Msgs /\ m.first # -1
                 /\ m.first \in Seqs \/ \E k \in toClient : k.first # -1 /\ m.first = k.first
                 /\ textfile \in {Original, Final} /\ cfilesize = FileSize => TrueDgram(m)
<1>1. FwdP!SenderStep
  BY FwdSteps
<1>2. FwdP!SenderKeeps /\ FwdP!SenderDoes
  BY <1>1, FwdNames, FwdP!SenderMoves, SizesAssumption, BytesAssumption, SessionAssumption
     DEF SendTypes, File
<1>3. FwdP!RcvInv => FwdP!RcvInv'
  BY <1>2, FwdP!SameReceiver, SizesAssumption, BytesAssumption, SessionAssumption, FwdNames
     DEF FwdP!SenderKeeps
<1>4. \A k \in toClient : k.first \in Nums \cup {-1}
  BY DEF WireTypes, Msgs
<1>5. Nums \subseteq Nat
  BY Bounds DEF Nums, Seqs
<1>6. ASSUME NEW m, FwdP!Served(m)
      PROVE  /\ cretr # "idle"
             /\ m \in Msgs /\ m.first # -1
             /\ m.first \in Seqs \/ \E k \in toClient : k.first # -1 /\ m.first = k.first
             /\ textfile \in {Original, Final} /\ cfilesize = FileSize => TrueDgram(m)
  <2>1. m = Dgram(m.first, m.chunk) /\ m.chunk \in Chunk /\ cretr # "idle"
    BY <1>6, FwdNames DEF FwdP!Served
  <2>2. m.first \in Nums
    BY <1>4, <1>5, <1>6, FwdNames DEF FwdP!Served, Nums
  <2>3. m \in Msgs
    BY <2>1, <2>2 DEF Dgram, Msgs
  <2>4. textfile \in {Original, Final} /\ cfilesize = FileSize => TrueDgram(m)
    BY <1>6, FwdNames DEF FwdP!Served, TrueDgram
  <2>5. m.first \in Seqs \/ \E k \in toClient : k.first # -1 /\ m.first = k.first
    BY <1>6, FwdNames DEF FwdP!Served
  <2> QED
    BY <1>5, <2>1, <2>2, <2>3, <2>4, <2>5
<1>7. ASSUME cretr' = "exited", cretr # "exited" PROVE Told(toClient)
  <2> PICK m \in toClient : m.first < 0
    BY <1>2, <1>7, FwdNames DEF FwdP!SenderDoes
  <2>1. m.first \in Nat \/ m.first = -1
    BY <1>4, <1>5
  <2>2. m.first = -1
    BY <2>1
  <2> QED
    BY <2>2 DEF Told
<1>8. \A m \in toServer' : m \in toServer \/ FwdP!Served(m)
  BY <1>2 DEF FwdP!SenderDoes
<1>9. UNCHANGED <<textfile, cfilesize, stotalSeq, srcv, sallNodes, sarrived, textref,
                  snak, toClient>>
  BY <1>2 DEF FwdP!SenderKeeps
<1>10. /\ cseq' \in Nat
       /\ cretr' \in {"waiting", "exited", "crashed"}
       /\ cretr = "exited" => cretr' = "exited"
  BY <1>2 DEF FwdP!SenderDoes
<1> QED
  BY <1>3, <1>6, <1>7, <1>8, <1>9, <1>10

LEMMA BwdNames ==
  /\ BwdP!Seqs = Seqs /\ BwdP!TotalSeq = TotalSeq /\ BwdP!Chunk = Chunk
  /\ BwdP!Hole = Hole /\ BwdP!Original = Original /\ BwdP!Ack = Ack
  /\ \A i : BwdP!IntMsg(i) = IntMsg(i)
  /\ \A i, c : BwdP!Dgram(i, c) = Dgram(i, c)
  /\ \A m : BwdP!IsAck(m) <=> m.first < 0
  /\ BwdP!Final = Final
  BY DEF BwdP!Final, BwdP!Surplus, Final, Surplus,
     BwdP!Seqs, BwdP!TotalSeq, BwdP!Chunk, BwdP!Hole, BwdP!Original, BwdP!Ack,
     BwdP!IntMsg, BwdP!Dgram, BwdP!IsAck, BwdP!ChunkSize, BwdP!LeftByte,
     Seqs, TotalSeq, Chunk, Hole, Original, Ack, IntMsg, Dgram, ChunkSize, LeftByte

LEMMA BwdTypes ==
  ASSUME BwdP!RcvInv
  PROVE  /\ ctotalSeq \in Seqs
         /\ crcv \in {"idle", "alloc", "recv", "ack", "join", "done"}
         /\ textback \in File
         /\ crcv = "idle" => ctotalSeq = 0
         /\ crcv \in {"idle", "alloc"} => textback = [i \in Seqs |-> Hole]
         /\ crcv \in {"ack", "join", "done"} <=> carrived = ctotalSeq + 1
  BY BwdNames
     DEF BwdP!RcvInv, BwdP!BeforeLoop, BwdP!AfterLoop, BwdP!Written, BwdP!Finished, File

LEMMA BwdSame ==
  ASSUME BwdP!RcvInv, UNCHANGED clientRcvVars
  PROVE  BwdP!RcvInv'
  BY BwdNames, BwdP!SameReceiver, SizesAssumption, BytesAssumption, SessionAssumption
     DEF clientRcvVars

LEMMA BwdStarts ==
  ASSUME BwdP!RcvInv, NEW size, size \div Payload \in Seqs, Bwd!StartReceiver(size)
  PROVE  /\ BwdP!RcvInv'
         /\ UNCHANGED <<textref, sfilesize, sseq, sretr, textback, toServer, toClient>>
         /\ crcv = "idle" /\ crcv' = "alloc"
         /\ ctotalSeq' = size \div Payload
<1>1. BwdP!StartReceiver(size)
  BY BwdSteps
<1> QED
  BY <1>1, BwdNames, BwdP!ReceiverStarts, SizesAssumption, BytesAssumption, SessionAssumption
     DEF BwdP!ReceiverKeeps

LEMMA BwdReceives ==
  ASSUME BwdP!RcvInv, WireTypes, Bwd!ReceiverStep
  PROVE  /\ BwdP!RcvInv'
         /\ UNCHANGED <<textref, sfilesize, sseq, sretr, ctotalSeq, toClient>>
         /\ crcv # "idle" /\ crcv' # "idle"
         /\ crcv = "join" => crcv' \in {"join", "done"}
         /\ crcv = "done" => crcv' = "done"
         /\ \A m \in toServer' :
              \/ m \in toServer
              \/ \E i \in 0..ctotalSeq : m = IntMsg(i)
              \/ m = Ack /\ crcv = "ack" /\ crcv' = "join"
         /\ \/ /\ textback' = textback
               /\ crcv' \in {"ack", "join", "done"} <=> crcv \in {"ack", "join", "done"}
            \/ \E m \in toClient :
                 /\ m.kind = "dgram" /\ m.first \in Seqs
                 /\ textback[m.first] = Hole
                 /\ crcv \notin {"ack", "join", "done"}
                 /\ textback' = [textback EXCEPT ![m.first] = m.chunk]
<1>1. BwdP!ReceiverStep
  BY BwdSteps
<1>2. BwdP!ChunksCarried
  BY BwdNames DEF BwdP!ChunksCarried, WireTypes, Msgs
<1>3. BwdP!RcvInv' /\ BwdP!ReceiverKeeps /\ BwdP!ReceiverDoes
  BY <1>1, <1>2, BwdNames, BwdP!ReceiverMoves, SizesAssumption, BytesAssumption, SessionAssumption
<1> QED
  BY <1>3, BwdNames
     DEF BwdP!ReceiverKeeps, BwdP!ReceiverDoes, BwdP!Reported, BwdP!Stored, BwdP!Finished

LEMMA BwdSends ==
  ASSUME SendTypes, WireTypes, textref \in File, Bwd!SenderStep
  PROVE  /\ UNCHANGED <<textref, sfilesize, ctotalSeq, crcv, callNodes, carrived, textback,
                        cnak, toServer>>
         /\ BwdP!RcvInv => BwdP!RcvInv'
         /\ sseq' \in Nat
         /\ sretr' \in {"waiting", "exited", "crashed"}
         /\ sretr = "exited" => sretr' = "exited"
         /\ sretr' = "exited" => sretr = "exited" \/ Told(toServer)
         /\ \A m \in toClient' :
              \/ m \in toClient
              \/ /\ sretr # "idle"
                 /\ m \in Msgs /\ m.first # -1
                 /\ textref \in {Original, Final} /\ sfilesize = FileSize => TrueDgram(m)
<1>1. BwdP!SenderStep
  BY BwdSteps
<1>2. BwdP!SenderKeeps /\ BwdP!SenderDoes
  BY <1>1, BwdNames, BwdP!SenderMoves, SizesAssumption, BytesAssumption, SessionAssumption
     DEF SendTypes, File
<1>3. BwdP!RcvInv => BwdP!RcvInv'
  BY <1>2, BwdP!SameReceiver, SizesAssumption, BytesAssumption, SessionAssumption, BwdNames
     DEF BwdP!SenderKeeps
<1>4. \A k \in toServer : k.first \in Nums \cup {-1}
  BY DEF WireTypes, Msgs
<1>5. Nums \subseteq Nat
  BY Bounds DEF Nums, Seqs
<1>6. ASSUME NEW m, BwdP!Served(m)
      PROVE  /\ sretr # "idle"
             /\ m \in Msgs /\ m.first # -1
             /\ textref \in {Original, Final} /\ sfilesize = FileSize => TrueDgram(m)
  <2>1. m = Dgram(m.first, m.chunk) /\ m.chunk \in Chunk /\ sretr # "idle"
    BY <1>6, BwdNames DEF BwdP!Served
  <2>2. m.first \in Nums
    BY <1>4, <1>5, <1>6, BwdNames DEF BwdP!Served, Nums
  <2>3. m \in Msgs
    BY <2>1, <2>2 DEF Dgram, Msgs
  <2>4. textref \in {Original, Final} /\ sfilesize = FileSize => TrueDgram(m)
    BY <1>6, BwdNames DEF BwdP!Served, TrueDgram
  <2> QED
    BY <1>5, <2>1, <2>2, <2>3, <2>4
<1>7. ASSUME sretr' = "exited", sretr # "exited" PROVE Told(toServer)
  <2> PICK m \in toServer : m.first < 0
    BY <1>2, <1>7, BwdNames DEF BwdP!SenderDoes
  <2>1. m.first \in Nat \/ m.first = -1
    BY <1>4, <1>5
  <2>2. m.first = -1
    BY <2>1
  <2> QED
    BY <2>2 DEF Told
<1>8. \A m \in toClient' : m \in toClient \/ BwdP!Served(m)
  BY <1>2 DEF BwdP!SenderDoes
<1>9. UNCHANGED <<textref, sfilesize, ctotalSeq, crcv, callNodes, carrived, textback,
                  cnak, toServer>>
  BY <1>2 DEF BwdP!SenderKeeps
<1>10. /\ sseq' \in Nat
       /\ sretr' \in {"waiting", "exited", "crashed"}
       /\ sretr = "exited" => sretr' = "exited"
  BY <1>2 DEF BwdP!SenderDoes
<1> QED
  BY <1>3, <1>6, <1>7, <1>8, <1>9, <1>10

-----------------------------------------------------------------------------
(* The invariant is kept, whatever the server takes for the size.          *)

LEMMA IntMsgs ==
  ASSUME NEW i \in Nums \cup {-1}
  PROVE  /\ IntMsg(i) \in Msgs
         /\ IntMsg(i).first = i
         /\ TrueDgram(IntMsg(i))
  BY DEF IntMsg, Msgs, TrueDgram

LEMMA NumsNat == Nums \subseteq Nat /\ -1 \notin Nums
  BY Bounds DEF Nums, Seqs

(* Whatever is taken for the size, the last packet is one of the file.     *)
LEMMA SizeTaken ==
  ASSUME NEW n \in Nums
  PROVE  n \div Payload \in Seqs
<1>1. n \in Nat /\ Payload \in Nat \ {0}
  BY NumsNat, SizesAssumption
<1>2. CASE n = FileSize
  BY <1>2, Bounds DEF TotalSeq, Seqs
<1>3. CASE n \in Seqs
  <2>1. n \div Payload \in 0..n
    BY <1>1
  <2> QED
    BY <1>3, <2>1, Bounds DEF Seqs
<1> QED
  BY <1>2, <1>3 DEF Nums

LEMMA StoreTrue ==
  ASSUME NEW f \in File, NEW m, TrueCopy(f), TrueDgram(m), m.kind = "dgram", m.first \in Seqs
  PROVE  TrueCopy([f EXCEPT ![m.first] = m.chunk])
  BY DEF File, TrueCopy, TrueDgram

LEMMA HolesTrue == TrueCopy([i \in Seqs |-> Hole])
  BY DEF TrueCopy

LEMMA FileInFinal == \A i \in Seqs : Original[i] # Hole => Final[i] = Original[i]
  BY DEF Final

LEMMA FinalInFile == Final \in [Seqs -> Chunk]
  BY FwdNames, FwdP!FinalType, SizesAssumption, BytesAssumption, SessionAssumption

LEMMA OriginalInFile == Original \in File
  BY FwdNames, FwdP!OriginalType, SizesAssumption, BytesAssumption, SessionAssumption DEF File

LEMMA GenInit == Init => GenInv
<1> SUFFICES ASSUME Init PROVE GenInv
  OBVIOUS
<1> USE DEF Init, Fwd!Init
<1>1. Fwd!Seqs = Seqs /\ Fwd!Hole = Hole /\ Fwd!Original = Original
  BY DEF Fwd!Seqs, Fwd!TotalSeq, Fwd!Hole, Fwd!Original, Fwd!ChunkSize, Fwd!LeftByte,
     Seqs, TotalSeq, Hole, Original, ChunkSize, LeftByte
<1>2. FwdP!RcvInv
  BY <1>1, FwdNames, FwdP!ReceiverInit, SizesAssumption, BytesAssumption, SessionAssumption
<1>3. BwdP!RcvInv
  BY <1>1, BwdNames, BwdP!ReceiverInit, SizesAssumption, BytesAssumption, SessionAssumption
<1>4. SendTypes
  BY <1>1, Bounds DEF SendTypes
<1>5. CopyInv
  BY <1>1, HolesTrue DEF CopyInv
<1> QED
  BY <1>2, <1>3, <1>4, <1>5 DEF GenInv, WireTypes, PhaseInv, Told

LEMMA HelloInv ==
  ASSUME GenInv, ClientHello
  PROVE  GenInv'
<1> USE DEF GenInv, ClientHello
<1>1. FwdP!RcvInv' /\ BwdP!RcvInv'
  BY FwdSame, BwdSame
<1>2. /\ IntMsg(cfilesize) \in Msgs /\ IntMsg(cfilesize).first # -1
      /\ TrueDgram(IntMsg(cfilesize))
  BY IntMsgs, NumsNat DEF SendTypes, Nums
<1>3. UNCHANGED <<textfile, cfilesize, cseq, cretr, sfilesize, sseq, sretr, srcv, crcv,
                  ctotalSeq, textref, toClient>>
  BY DEF serverRcvVars, serverSendVars, clientRcvVars
<1>4. SendTypes' /\ WireTypes'
  BY <1>2, <1>3 DEF SendTypes, WireTypes
<1>5. PhaseInv'
  BY <1>2, <1>3 DEF PhaseInv, Told
<1>6. CopyInv'
  BY <1>2, <1>3 DEF CopyInv
<1> QED
  BY <1>1, <1>4, <1>5, <1>6

LEMMA ClientSendsInv ==
  ASSUME GenInv, ClientSends
  PROVE  GenInv'
<1> USE DEF GenInv, ClientSends
<1>1. textfile = Original /\ cfilesize = FileSize /\ textfile \in File
  BY OriginalInFile DEF SendTypes
<1>2. Fwd!SenderStep
  OBVIOUS
<1>3. BwdP!RcvInv' /\ FwdP!RcvInv'
  BY <1>1, <1>2, FwdSends, BwdSame DEF fwdOnly
<1>4. UNCHANGED <<hello, sfilesize, sseq, sretr, crcv, ctotalSeq>>
  BY DEF fwdOnly, serverSendVars, clientRcvVars
<1>5. UNCHANGED <<textfile, cfilesize, srcv, textref, toClient>>
  BY <1>1, <1>2, FwdSends
<1>6. \A m \in toServer' : m \in toServer \/ (m \in Msgs /\ m.first # -1 /\ TrueDgram(m))
  BY <1>1, <1>2, FwdSends
<1>7. /\ cseq' \in Nat
      /\ cretr' \in {"waiting", "exited", "crashed"}
      /\ cretr = "exited" => cretr' = "exited"
      /\ cretr' = "exited" => cretr = "exited" \/ Told(toClient)
  BY <1>1, <1>2, FwdSends
<1>8. SendTypes' /\ WireTypes'
  BY <1>4, <1>5, <1>6, <1>7 DEF SendTypes, WireTypes
<1>9. Told(toServer') => Told(toServer)
  BY <1>6 DEF Told
<1>10. PhaseInv'
  BY <1>4, <1>5, <1>7, <1>9 DEF PhaseInv
<1>11. CopyInv'
  BY <1>5, <1>6 DEF CopyInv
<1> QED
  BY <1>3, <1>8, <1>10, <1>11

LEMMA ServerStartInv ==
  ASSUME GenInv, ServerStart
  PROVE  GenInv'
<1> USE DEF GenInv, ServerStart
<1> PICK m \in toServer : Fwd!StartReceiver(m.first) /\ sfilesize' = m.first
  OBVIOUS
<1>1. srcv = "idle"
  BY DEF Fwd!StartReceiver
<1>2. m.first \in Nums
  BY <1>1 DEF PhaseInv, Told, WireTypes, Msgs
<1>3. m.first \div Payload \in Seqs
  BY <1>2, SizeTaken
<1>4. /\ FwdP!RcvInv'
      /\ UNCHANGED <<textfile, cfilesize, cseq, cretr, textref, toServer, toClient>>
      /\ srcv' = "alloc"
  BY <1>3, FwdStarts
<1>5. UNCHANGED <<hello, sseq, sretr, crcv, ctotalSeq>> /\ BwdP!RcvInv'
  BY BwdSame DEF clientRcvVars
<1>6. SendTypes' /\ WireTypes'
  BY <1>2, <1>4, <1>5, NumsNat DEF SendTypes, WireTypes
<1>7. PhaseInv'
  BY <1>1, <1>4, <1>5 DEF PhaseInv, Told
<1>8. CopyInv'
  BY <1>4 DEF CopyInv
<1> QED
  BY <1>4, <1>5, <1>6, <1>7, <1>8

LEMMA ServerReceivesInv ==
  ASSUME GenInv, ServerReceives
  PROVE  GenInv'
<1> USE DEF GenInv, ServerReceives
<1>1. /\ FwdP!RcvInv'
      /\ UNCHANGED <<textfile, cfilesize, cseq, cretr, toServer>>
      /\ srcv \in {"join", "done"} => srcv' \in {"join", "done"}
      /\ srcv = "done" => srcv' = "done"
  BY FwdReceives
<1>2. UNCHANGED <<hello, sfilesize, sseq, sretr, crcv, ctotalSeq>> /\ BwdP!RcvInv'
  BY BwdSame DEF fwdOnly, serverSendVars, clientRcvVars
<1>3. \A m \in toClient' : m \in toClient \/ (m \in Msgs /\ (m.first = -1 => srcv' = "join"))
  <2>1. stotalSeq \in Seqs /\ textref \in File
    BY FwdTypes
  <2>2. \A i \in 0..stotalSeq : i \in Nums \cup {-1} /\ i # -1
    BY <2>1, Bounds DEF Seqs, Nums
  <2>3. Ack \in Msgs
    BY IntMsgs DEF Ack
  <2> QED
    BY <2>2, <2>3, IntMsgs, FwdReceives
<1>4. TrueCopy(textref')
  <2>1. textref \in File
    BY FwdTypes
  <2> QED
    BY <2>1, FwdReceives, StoreTrue DEF CopyInv
<1>5. SendTypes' /\ WireTypes'
  BY <1>1, <1>2, <1>3 DEF SendTypes, WireTypes
<1>6. PhaseInv'
  BY <1>1, <1>2, <1>3 DEF PhaseInv, Told
<1>7. CopyInv'
  BY <1>1, <1>4 DEF CopyInv
<1> QED
  BY <1>1, <1>2, <1>5, <1>6, <1>7

LEMMA ServerSendsInv ==
  ASSUME GenInv, ServerTurns \/ ServerSends
  PROVE  GenInv'
<1> USE DEF GenInv
<1>1. Bwd!SenderStep /\ UNCHANGED bwdOnly
  BY DEF ServerTurns, ServerSends, Bwd!SenderStep
<1>2. srcv = "done"
  BY
     DEF ServerTurns, ServerSends, Bwd!SendNext, Bwd!Answer, Bwd!Crash, Bwd!ReleaseSender, PhaseInv
<1>3. textref \in File
  BY FwdTypes
<1>4. /\ UNCHANGED <<textref, sfilesize, ctotalSeq, crcv, toServer>>
      /\ BwdP!RcvInv'
      /\ sseq' \in Nat
      /\ sretr' \in {"waiting", "exited", "crashed"}
      /\ sretr' = "exited" => sretr = "exited" \/ Told(toServer)
  BY <1>1, <1>3, BwdSends
<1>5. \A m \in toClient' : m \in toClient \/ (m \in Msgs /\ m.first # -1)
  BY <1>1, <1>3, BwdSends
<1>6. /\ UNCHANGED <<textfile, cfilesize, hello, cseq, cretr, srcv>>
      /\ FwdP!RcvInv'
  BY <1>1, <1>4, FwdSame DEF bwdOnly, clientSendVars, serverRcvVars
<1>7. SendTypes' /\ WireTypes'
  BY <1>4, <1>5, <1>6 DEF SendTypes, WireTypes
<1>8. PhaseInv'
  BY <1>2, <1>4, <1>5, <1>6 DEF PhaseInv, Told
<1>9. CopyInv'
  BY <1>4 DEF CopyInv
<1> QED
  BY <1>4, <1>6, <1>7, <1>8, <1>9

LEMMA ClientTurnsInv ==
  ASSUME GenInv, ClientTurns
  PROVE  GenInv'
<1> USE DEF GenInv, ClientTurns
<1>1. cfilesize \div Payload = TotalSeq /\ cfilesize \div Payload \in Seqs
  BY Bounds DEF SendTypes, TotalSeq, Seqs
<1>2. /\ BwdP!RcvInv'
      /\ UNCHANGED <<textref, sfilesize, sseq, sretr, toServer, toClient>>
      /\ crcv = "idle" /\ crcv' = "alloc" /\ ctotalSeq' = TotalSeq
  BY <1>1, BwdStarts
<1>3. UNCHANGED <<textfile, cfilesize, hello, cseq, cretr, srcv>> /\ FwdP!RcvInv'
  BY <1>2, FwdSame DEF bwdOnly, clientSendVars, serverRcvVars
<1>4. SendTypes' /\ WireTypes' /\ CopyInv'
  BY <1>2, <1>3 DEF SendTypes, WireTypes, CopyInv
<1>5. PhaseInv'
  BY <1>2, <1>3 DEF PhaseInv, Told
<1> QED
  BY <1>2, <1>3, <1>4, <1>5

LEMMA ClientReceivesInv ==
  ASSUME GenInv, ClientReceives
  PROVE  GenInv'
<1> USE DEF GenInv, ClientReceives
<1>1. /\ BwdP!RcvInv'
      /\ UNCHANGED <<textref, sfilesize, sseq, sretr, ctotalSeq, toClient>>
      /\ crcv' # "idle"
      /\ crcv \in {"join", "done"} => crcv' \in {"join", "done"}
  BY BwdReceives
<1>2. UNCHANGED <<textfile, cfilesize, hello, cseq, cretr, srcv>> /\ FwdP!RcvInv'
  BY <1>1, FwdSame DEF bwdOnly, clientSendVars, serverRcvVars
<1>3. \A m \in toServer' :
        m \in toServer \/ (m \in Msgs /\ TrueDgram(m) /\ (m.first = -1 => crcv' = "join"))
  <2>1. ctotalSeq \in Seqs
    BY BwdTypes
  <2>2. \A i \in 0..ctotalSeq : i \in Nums \cup {-1} /\ i # -1
    BY <2>1, Bounds DEF Seqs, Nums
  <2>3. Ack \in Msgs /\ TrueDgram(Ack)
    BY IntMsgs DEF Ack
  <2> QED
    BY <2>2, <2>3, IntMsgs, BwdReceives
<1>4. crcv # "idle"
  BY BwdReceives
<1>5. SendTypes' /\ WireTypes'
  BY <1>1, <1>2, <1>3 DEF SendTypes, WireTypes
<1>6. PhaseInv'
  BY <1>1, <1>2, <1>3, <1>4 DEF PhaseInv, Told
<1>7. CopyInv'
  BY <1>1, <1>3 DEF CopyInv
<1> QED
  BY <1>1, <1>2, <1>5, <1>6, <1>7

LEMMA LoseInv ==
  ASSUME GenInv, Lose
  PROVE  GenInv'
<1> USE DEF GenInv, Lose
<1>1. /\ toServer' \subseteq toServer /\ toClient' \subseteq toClient
      /\ UNCHANGED <<clientSendVars, serverRcvVars, serverSendVars, clientRcvVars>>
  BY DEF Fwd!LoseToSender, Fwd!LoseToReceiver, Fwd!sendVars, Fwd!mainVars, Fwd!nakVars,
     fwdOnly, clientSendVars, serverRcvVars
<1>2. FwdP!RcvInv' /\ BwdP!RcvInv'
  BY <1>1, FwdSame, BwdSame
<1>3. UNCHANGED <<textfile, cfilesize, hello, cseq, cretr, sfilesize, sseq, sretr, srcv,
                  crcv, ctotalSeq, textref>>
  BY <1>1 DEF clientSendVars, serverRcvVars, serverSendVars, clientRcvVars
<1>4. SendTypes' /\ WireTypes' /\ CopyInv'
  BY <1>1, <1>3 DEF SendTypes, WireTypes, CopyInv
<1>5. PhaseInv'
  BY <1>1, <1>3 DEF PhaseInv, Told
<1> QED
  BY <1>2, <1>4, <1>5

LEMMA GenStep == GenInv /\ [Next]_vars => GenInv'
<1> SUFFICES ASSUME GenInv, [Next]_vars PROVE GenInv'
  OBVIOUS
<1>1. CASE Next
  BY <1>1, HelloInv, ClientSendsInv, ServerStartInv, ServerReceivesInv, ServerSendsInv,
     ClientTurnsInv, ClientReceivesInv, LoseInv DEF Next
<1>2. CASE UNCHANGED vars
  <2> USE <1>2 DEF GenInv, vars
  <2>1. FwdP!RcvInv' /\ BwdP!RcvInv'
    BY FwdSame, BwdSame
  <2>2. UNCHANGED <<textfile, cfilesize, hello, cseq, cretr, sfilesize, sseq, sretr, srcv,
                    crcv, ctotalSeq, textref, toServer, toClient>>
    BY DEF clientSendVars, serverRcvVars, serverSendVars, clientRcvVars
  <2> QED
    BY <2>1, <2>2 DEF SendTypes, WireTypes, CopyInv, PhaseInv, Told
<1> QED
  BY <1>1, <1>2

THEOREM SessionInvariance == Spec => []GenInv
  BY GenInit, GenStep, PTL DEF Spec

LEMMA MessageTypes == Msgs \subseteq Message
<1> SUFFICES ASSUME NEW m \in Msgs PROVE m \in Message
  OBVIOUS
<1>1. Nums \subseteq Nat
  BY NumsNat
<1>2. CASE m \in [kind : {"int"}, first : Nums \cup {-1}]
  <2>1. m.first \in Nums \/ m.first = -1
    BY <1>2
  <2>2. m.first \in Int
    <3>1. CASE m.first \in Nums
      <4>1. m.first \in Nat
        BY <1>1, <3>1, Zenon
      <4> QED
        BY <4>1
    <3>2. CASE m.first = -1
      BY <3>2
    <3> QED
      BY <2>1, <3>1, <3>2
  <2>3. m = [kind |-> "int", first |-> m.first]
    BY <1>2
  <2>4. [kind |-> "int", first |-> m.first] \in [kind : {"int"}, first : Int]
    BY <2>2
  <2> QED
    BY <2>3, <2>4 DEF Message
<1>3. CASE m \in [kind : {"dgram"}, first : Nums, chunk : Chunk]
  BY <1>1, <1>3 DEF Message
<1> QED
  BY <1>2, <1>3 DEF Msgs

LEMMA SameSets ==
  /\ Fwd!Seqs = Seqs /\ Fwd!Chunk = Chunk /\ Fwd!Hole = Hole /\ Fwd!Message = Message
  /\ Bwd!Seqs = Seqs /\ Bwd!Chunk = Chunk /\ Bwd!Hole = Hole /\ Bwd!Message = Message
  BY DEF Fwd!Seqs, Fwd!TotalSeq, Fwd!Chunk, Fwd!Hole, Fwd!Message,
     Bwd!Seqs, Bwd!TotalSeq, Bwd!Chunk, Bwd!Hole, Bwd!Message,
     Seqs, TotalSeq, Chunk, Hole, Message

(* Both directions keep their types, whatever else is on their sockets.    *)
THEOREM SessionTypeCorrect == Spec => []SessionTypeOK
<1>1. ASSUME GenInv PROVE SessionTypeOK
  <2> USE <1>1 DEF GenInv
  <2>1. toServer \subseteq Message /\ toClient \subseteq Message
    BY MessageTypes DEF WireTypes
  <2>2. textfile \in File /\ cfilesize \in Nat
    BY OriginalInFile, Bounds DEF SendTypes
  <2>3. Fwd!TypeOK
    BY <2>1, <2>2, FwdNames, SameSets DEF SendTypes, File, FwdP!RcvInv, Fwd!TypeOK
  <2>4. textref \in File
    BY FwdTypes
  <2>5. Bwd!TypeOK
    BY <2>1, <2>4, BwdNames, SameSets DEF SendTypes, File, BwdP!RcvInv, Bwd!TypeOK
  <2> QED
    BY <2>3, <2>5 DEF SessionTypeOK, SendTypes
<1> QED
  BY <1>1, SessionInvariance, PTL

(* Whatever the server has taken for the size (server.c:245), it stores    *)
(* chunks of the client's file at their places, and only its ack ends the  *)
(* client's retransmit thread (client.c:165).                              *)
THEOREM TextrefCorrect == Spec => []TextrefTrue
<1>1. ASSUME GenInv PROVE TextrefTrue
  <2> USE <1>1 DEF GenInv
  <2>1. cretr = "exited" => srcv \in {"join", "done"} /\ sarrived = stotalSeq + 1
    BY FwdTypes DEF PhaseInv
  <2> QED
    BY <2>1, FileInFinal DEF TextrefTrue, CopyInv, TrueCopy, SendTypes
<1> QED
  BY <1>1, SessionInvariance, PTL

-----------------------------------------------------------------------------
(* The acks of the server are sent once (server.c:293): when they are all  *)
(* lost the client's retransmit thread never ends, and the client never    *)
(* turns to receiving.                                                     *)

LEMMA NotTold ==
  ASSUME WireTypes, Ack \notin toClient
  PROVE  ~Told(toClient)
<1> SUFFICES ASSUME NEW m \in toClient, m.first = -1 PROVE FALSE
  BY DEF Told
<1>1. m \in [kind : {"int"}, first : Nums \cup {-1}]
  BY NumsNat DEF WireTypes, Msgs
<1>2. m = Ack
  BY <1>1 DEF Ack, IntMsg
<1> QED
  BY <1>2

LEMMA AckIsTold == Ack.first = -1
  BY IntMsgs DEF Ack

LEMMA LostStep ==
  ASSUME GenInv, [Next]_vars, FwdAcksLost
  PROVE  FwdAcksLost' /\ crcv = "idle"
<1> USE DEF GenInv
<1>1. srcv \in {"join", "done"} /\ cretr # "exited" /\ ~Told(toClient) /\ crcv = "idle"
  BY NotTold DEF FwdAcksLost, PhaseInv
<1>2. SUFFICES srcv' \in {"join", "done"} /\ cretr' # "exited" /\ ~Told(toClient')
  BY <1>1, AckIsTold DEF FwdAcksLost, Told
<1>3. CASE ClientHello
  BY <1>1, <1>3 DEF ClientHello, serverRcvVars
<1>4. CASE ClientSends
  BY <1>1, <1>4, FwdSends, OriginalInFile DEF ClientSends, SendTypes
<1>5. CASE ServerStart
  BY <1>1, <1>5, FwdStarts DEF ServerStart, Fwd!StartReceiver
<1>6. CASE ServerReceives
  <2>1. /\ srcv' \in {"join", "done"} /\ cretr' = cretr
        /\ \A m \in toClient' : m \in toClient \/ \E i \in 0..stotalSeq : m = IntMsg(i)
    BY <1>1, <1>6, FwdReceives DEF ServerReceives
  <2>2. \A i \in 0..stotalSeq : IntMsg(i).first # -1
    BY DEF IntMsg
  <2> QED
    BY <1>1, <2>1, <2>2 DEF Told
<1>7. CASE ServerTurns \/ ServerSends
  <2>1. Bwd!SenderStep /\ UNCHANGED bwdOnly
    BY <1>7 DEF ServerTurns, ServerSends, Bwd!SenderStep
  <2>2. \A m \in toClient' : m \in toClient \/ m.first # -1
    BY <2>1, BwdSends, FwdTypes
  <2> QED
    BY <1>1, <2>1, <2>2 DEF bwdOnly, clientSendVars, Told
<1>8. CASE ClientTurns
  BY <1>1, <1>8 DEF ClientTurns
<1>9. CASE ClientReceives
  BY <1>1, <1>9, BwdReceives DEF ClientReceives
<1>10. CASE Lose
  BY <1>1, <1>10
     DEF Lose, Fwd!LoseToSender, Fwd!LoseToReceiver, Fwd!sendVars, Fwd!mainVars, Fwd!nakVars, Told
<1>11. CASE UNCHANGED vars
  BY <1>1, <1>11 DEF vars, clientSendVars, serverRcvVars
<1> QED
  BY <1>3, <1>4, <1>5, <1>6, <1>7, <1>8, <1>9, <1>10, <1>11 DEF Next

THEOREM LostAcksCorrect == Spec => LostAcksAreFatal
<1>1. GenInv /\ [Next]_vars => [FwdAcksLost => FwdAcksLost' /\ crcv = "idle"]_vars
  BY LostStep
<1> QED
  BY <1>1, SessionInvariance, PTL DEF Spec, LostAcksAreFatal

(* The same of the client's acks (client.c:380): when they are all lost     *)
(* the server's retransmit thread never ends (server.c:78), and the server *)
(* does not come to its end (server.c:376).                                *)
BwdAcksFatal == [][BwdAcksLost => BwdAcksLost']_vars

LEMMA NotToldServer ==
  ASSUME WireTypes, Ack \notin toServer
  PROVE  ~Told(toServer)
<1> SUFFICES ASSUME NEW m \in toServer, m.first = -1 PROVE FALSE
  BY DEF Told
<1>1. m \in [kind : {"int"}, first : Nums \cup {-1}]
  BY NumsNat DEF WireTypes, Msgs
<1>2. m = Ack
  BY <1>1 DEF Ack, IntMsg
<1> QED
  BY <1>2

LEMMA BwdLostStep ==
  ASSUME GenInv, [Next]_vars, BwdAcksLost
  PROVE  BwdAcksLost'
<1> USE DEF GenInv
<1>1. crcv \in {"join", "done"} /\ sretr # "exited" /\ ~Told(toServer)
  BY NotToldServer DEF BwdAcksLost
<1>2. SUFFICES crcv' \in {"join", "done"} /\ sretr' # "exited" /\ ~Told(toServer')
  BY AckIsTold DEF BwdAcksLost, Told
<1>3. CASE ClientHello
  <2>1. IntMsg(cfilesize).first # -1
    BY IntMsgs, NumsNat DEF SendTypes, Nums
  <2> QED
    BY <1>1, <1>3, <2>1 DEF ClientHello, serverSendVars, clientRcvVars, Told
<1>4. CASE ClientSends
  <2>1. \A m \in toServer' : m \in toServer \/ m.first # -1
    BY <1>4, FwdSends, OriginalInFile DEF ClientSends, SendTypes
  <2> QED
    BY <1>1, <1>4, <2>1 DEF ClientSends, fwdOnly, serverSendVars, clientRcvVars, Told
<1>5. CASE ServerStart
  BY <1>1, <1>5 DEF ServerStart, clientRcvVars, Fwd!StartReceiver
<1>6. CASE ServerReceives
  BY <1>1, <1>6, FwdReceives DEF ServerReceives, fwdOnly, serverSendVars, clientRcvVars
<1>7. CASE ServerTurns \/ ServerSends
  <2>1. Bwd!SenderStep
    BY <1>7 DEF ServerTurns, ServerSends, Bwd!SenderStep
  <2> QED
    BY <1>1, <2>1, BwdSends, FwdTypes
<1>8. CASE ClientTurns
  BY <1>1, <1>8 DEF ClientTurns, Bwd!StartReceiver
<1>9. CASE ClientReceives
  <2>1. /\ crcv' \in {"join", "done"} /\ sretr' = sretr
        /\ \A m \in toServer' : m \in toServer \/ \E i \in 0..ctotalSeq : m = IntMsg(i)
    BY <1>1, <1>9, BwdReceives DEF ClientReceives
  <2>2. \A i \in 0..ctotalSeq : IntMsg(i).first # -1
    BY DEF IntMsg
  <2> QED
    BY <1>1, <2>1, <2>2 DEF Told
<1>10. CASE Lose
  BY <1>1, <1>10
     DEF Lose, Fwd!LoseToSender, Fwd!LoseToReceiver, fwdOnly, serverSendVars, clientRcvVars,
         Told
<1>11. CASE UNCHANGED vars
  BY <1>1, <1>11 DEF vars, serverSendVars, clientRcvVars
<1> QED
  BY <1>3, <1>4, <1>5, <1>6, <1>7, <1>8, <1>9, <1>10, <1>11 DEF Next

THEOREM BwdAcksCorrect == Spec => BwdAcksFatal
<1>1. GenInv /\ [Next]_vars => [BwdAcksLost => BwdAcksLost']_vars
  BY BwdLostStep
<1> QED
  BY <1>1, SessionInvariance, PTL DEF Spec, BwdAcksFatal

(* In both directions, and whatever the server takes for the size, a       *)
(* receiver that has not all packets goes on asking: its NAK thread is in  *)
(* its loop (client.c:88-101, server.c:163-176), and unless the byte       *)
(* behind allNodes stands for the last packet it finds one to ask for.     *)
BothAsk == FwdP!StillAsking /\ BwdP!StillAsking

THEOREM BothAskCorrect == Spec => []BothAsk
<1>1. GenInv => BothAsk
  BY FwdP!ReceiverAsks, BwdP!ReceiverAsks, FwdNames, BwdNames, SizesAssumption,
     BytesAssumption, SessionAssumption DEF GenInv, BothAsk
<1> QED
  BY <1>1, SessionInvariance, PTL

-----------------------------------------------------------------------------
(* When a size datagram is the first to reach the server both copies are   *)
(* the file, with what follows it if its last packet is a full one.        *)

ExactInv ==
  /\ srcv # "idle" => stotalSeq = TotalSeq /\ sfilesize = FileSize
  /\ TrueCopy(textback) /\ \A m \in toClient : TrueDgram(m)

LEMMA TrueAndFull ==
  ASSUME NEW f \in File, TrueCopy(f), \A i \in Seqs : f[i] # Hole
  PROVE  f = Final
<1>1. \A i \in Seqs : f[i] = Final[i]
  BY DEF TrueCopy
<1> QED
  BY <1>1, FinalInFile DEF File

(* With a short last packet nothing follows the file.                      *)
LEMMA FinalIsOriginal ==
  ASSUME LeftByte # 0
  PROVE  Final = Original
<1>1. ASSUME NEW i \in Seqs PROVE Original[i] # Hole
  <2>1. ChunkSize(i) # 0
    BY SizesAssumption DEF ChunkSize
  <2>2. Original[i].size = ChunkSize(i)
    BY <2>1 DEF Original
  <2> QED
    BY <2>1, <2>2 DEF Hole
<1>2. \A i \in Seqs : Final[i] = Original[i]
  BY <1>1, FileInFinal
<1> QED
  BY <1>2, FinalInFile, OriginalInFile DEF File

LEMMA ServerHasFile ==
  ASSUME SizeFirst, GenInv, ExactInv, srcv \in {"ack", "join", "done"}
  PROVE  textref = Final
<1> USE DEF GenInv
<1>1. FwdP!Finished /\ stotalSeq = FwdP!TotalSeq
  BY FwdNames DEF FwdP!Finished, ExactInv
<1>2. FwdP!Written = FwdP!Seqs
  BY <1>1, FwdNames, FwdP!FullReceiver, SizesAssumption, BytesAssumption, SessionAssumption
<1>3. \A i \in Seqs : textref[i] # Hole
  BY <1>2, FwdNames DEF FwdP!Written
<1> QED
  BY <1>3, FwdTypes, TrueAndFull DEF CopyInv

LEMMA ClientHasFile ==
  ASSUME SizeFirst, GenInv, ExactInv, crcv \in {"ack", "join", "done"}
  PROVE  textback = Final
<1> USE DEF GenInv
<1>1. BwdP!Finished /\ ctotalSeq = BwdP!TotalSeq
  BY BwdNames DEF BwdP!Finished, PhaseInv
<1>2. BwdP!Written = BwdP!Seqs
  BY <1>1, BwdNames, BwdP!FullReceiver, SizesAssumption, BytesAssumption, SessionAssumption
<1>3. \A i \in Seqs : textback[i] # Hole
  BY <1>2, BwdNames DEF BwdP!Written
<1> QED
  BY <1>3, BwdTypes, TrueAndFull DEF ExactInv

LEMMA ExactInit == Init => ExactInv
<1> SUFFICES ASSUME Init PROVE ExactInv
  OBVIOUS
<1>1. TrueCopy(textback)
  BY HolesTrue DEF Init
<1> QED
  BY <1>1 DEF Init, Fwd!Init, ExactInv

LEMMA ExactStep ==
  ASSUME SizeFirst, GenInv, ExactInv, [Next]_vars
  PROVE  ExactInv'
<1> USE DEF GenInv
<1>1. CASE ClientHello
  BY <1>1 DEF ClientHello, serverRcvVars, serverSendVars, clientRcvVars, ExactInv
<1>2. CASE ClientSends
  <2>1. UNCHANGED <<sfilesize, textback, srcv, stotalSeq, toClient>>
    BY <1>2, FwdSends, OriginalInFile
       DEF ClientSends, fwdOnly, serverSendVars, clientRcvVars, SendTypes
  <2> QED
    BY <2>1 DEF ExactInv
<1>3. CASE ServerStart
  <2>1. /\ Fwd!StartReceiver(FileSize) /\ sfilesize' = FileSize
        /\ textback' = textback
    BY <1>3 DEF ServerStart, SizeMsg, IntMsg, clientRcvVars
  <2>2. FileSize \div Payload \in Seqs
    BY SizeTaken DEF Nums
  <2>3. stotalSeq' = TotalSeq /\ toClient' = toClient
    BY <2>1, <2>2, FwdStarts DEF TotalSeq
  <2> QED
    BY <2>1, <2>3 DEF ExactInv
<1>4. CASE ServerReceives
  <2>1. /\ srcv # "idle" /\ stotalSeq' = stotalSeq
        /\ UNCHANGED <<sfilesize, textback>>
    BY <1>4, FwdReceives DEF ServerReceives, fwdOnly, serverSendVars, clientRcvVars
  <2>2. \A m \in toClient' :
          m \in toClient \/ (\E i \in 0..stotalSeq : m = IntMsg(i)) \/ m = Ack
    BY <1>4, FwdReceives DEF ServerReceives
  <2>3. \A i : TrueDgram(IntMsg(i))
    BY DEF TrueDgram, IntMsg
  <2>4. \A m \in toClient' : TrueDgram(m)
    BY <2>2, <2>3 DEF ExactInv, Ack
  <2> QED
    BY <2>1, <2>4 DEF ExactInv
<1>5. CASE ServerTurns \/ ServerSends
  <2>1. Bwd!SenderStep /\ UNCHANGED bwdOnly
    BY <1>5 DEF ServerTurns, ServerSends, Bwd!SenderStep
  <2>2. srcv = "done"
    BY <1>5 DEF ServerTurns, ServerSends, Bwd!SendNext, Bwd!Answer, Bwd!Crash, Bwd!ReleaseSender,
                PhaseInv
  <2>3. textref = Final /\ sfilesize = FileSize
    BY <2>2, ServerHasFile DEF ExactInv
  <2>4. /\ \A m \in toClient' : m \in toClient \/ TrueDgram(m)
        /\ UNCHANGED <<sfilesize, textback>>
    BY <2>1, <2>3, BwdSends, FwdTypes
  <2>5. UNCHANGED <<srcv, stotalSeq>>
    BY <2>1 DEF bwdOnly
  <2> QED
    BY <2>4, <2>5 DEF ExactInv
<1>6. CASE ClientTurns
  <2>1. UNCHANGED <<sfilesize, textback, toClient>>
    BY <1>6, SizeTaken, BwdStarts DEF ClientTurns, SendTypes, Nums
  <2>2. UNCHANGED <<srcv, stotalSeq>>
    BY <1>6 DEF ClientTurns, bwdOnly
  <2> QED
    BY <2>1, <2>2 DEF ExactInv
<1>7. CASE ClientReceives
  <2>1. UNCHANGED <<sfilesize, toClient>>
    BY <1>7, BwdReceives DEF ClientReceives
  <2>2. UNCHANGED <<srcv, stotalSeq>>
    BY <1>7 DEF ClientReceives, bwdOnly
  <2>3. TrueCopy(textback')
    <3>1. textback \in File
      BY BwdTypes
    <3> QED
      BY <1>7, <3>1, BwdReceives, StoreTrue DEF ClientReceives, ExactInv
  <2> QED
    BY <2>1, <2>2, <2>3 DEF ExactInv
<1>8. CASE Lose
  BY <1>8
     DEF Lose, Fwd!LoseToSender, Fwd!LoseToReceiver, Fwd!sendVars, Fwd!mainVars, Fwd!nakVars,
              fwdOnly, serverSendVars, clientRcvVars, ExactInv
<1>9. CASE UNCHANGED vars
  BY <1>9 DEF vars, serverRcvVars, serverSendVars, clientRcvVars, ExactInv
<1> QED
  BY <1>1, <1>2, <1>3, <1>4, <1>5, <1>6, <1>7, <1>8, <1>9 DEF Next

THEOREM ExactInvariance == SizeFirst => (Spec => [](GenInv /\ ExactInv))
<1> SUFFICES ASSUME SizeFirst PROVE Spec => [](GenInv /\ ExactInv)
  OBVIOUS
<1>1. GenInv /\ ExactInv /\ [Next]_vars => ExactInv'
  BY ExactStep
<1> QED
  BY <1>1, ExactInit, SessionInvariance, PTL DEF Spec

-----------------------------------------------------------------------------
(* Both copies, in files of any size: when the server has all packets its  *)
(* textref.txt is the file with, behind a full last packet, PAYLOAD bytes  *)
(* of what lies beyond it (server.c:247,291), and so is textback.txt when  *)
(* the client has all; from the moment the server sends it back            *)
(* (server.c:312-324) or the client turns to receiving (client.c:344) the  *)
(* server's copy is that, for good.                                        *)
CopyDone ==
  /\ srcv \in {"ack", "join", "done"} => textref = Final
  /\ crcv \in {"ack", "join", "done"} => textback = Final
  /\ crcv # "idle" \/ sretr # "idle" => textref = Final

LEMMA CopiesDone ==
  ASSUME SizeFirst, GenInv, ExactInv
  PROVE  CopyDone
<1>1. crcv # "idle" \/ sretr # "idle" => srcv \in {"ack", "join", "done"}
  BY DEF GenInv, PhaseInv
<1> QED
  BY <1>1, ServerHasFile, ClientHasFile DEF CopyDone

THEOREM BothCopiesCorrect == SizeFirst => (Spec => []CopyDone)
<1> SUFFICES ASSUME SizeFirst PROVE Spec => []CopyDone
  OBVIOUS
<1>1. GenInv /\ ExactInv => CopyDone
  BY CopiesDone
<1> QED
  BY <1>1, ExactInvariance, PTL

(* The server's "we got the whole file!! wow" (server.c:292) is true, when *)
(* it has the size from the first datagram (server.c:245) and the file     *)
(* ends in a short packet.                                                 *)
THEOREM ServerWholeFileCorrect ==
  SizeFirst /\ LeftByte # 0 => (Spec => []ServerWholeFile)
<1> SUFFICES ASSUME SizeFirst, LeftByte # 0 PROVE Spec => []ServerWholeFile
  OBVIOUS
<1>1. GenInv /\ ExactInv => ServerWholeFile
  BY CopiesDone, FinalIsOriginal
     DEF CopyDone, ServerWholeFile, Fwd!WholeFile, Fwd!Finished, GenInv, SendTypes
<1> QED
  BY <1>1, ExactInvariance, PTL

(* The client turns to receiving (client.c:321-344) only when the server   *)
(* has the file, and what the server sends back (server.c:312-324) is all  *)
(* along the client's file.                                                *)
THEOREM TurnCorrect ==
  SizeFirst /\ LeftByte # 0 => (Spec => []TurnOnlyWithFile)
<1> SUFFICES ASSUME SizeFirst, LeftByte # 0 PROVE Spec => []TurnOnlyWithFile
  OBVIOUS
<1>1. GenInv /\ ExactInv => TurnOnlyWithFile
  BY CopiesDone, FinalIsOriginal DEF CopyDone, GenInv, PhaseInv, SendTypes, TurnOnlyWithFile
<1> QED
  BY <1>1, ExactInvariance, PTL

-----------------------------------------------------------------------------
(* What the senders are asked for, when the size came first: never for     *)
(* anything behind the packets that are expected.                          *)

FirstsInv ==
  /\ \A m \in toClient : m.first \in Seqs \cup {-1}
  /\ \A m \in toServer : m # SizeMsg => m.first \in Seqs \cup {-1}
  /\ sretr # "crashed"
  /\ LeftByte # 0 => cretr # "crashed"

LEMMA FwdInFile ==
  ASSUME LeftByte # 0, SendTypes, NEW i \in Seqs
  PROVE  Fwd!InFile(i)
<1>1. textfile[i] = Final[i] /\ FwdP!RetransmitSize(i) = Final[i].size
  BY FinalIsOriginal, FwdNames, FwdP!CopiedFinal, SizesAssumption, BytesAssumption,
     SessionAssumption DEF SendTypes
<1>2. Final[i].size \in Int
  BY FinalInFile, SizesAssumption DEF Chunk
<1> QED
  BY <1>1, <1>2, SameSets DEF Fwd!InFile, Fwd!RetransmitSize, FwdP!RetransmitSize

LEMMA BwdInFile ==
  ASSUME textref = Final, sfilesize = FileSize, NEW i \in Seqs
  PROVE  Bwd!InFile(i)
<1>1. BwdP!RetransmitSize(i) = Final[i].size
  BY BwdNames, BwdP!CopiedFinal, SizesAssumption, BytesAssumption, SessionAssumption
<1>2. Final[i].size \in Int
  BY FinalInFile, SizesAssumption DEF Chunk
<1> QED
  BY <1>1, <1>2, SameSets DEF Bwd!InFile, Bwd!RetransmitSize, BwdP!RetransmitSize

LEMMA ClientCrash ==
  ASSUME Fwd!SenderStep, cretr' = "crashed", cretr # "crashed"
  PROVE  \E m \in toClient : ~(m.first < 0) /\ ~Fwd!InFile(m.first)
  BY DEF Fwd!SenderStep, Fwd!StartSender, Fwd!SendNext, Fwd!Answer, Fwd!Crash,
         Fwd!ReleaseSender, Fwd!sendVars, Fwd!IsAck

LEMMA ServerAnswers ==
  ASSUME SizeFirst, GenInv, ExactInv, FirstsInv, ServerTurns \/ ServerSends
  PROVE  /\ \A m \in toClient' : m.first \in Seqs \cup {-1}
         /\ sretr' # "crashed"
<1>1. CASE ServerTurns
  BY <1>1 DEF ServerTurns, Bwd!StartSender, FirstsInv
<1>2. CASE ServerSends /\ Bwd!SendNext
  BY <1>2, SameSets DEF Bwd!SendNext, Bwd!MoreToSend, Bwd!Dgram, FirstsInv
<1>3. ASSUME NEW m \in toServer, m # SizeMsg, ~Bwd!IsAck(m)
      PROVE  m.first \in Seqs
  BY <1>3 DEF FirstsInv, Bwd!IsAck
<1>4. ASSUME NEW m \in toServer, m # SizeMsg, Bwd!Answer(m)
      PROVE  /\ \A k \in toClient' : k.first \in Seqs \cup {-1}
             /\ sretr' # "crashed"
  BY <1>3, <1>4 DEF Bwd!Answer, Bwd!sendVars, Bwd!Dgram, FirstsInv
<1>5. ASSUME NEW m \in toServer, m # SizeMsg, Bwd!Crash(m)
      PROVE  FALSE
  <2>1. sretr = "waiting" /\ ~Bwd!IsAck(m) /\ ~Bwd!InFile(m.first)
    BY <1>5 DEF Bwd!Crash
  <2>2. textref = Final /\ sfilesize = FileSize
    BY <2>1, CopiesDone DEF CopyDone, ExactInv, GenInv, PhaseInv
  <2> QED
    BY <1>3, <1>5, <2>1, <2>2, BwdInFile
<1>6. ASSUME NEW m \in toServer, Bwd!ReleaseSender(m)
      PROVE  /\ \A k \in toClient' : k.first \in Seqs \cup {-1}
             /\ sretr' # "crashed"
  BY <1>6 DEF Bwd!ReleaseSender, FirstsInv
<1> QED
  BY <1>1, <1>2, <1>4, <1>5, <1>6 DEF ServerSends

LEMMA FirstsStep ==
  ASSUME SizeFirst, GenInv, ExactInv, FirstsInv, [Next]_vars
  PROVE  FirstsInv'
<1> USE DEF FirstsInv
<1>1. CASE ClientHello
  BY <1>1 DEF ClientHello, serverSendVars, GenInv, SendTypes, SizeMsg
<1>2. CASE ClientSends
  <2>1. Fwd!SenderStep /\ toClient' = toClient /\ sretr' = sretr
    BY <1>2, FwdSends, OriginalInFile
       DEF ClientSends, fwdOnly, serverSendVars, GenInv, SendTypes
  <2>2. \A m \in toServer' : m # SizeMsg => m.first \in Seqs \cup {-1}
    BY <2>1, FwdSends, OriginalInFile DEF GenInv, SendTypes
  <2>3. LeftByte # 0 => cretr' # "crashed"
    BY <2>1, ClientCrash, FwdInFile DEF GenInv
  <2> QED
    BY <2>1, <2>2, <2>3
<1>3. CASE ServerStart
  BY <1>3 DEF ServerStart, Fwd!StartReceiver, Fwd!sendVars
<1>4. CASE ServerReceives
  <2>1. /\ UNCHANGED <<cretr, sretr, toServer>> /\ stotalSeq \in Seqs
        /\ \A m \in toClient' :
             m \in toClient \/ (\E i \in 0..stotalSeq : m = IntMsg(i)) \/ m = Ack
    BY <1>4, FwdReceives, FwdTypes DEF ServerReceives, fwdOnly, serverSendVars, GenInv
  <2>2. \A i \in 0..stotalSeq : i \in Seqs
    BY <2>1, Bounds DEF Seqs
  <2> QED
    BY <2>1, <2>2 DEF IntMsg, Ack
<1>5. CASE ServerTurns \/ ServerSends
  <2>1. Bwd!SenderStep /\ UNCHANGED bwdOnly
    BY <1>5 DEF ServerTurns, ServerSends, Bwd!SenderStep
  <2>2. toServer' = toServer /\ cretr' = cretr
    BY <2>1, BwdSends, FwdTypes DEF GenInv, bwdOnly, clientSendVars
  <2> QED
    BY <1>5, <2>2, ServerAnswers
<1>6. CASE ClientTurns
  BY <1>6 DEF ClientTurns, bwdOnly, clientSendVars, Bwd!StartReceiver, Bwd!sendVars
<1>7. CASE ClientReceives
  <2>1. /\ UNCHANGED <<cretr, sretr, toClient>> /\ ctotalSeq \in Seqs
        /\ \A m \in toServer' :
             m \in toServer \/ (\E i \in 0..ctotalSeq : m = IntMsg(i)) \/ m = Ack
    BY <1>7, BwdReceives, BwdTypes DEF ClientReceives, bwdOnly, clientSendVars, GenInv
  <2>2. \A i \in 0..ctotalSeq : i \in Seqs
    BY <2>1, Bounds DEF Seqs
  <2> QED
    BY <2>1, <2>2 DEF IntMsg, Ack
<1>8. CASE Lose
  BY <1>8
     DEF Lose, Fwd!LoseToSender, Fwd!LoseToReceiver, Fwd!sendVars, fwdOnly, serverSendVars
<1>9. CASE UNCHANGED vars
  BY <1>9 DEF vars, clientSendVars, serverSendVars
<1> QED
  BY <1>1, <1>2, <1>3, <1>4, <1>5, <1>6, <1>7, <1>8, <1>9 DEF Next

(* No thread of the server reads past the end of what it has stored: a NAK *)
(* that reaches it while it sends back asks for a packet that is there, as *)
(* long as RetransmitSize says (server.c:82-91), even in a file of full    *)
(* packets; and the client reads past its file only for such a file        *)
(* (client.c:169-179).                                                     *)
StaysInFiles ==
  /\ sretr # "crashed"
  /\ sretr # "idle" =>
       \A m \in toServer : ~Bwd!IsAck(m) /\ m # SizeMsg => Bwd!InFile(m.first)
  /\ LeftByte # 0 =>
       /\ cretr # "crashed"
       /\ \A m \in toClient : ~Fwd!IsAck(m) => Fwd!InFile(m.first)

THEOREM StaysInFilesCorrect == SizeFirst => (Spec => []StaysInFiles)
<1> SUFFICES ASSUME SizeFirst PROVE Spec => []StaysInFiles
  OBVIOUS
<1>1. Init => FirstsInv
  BY DEF Init, Fwd!Init, FirstsInv
<1>2. GenInv /\ ExactInv /\ FirstsInv /\ [Next]_vars => FirstsInv'
  BY FirstsStep
<1>3. ASSUME GenInv, ExactInv, FirstsInv PROVE StaysInFiles
  <2>1. sretr # "idle" => textref = Final /\ sfilesize = FileSize
    BY <1>3, CopiesDone DEF CopyDone, ExactInv, GenInv, PhaseInv
  <2>2. \A m \in toServer : ~Bwd!IsAck(m) /\ m # SizeMsg => m.first \in Seqs
    BY <1>3 DEF FirstsInv, Bwd!IsAck
  <2>3. \A m \in toClient : ~Fwd!IsAck(m) => m.first \in Seqs
    BY <1>3 DEF FirstsInv, Fwd!IsAck
  <2> QED
    BY <1>3, <2>1, <2>2, <2>3, FwdInFile, BwdInFile DEF StaysInFiles, FirstsInv, GenInv
<1> QED
  BY <1>1, <1>2, <1>3, ExactInvariance, PTL DEF Spec

-----------------------------------------------------------------------------
(* End to end: from textfile.txt to textfile_back.txt through both copies. *)

LEMMA EchoInit == Init => Echo!Init
<1> SUFFICES ASSUME Init PROVE Echo!Init
  OBVIOUS
<1>1. textfile = Original /\ sretr = "idle" /\ crcv = "idle"
  BY DEF Init, Fwd!Init, Fwd!Original, Original, Fwd!Seqs, Seqs, Fwd!TotalSeq, TotalSeq,
         Fwd!ChunkSize, ChunkSize, Fwd!LeftByte, LeftByte, Fwd!Hole, Hole
<1>2. textback = [i \in Seqs |-> Hole]
  BY DEF Init
<1> QED
  BY <1>1, <1>2, OriginalInFile DEF Echo!Init, Echo!File, File, Bwd!Finished

(* Once the client is out of its receive loop it has the file.             *)
LEMMA EchoComplete ==
  ASSUME SizeFirst, GenInv, ExactInv, Bwd!Finished
  PROVE  Echo!Delivered
  BY ClientHasFile, FileInFinal
     DEF Echo!Delivered, Bwd!Finished, GenInv, SendTypes

LEMMA EchoDelivers ==
  ASSUME SizeFirst, GenInv, ExactInv, (Bwd!Finished => Echo!Delivered)', ClientReceives
  PROVE  [Echo!Next]_Echo!vars
<1>1. UNCHANGED <<textfile, sretr>>
  BY BwdReceives DEF ClientReceives, bwdOnly, clientSendVars, GenInv
<1>2. CASE textback' = textback /\ (Bwd!Finished' <=> Bwd!Finished)
  BY <1>1, <1>2 DEF Echo!vars
<1>3. ASSUME NEW m \in toClient,
             m.kind = "dgram", m.first \in Seqs, textback[m.first] = Hole,
             ~Bwd!Finished,
             textback' = [textback EXCEPT ![m.first] = m.chunk]
      PROVE  [Echo!Next]_Echo!vars
  <2>1. m.chunk \in Chunk
    BY <1>3 DEF GenInv, WireTypes, Msgs
  <2>2. textfile[m.first] # Hole => m.chunk = textfile[m.first]
    BY <1>3, FileInFinal DEF GenInv, SendTypes, ExactInv, TrueDgram
  <2>3. Bwd!Finished' \in BOOLEAN
    BY DEF Bwd!Finished
  <2>4. Echo!Deliver(m.first, m.chunk)
    BY <1>1, <1>3, <2>2, <2>3 DEF Echo!Deliver
  <2> QED
    BY <1>3, <2>1, <2>4 DEF Echo!Next
<1> QED
  BY <1>2, <1>3, BwdReceives DEF ClientReceives, GenInv, Bwd!Finished

LEMMA EchoReleases ==
  ASSUME GenInv, ServerTurns \/ ServerSends
  PROVE  [Echo!Next]_Echo!vars
<1>1. Bwd!SenderStep /\ UNCHANGED bwdOnly
  BY DEF ServerTurns, ServerSends, Bwd!SenderStep
<1>2. textref \in File
  BY FwdTypes DEF GenInv
<1>3. UNCHANGED <<textfile, textback, crcv>>
  BY <1>1, <1>2, BwdSends DEF GenInv, bwdOnly, clientSendVars
<1>4. /\ sretr = "exited" => sretr' = "exited"
      /\ sretr' = "exited" => sretr = "exited" \/ Told(toServer)
  BY <1>1, <1>2, BwdSends DEF GenInv
<1>5. CASE sretr' = "exited" /\ sretr # "exited"
  <2>1. Bwd!Finished
    BY <1>4, <1>5 DEF GenInv, PhaseInv, Bwd!Finished
  <2> QED
    BY <1>3, <1>5, <2>1 DEF Echo!Next, Echo!Release, Bwd!Finished
<1>6. CASE sretr' = "exited" <=> sretr = "exited"
  BY <1>3, <1>6 DEF Echo!vars, Bwd!Finished
<1> QED
  BY <1>4, <1>5, <1>6

LEMMA EchoStutters ==
  ASSUME UNCHANGED <<textfile, textback, sretr>>, Bwd!Finished' <=> Bwd!Finished
  PROVE  UNCHANGED Echo!vars
  BY DEF Echo!vars, Bwd!Finished

LEMMA EchoStep ==
  ASSUME SizeFirst, GenInv, ExactInv, (Bwd!Finished => Echo!Delivered)', [Next]_vars
  PROVE  [Echo!Next]_Echo!vars
<1>1. CASE ClientHello
  BY <1>1, EchoStutters DEF ClientHello, serverSendVars, clientRcvVars, Bwd!Finished
<1>2. CASE ClientSends
  <2>1. UNCHANGED <<sretr, textback, crcv>>
    BY <1>2 DEF ClientSends, fwdOnly, serverSendVars, clientRcvVars
  <2>2. textfile' = textfile
    BY <1>2, FwdSends, OriginalInFile DEF ClientSends, GenInv, SendTypes
  <2> QED
    BY <2>1, <2>2, EchoStutters DEF Bwd!Finished
<1>3. CASE ServerStart
  <2>1. UNCHANGED <<sretr, textback, crcv, textfile>>
    BY <1>3 DEF ServerStart, clientRcvVars, Fwd!StartReceiver, Fwd!sendVars
  <2> QED
    BY <2>1, EchoStutters DEF Bwd!Finished
<1>4. CASE ServerReceives
  <2>1. UNCHANGED <<sretr, textback, crcv>>
    BY <1>4 DEF ServerReceives, fwdOnly, serverSendVars, clientRcvVars
  <2>2. textfile' = textfile
    BY <1>4, FwdReceives DEF ServerReceives, GenInv
  <2> QED
    BY <2>1, <2>2, EchoStutters DEF Bwd!Finished
<1>5. CASE ServerTurns \/ ServerSends
  BY <1>5, EchoReleases
<1>6. CASE ClientTurns
  <2>1. UNCHANGED <<sretr, textback>> /\ crcv = "idle" /\ crcv' = "alloc"
    BY <1>6, SizeTaken, BwdStarts DEF ClientTurns, GenInv, SendTypes, Nums
  <2>2. textfile' = textfile
    BY <1>6 DEF ClientTurns, bwdOnly, clientSendVars
  <2> QED
    BY <2>1, <2>2, EchoStutters DEF Bwd!Finished
<1>7. CASE ClientReceives
  BY <1>7, EchoDelivers
<1>8. CASE Lose
  <2>1. UNCHANGED <<textfile, textback, sretr, crcv>>
    BY <1>8 DEF Lose, Fwd!LoseToSender, Fwd!LoseToReceiver, Fwd!sendVars, fwdOnly,
                serverSendVars, clientRcvVars
  <2> QED
    BY <2>1, EchoStutters DEF Bwd!Finished
<1>9. CASE UNCHANGED vars
  BY <1>9, EchoStutters DEF vars, clientSendVars, serverSendVars, clientRcvVars, Bwd!Finished
<1> QED
  BY <1>1, <1>2, <1>3, <1>4, <1>5, <1>6, <1>7, <1>8, <1>9 DEF Next

(* What comes back is what was sent: client.c with server.c is a file      *)
(* transfer from textfile.txt to textfile_back.txt, and the server's last  *)
(* thread ends (server.c:78-81) only when the copy is complete.            *)
THEOREM EchoRefinement == SizeFirst => (Spec => EchoIsFileTransfer)
<1> SUFFICES ASSUME SizeFirst PROVE Spec => EchoIsFileTransfer
  OBVIOUS
<1>1. GenInv /\ ExactInv => (Bwd!Finished => Echo!Delivered)
  BY EchoComplete
<1>2. GenInv /\ ExactInv /\ (Bwd!Finished => Echo!Delivered)' /\ [Next]_vars
        => [Echo!Next]_Echo!vars
  BY EchoStep
<1> QED
  BY <1>1, <1>2, EchoInit, ExactInvariance, PTL DEF Spec, EchoIsFileTransfer, Echo!Spec
=============================================================================
