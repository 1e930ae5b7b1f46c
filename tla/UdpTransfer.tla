----------------------------- MODULE UdpTransfer -----------------------------
(***************************************************************************)
(* One direction of the reliable file copy over UDP of client.c/server.c.  *)
(* The sender is a main loop that sends every chunk once and a retransmit  *)
(* thread that answers NAKs; the receiver is a main loop that stores what  *)
(* arrives and a NAK thread that cycles over what is missing.  The client  *)
(* is the sender of the first direction and the receiver of the second,    *)
(* the server the other way round: both copies of the code are the same.   *)
(*                                                                         *)
(* A message stays in its network until it is lost, and is not removed by  *)
(* a delivery: it may be delivered late, out of order, twice, or never.    *)
(***************************************************************************)
EXTENDS UdpDatagrams, FiniteSets

CONSTANT EdgeBytes  \* the values the byte just past allNodes may have

ASSUME EdgeAssumption == EdgeBytes \subseteq {0, 1}

VARIABLES
  src,                 \* the sender's file, chunk by chunk
  filesize,            \* the sender's filesize
  seq,                 \* the sender's main loop: next chunk of the first pass
  retr,                \* the sender's retransmit thread
  totalSeq,            \* the receiver's idea of the last packet
  rcv,                 \* the receiver's main loop
  allNodes,            \* the indices whose entry in allNodes is not 0
  totalPacketsArrived,
  file,                \* the receiver's file, chunk by chunk
  nak,                 \* the receiver's NAK thread
  requestIndex,        \*   its local variable
  iteratingptr,        \*   where its scan goes on
  toSender, toReceiver \* the datagrams on their way

sendVars == <<src, filesize, seq, retr>>
mainVars == <<totalSeq, rcv, allNodes, totalPacketsArrived, file>>
nakVars  == <<nak, requestIndex, iteratingptr>>
vars     == <<src, filesize, seq, retr, totalSeq, rcv, allNodes,
              totalPacketsArrived, file, nak, requestIndex, iteratingptr,
              toSender, toReceiver>>

-----------------------------------------------------------------------------
(* The sender.                                                             *)

MoreToSend == seq \in Seqs /\ src[seq] # Hole

StartSender ==
  /\ retr = "idle"
  /\ retr' = "waiting"
  /\ UNCHANGED <<src, filesize, seq, mainVars, nakVars, toSender, toReceiver>>

SendNext ==
  /\ retr \in {"waiting", "exited"}
  /\ MoreToSend
  /\ toReceiver' = toReceiver \cup {Dgram(seq, src[seq])}
  /\ seq' = seq + 1
  /\ UNCHANGED <<src, filesize, retr, mainVars, nakVars, toSender>>

(* Mutants: the short packet is not special; it is short even if empty.    *)
RetransmitPayload(packetmiss) == Payload
RetransmitRest(packetmiss) ==
  IF packetmiss = filesize \div Payload THEN filesize % Payload ELSE Payload

(* Only the packet after the last full one is shorter, if there is one.    *)
RetransmitSize(packetmiss) ==
  IF filesize % Payload # 0 /\ packetmiss = filesize \div Payload
  THEN filesize % Payload
  ELSE Payload

InFile(packetmiss) ==
  packetmiss \in Seqs /\ RetransmitSize(packetmiss) <= src[packetmiss].size

Copied(packetmiss) ==
  [buf  |-> IF packetmiss \in Seqs THEN src[packetmiss].buf ELSE PastEof,
   size |-> RetransmitSize(packetmiss)]

Answer(m) ==
  /\ retr = "waiting"
  /\ m \in toSender
  /\ ~IsAck(m)
  /\ toReceiver' = toReceiver \cup {Dgram(m.first, Copied(m.first))}
  /\ UNCHANGED <<sendVars, mainVars, nakVars, toSender>>

(* The copy runs past the mapped file and may hit an unmapped page.        *)
Crash(m) ==
  /\ retr = "waiting"
  /\ m \in toSender
  /\ ~IsAck(m)
  /\ ~InFile(m.first)
  /\ retr' = "crashed"
  /\ UNCHANGED <<src, filesize, seq, mainVars, nakVars, toSender, toReceiver>>

ReleaseSender(m) ==
  /\ retr = "waiting"
  /\ m \in toSender
  /\ IsAck(m)
  /\ retr' = "exited"
  /\ UNCHANGED <<src, filesize, seq, mainVars, nakVars, toSender, toReceiver>>

-----------------------------------------------------------------------------
(* The receiver.                                                           *)

(* The test on totalPacketsArrived that ends both receiving threads.       *)
AllButOneArrived(count) == count = totalSeq        \* mutant
MoreThanArrived(count)  == count = totalSeq + 2    \* mutant
AllArrived(count)       == count = totalSeq + 1

StartReceiver(size) ==
  /\ rcv = "idle"
  /\ totalSeq' = size \div Payload
  /\ file' = [i \in Seqs |-> Hole]
  /\ rcv' = "alloc"
  /\ nak' = "check"
  /\ UNCHANGED <<sendVars, allNodes, totalPacketsArrived,
                 requestIndex, iteratingptr, toSender, toReceiver>>

(* allNodes has totalSeq entries and is used up to index totalSeq: the     *)
(* entry of the last packet is the byte that follows the block.            *)
Calloc ==
  /\ rcv = "alloc"
  /\ \E edge \in EdgeBytes : allNodes' = IF edge = 0 THEN {} ELSE {totalSeq}
  /\ rcv' = "recv"
  /\ UNCHANGED <<sendVars, totalSeq, totalPacketsArrived, file, nakVars,
                 toSender, toReceiver>>

(* Mutant: a packet is stored whether it is marked or not.                 *)
InRange(seqNum) == seqNum \in 0..totalSeq

(* deleteNodesFromArray: 1 for a packet in range that was not marked yet.  *)
FirstArrival(seqNum) == seqNum \in 0..totalSeq /\ seqNum \notin allNodes

(* One turn of the receive loop.  A bare int is dropped by the loop, which *)
(* is the same as losing it.                                               *)
Receive(m) ==
  /\ rcv = "recv"
  /\ m \in toReceiver
  /\ m.kind = "dgram"
  /\ IF FirstArrival(m.first)
     THEN /\ allNodes' = allNodes \cup {m.first}
          /\ file' = [file EXCEPT ![m.first] = m.chunk]
          /\ totalPacketsArrived' = totalPacketsArrived + 1
     ELSE UNCHANGED <<allNodes, file, totalPacketsArrived>>
  /\ rcv' = IF AllArrived(totalPacketsArrived') THEN "ack" ELSE "recv"
  /\ UNCHANGED <<sendVars, totalSeq, nakVars, toSender, toReceiver>>

(* The burst of MAXSEND acks; losing the message is losing all of them.    *)
SendAcks ==
  /\ rcv = "ack"
  /\ toSender' = toSender \cup {Ack}
  /\ rcv' = "join"
  /\ UNCHANGED <<sendVars, totalSeq, allNodes, totalPacketsArrived, file,
                 nakVars, toReceiver>>

Join ==
  /\ rcv = "join"
  /\ nak = "exited"
  /\ rcv' = "done"
  /\ UNCHANGED <<sendVars, totalSeq, allNodes, totalPacketsArrived, file,
                 nakVars, toSender, toReceiver>>

NakCheck ==
  /\ nak = "check"
  /\ nak' = IF AllArrived(totalPacketsArrived) THEN "exited" ELSE "iterate"
  /\ UNCHANGED <<sendVars, mainVars, requestIndex, iteratingptr,
                 toSender, toReceiver>>

(* Mutants: the scan goes one too far, one not far enough, or starts late. *)
MissingPastLast == {i \in iteratingptr..(totalSeq + 1) : i \notin allNodes}
MissingButLast  == {i \in iteratingptr..(totalSeq - 1) : i \notin allNodes}
MissingAfterPtr == {i \in (iteratingptr + 1)..totalSeq : i \notin allNodes}

(* iterateArrayAgain: the next entry that is 0, from iteratingptr on.      *)
Missing == {i \in iteratingptr..totalSeq : i \notin allNodes}

Iterate ==
  /\ nak = "iterate"
  /\ \/ /\ rcv = "alloc"                \* allNodes is still NULL
        /\ requestIndex' = -1
        /\ nak' = "check"
        /\ UNCHANGED iteratingptr
     \/ /\ rcv # "alloc"
        /\ Missing = {}
        /\ requestIndex' = -1
        /\ iteratingptr' = 0
        /\ nak' = "check"
     \/ \E i \in Missing :
          /\ rcv # "alloc"
          /\ \A j \in Missing : i <= j
          /\ requestIndex' = i
          /\ iteratingptr' = IF i = totalSeq THEN 0 ELSE i + 1
          /\ nak' = "send"
  /\ UNCHANGED <<sendVars, mainVars, toSender, toReceiver>>

NakSend ==
  /\ nak = "send"
  /\ toSender' = toSender \cup {IntMsg(requestIndex)}
  /\ nak' = "check"
  /\ UNCHANGED <<sendVars, mainVars, requestIndex, iteratingptr, toReceiver>>

-----------------------------------------------------------------------------
(* The network.                                                            *)

LoseToSender(m) ==
  /\ m \in toSender
  /\ toSender' = toSender \ {m}
  /\ UNCHANGED <<sendVars, mainVars, nakVars, toReceiver>>

LoseToReceiver(m) ==
  /\ m \in toReceiver
  /\ toReceiver' = toReceiver \ {m}
  /\ UNCHANGED <<sendVars, mainVars, nakVars, toSender>>

-----------------------------------------------------------------------------
Init ==
  /\ src = Original
  /\ filesize = FileSize
  /\ seq = 0
  /\ retr = "idle"
  /\ totalSeq = 0
  /\ rcv = "idle"
  /\ allNodes = {}
  /\ totalPacketsArrived = 0
  /\ file = [i \in Seqs |-> Hole]
  /\ nak = "idle"
  /\ requestIndex = -1
  /\ iteratingptr = 0
  /\ toSender = {}
  /\ toReceiver = {}

SenderStep ==
  \/ StartSender
  \/ SendNext
  \/ \E m \in toSender : Answer(m)
  \/ \E m \in toSender : Crash(m)
  \/ \E m \in toSender : ReleaseSender(m)

ReceiverStep ==
  \/ Calloc
  \/ \E m \in toReceiver : Receive(m)
  \/ SendAcks
  \/ Join
  \/ NakCheck
  \/ Iterate
  \/ NakSend

Lose ==
  \/ \E m \in toSender : LoseToSender(m)
  \/ \E m \in toReceiver : LoseToReceiver(m)

(* In one direction alone the receiver is told the right size.             *)
Next == StartReceiver(FileSize) \/ SenderStep \/ ReceiverStep \/ Lose

Spec == Init /\ [][Next]_vars

(* No thread stops while it can go on; and a datagram that is sent again   *)
(* and again gets through.                                                 *)
Fairness ==
  /\ WF_vars(StartSender)
  /\ WF_vars(SendNext)
  /\ \A i \in Seqs : SF_vars(Answer(IntMsg(i)))
  /\ SF_vars(\E m \in toSender : ReleaseSender(m))
  /\ WF_vars(StartReceiver(FileSize))
  /\ WF_vars(Calloc)
  /\ \A i \in Seqs : SF_vars(\E m \in toReceiver : m.first = i /\ Receive(m))
  /\ WF_vars(SendAcks)
  /\ WF_vars(Join)
  /\ WF_vars(NakCheck)
  /\ WF_vars(Iterate)
  /\ WF_vars(NakSend)

FairSpec == Spec /\ Fairness

-----------------------------------------------------------------------------
(* Properties.                                                             *)

(* Every variable has its type; the marks are of packets in range.         *)
TypeOK ==
  /\ src \in [Seqs -> Chunk \cup {Hole}]
  /\ filesize \in Nat
  /\ seq \in Nat
  /\ retr \in {"idle", "waiting", "exited", "crashed"}
  /\ totalSeq \in Seqs
  /\ rcv \in {"idle", "alloc", "recv", "ack", "join", "done"}
  /\ allNodes \subseteq 0..totalSeq
  /\ totalPacketsArrived \in Nat
  /\ file \in [Seqs -> Chunk \cup {Hole}]
  /\ nak \in {"idle", "check", "iterate", "send", "exited"}
  /\ requestIndex \in -1..totalSeq
  /\ iteratingptr \in 0..totalSeq
  /\ toSender \subseteq Message
  /\ toReceiver \subseteq Message

Written  == {i \in Seqs : file[i] # Hole}
Finished == rcv \in {"ack", "join", "done"}

(* totalPacketsArrived, on which the receiver decides that it has the file *)
(* (server.c:291), is the number of packets stored, whatever was received  *)
(* twice, late or out of range.                                            *)
CountMatchesFile == totalPacketsArrived = Cardinality(Written)

(* "we got the whole file!! wow" (server.c:292): what the receiver has     *)
(* written when it says so is the sender's file, no more and no less.      *)
WholeFile == Finished => file = src

(* The sender's retransmit thread exits (client.c:165-168) only when every *)
(* chunk of its file is stored at the receiver: nothing can be asked for   *)
(* any more, and the mapping can go (client.c:332).                        *)
ReleasedOnlyWhenDelivered ==
  retr = "exited" => \A i \in Seqs : src[i] # Hole => file[i] = src[i]

(* A file with a short last packet is never read past its end: every NAK   *)
(* the sender can meet names a packet it has (client.c:179).               *)
SenderStaysInFile ==
  /\ \A m \in toSender : ~IsAck(m) => InFile(m.first)
  /\ retr # "crashed"

(* When the size is a multiple of PAYLOAD the receiver waits for one packet *)
(* more than the file has (server.c:247,291), gets it by a NAK, and ends up *)
(* with the file followed by PAYLOAD bytes of what lies behind it.          *)
SurplusPacket ==
  Finished /\ LeftByte = 0 =>
    /\ \A i \in Seqs : src[i] # Hole => file[i] = src[i]
    /\ file[TotalSeq] = [buf |-> PastEof, size |-> Payload]

(* A nonzero byte behind the block of allNodes (server.c:257) passes for a *)
(* packet that has arrived: once it is there it is there for good, and the *)
(* transfer never ends.                                                    *)
EdgeStuck == totalSeq \in allNodes /\ file[totalSeq] = Hole
EdgeByteStopsTransfer == [][EdgeStuck => EdgeStuck' /\ ~Finished']_vars

(* The receiver and the sender together do what FileTransfer promises.     *)
Abs == INSTANCE FileTransfer WITH
         original <- src,
         copy     <- file,
         complete <- Finished,
         released <- (retr = "exited")
RefinesFileTransfer == Abs!Spec

(* Lost packets, lost NAKs and lost retransmissions do not keep the        *)
(* receiver from finishing; only a nonzero edge byte does.                 *)
TransferEnds == <>(rcv = "done" \/ EdgeStuck)

(* The only other thing that keeps the sender's retransmit thread from     *)
(* exiting is that all MAXSEND acks are lost: nobody sends them again.     *)
AcksLost == rcv \in {"join", "done"} /\ Ack \notin toSender
SenderEndsUnlessAcksLost == <>(retr = "exited" \/ AcksLost \/ EdgeStuck)

-----------------------------------------------------------------------------
(* What makes the safety properties inductive.                             *)

SourceFixed == src = Original /\ filesize = FileSize

SizeAgreed == totalSeq = IF rcv = "idle" THEN 0 ELSE TotalSeq

(* A dgram in flight holds the chunk it names, if the file has it.         *)
DgramsTrue ==
  \A m \in toReceiver :
    /\ m.kind = "dgram"
    /\ m.first \in Seqs
    /\ src[m.first] # Hole => m.chunk = src[m.first]

(* The sender meets NAKs of packets in range, and acks of a whole file.    *)
IntsTrue ==
  \A m \in toSender :
    /\ m.kind = "int"
    /\ m.first \in Seqs \cup {-1}
    /\ m.first = -1 => rcv \in {"join", "done"}

AckSeen == retr = "exited" => rcv \in {"join", "done"}

(* The NAK thread asks only for packets in range (client.c:100).           *)
NakInRange == nak = "send" => requestIndex \in 0..totalSeq

(* What is stored is marked, counted, and true.                            *)
StoredMarked == Written \subseteq allNodes
StoredTrue   == \A i \in Written : src[i] # Hole => file[i] = src[i]

BeforeLoop == rcv \in {"idle", "alloc"} => Written = {} /\ allNodes = {}
AfterLoop  == Finished <=> totalPacketsArrived = totalSeq + 1

IndInv == /\ TypeOK
          /\ SourceFixed
          /\ SizeAgreed
          /\ DgramsTrue
          /\ IntsTrue
          /\ AckSeen
          /\ NakInRange
          /\ StoredMarked
          /\ StoredTrue
          /\ CountMatchesFile
          /\ BeforeLoop
          /\ AfterLoop
=============================================================================
