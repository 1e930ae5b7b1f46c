------------------------------ MODULE UdpSession ------------------------------
(***************************************************************************)
(* A whole run of client.c with server.c: the client sends textfile.txt,   *)
(* the server stores it as textref.txt and then sends that file back, and  *)
(* the client stores it as textfile_back.txt.                              *)
(*                                                                         *)
(* Each direction is an instance of UdpTransfer.  They share the sockets:  *)
(* whatever reaches the client is read by the thread that waits for NAKs   *)
(* and acks while the client sends, and by the receive loop after that;    *)
(* at the server it is the other way round.  A program that waits for an   *)
(* int takes the first int of any datagram (recvfrom cuts off the rest).   *)
(***************************************************************************)
EXTENDS UdpDatagrams, FiniteSets

CONSTANTS EdgeBytes,  \* see UdpTransfer
          SizeFirst   \* a size datagram is the first to reach the server, and
                      \* all of them reach it before it turns to sending

ASSUME SessionAssumption == SizeFirst \in BOOLEAN /\ EdgeBytes \subseteq {0, 1}

VARIABLES
  textfile, cfilesize,                    \* the client's file and its size
  hello,                                  \* the client has sent the size
  cseq, cretr,                            \* the client sending
  stotalSeq, srcv, sallNodes, sarrived,   \* the server receiving
  snak, srequest, sscan, textref,
  sfilesize, sseq, sretr,                 \* the server sending
  ctotalSeq, crcv, callNodes, carrived,   \* the client receiving
  cnak, crequest, cscan, textback,
  toServer, toClient                      \* the datagrams on their way

clientSendVars == <<textfile, cfilesize, hello, cseq, cretr>>
serverRcvVars  == <<stotalSeq, srcv, sallNodes, sarrived, snak, srequest,
                    sscan, textref>>
serverSendVars == <<sfilesize, sseq, sretr>>
clientRcvVars  == <<ctotalSeq, crcv, callNodes, carrived, cnak, crequest,
                    cscan, textback>>
vars == <<clientSendVars, serverRcvVars, serverSendVars, clientRcvVars,
          toServer, toClient>>

(* The file goes to the server ...                                         *)
Fwd == INSTANCE UdpTransfer WITH
         src                 <- textfile,
         filesize            <- cfilesize,
         seq                 <- cseq,
         retr                <- cretr,
         totalSeq            <- stotalSeq,
         rcv                 <- srcv,
         allNodes            <- sallNodes,
         totalPacketsArrived <- sarrived,
         file                <- textref,
         nak                 <- snak,
         requestIndex        <- srequest,
         iteratingptr        <- sscan,
         toSender            <- toClient,
         toReceiver          <- toServer

(* ... and what the server has made of it comes back.                      *)
Bwd == INSTANCE UdpTransfer WITH
         src                 <- textref,
         filesize            <- sfilesize,
         seq                 <- sseq,
         retr                <- sretr,
         totalSeq            <- ctotalSeq,
         rcv                 <- crcv,
         allNodes            <- callNodes,
         totalPacketsArrived <- carrived,
         file                <- textback,
         nak                 <- cnak,
         requestIndex        <- crequest,
         iteratingptr        <- cscan,
         toSender            <- toServer,
         toReceiver          <- toClient

fwdOnly == <<hello, serverSendVars, clientRcvVars>>
bwdOnly == <<clientSendVars, stotalSeq, srcv, sallNodes, sarrived, snak,
             srequest, sscan>>

SizeMsg == IntMsg(FileSize)

-----------------------------------------------------------------------------
(* The client says how long the file is, ten times, and starts sending.    *)
ClientHello ==
  /\ ~hello
  /\ hello' = TRUE
  /\ toServer' = toServer \cup {IntMsg(cfilesize)}
  /\ UNCHANGED <<textfile, cfilesize, cseq, cretr, serverRcvVars,
                 serverSendVars, clientRcvVars, toClient>>

ClientSends ==
  /\ hello
  /\ Fwd!SenderStep
  /\ UNCHANGED fwdOnly

(* The first datagram the server reads is the size, whatever it is.        *)
ServerStart ==
  /\ \E m \in toServer :
       /\ SizeFirst => m = SizeMsg
       /\ Fwd!StartReceiver(m.first)
       /\ sfilesize' = m.first
  /\ UNCHANGED <<hello, sseq, sretr, clientRcvVars>>

ServerReceives ==
  /\ Fwd!ReceiverStep
  /\ UNCHANGED fwdOnly

(* Mutant: the server starts to send back while it still receives.         *)
ServerTurnsEarly ==
  /\ srcv # "idle"
  /\ Bwd!StartSender
  /\ UNCHANGED bwdOnly

(* The server sends back only after it has joined its NAK thread.          *)
ServerTurns ==
  /\ srcv = "done"
  /\ Bwd!StartSender
  /\ UNCHANGED bwdOnly

ServerSends ==
  /\ \/ Bwd!SendNext
     \/ \E m \in toServer :
          /\ SizeFirst => m # SizeMsg
          /\ Bwd!Answer(m) \/ Bwd!Crash(m) \/ Bwd!ReleaseSender(m)
  /\ UNCHANGED bwdOnly

(* Mutant: the client does not wait for its retransmit thread.             *)
ClientTurnsUnjoined ==
  /\ cretr # "idle"
  /\ ~Fwd!MoreToSend
  /\ Bwd!StartReceiver(cfilesize)
  /\ UNCHANGED bwdOnly

(* The client receives after it has sent every chunk once and joined its   *)
(* retransmit thread.                                                      *)
ClientTurns ==
  /\ cretr = "exited"
  /\ ~Fwd!MoreToSend
  /\ Bwd!StartReceiver(cfilesize)
  /\ UNCHANGED bwdOnly

ClientReceives ==
  /\ Bwd!ReceiverStep
  /\ UNCHANGED bwdOnly

Lose ==
  /\ \/ \E m \in toClient : Fwd!LoseToSender(m)
     \/ \E m \in toServer :
          /\ SizeFirst => m # SizeMsg
          /\ Fwd!LoseToReceiver(m)
  /\ UNCHANGED fwdOnly

Init ==
  /\ hello = FALSE
  /\ Fwd!Init
  /\ sfilesize = 0
  /\ sseq = 0
  /\ sretr = "idle"
  /\ ctotalSeq = 0
  /\ crcv = "idle"
  /\ callNodes = {}
  /\ carrived = 0
  /\ textback = [i \in Seqs |-> Hole]
  /\ cnak = "idle"
  /\ crequest = -1
  /\ cscan = 0

Next ==
  \/ ClientHello
  \/ ClientSends
  \/ ServerStart
  \/ ServerReceives
  \/ ServerTurns
  \/ ServerSends
  \/ ClientTurns
  \/ ClientReceives
  \/ Lose

Spec == Init /\ [][Next]_vars

(* Every thread goes on while it can; a datagram sent again and again gets *)
(* through.  Nothing is assumed of the acks, which are sent once.          *)
FwdStep(A) == A /\ UNCHANGED fwdOnly
BwdStep(A) == A /\ UNCHANGED bwdOnly

ClientFairness ==
  /\ WF_vars(ClientHello)
  /\ WF_vars(hello /\ FwdStep(Fwd!StartSender))
  /\ WF_vars(FwdStep(Fwd!SendNext))
  /\ \A i \in Seqs :
       /\ SF_vars(FwdStep(\E m \in toClient : m.first = i /\ Fwd!Answer(m)))
       /\ SF_vars(BwdStep(\E m \in toClient : m.first = i /\ Bwd!Receive(m)))
  /\ SF_vars(FwdStep(\E m \in toClient : Fwd!ReleaseSender(m)))
  /\ WF_vars(ClientTurns)
  /\ WF_vars(BwdStep(Bwd!Calloc))
  /\ WF_vars(BwdStep(Bwd!SendAcks))
  /\ WF_vars(BwdStep(Bwd!Join))
  /\ WF_vars(BwdStep(Bwd!NakCheck))
  /\ WF_vars(BwdStep(Bwd!Iterate))
  /\ WF_vars(BwdStep(Bwd!NakSend))

ServerFairness ==
  /\ WF_vars(ServerStart)
  /\ WF_vars(FwdStep(Fwd!Calloc))
  /\ WF_vars(FwdStep(Fwd!SendAcks))
  /\ WF_vars(FwdStep(Fwd!Join))
  /\ WF_vars(FwdStep(Fwd!NakCheck))
  /\ WF_vars(FwdStep(Fwd!Iterate))
  /\ WF_vars(FwdStep(Fwd!NakSend))
  /\ WF_vars(ServerTurns)
  /\ WF_vars(BwdStep(Bwd!SendNext))
  /\ \A i \in Seqs :
       /\ SF_vars(FwdStep(\E m \in toServer : m.first = i /\ Fwd!Receive(m)))
       /\ SF_vars(BwdStep(\E m \in toServer : m.first = i /\ Bwd!Answer(m)))
  /\ SF_vars(BwdStep(\E m \in toServer : Bwd!ReleaseSender(m)))

FairSpec == Spec /\ ClientFairness /\ ServerFairness

-----------------------------------------------------------------------------
(* Properties.                                                             *)

(* Both directions keep their types, whatever else is on their sockets.    *)
SessionTypeOK ==
  /\ hello \in BOOLEAN
  /\ Fwd!TypeOK
  /\ Bwd!TypeOK

(* The server's "we got the whole file!! wow" (server.c:292) is true.      *)
ServerWholeFile == Fwd!WholeFile

(* Whatever the server has taken for the size (server.c:245): the chunks   *)
(* in textref.txt are chunks of the client's file, at their places; and    *)
(* the client's retransmit thread ends only on an ack of the server.       *)
TextrefTrue ==
  /\ \A i \in Seqs :
       textref[i] # Hole /\ textfile[i] # Hole => textref[i] = textfile[i]
  /\ cretr = "exited" => srcv \in {"join", "done"} /\ sarrived = stotalSeq + 1

(* The client turns to receiving (client.c:321-344) only when the server   *)
(* has the file, and the server's textref.txt does not change any more     *)
(* once it is being sent back (server.c:312-324).                          *)
TurnOnlyWithFile ==
  /\ crcv # "idle" => srcv \in {"join", "done"} /\ textref = textfile
  /\ sretr # "idle" => textref = textfile

(* The file that comes back is the one that was sent, through both copies: *)
(* end to end the session is a FileTransfer from textfile.txt to           *)
(* textfile_back.txt, and the server's last thread ends (server.c:78-81)   *)
(* only when it is complete.                                               *)
Echo == INSTANCE FileTransfer WITH
          original <- textfile,
          copy     <- textback,
          complete <- Bwd!Finished,
          released <- (sretr = "exited")
EchoIsFileTransfer == Echo!Spec

(* If all acks of the server are lost the client never learns that the     *)
(* file has arrived: the server's chunks are NAKs to the client, whose     *)
(* answers are NAKs to the server, and so on.                              *)
FwdAcksLost ==
  srcv \in {"join", "done"} /\ Ack \notin toClient /\ cretr # "exited"
LostAcksAreFatal == [][FwdAcksLost => FwdAcksLost' /\ crcv = "idle"]_vars

(* Both programs come to their ends (client.c:391-404, server.c:376-388)   *)
(* unless one of the two bursts of acks is lost completely.                *)
BwdAcksLost ==
  crcv \in {"join", "done"} /\ Ack \notin toServer /\ sretr # "exited"
SessionEndsUnlessAcksLost ==
  <>(\/ crcv = "done" /\ sretr = "exited" /\ ~Bwd!MoreToSend
     \/ FwdAcksLost
     \/ BwdAcksLost)
=============================================================================
