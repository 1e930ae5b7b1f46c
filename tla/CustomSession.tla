---------------------------- MODULE CustomSession ----------------------------
(***************************************************************************)
(* client_new.c and server_new.c on one wire: the client (node 1) sends    *)
(* its file once and then receives; the server (node 2) receives, sends    *)
(* its own file back, and answers NAKs.                                    *)
(***************************************************************************)
EXTENDS Integers

CONSTANTS NoPkts,    \* no_pkts
          AckNo      \* the seqno that says "all packets are received" (111)

ASSUME CustomAssumption == NoPkts \in Nat \ {0} /\ AckNo \in Nat

VARIABLES
  cseq,                                      \* client: main's first pass
  crcv, cretrans, cmax, cmin, cttlpkt, cfile, cnak, cparser,
  srcv, sretrans, smax, smin, sttlpkt, sfile, snak, sparser,
  sseq,                                      \* server: main's first pass
  retr,                                      \* server: retrthr
  air

clientRcv == <<crcv, cretrans, cmax, cmin, cttlpkt, cfile, cnak, cparser>>
serverRcv == <<srcv, sretrans, smax, smin, sttlpkt, sfile, snak, sparser>>
mainVars  == <<cseq, sseq, retr>>
vars == <<mainVars, clientRcv, serverRcv, air>>

Cli == INSTANCE CustomReceiver WITH
  Me <- 1, Peer <- 2, KeepsMin <- FALSE,
  rcv <- crcv, retrans <- cretrans, max <- cmax, min <- cmin,
  ttlpkt <- cttlpkt, file <- cfile, nak <- cnak, parser <- cparser

Srv == INSTANCE CustomReceiver WITH
  Me <- 2, Peer <- 1, KeepsMin <- TRUE,
  rcv <- srcv, retrans <- sretrans, max <- smax, min <- smin,
  ttlpkt <- sttlpkt, file <- sfile, nak <- snak, parser <- sparser

Pkts == 0..(NoPkts - 1)

-----------------------------------------------------------------------------
(* The client.                                                             *)

(* ptr is 0 all the time: every packet carries the first piece.            *)
ClientPiece == 0

ClientSends ==
  /\ cseq < NoPkts
  /\ air' = air \cup {Cli!Data(2, cseq, ClientPiece)}
  /\ cseq' = cseq + 1
  /\ UNCHANGED <<sseq, retr, clientRcv, serverRcv>>

ClientTurns ==
  /\ cseq = NoPkts
  /\ Cli!Start
  /\ UNCHANGED <<mainVars, serverRcv>>

ClientReceives ==
  /\ Cli!Next
  /\ UNCHANGED <<mainVars, serverRcv>>

-----------------------------------------------------------------------------
(* The server.                                                             *)

ServerStart ==
  /\ Srv!Start
  /\ UNCHANGED <<mainVars, clientRcv>>

ServerReceives ==
  /\ Srv!Next
  /\ UNCHANGED <<mainVars, clientRcv>>

Joined == srcv = "done" /\ snak = "exited"

ServerSends ==
  /\ Joined
  /\ sseq < NoPkts
  /\ air' = air \cup {Srv!Data(1, sseq, sseq)}
  /\ sseq' = sseq + 1
  /\ UNCHANGED <<cseq, retr, clientRcv, serverRcv>>

StartRetrthr ==
  /\ sseq = NoPkts
  /\ retr = "off"
  /\ retr' = "on"
  /\ UNCHANGED <<cseq, sseq, clientRcv, serverRcv, air>>

EndsRetrthrAnyDest(m) == m.my_protocol = 99 /\ m.seqno = AckNo   \* mutant

EndsRetrthr(m) == m.my_protocol = 99 /\ m.seqno = AckNo /\ m.dest = 2

RetrthrEnds ==
  /\ retr = "on"
  /\ \E m \in air : EndsRetrthr(m)
  /\ retr' = "exited"
  /\ UNCHANGED <<cseq, sseq, clientRcv, serverRcv, air>>

(* Only NAKs with dest_node 1 are answered: those the server sent itself.  *)
Answered(m) == m.my_protocol = 99 /\ m.dest = 1 /\ ~EndsRetrthr(m)

(* A NAK of a packet the file does not have, 111 for one, copies from      *)
(* behind the mapping, or crashes.                                         *)
CopiedFromStart(i) == ClientPiece                                \* mutant

Copied(i) == IF i \in Pkts THEN i ELSE Srv!Behind

RetrthrAnswers ==
  /\ retr = "on"
  /\ \E m \in air :
       /\ Answered(m)
       /\ air' = air \cup {Srv!Data(1, m.seqno, Copied(m.seqno))}
  /\ UNCHANGED <<mainVars, clientRcv, serverRcv>>

RetrthrCrashes ==
  /\ retr = "on"
  /\ \E m \in air : Answered(m) /\ m.seqno \notin Pkts
  /\ retr' = "crashed"
  /\ UNCHANGED <<cseq, sseq, clientRcv, serverRcv, air>>

-----------------------------------------------------------------------------
Lose ==
  /\ \E m \in air : air' = air \ {m}
  /\ UNCHANGED <<mainVars, clientRcv, serverRcv>>

Init ==
  /\ cseq = 0
  /\ sseq = 0
  /\ retr = "off"
  /\ air = {}
  /\ Cli!Init
  /\ Srv!Init

Next ==
  \/ ClientSends
  \/ ClientTurns
  \/ ClientReceives
  \/ ServerStart
  \/ ServerReceives
  \/ ServerSends
  \/ StartRetrthr
  \/ RetrthrEnds
  \/ RetrthrAnswers
  \/ RetrthrCrashes
  \/ Lose

Spec == Init /\ [][Next]_vars

-----------------------------------------------------------------------------
(* Properties.                                                             *)

(* Both programs keep their types.                                         *)
SessionTypeOK ==
  /\ cseq \in 0..NoPkts /\ sseq \in 0..NoPkts
  /\ retr \in {"off", "on", "exited", "crashed"}
  /\ Cli!TypeOK /\ Srv!TypeOK

(* Neither nakthr reads retrans before it exists or behind its end.        *)
ScansInside == Cli!ScanInside /\ Srv!ScanInside

(* When the server has said "All packets are received" (server_new.c:156)  *)
(* each place of its file holds a packet of the client, which is the first *)
(* piece of the client's file (client_new.c:491): clientfile.txt of the    *)
(* repository is what came of it.                                          *)
ServerCopy ==
  Srv!Finished => sfile = [i \in Pkts |-> 0]

(* What the client stores is the server's file, each piece at its place;   *)
(* its own "All packets are received" (client_new.c:133) may come one      *)
(* packet early, when the server has answered its own ack with packet 111. *)
ClientCopy ==
  /\ \A i \in Pkts : cfile[i] \in {i, Cli!Hole}
  /\ Cli!AckMeansStored

(* The scan stops short of max (server_new.c:78, client_new.c:76): the     *)
(* last packet is never asked for, but by a client whose max was pushed up *)
(* by packet 111.                                                          *)
LastNeverAsked ==
  \A m \in air :
    m.my_protocol = 99 /\ m.seqno = NoPkts - 1 /\ AckNo # NoPkts - 1
      => m.dest = 2 /\ AckNo \in cretrans \ Pkts

(* The client's retransmit thread is never started (client_new.c:541): a   *)
(* packet of its first pass that is lost keeps the server in its receiving *)
(* half for ever.  The server's answers no NAK of the client               *)
(* (server_new.c:376): once a packet it has sent is lost, and no NAK of    *)
(* its own for it is left, the client stays without it, and can finish     *)
(* only on the strength of packet 111.                                     *)
NotComing(i, dest) == \A m \in air : ~(m.my_protocol = 19 /\ m.dest = dest /\ m.seqno = i)
LostToServer ==
  \E i \in Pkts : i < cseq /\ i \notin sretrans /\ NotComing(i, 2)
LostToClient ==
  \E i \in Pkts : /\ i < sseq /\ i \notin cretrans /\ NotComing(i, 1)
                  /\ \A m \in air : ~(Answered(m) /\ m.seqno = i)
LostPacketIsFatal ==
  [][/\ LostToServer => LostToServer' /\ ~Srv!Finished' /\ sseq' = 0
     /\ LostToClient =>
          LostToClient' /\ (Cli!Finished' => AckNo \in cretrans' \ Pkts)]_vars

(* The server's retransmit thread ends (server_new.c:367) only on the ack  *)
(* of a client that has received all packets it counts on, or, in a file   *)
(* long enough to have a packet 111, perhaps on the client's NAK of it,    *)
(* which is the same packet.                                               *)
RetrEndsOnClientAck ==
  retr = "exited" => Cli!Finished \/ AckNo \in Pkts
=============================================================================
