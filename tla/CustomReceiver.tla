--------------------------- MODULE CustomReceiver ---------------------------
(***************************************************************************)
(* The receiving half of the Custom Protocol, which client_new.c and       *)
(* server_new.c have in common: recvthr stores the packets that come in,   *)
(* nakthr scans what is missing and asks for it.  The two threads share    *)
(* retrans, max and ttlpkt without a lock that both of them take.          *)
(*                                                                         *)
(* air holds the frames on the wire.  A frame is seen by every socket that *)
(* is not bound to an interface, those of its own host included, any       *)
(* number of times until it is lost.  What a packet carries is named by    *)
(* the number of the piece of the file it was copied from.                 *)
(***************************************************************************)
EXTENDS Integers

CONSTANTS NoPkts,    \* no_pkts
          AckNo,     \* the seqno that says "all packets are received" (111)
          Me,        \* the node number of this program
          Peer,      \*   and the one its NAKs carry
          KeepsMin   \* min survives from scan to scan (in the server)

VARIABLES rcv,       \* recvthr
          retrans,   \* the entries of retrans that are 1
          max, min, ttlpkt,
          file,      \* clientfile.txt
          nak,       \* nakthr
          parser,
          air

recvVars == <<rcv, retrans, max, ttlpkt, file>>
nakVars  == <<nak, min, parser>>

Pkts    == 0..(NoPkts - 1)
Hole    == -1
Behind  == -2                  \* what a read past the end of the file gives
Pieces  == Pkts \cup {Behind}

Data(d, i, p)  == [my_protocol |-> 19, dest |-> d, seqno |-> i, piece |-> p]
NakPack(d, i)  == [my_protocol |-> 99, dest |-> d, seqno |-> i, piece |-> Hole]
AckPack(d)     == NakPack(d, AckNo)

validate_it(m) == m.my_protocol = 19 /\ m.dest = Me

-----------------------------------------------------------------------------
(* recvthr                                                                 *)

Start ==
  /\ rcv = "off"
  /\ rcv' = "start"
  /\ nak' = "scan"
  /\ UNCHANGED <<retrans, max, min, ttlpkt, file, parser, air>>

Calloc ==
  /\ rcv = "start"
  /\ rcv' = "recv"
  /\ UNCHANGED <<retrans, max, ttlpkt, file, nakVars, air>>

(* A packet whose entry of retrans is not 1 is written and marked.  An     *)
(* entry behind the array can read as 1 although nobody marked it.         *)
Store(m) ==
  /\ rcv = "recv"
  /\ validate_it(m)
  /\ m.seqno \notin retrans
  /\ file' = IF m.seqno \in Pkts THEN [file EXCEPT ![m.seqno] = m.piece] ELSE file
  /\ retrans' = retrans \cup {m.seqno}
  /\ max' = IF m.seqno > max THEN m.seqno ELSE max
  /\ rcv' = "count"
  /\ UNCHANGED <<ttlpkt, nakVars, air>>

(* ttlpkt is incremented last, and the loop left when all have arrived.    *)
Count ==
  /\ rcv = "count"
  /\ ttlpkt' = ttlpkt + 1
  /\ rcv' = IF ttlpkt' = NoPkts THEN "done" ELSE "recv"
  /\ UNCHANGED <<retrans, max, file, nakVars, air>>

-----------------------------------------------------------------------------
(* nakthr                                                                  *)

ScanRangeWithMax == min..max                                     \* mutant
ScanRangeToEnd   == min..(NoPkts - 1)                            \* mutant

(* The entries that missed_pkts looks at: never the one of max.            *)
ScanRange == min..(max - 1)

Missing == {i \in ScanRange \cap Pkts : i \notin retrans}

(* missed_pkts: the first entry that is 0, else -1; behind the array there *)
(* is anything.                                                            *)
missed_pkts(i) ==
  \/ /\ i \in Missing
     /\ \A j \in Missing : i <= j
  \/ /\ Missing = {}
     /\ i \in {-1} \cup {j \in ScanRange : j >= NoPkts}

Scan ==
  /\ nak = "scan"
  /\ \E i \in {-1} \cup ScanRange :
       /\ missed_pkts(i)
       /\ parser' = i
       /\ min' = IF KeepsMin /\ i # -1 /\ i # NoPkts - 1 THEN i + 1 ELSE 0
  /\ nak' = "send"
  /\ UNCHANGED <<recvVars, air>>

NothingMissing == parser = -1 /\ ttlpkt >= max                   \* mutant

AllReceived == parser = -1 /\ ttlpkt = NoPkts

SendAcks ==
  /\ nak = "send"
  /\ AllReceived
  /\ air' = air \cup {AckPack(Peer)}
  /\ nak' = "exited"
  /\ UNCHANGED <<recvVars, min, parser>>

SendNak ==
  /\ nak = "send"
  /\ ~AllReceived
  /\ air' = IF parser = -1 THEN air ELSE air \cup {NakPack(Peer, parser)}
  /\ nak' = "scan"
  /\ UNCHANGED <<recvVars, min, parser>>

-----------------------------------------------------------------------------
Init ==
  /\ rcv = "off"
  /\ retrans = {}
  /\ max = 0
  /\ min = 0
  /\ ttlpkt = 0
  /\ file = [i \in Pkts |-> Hole]
  /\ nak = "off"
  /\ parser = -1

Next == Calloc \/ (\E m \in air : Store(m)) \/ Count \/ Scan \/ SendAcks \/ SendNak

Finished == nak = "exited"
Stored   == {i \in Pkts : file[i] # Hole}

-----------------------------------------------------------------------------
(* Properties of either program's receiver.                                *)

(* Every variable has its type.                                            *)
TypeOK ==
  /\ rcv \in {"off", "start", "recv", "count", "done"}
  /\ retrans \subseteq Pkts \cup {AckNo}
  /\ max \in Pkts \cup {AckNo}
  /\ min \in 0..max
  /\ ttlpkt \in Nat
  /\ file \in [Pkts -> Pieces \cup {Hole}]
  /\ nak \in {"off", "scan", "send", "exited"}
  /\ parser \in -1..max

(* nakthr may run before recvthr has allocated retrans                     *)
(* (client_new.c:205, server_new.c:227): it must not look at any entry     *)
(* then, and at none behind the array unless a packet behind it came in.   *)
ScanInside ==
  /\ nak = "scan" /\ ScanRange # {} => rcv # "start"
  /\ ScanRange \subseteq Pkts \/ AckNo \in retrans \ Pkts

(* "All packets are received" (server_new.c:156): every packet is in the   *)
(* file, unless one from behind the sender's file was counted in its place.*)
AckMeansStored ==
  Finished => \/ Stored = Pkts
              \/ /\ AckNo \in retrans \ Pkts
                 /\ \E i \in Pkts : Stored = Pkts \ {i}
=============================================================================
