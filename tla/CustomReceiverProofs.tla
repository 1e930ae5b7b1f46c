------------------------ MODULE CustomReceiverProofs ------------------------
(***************************************************************************)
(* What holds of either program's receiver, whatever is on the wire, as    *)
(* long as the packets for it carry numbers of packets or AckNo.           *)
(***************************************************************************)
EXTENDS CustomReceiver, FiniteSetTheorems, TLAPS

Numbers == Pkts \cup {AckNo}

FramesInRange ==
  \A m \in air : validate_it(m) => m.seqno \in Numbers /\ m.piece \in Pieces

RecvTypes ==
  /\ rcv \in {"off", "start", "recv", "count", "done"}
  /\ retrans \subseteq Numbers
  /\ file \in [Pkts -> Pieces \cup {Hole}]
  /\ nak \in {"off", "scan", "send", "exited"}
  /\ max \in Numbers /\ min \in 0..max /\ parser \in -1..max
  /\ ttlpkt \in Nat

(* The counter is one behind while a packet is marked and not yet counted; *)
(* max is the number of a packet that has arrived, once one has.           *)
CountInv ==
  /\ Cardinality(retrans) = ttlpkt + (IF rcv = "count" THEN 1 ELSE 0)
  /\ IF rcv = "done" THEN ttlpkt = NoPkts ELSE ttlpkt < NoPkts
  /\ nak = "exited" => rcv = "done"
  /\ \A i \in Pkts : file[i] # Hole <=> i \in retrans
  /\ max # 0 => max \in retrans
  /\ parser # -1 => parser < max
  /\ rcv \in {"off", "start"} => max = 0

RecvInv == RecvTypes /\ CountInv

Sizes == NoPkts \in Nat \ {0} /\ AckNo \in Nat

LEMMA RecvInit == ASSUME Sizes, Init PROVE RecvInv
<1>1. 0 \in Pkts /\ Hole \notin Pieces
  BY DEF Sizes, Pkts, Hole, Pieces, Behind
<1>2. RecvTypes
  BY <1>1 DEF Init, RecvTypes, Numbers
<1>3. CountInv
  BY <1>1, FS_EmptySet DEF Init, CountInv, Sizes
<1> QED
  BY <1>2, <1>3 DEF RecvInv

LEMMA NumbersType == ASSUME Sizes PROVE Numbers \subseteq Nat /\ 0 \in Numbers /\ IsFiniteSet(Numbers)
<1>1. IsFiniteSet(Pkts)
  BY FS_Interval DEF Sizes, Pkts
<1>2. IsFiniteSet(Numbers)
  BY <1>1, FS_AddElement DEF Numbers
<1>3. Numbers \subseteq Nat /\ 0 \in Numbers
  BY DEF Sizes, Numbers, Pkts
<1> QED
  BY <1>2, <1>3

LEMMA RetransCardinality ==
  ASSUME Sizes, RecvTypes
  PROVE  IsFiniteSet(retrans) /\ Cardinality(retrans) \in Nat
<1>1. IsFiniteSet(retrans)
  BY NumbersType, FS_Subset DEF RecvTypes
<1> QED
  BY <1>1, FS_CardinalityType

LEMMA RecvStart == ASSUME Sizes, RecvInv, Start PROVE RecvInv'
<1>1. RecvTypes'
  BY DEF RecvInv, RecvTypes, Start
<1>2. CountInv'
  BY DEF RecvInv, CountInv, Start
<1> QED
  BY <1>1, <1>2 DEF RecvInv

LEMMA RecvCalloc == ASSUME Sizes, RecvInv, Calloc PROVE RecvInv'
<1>1. RecvTypes'
  BY DEF RecvInv, RecvTypes, Calloc, nakVars
<1>2. CountInv'
  BY DEF RecvInv, CountInv, Calloc, nakVars
<1> QED
  BY <1>1, <1>2 DEF RecvInv

LEMMA RecvStore ==
  ASSUME Sizes, RecvInv, FramesInRange, NEW m \in air, Store(m)
  PROVE  RecvInv'
<1> DEFINE q == m.seqno
<1>1. /\ q \in Numbers /\ m.piece \in Pieces /\ q \notin retrans
      /\ rcv = "recv" /\ rcv' = "count" /\ retrans' = retrans \cup {q}
      /\ file' = IF q \in Pkts THEN [file EXCEPT ![q] = m.piece] ELSE file
      /\ max' = IF q > max THEN q ELSE max
      /\ UNCHANGED <<ttlpkt, nak, min, parser>>
  BY DEF Store, FramesInRange, nakVars
<1>2. /\ Numbers \subseteq Nat /\ max \in Nat /\ q \in Nat /\ max' \in Numbers /\ max <= max'
      /\ min \in Int /\ parser \in Int
  <2>1. max \in Numbers /\ Numbers \subseteq Nat /\ min \in 0..max /\ parser \in -1..max
    BY NumbersType DEF RecvInv, RecvTypes
  <2>2. max \in Nat /\ q \in Nat
    BY <1>1, <2>1
  <2> QED
    BY <1>1, <2>1, <2>2
<1>3. RecvTypes'
  <2>1. min \in 0..max /\ parser \in -1..max /\ max' \in Nat
    BY <1>2 DEF RecvInv, RecvTypes
  <2>2. min \in 0..max' /\ parser \in -1..max'
    BY <1>2, <2>1
  <2> QED
    BY <1>1, <1>2, <2>2 DEF RecvInv, RecvTypes
<1>4. Cardinality(retrans') = Cardinality(retrans) + 1
  BY <1>1, RetransCardinality, FS_AddElement DEF RecvInv
<1>5. \A i \in Pkts : file'[i] # Hole <=> i \in retrans'
  <2>1. Hole \notin Pieces
    BY DEF Hole, Pieces, Pkts, Behind
  <2> QED
    BY <1>1, <2>1 DEF RecvInv, RecvTypes, CountInv
<1>6. /\ max' # 0 => max' \in retrans'
      /\ parser' # -1 => parser' < max'
  BY <1>1, <1>2 DEF RecvInv, CountInv
<1>7. CountInv'
  BY <1>1, <1>4, <1>5, <1>6 DEF RecvInv, RecvTypes, CountInv
<1> QED
  BY <1>3, <1>7 DEF RecvInv

LEMMA RecvCount == ASSUME Sizes, RecvInv, Count PROVE RecvInv'
<1>1. RecvTypes'
  BY DEF RecvInv, RecvTypes, Count, nakVars
<1>2. CountInv'
  BY DEF RecvInv, RecvTypes, CountInv, Count, nakVars, Sizes
<1> QED
  BY <1>1, <1>2 DEF RecvInv

LEMMA RecvScan ==
  ASSUME Sizes, RecvInv, Scan
  PROVE  RecvInv' /\ (parser' = -1 => Missing = {})
<1>1. PICK i \in {-1} \cup ScanRange :
        /\ missed_pkts(i)
        /\ parser' = i
        /\ min' = IF KeepsMin /\ i # -1 /\ i # NoPkts - 1 THEN i + 1 ELSE 0
  BY DEF Scan
<1>2. nak = "scan" /\ nak' = "send" /\ UNCHANGED <<rcv, retrans, max, ttlpkt, file>>
  BY DEF Scan, recvVars
<1>3. max \in Nat /\ min \in Nat /\ min <= max
  BY NumbersType DEF RecvInv, RecvTypes
<1>4. i # -1 => i \in Nat /\ i < max
  BY <1>1, <1>3 DEF ScanRange
<1>5. min' \in 0..max /\ i \in -1..max
  BY <1>1, <1>3, <1>4
<1>6. RecvTypes' /\ CountInv'
  BY <1>1, <1>2, <1>4, <1>5 DEF RecvInv, RecvTypes, CountInv
<1>7. i = -1 => Missing = {}
  BY <1>1 DEF missed_pkts, Missing, Pkts
<1> QED
  BY <1>1, <1>6, <1>7 DEF RecvInv

LEMMA RecvAcks == ASSUME Sizes, RecvInv, SendAcks PROVE RecvInv'
<1>1. ttlpkt = NoPkts /\ rcv = "done"
  BY DEF RecvInv, CountInv, SendAcks, AllReceived, Sizes
<1>2. RecvTypes'
  BY DEF RecvInv, RecvTypes, SendAcks, recvVars
<1>3. CountInv'
  BY <1>1 DEF RecvInv, CountInv, SendAcks, recvVars
<1> QED
  BY <1>2, <1>3 DEF RecvInv

LEMMA RecvNak == ASSUME Sizes, RecvInv, SendNak PROVE RecvInv'
<1>1. RecvTypes'
  BY DEF RecvInv, RecvTypes, SendNak, recvVars
<1>2. CountInv'
  BY DEF RecvInv, CountInv, SendNak, recvVars
<1> QED
  BY <1>1, <1>2 DEF RecvInv

LEMMA RecvNext == ASSUME Sizes, RecvInv, FramesInRange, Start \/ Next PROVE RecvInv'
  BY RecvStart, RecvCalloc, RecvStore, RecvCount, RecvScan, RecvAcks, RecvNak DEF Next

LEMMA RecvStutter ==
  ASSUME RecvInv, UNCHANGED <<rcv, retrans, max, min, ttlpkt, file, nak, parser>>
  PROVE  RecvInv'
  BY DEF RecvInv, RecvTypes, CountInv

-----------------------------------------------------------------------------
(* What follows from it.                                                   *)

LEMMA RecvTypeOK == ASSUME RecvInv PROVE TypeOK
  BY DEF RecvInv, RecvTypes, TypeOK, Numbers

LEMMA RecvScanInside == ASSUME Sizes, RecvInv PROVE ScanInside
<1>1. max \in Nat /\ min \in Nat
  BY NumbersType DEF RecvInv, RecvTypes
<1>2. max = 0 => ScanRange = {}
  BY <1>1 DEF ScanRange
<1>3. CASE AckNo \in retrans \ Pkts
  BY <1>2, <1>3 DEF RecvInv, CountInv, ScanInside
<1>4. CASE AckNo \notin retrans \ Pkts
  <2>1. max \in Pkts
    BY <1>4 DEF RecvInv, RecvTypes, CountInv, Numbers, Pkts, Sizes
  <2>2. ScanRange \subseteq Pkts
    BY <1>1, <2>1 DEF ScanRange, Pkts, Sizes
  <2> QED
    BY <1>2, <2>2 DEF RecvInv, CountInv, ScanInside
<1> QED
  BY <1>3, <1>4

(* The set of packets that were counted, when nakthr has finished.         *)
LEMMA AllNumbers ==
  ASSUME Sizes, RecvInv, rcv = "done", AckNo \notin retrans \ Pkts
  PROVE  retrans = Pkts
<1>1. retrans \subseteq Pkts /\ IsFiniteSet(Pkts) /\ Cardinality(Pkts) = NoPkts
  BY FS_Interval DEF RecvInv, RecvTypes, Numbers, Pkts, Sizes
<1>2. Cardinality(retrans) = NoPkts
  BY DEF RecvInv, CountInv, Sizes
<1> QED
  BY <1>1, <1>2, FS_Subset

LEMMA RecvAckMeansStored == ASSUME Sizes, RecvInv PROVE AckMeansStored
<1> SUFFICES ASSUME nak = "exited"
             PROVE  \/ Stored = Pkts
                    \/ AckNo \in retrans \ Pkts /\ \E i \in Pkts : Stored = Pkts \ {i}
  BY DEF AckMeansStored, Finished
<1>1. rcv = "done" /\ Cardinality(retrans) = NoPkts
  BY DEF RecvInv, CountInv, Sizes
<1>2. Stored = retrans \cap Pkts
  BY DEF RecvInv, CountInv, Stored
<1>3. CASE AckNo \notin retrans \ Pkts
  BY <1>1, <1>2, <1>3, AllNumbers
<1>4. CASE AckNo \in retrans \ Pkts
  <2>1. Stored = retrans \ {AckNo}
    BY <1>2, <1>4 DEF RecvInv, RecvTypes, Numbers
  <2>2. IsFiniteSet(retrans) /\ IsFiniteSet(Pkts) /\ Cardinality(Pkts) = NoPkts
    BY RetransCardinality, FS_Interval DEF RecvInv, Pkts, Sizes
  <2>3. Cardinality(Stored) = NoPkts - 1
    BY <1>1, <1>4, <2>1, <2>2, FS_RemoveElement
  <2>4. Stored \subseteq Pkts /\ Pkts \cap Stored = Stored
    BY <1>2
  <2>5. Cardinality(Pkts \ Stored) = NoPkts - (NoPkts - 1)
    BY <2>2, <2>3, <2>4, FS_Difference
  <2>6. IsFiniteSet(Pkts \ Stored) /\ Cardinality(Pkts \ Stored) = 1
    BY <2>2, <2>5, FS_Subset DEF Sizes
  <2>7. PICK i : Pkts \ Stored = {i}
    BY <2>6, FS_Singleton
  <2>8. i \in Pkts /\ Stored = Pkts \ {i}
    BY <2>4, <2>7
  <2> QED
    BY <1>4, <2>8
<1> QED
  BY <1>3, <1>4
=============================================================================
