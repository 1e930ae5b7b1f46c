--------------------------- MODULE NtpSyncProofs ---------------------------
(***************************************************************************)
(* Proofs about NtpSync, for every tree, any number of samples to take and *)
(* whatever becomes of the packets.                                        *)
(***************************************************************************)
EXTENDS NtpSync, FiniteSetTheorems, TLAPS

Strata == {n \in Int : n >= -1}

(* A packet, but for the bound on its stratum, which only a tree has.      *)
Pkt == [seqnum : Rounds \cup {NoRound}, stratum : Strata, ifsync : Nat,
        setclock : BOOLEAN, oldseqnum : Rounds \cup {NoRound},
        mastertime : Rounds \cup {NoRound}]

Busy(s) == mpc[s] \in {"send", "poll", "check", "calc"}

SyncTypes ==
  /\ master \in [Slaves -> Nodes] /\ Depths(master) # {}
  /\ stratum \in [Nodes -> Strata] /\ stratum[Root] = 0
  /\ totalsync \in [Nodes -> Nat]
  /\ synced \in [Nodes -> BOOLEAN]
  /\ slavesync \in [Nodes -> BOOLEAN]
  /\ aborted \in [Nodes -> BOOLEAN]
  /\ mpc \in [Slaves -> {"top", "send", "poll", "check", "calc", "done"}]
  /\ seqnum \in [Slaves -> Rounds]
  /\ send_pkt \in [Slaves -> Pkt]
  /\ mrecv \in [Slaves -> Pkt]
  /\ spc \in [Slaves -> {"loop", "got", "done"}]
  /\ srecv \in [Slaves -> Pkt]
  /\ down \in [Slaves -> SUBSET Pkt]
  /\ up \in [Slaves -> SUBSET Pkt]
  /\ \A s \in Slaves : Busy(s) => seqnum[s] < MaxRound

-----------------------------------------------------------------------------
(* Packets.                                                                *)

LEMMA RoundsType == NoRound \in Int /\ Rounds \subseteq Nat /\ 0 \in Rounds
  BY NtpAssumption DEF NoRound, Rounds

LEMMA PlainType ==
  ASSUME NEW q \in Rounds \cup {NoRound}, NEW st \in Strata, NEW n \in Nat
  PROVE  /\ Plain(q, st, n) \in Pkt
         /\ Plain(q, st, n).seqnum = q /\ Plain(q, st, n).stratum = st
         /\ Plain(q, st, n).ifsync = n /\ Plain(q, st, n).setclock = FALSE
  BY DEF Plain, Pkt

LEMMA WithSeqnum ==
  ASSUME NEW r \in Pkt, NEW q \in Rounds, NEW p, p = [r EXCEPT !.seqnum = q]
  PROVE  /\ p \in Pkt /\ p.seqnum = q /\ p.stratum = r.stratum /\ p.ifsync = r.ifsync
         /\ p.setclock = r.setclock /\ p.mastertime = r.mastertime
  BY DEF Pkt

LEMMA FullType ==
  ASSUME NEW s \in Slaves, mrecv[s] \in Pkt, NEW st \in Strata, seqnum[s] \in Rounds
  PROVE  /\ Full(s, st) \in Pkt /\ Full(s, st).seqnum = mrecv[s].seqnum /\ Full(s, st).stratum = st
         /\ Full(s, st).ifsync = mrecv[s].ifsync /\ Full(s, st).mastertime = seqnum[s]
<1> DEFINE r1 == [mrecv[s] EXCEPT !.stratum = st]
           r2 == [r1 EXCEPT !.setclock = TRUE]
           r3 == [r2 EXCEPT !.oldseqnum = mrecv[s].seqnum]
           r4 == [r3 EXCEPT !.mastertime = seqnum[s]]
<1>1. Full(s, st) = r4
  BY DEF Full
<1>2. r1 \in Pkt /\ r1.stratum = st /\ r1.seqnum = mrecv[s].seqnum /\ r1.ifsync = mrecv[s].ifsync
  BY DEF Pkt
<1> HIDE DEF r1
<1>3. r2 \in Pkt /\ r2.stratum = st /\ r2.seqnum = mrecv[s].seqnum /\ r2.ifsync = mrecv[s].ifsync
  BY <1>2 DEF Pkt
<1> HIDE DEF r2
<1>4. r3 \in Pkt /\ r3.stratum = st /\ r3.seqnum = mrecv[s].seqnum /\ r3.ifsync = mrecv[s].ifsync
  BY <1>3 DEF Pkt
<1> HIDE DEF r3
<1>5. /\ r4 \in Pkt /\ r4.stratum = st /\ r4.seqnum = mrecv[s].seqnum /\ r4.ifsync = mrecv[s].ifsync
      /\ r4.mastertime = seqnum[s]
  BY <1>4 DEF Pkt
<1> QED
  BY <1>1, <1>5

LEMMA AnswerType ==
  ASSUME NEW p \in Pkt
  PROVE  /\ AnswerTo(p) \in Pkt
         /\ AnswerTo(p).seqnum = p.seqnum
         /\ AnswerTo(p).ifsync <= p.ifsync
         /\ AnswerTo(p).setclock = p.setclock
         /\ AnswerTo(p).stratum = IF p.setclock THEN p.stratum ELSE p.stratum + 1
<1>1. /\ p.seqnum \in Rounds \cup {NoRound} /\ p.stratum + 1 \in Strata
      /\ 0 \in Nat /\ p.ifsync \in Nat /\ p.setclock \in BOOLEAN /\ p.ifsync <= p.ifsync
      /\ 0 <= p.ifsync
  BY DEF Pkt, Strata
<1>2. CASE p.setclock = TRUE
  <2>1. AnswerTo(p) = p
    BY <1>2 DEF AnswerTo
  <2> QED
    BY <1>1, <1>2, <2>1
<1>3. CASE p.setclock = FALSE
  <2> DEFINE a == Plain(p.seqnum, p.stratum + 1, 0)
  <2>1. AnswerTo(p) = a
    BY <1>3 DEF AnswerTo
  <2>2. /\ a \in Pkt /\ a.seqnum = p.seqnum /\ a.stratum = p.stratum + 1
        /\ a.ifsync = 0 /\ a.setclock = FALSE
    BY <1>1 DEF Plain, Pkt
  <2> HIDE DEF a
  <2> QED
    BY <1>1, <1>3, <2>1, <2>2
<1> QED
  BY <1>1, <1>2, <1>3

LEMMA SentPacket ==
  ASSUME NEW c, NEW p
  PROVE  c \subseteq Sent(c, p) /\ Sent(c, p) \subseteq c \cup {p}
  BY DEF Sent

LEMMA InitTypes == Init => SyncTypes
<1> SUFFICES ASSUME Init PROVE SyncTypes
  OBVIOUS
<1>1. ZeroPacket \in Pkt
  <2>1. 0 \in Rounds \cup {NoRound} /\ 0 \in Strata /\ 0 \in Nat
    BY RoundsType DEF Strata
  <2> QED
    BY <2>1, PlainType, Zenon DEF ZeroPacket
<1>2. Uninitialised \subseteq Pkt
  <2>1. NoRound \in Rounds \cup {NoRound} /\ 0 \in Strata /\ {0, NO_OF_SYNC} \subseteq Nat
    BY NtpAssumption DEF Strata
  <2>2. \A n \in {0, NO_OF_SYNC} : Plain(NoRound, 0, n) \in Pkt
    BY <2>1, PlainType, Zenon
  <2> QED
    BY <2>2 DEF Uninitialised
<1>3. master \in [Slaves -> Nodes] /\ Depths(master) # {}
  BY NtpAssumption DEF Init
<1> QED
  BY <1>1, <1>2, <1>3, RoundsType DEF Init, SyncTypes, Busy, Nodes, Strata

-----------------------------------------------------------------------------
(* The steps, one by one: what the steps of other threads do to a link is  *)
(* nothing but what they do to the globals of its two nodes.               *)

MasterDoes(s) ==
  \/ MasterEnds(s) \/ MasterFills(s) \/ MasterSends(s) \/ NoReply(s)
  \/ Reply(s) \/ CheckReply(s) \/ CalcDelay(s) \/ AssertFails(s)

LEMMA Steps ==
  ASSUME [Next]_vars
  PROVE  /\ master' = master
         /\ \/ UNCHANGED vars
            \/ \E s \in Slaves : ~aborted[master[s]] /\ MasterDoes(s)
            \/ \E s \in Slaves : ~aborted[s] /\ (SlaveEnds(s) \/ SlaveReceives(s) \/ SlaveAnswers(s))
            \/ \E s \in Slaves : LosePacket(s)
  BY DEF Next, vars, MasterStep, SlaveStep, MasterDoes

LEMMA TypesMaster ==
  ASSUME SyncTypes, master' = master, NEW s \in Slaves, MasterDoes(s)
  PROVE  SyncTypes'
<1> DEFINE m == master[s]
<1>1. m \in Nodes /\ master \in [Slaves -> Nodes]
  BY DEF SyncTypes
<1>2. \A q \in Rounds : q < MaxRound => q + 1 \in Rounds
  BY NtpAssumption DEF Rounds
<1>3. CASE MasterEnds(s)
  BY <1>1, <1>3 DEF SyncTypes, Busy, MasterEnds, globals, slaveTh
<1>4. CASE MasterFills(s)
  <2> HIDE DEF m
  <2>1. Plain(seqnum[s], stratum[m], totalsync[m]) \in Pkt
    <3>1. seqnum[s] \in Rounds /\ stratum[m] \in Strata /\ totalsync[m] \in Nat
      BY <1>1 DEF SyncTypes
    <3> QED
      BY <3>1, PlainType
  <2> USE DEF m
  <2>2. /\ mpc[s] = "top" /\ seqnum[s] < MaxRound
        /\ mpc' = [mpc EXCEPT ![s] = "send"]
        /\ send_pkt' = [send_pkt EXCEPT ![s] = Plain(seqnum[s], stratum[m], totalsync[m])]
        /\ UNCHANGED <<stratum, totalsync, synced, slavesync, aborted, seqnum, mrecv,
                       spc, srecv, down, up>>
    BY <1>4 DEF MasterFills, globals, slaveTh
  <2> QED
    BY <1>1, <2>1, <2>2 DEF SyncTypes, Busy
<1>5. CASE MasterSends(s)
  <2> DEFINE p == IF synced[m] THEN [mrecv[s] EXCEPT !.seqnum = seqnum[s]] ELSE send_pkt[s]
  <2>1. p \in Pkt
    BY <1>1, WithSeqnum DEF SyncTypes
  <2>2. /\ mpc[s] = "send" /\ mpc' = [mpc EXCEPT ![s] = "poll"]
        /\ synced' = [synced EXCEPT ![m] = FALSE]
        /\ mrecv' = IF synced[m] THEN [mrecv EXCEPT ![s] = p] ELSE mrecv
        /\ down' = [down EXCEPT ![s] = Sent(@, p)]
        /\ UNCHANGED <<stratum, totalsync, slavesync, aborted, seqnum, send_pkt, slaveTh, up>>
    BY <1>5 DEF MasterSends
  <2> HIDE DEF p
  <2>3. Sent(down[s], p) \subseteq Pkt
    BY <2>1, SentPacket DEF SyncTypes
  <2> QED
    BY <1>1, <2>1, <2>2, <2>3 DEF SyncTypes, Busy, slaveTh
<1>6. CASE NoReply(s)
  BY <1>1, <1>2, <1>6 DEF SyncTypes, Busy, NoReply, NextRound, globals, slaveTh
<1>7. CASE Reply(s)
  BY <1>1, <1>7 DEF SyncTypes, Busy, Reply, globals, slaveTh
<1>8. CASE CheckReply(s)
  <2>1. CASE Counts(m, mrecv[s])
    <3>1. /\ mpc[s] = "check" /\ mpc' = [mpc EXCEPT ![s] = "calc"]
          /\ synced' = [synced EXCEPT ![m] = TRUE]
          /\ UNCHANGED <<stratum, totalsync, slavesync, aborted, seqnum, send_pkt, mrecv,
                         spc, srecv, down, up>>
      BY <1>8, <2>1 DEF CheckReply, slaveTh
    <3> QED
      BY <1>1, <3>1 DEF SyncTypes, Busy
  <2>2. CASE ~Counts(m, mrecv[s])
    BY <1>1, <1>2, <1>8, <2>2 DEF SyncTypes, Busy, CheckReply, NextRound, slaveTh
  <2> QED
    BY <2>1, <2>2
<1>9. CASE CalcDelay(s)
  <2>1. Full(s, stratum[m]) \in Pkt
    BY <1>1, FullType DEF SyncTypes
  <2>2. Counted(m) \in Nat
    BY <1>1 DEF SyncTypes, Counted
  <2>3. /\ mpc[s] = "calc" /\ mpc' = [mpc EXCEPT ![s] = "top"]
        /\ mrecv' = [mrecv EXCEPT ![s] = Full(s, stratum[m])]
        /\ totalsync' = [totalsync EXCEPT ![m] = Counted(m)]
        /\ seqnum' = [seqnum EXCEPT ![s] = @ + 1]
        /\ UNCHANGED <<stratum, synced, slavesync, aborted, send_pkt, spc, srecv, down, up>>
    BY <1>9 DEF CalcDelay, NextRound, slaveTh
  <2>4. seqnum[s] + 1 \in Rounds
    BY <1>2, <2>3 DEF SyncTypes, Busy
  <2> QED
    BY <1>1, <2>1, <2>2, <2>3, <2>4 DEF SyncTypes, Busy
<1>10. CASE AssertFails(s)
  BY <1>1, <1>10 DEF SyncTypes, Busy, AssertFails, masterTh, slaveTh
<1> QED
  BY <1>3, <1>4, <1>5, <1>6, <1>7, <1>8, <1>9, <1>10 DEF MasterDoes

LEMMA TypesSlave ==
  ASSUME SyncTypes, master' = master, NEW s \in Slaves,
         SlaveEnds(s) \/ SlaveReceives(s) \/ SlaveAnswers(s) \/ LosePacket(s)
  PROVE  SyncTypes'
<1>1. s \in Nodes /\ s # Root
  BY NtpAssumption DEF Nodes
<1>2. CASE SlaveEnds(s)
  BY <1>1, <1>2 DEF SyncTypes, Busy, SlaveEnds, masterTh
<1>3. CASE SlaveReceives(s)
  BY <1>3 DEF SyncTypes, Busy, SlaveReceives, globals, masterTh
<1>4. CASE SlaveAnswers(s)
  <2> DEFINE p == srecv[s]
  <2>1. p \in Pkt
    BY DEF SyncTypes
  <2>2. AnswerTo(p) \in Pkt
    BY <2>1, AnswerType
  <2>3. p.stratum + 1 \in Strata
    BY <2>1 DEF Pkt, Strata
  <2>4. Sent(up[s], AnswerTo(p)) \subseteq Pkt
    BY <2>2, SentPacket DEF SyncTypes
  <2> QED
    BY <1>1, <1>4, <2>3, <2>4 DEF SyncTypes, Busy, SlaveAnswers, masterTh
<1>5. CASE LosePacket(s)
  BY <1>5 DEF SyncTypes, Busy, LosePacket, globals, masterTh, slaveTh
<1> QED
  BY <1>2, <1>3, <1>4, <1>5

LEMMA TypesStep == SyncTypes /\ [Next]_vars => SyncTypes'
<1> SUFFICES ASSUME SyncTypes, [Next]_vars PROVE SyncTypes'
  OBVIOUS
<1>1. CASE UNCHANGED vars
  BY <1>1 DEF vars, globals, masterTh, slaveTh, SyncTypes, Busy
<1> QED
  BY <1>1, Steps, TypesMaster, TypesSlave

-----------------------------------------------------------------------------
(* No packet says more of its master's samples than there are, and only a  *)
(* node that is synchronised itself has any.                               *)

OrderInv ==
  /\ \A n \in Nodes : totalsync[n] > 0 => n = Root \/ slavesync[n]
  /\ \A s \in Slaves :
       /\ send_pkt[s].ifsync <= totalsync[master[s]] /\ send_pkt[s].seqnum \in Rounds
       /\ mrecv[s].ifsync <= totalsync[master[s]]
       /\ \A p \in down[s] : p.ifsync <= totalsync[master[s]] /\ p.seqnum \in Rounds
       /\ \A p \in up[s] : p.ifsync <= totalsync[master[s]]
       /\ srecv[s].seqnum # NoRound => srecv[s].ifsync <= totalsync[master[s]]
       /\ spc[s] = "got" => srecv[s].seqnum # NoRound
       /\ spc[s] = "done" => srecv[s].ifsync = NO_OF_SYNC

LEMMA PktIfsync == \A p \in Pkt : p.ifsync \in Nat
  BY DEF Pkt

LEMMA OrderMaster ==
  ASSUME SyncTypes, OrderInv, master' = master, NEW s \in Slaves, MasterDoes(s)
  PROVE  OrderInv'
<1> DEFINE m == master[s]
<1> USE DEF SyncTypes, OrderInv
<1>1. m \in Nodes /\ master \in [Slaves -> Nodes]
  OBVIOUS
<1>2. CASE MasterEnds(s) \/ NoReply(s)
  BY <1>2 DEF MasterEnds, NoReply, NextRound, globals, slaveTh
<1>3. CASE MasterFills(s)
  <2> DEFINE p == Plain(seqnum[s], stratum[m], totalsync[m])
  <2>1. p.ifsync = totalsync[m] /\ p.seqnum = seqnum[s]
    BY DEF Plain
  <2>2. send_pkt' = [send_pkt EXCEPT ![s] = p]
    BY <1>3 DEF MasterFills
  <2> HIDE DEF p
  <2>3. p.ifsync <= totalsync[m] /\ p.seqnum \in Rounds
    BY <1>1, <2>1
  <2> QED
    BY <1>1, <1>3, <2>2, <2>3 DEF MasterFills, globals, slaveTh
<1>4. CASE MasterSends(s)
  <2> DEFINE p == IF synced[m] THEN [mrecv[s] EXCEPT !.seqnum = seqnum[s]] ELSE send_pkt[s]
  <2>1. p.ifsync <= totalsync[m] /\ p.seqnum \in Rounds
    BY <1>1, WithSeqnum
  <2>2. /\ mrecv' = IF synced[m] THEN [mrecv EXCEPT ![s] = p] ELSE mrecv
        /\ down' = [down EXCEPT ![s] = Sent(@, p)]
        /\ UNCHANGED <<stratum, totalsync, slavesync, aborted, seqnum, send_pkt, slaveTh, up>>
    BY <1>4 DEF MasterSends
  <2> HIDE DEF p
  <2>3. \A r \in Sent(down[s], p) : r.ifsync <= totalsync[m] /\ r.seqnum \in Rounds
    BY <2>1, SentPacket
  <2> QED
    BY <1>1, <2>1, <2>2, <2>3 DEF slaveTh
<1>5. CASE Reply(s)
  BY <1>1, <1>5 DEF Reply, globals, slaveTh
<1>6. CASE CheckReply(s) \/ AssertFails(s)
  BY <1>6 DEF CheckReply, AssertFails, NextRound, masterTh, slaveTh
<1>7. CASE CalcDelay(s)
  <2>1. Full(s, stratum[m]).ifsync = mrecv[s].ifsync
    BY <1>1, FullType
  <2>2. /\ Counted(m) \in Nat /\ Counted(m) >= totalsync[m]
        /\ Counted(m) > 0 => m = Root \/ slavesync[m]
    BY <1>1 DEF Counted
  <2>3. /\ mrecv' = [mrecv EXCEPT ![s] = Full(s, stratum[m])]
        /\ totalsync' = [totalsync EXCEPT ![m] = Counted(m)]
        /\ UNCHANGED <<slavesync, send_pkt, spc, srecv, down, up>>
    BY <1>7 DEF CalcDelay, slaveTh
  <2>4. \A n \in Nodes : totalsync'[n] \in Nat /\ totalsync[n] <= totalsync'[n]
    BY <1>1, <2>2, <2>3
  <2>5. \A n \in Nodes : totalsync'[n] > 0 => n = Root \/ slavesync'[n]
    BY <1>1, <2>2, <2>3
  <2>6. \A n \in Nodes, q \in Nat : q <= totalsync[n] => q <= totalsync'[n]
    BY <2>4
  <2>7. mrecv'[s].ifsync <= totalsync'[m]
    BY <1>1, <2>1, <2>3, <2>6, PktIfsync
  <2>8. ASSUME NEW t \in Slaves
        PROVE  /\ send_pkt[t].ifsync <= totalsync'[master[t]]
               /\ mrecv'[t].ifsync <= totalsync'[master[t]]
               /\ \A p \in down[t] : p.ifsync <= totalsync'[master[t]]
               /\ \A p \in up[t] : p.ifsync <= totalsync'[master[t]]
               /\ srecv[t].seqnum # NoRound => srecv[t].ifsync <= totalsync'[master[t]]
    <3>1. master[t] \in Nodes /\ send_pkt[t] \in Pkt /\ mrecv[t] \in Pkt /\ srecv[t] \in Pkt
          /\ down[t] \subseteq Pkt /\ up[t] \subseteq Pkt
      OBVIOUS
    <3>2. t # s => mrecv'[t] = mrecv[t]
      BY <2>3
    <3> QED
      BY <2>6, <2>7, <3>1, <3>2, PktIfsync
  <2> QED
    BY <2>3, <2>5, <2>8
<1> QED
  BY <1>2, <1>3, <1>4, <1>5, <1>6, <1>7 DEF MasterDoes

LEMMA OrderSlave ==
  ASSUME SyncTypes, OrderInv, master' = master, NEW s \in Slaves,
         SlaveEnds(s) \/ SlaveReceives(s) \/ SlaveAnswers(s) \/ LosePacket(s)
  PROVE  OrderInv'
<1> USE DEF SyncTypes, OrderInv
<1>1. s \in Nodes /\ master[s] \in Nodes
  BY DEF Nodes
<1>2. NoRound \notin Rounds
  BY RoundsType DEF NoRound
<1>3. CASE SlaveEnds(s)
  BY <1>1, <1>3 DEF SlaveEnds, masterTh
<1>4. CASE SlaveReceives(s)
  BY <1>2, <1>4 DEF SlaveReceives, globals, masterTh
<1>5. CASE SlaveAnswers(s)
  <2> DEFINE a == AnswerTo(srecv[s])
  <2>1. a.ifsync <= srecv[s].ifsync /\ a.ifsync \in Nat /\ srecv[s].ifsync \in Nat
    BY AnswerType, PktIfsync
  <2>2. /\ spc[s] = "got" /\ spc' = [spc EXCEPT ![s] = "loop"]
        /\ up' = [up EXCEPT ![s] = Sent(@, a)]
        /\ UNCHANGED <<totalsync, synced, slavesync, aborted, masterTh, srecv, down>>
    BY <1>5 DEF SlaveAnswers
  <2> HIDE DEF a
  <2>3. a.ifsync <= totalsync[master[s]]
    BY <1>1, <2>1, <2>2
  <2>4. \A r \in Sent(up[s], a) : r.ifsync <= totalsync[master[s]]
    BY <2>3, SentPacket
  <2> QED
    BY <2>2, <2>4 DEF masterTh
<1>6. CASE LosePacket(s)
  BY <1>6 DEF LosePacket, globals, masterTh, slaveTh
<1> QED
  BY <1>3, <1>4, <1>5, <1>6

LEMMA OrderInit == Init => OrderInv
<1> SUFFICES ASSUME Init PROVE OrderInv
  OBVIOUS
<1>1. ZeroPacket.ifsync = 0 /\ ZeroPacket.seqnum = 0
  BY DEF ZeroPacket, Plain
<1>2. \A p \in Uninitialised : p.seqnum = NoRound
  BY DEF Uninitialised, Plain
<1>3. master \in [Slaves -> Nodes]
  BY NtpAssumption DEF Init
<1> QED
  BY <1>1, <1>2, <1>3, RoundsType DEF Init, OrderInv

LEMMA OrderStep == SyncTypes /\ OrderInv /\ [Next]_vars => OrderInv'
<1> SUFFICES ASSUME SyncTypes, OrderInv, [Next]_vars PROVE OrderInv'
  OBVIOUS
<1>1. CASE UNCHANGED vars
  BY <1>1 DEF vars, globals, masterTh, slaveTh, OrderInv
<1> QED
  BY <1>1, Steps, OrderMaster, OrderSlave

THEOREM SyncInvariance == Spec => [](SyncTypes /\ OrderInv)
  BY InitTypes, TypesStep, OrderInit, OrderStep, PTL DEF Spec

(* A slave that was told to stop is below a master that has NO_OF_SYNC     *)
(* samples and is synchronised itself (slave.c:115).                       *)
THEOREM EndsInOrderCorrect == Spec => []EndsInOrder
<1>1. SyncTypes /\ OrderInv => EndsInOrder
  <2> SUFFICES ASSUME SyncTypes, OrderInv, NEW s \in Slaves,
                      spc[s] = "done", srecv[s].seqnum # NoRound
               PROVE  /\ totalsync[master[s]] >= NO_OF_SYNC
                      /\ master[s] # Root => slavesync[master[s]]
    BY DEF EndsInOrder
  <2>1. master[s] \in Nodes /\ totalsync[master[s]] \in Nat
    BY DEF SyncTypes
  <2>2. NO_OF_SYNC <= totalsync[master[s]]
    BY DEF OrderInv
  <2> QED
    BY <2>1, <2>2, NtpAssumption DEF OrderInv
<1> QED
  BY <1>1, SyncInvariance, PTL

-----------------------------------------------------------------------------
(* The assertion of calcnetdelay.                                          *)

AbortInv ==
  /\ \A s \in Slaves :
       mpc[s] = "calc" => mrecv[s].stratum >= 0 /\ (master[s] = Root => mrecv[s].stratum > 0)
  /\ \A n \in Nodes : aborted[n] => n # Root /\ stratum[n] >= 0

LEMMA AbortMaster ==
  ASSUME SyncTypes, AbortInv, master' = master, NEW s \in Slaves, MasterDoes(s)
  PROVE  AbortInv'
<1> DEFINE m == master[s]
<1>1. m \in Nodes /\ mrecv[s].stratum \in Strata /\ stratum[m] \in Strata
  BY DEF SyncTypes, Pkt
<1>2. CASE MasterEnds(s) \/ MasterFills(s) \/ NoReply(s)
  BY <1>2 DEF MasterEnds, MasterFills, NoReply, NextRound, globals, AbortInv, SyncTypes
<1>3. CASE MasterSends(s)
  <2>1. /\ mpc' = [mpc EXCEPT ![s] = "poll"]
        /\ \A t \in Slaves \ {s} : mrecv'[t] = mrecv[t]
        /\ UNCHANGED <<stratum, aborted>>
    BY <1>3 DEF MasterSends, SyncTypes
  <2> QED
    BY <2>1 DEF AbortInv, SyncTypes
<1>4. CASE Reply(s)
  BY <1>4 DEF Reply, globals, AbortInv, SyncTypes
<1>5. CASE CheckReply(s)
  <2>1. CASE Counts(m, mrecv[s])
    <3>1. mrecv[s].stratum >= 0 /\ (m = Root => mrecv[s].stratum > 0)
      BY <1>1, <2>1 DEF Counts, Strata, SyncTypes
    <3> QED
      BY <1>5, <2>1, <3>1 DEF CheckReply, AbortInv, SyncTypes
  <2>2. CASE ~Counts(m, mrecv[s])
    BY <1>5, <2>2 DEF CheckReply, NextRound, AbortInv, SyncTypes
  <2> QED
    BY <2>1, <2>2
<1>6. CASE CalcDelay(s)
  BY <1>6 DEF CalcDelay, NextRound, AbortInv, SyncTypes
<1>7. CASE AssertFails(s)
  <2>1. m # Root /\ stratum[m] >= 0
    BY <1>1, <1>7 DEF AssertFails, AbortInv, SyncTypes, Strata
  <2> QED
    BY <1>1, <1>7, <2>1 DEF AssertFails, masterTh, AbortInv, SyncTypes
<1> QED
  BY <1>2, <1>3, <1>4, <1>5, <1>6, <1>7 DEF MasterDoes

LEMMA AbortSlave ==
  ASSUME SyncTypes, AbortInv, master' = master, NEW s \in Slaves,
         (~aborted[s] /\ (SlaveEnds(s) \/ SlaveReceives(s) \/ SlaveAnswers(s))) \/ LosePacket(s)
  PROVE  AbortInv'
<1>1. CASE SlaveEnds(s) \/ SlaveReceives(s) \/ LosePacket(s)
  BY <1>1 DEF SlaveEnds, SlaveReceives, LosePacket, globals, masterTh, AbortInv
<1>2. CASE ~aborted[s] /\ SlaveAnswers(s)
  BY <1>2 DEF SlaveAnswers, masterTh, AbortInv, SyncTypes
<1> QED
  BY <1>1, <1>2

LEMMA AbortInit == Init => AbortInv
  BY DEF Init, AbortInv

LEMMA AbortStep == SyncTypes /\ AbortInv /\ [Next]_vars => AbortInv'
<1> SUFFICES ASSUME SyncTypes, AbortInv, [Next]_vars PROVE AbortInv'
  OBVIOUS
<1>1. CASE UNCHANGED vars
  BY <1>1 DEF vars, globals, masterTh, AbortInv
<1> QED
  BY <1>1, Steps, AbortMaster, AbortSlave

(* The assertion of calcnetdelay fails in no tree at the root, and at no   *)
(* node that has no stratum of its own (ntpapis.c:441).                    *)
THEOREM AbortCorrect == Spec => []OnlyIntermediateAborts
<1>1. AbortInv => OnlyIntermediateAborts
  BY DEF AbortInv, OnlyIntermediateAborts
<1> QED
  BY <1>1, SyncInvariance, AbortInit, AbortStep, PTL DEF Spec

-----------------------------------------------------------------------------
(* A master of one slave sends what it has measured in its next round.     *)

LEMMA AloneOnly ==
  ASSUME NEW s \in Slaves, NEW t \in Slaves, Alone(master[s]), master[t] = master[s]
  PROVE  t = s
<1>1. IsFiniteSet(LinksOf(master[s]))
  BY NtpAssumption, FS_Subset DEF LinksOf
<1>2. PICK x : LinksOf(master[s]) = {x}
  BY <1>1, FS_Singleton DEF Alone
<1> QED
  BY <1>2 DEF LinksOf

LEMMA AloneSome ==
  ASSUME NEW n, Alone(n)
  PROVE  \E s \in Slaves : master[s] = n
<1>1. IsFiniteSet(LinksOf(n))
  BY NtpAssumption, FS_Subset DEF LinksOf
<1>2. PICK x : LinksOf(n) = {x}
  BY <1>1, FS_Singleton DEF Alone
<1> QED
  BY <1>2 DEF LinksOf

FreshInv ==
  \A s \in Slaves :
    /\ send_pkt[s].setclock = FALSE
    /\ Alone(master[s]) =>
         /\ synced[master[s]] => mpc[s] \in {"top", "send", "calc", "done"}
         /\ synced[master[s]] /\ mpc[s] # "calc" /\ mrecv[s].setclock
              => seqnum[s] = mrecv[s].mastertime + 1
         /\ \A p \in down[s] : p.setclock => p.seqnum = p.mastertime + 1

LEMMA FreshMaster ==
  ASSUME SyncTypes, FreshInv, master' = master, NEW s \in Slaves, MasterDoes(s)
  PROVE  FreshInv'
<1> DEFINE m == master[s]
<1>1. m \in Nodes /\ master \in [Slaves -> Nodes]
  BY DEF SyncTypes
<1>2. \A n : Alone(n)' <=> Alone(n)
  BY DEF Alone, LinksOf
<1>3. \A t \in Slaves : Alone(master[t]) /\ master[t] = m => t = s
  BY AloneOnly
<1> USE DEF SyncTypes, FreshInv
<1>4. CASE MasterEnds(s)
  BY <1>2, <1>4 DEF MasterEnds, globals, slaveTh
<1>5. CASE MasterFills(s)
  <2>1. Plain(seqnum[s], stratum[m], totalsync[m]).setclock = FALSE
    BY DEF Plain
  <2> QED
    BY <1>2, <1>5, <2>1 DEF MasterFills, globals, slaveTh
<1>6. CASE MasterSends(s)
  <2> DEFINE p == IF synced[m] THEN [mrecv[s] EXCEPT !.seqnum = seqnum[s]] ELSE send_pkt[s]
  <2>1. Alone(m) /\ p.setclock => p.seqnum = p.mastertime + 1
    BY <1>1, <1>6, WithSeqnum DEF MasterSends
  <2>2. /\ mpc' = [mpc EXCEPT ![s] = "poll"]
        /\ synced' = [synced EXCEPT ![m] = FALSE]
        /\ \A t \in Slaves \ {s} : mrecv'[t] = mrecv[t]
        /\ down' = [down EXCEPT ![s] = Sent(@, p)]
        /\ UNCHANGED <<seqnum, send_pkt>>
    BY <1>6 DEF MasterSends
  <2> HIDE DEF p
  <2>3. Alone(m) => \A r \in Sent(down[s], p) : r.setclock => r.seqnum = r.mastertime + 1
    BY <2>1, SentPacket
  <2>4. ~synced'[m]
    BY <1>1, <2>2
  <2>5. \A n \in Nodes : n # m => synced'[n] = synced[n]
    BY <2>2
  <2> QED
    BY <1>1, <1>2, <1>3, <2>2, <2>3, <2>4, <2>5
<1>7. CASE NoReply(s)
  BY <1>2, <1>7 DEF NoReply, NextRound, globals, slaveTh
<1>8. CASE Reply(s)
  BY <1>2, <1>8 DEF Reply, globals, slaveTh
<1>9. CASE CheckReply(s)
  <2>1. CASE Counts(m, mrecv[s])
    <3>1. /\ mpc' = [mpc EXCEPT ![s] = "calc"]
          /\ synced' = [synced EXCEPT ![m] = TRUE]
          /\ UNCHANGED <<seqnum, send_pkt, mrecv, down>>
      BY <1>9, <2>1 DEF CheckReply
    <3> QED
      BY <1>1, <1>2, <1>3, <3>1
  <2>2. CASE ~Counts(m, mrecv[s])
    BY <1>2, <1>9, <2>2 DEF CheckReply, NextRound
  <2> QED
    BY <2>1, <2>2
<1>10. CASE CalcDelay(s)
  <2>1. Full(s, stratum[m]).mastertime = seqnum[s]
    BY <1>1, FullType
  <2>2. /\ mpc' = [mpc EXCEPT ![s] = "top"]
        /\ mrecv' = [mrecv EXCEPT ![s] = Full(s, stratum[m])]
        /\ seqnum' = [seqnum EXCEPT ![s] = @ + 1]
        /\ UNCHANGED <<synced, send_pkt, down>>
    BY <1>10 DEF CalcDelay, NextRound
  <2>3. mrecv'[s].mastertime = seqnum[s] /\ seqnum'[s] = seqnum[s] + 1
    BY <2>1, <2>2
  <2> QED
    BY <1>2, <2>2, <2>3
<1>11. CASE AssertFails(s)
  BY <1>2, <1>11 DEF AssertFails, masterTh, slaveTh
<1> QED
  BY <1>4, <1>5, <1>6, <1>7, <1>8, <1>9, <1>10, <1>11 DEF MasterDoes

LEMMA FreshSlave ==
  ASSUME SyncTypes, FreshInv, master' = master, NEW s \in Slaves,
         SlaveEnds(s) \/ SlaveReceives(s) \/ SlaveAnswers(s) \/ LosePacket(s)
  PROVE  FreshInv'
<1>1. \A n : Alone(n)' <=> Alone(n)
  BY DEF Alone, LinksOf
<1>2. /\ UNCHANGED <<synced, mpc, seqnum, send_pkt, mrecv>>
      /\ \A t \in Slaves : down'[t] \subseteq down[t]
  BY DEF SlaveEnds, SlaveReceives, SlaveAnswers, LosePacket, globals, masterTh, SyncTypes
<1> QED
  BY <1>1, <1>2 DEF FreshInv

LEMMA FreshInit == Init => FreshInv
  BY DEF Init, FreshInv, ZeroPacket, Plain

LEMMA FreshStep == SyncTypes /\ FreshInv /\ [Next]_vars => FreshInv'
<1> SUFFICES ASSUME SyncTypes, FreshInv, [Next]_vars PROVE FreshInv'
  OBVIOUS
<1>1. CASE UNCHANGED vars
  BY <1>1 DEF vars, globals, masterTh, FreshInv, Alone, LinksOf
<1> QED
  BY <1>1, Steps, FreshMaster, FreshSlave

(* A packet that sets a clock leaves in the round after its mastertime     *)
(* (ntpapis.c:519).                                                        *)
THEOREM SampleFreshCorrect == Spec => []SampleFresh
<1>1. FreshInv => SampleFresh
  BY DEF FreshInv, SampleFresh
<1> QED
  BY <1>1, SyncInvariance, FreshInit, FreshStep, PTL DEF Spec

-----------------------------------------------------------------------------
(* Right below the root every packet down has stratum 0, so that a master  *)
(* on the second level gets its stratum once, and for good.                *)

RootLinkInv ==
  \A s \in Slaves : master[s] = Root =>
    /\ stratum[s] \in {-1, 1}
    /\ send_pkt[s].stratum = 0
    /\ \A p \in down[s] : p.stratum = 0
    /\ spc[s] = "got" => srecv[s].stratum = 0
    /\ \A p \in up[s] : p.stratum \in {0, 1} /\ (p.setclock => p.stratum = 0)
    /\ mpc[s] \notin {"check", "calc"} => mrecv[s].stratum = 0
    /\ mpc[s] = "check" => mrecv[s].stratum \in {0, 1}

LEMMA RootLinkMaster ==
  ASSUME SyncTypes, RootLinkInv, master' = master, NEW s \in Slaves, MasterDoes(s)
  PROVE  RootLinkInv'
<1> DEFINE m == master[s]
<1>1. m \in Nodes /\ master \in [Slaves -> Nodes]
  BY DEF SyncTypes
<1> USE DEF SyncTypes, RootLinkInv
<1>2. CASE MasterEnds(s) \/ NoReply(s)
  BY <1>2 DEF MasterEnds, NoReply, NextRound, globals, slaveTh
<1>3. CASE MasterFills(s)
  <2>1. m = Root => Plain(seqnum[s], stratum[m], totalsync[m]).stratum = 0
    BY DEF Plain
  <2> QED
    BY <1>3, <2>1 DEF MasterFills, globals, slaveTh
<1>4. CASE MasterSends(s)
  <2> DEFINE p == IF synced[m] THEN [mrecv[s] EXCEPT !.seqnum = seqnum[s]] ELSE send_pkt[s]
  <2>1. mpc[s] = "send" /\ (m = Root => p.stratum = 0)
    BY <1>4, WithSeqnum DEF MasterSends
  <2>2. /\ mpc' = [mpc EXCEPT ![s] = "poll"]
        /\ mrecv' = IF synced[m] THEN [mrecv EXCEPT ![s] = p] ELSE mrecv
        /\ down' = [down EXCEPT ![s] = Sent(@, p)]
        /\ UNCHANGED <<stratum, send_pkt, spc, srecv, up>>
    BY <1>4 DEF MasterSends, slaveTh
  <2> HIDE DEF p
  <2>3. m = Root => \A r \in Sent(down[s], p) : r.stratum = 0
    BY <2>1, SentPacket
  <2> QED
    BY <2>1, <2>2, <2>3
<1>5. CASE Reply(s)
  BY <1>5 DEF Reply, globals, slaveTh
<1>6. CASE CheckReply(s)
  <2>1. CASE Counts(m, mrecv[s])
    BY <1>6, <2>1 DEF CheckReply, slaveTh
  <2>2. CASE ~Counts(m, mrecv[s])
    <3>1. mpc[s] = "check"
      BY <1>6 DEF CheckReply
    <3>2. m = Root => mrecv[s].stratum = 0
      BY <2>2, <3>1 DEF Counts
    <3>3. mpc' = [mpc EXCEPT ![s] = "top"]
          /\ UNCHANGED <<stratum, send_pkt, mrecv, spc, srecv, down, up>>
      BY <1>6, <2>2 DEF CheckReply, NextRound, slaveTh
    <3> QED
      BY <3>2, <3>3
  <2> QED
    BY <2>1, <2>2
<1>7. CASE CalcDelay(s)
  <2>1. Full(s, stratum[m]).stratum = stratum[m]
    BY <1>1, FullType
  <2>2. /\ mpc' = [mpc EXCEPT ![s] = "top"]
        /\ mrecv' = [mrecv EXCEPT ![s] = Full(s, stratum[m])]
        /\ UNCHANGED <<stratum, send_pkt, spc, srecv, down, up>>
    BY <1>7 DEF CalcDelay, NextRound, slaveTh
  <2> QED
    BY <2>1, <2>2
<1>8. CASE AssertFails(s)
  BY <1>8 DEF AssertFails, masterTh, slaveTh
<1> QED
  BY <1>2, <1>3, <1>4, <1>5, <1>6, <1>7, <1>8 DEF MasterDoes

LEMMA RootLinkSlave ==
  ASSUME SyncTypes, RootLinkInv, master' = master, NEW s \in Slaves,
         SlaveEnds(s) \/ SlaveReceives(s) \/ SlaveAnswers(s) \/ LosePacket(s)
  PROVE  RootLinkInv'
<1> USE DEF SyncTypes, RootLinkInv
<1>1. CASE SlaveEnds(s) \/ SlaveReceives(s)
  BY <1>1 DEF SlaveEnds, SlaveReceives, globals, masterTh
<1>2. CASE SlaveAnswers(s)
  <2> DEFINE a == AnswerTo(srecv[s])
  <2>1. spc[s] = "got" /\ spc' = [spc EXCEPT ![s] = "loop"]
        /\ stratum' = [stratum EXCEPT ![s] = srecv[s].stratum + 1]
        /\ up' = [up EXCEPT ![s] = Sent(@, a)]
        /\ UNCHANGED <<mpc, send_pkt, mrecv, srecv, down>>
    BY <1>2 DEF SlaveAnswers, masterTh
  <2>2. master[s] = Root => a.stratum \in {0, 1} /\ (a.setclock => a.stratum = 0)
    BY <2>1, AnswerType
  <2> HIDE DEF a
  <2>3. master[s] = Root => \A r \in Sent(up[s], a) : r.stratum \in {0, 1} /\ (r.setclock => r.stratum = 0)
    BY <2>2, SentPacket
  <2>4. master[s] = Root => stratum'[s] = 1
    BY <2>1 DEF Nodes
  <2> QED
    BY <2>1, <2>3, <2>4
<1>3. CASE LosePacket(s)
  BY <1>3 DEF LosePacket, globals, masterTh, slaveTh
<1> QED
  BY <1>1, <1>2, <1>3

LEMMA RootLinkInit == Init => RootLinkInv
<1> SUFFICES ASSUME Init PROVE RootLinkInv
  OBVIOUS
<1>1. ZeroPacket.stratum = 0
  BY DEF ZeroPacket, Plain
<1>2. \A s \in Slaves : stratum[s] = -1
  BY NtpAssumption DEF Init, Nodes
<1> QED
  BY <1>1, <1>2 DEF Init, RootLinkInv

LEMMA RootLinkStep == SyncTypes /\ RootLinkInv /\ [Next]_vars => RootLinkInv'
<1> SUFFICES ASSUME SyncTypes, RootLinkInv, [Next]_vars PROVE RootLinkInv'
  OBVIOUS
<1>1. CASE UNCHANGED vars
  BY <1>1 DEF vars, globals, masterTh, slaveTh, RootLinkInv
<1> QED
  BY <1>1, Steps, RootLinkMaster, RootLinkSlave

(* The stratum of a master on the first two levels does not fall.          *)
LEMMA NearRises ==
  ASSUME SyncTypes, RootLinkInv, [Next]_vars, NEW t \in Slaves, Near(t)
  PROVE  stratum[master[t]] <= stratum'[master[t]]
<1> DEFINE n == master[t]
<1>1. n \in Nodes /\ stratum[n] \in Int /\ stratum[n] <= stratum[n]
  BY DEF SyncTypes, Strata
<1>2. CASE \A s \in Slaves : ~SlaveAnswers(s)
  <2>1. stratum' = stratum
    BY <1>2, Steps DEF vars, MasterDoes, globals, MasterEnds, MasterFills, MasterSends, NoReply, Reply,
       CheckReply, CalcDelay, AssertFails, SlaveEnds, SlaveReceives, LosePacket
  <2> QED
    BY <1>1, <2>1
<1>3. ASSUME NEW s \in Slaves, SlaveAnswers(s)
      PROVE  stratum[n] <= stratum'[n]
  <2>1. spc[s] = "got" /\ stratum' = [stratum EXCEPT ![s] = srecv[s].stratum + 1]
    BY <1>3 DEF SlaveAnswers
  <2>2. CASE n = s
    <3>1. master[s] = Root
      BY <2>2, NtpAssumption DEF Near
    <3> QED
      BY <1>1, <2>1, <2>2, <3>1 DEF RootLinkInv, SyncTypes
  <2>3. CASE n # s
    BY <1>1, <2>1, <2>3 DEF SyncTypes
  <2> QED
    BY <2>2, <2>3
<1> QED
  BY <1>2, <1>3

(* A packet that sets a clock has at most the stratum its master has now.  *)
Low(p, st) == p.setclock => p.stratum <= st

NearInv ==
  \A s \in Slaves : Near(s) =>
    /\ \A p \in down[s] \cup up[s] : Low(p, stratum[master[s]])
    /\ spc[s] = "got" => Low(srecv[s], stratum[master[s]])
    /\ mpc[s] # "calc" => Low(mrecv[s], stratum[master[s]])
    /\ mpc[s] = "calc" => ~mrecv[s].setclock

LEMMA LowRises ==
  ASSUME NEW p \in Pkt, NEW a \in Strata, NEW b \in Strata, a <= b, Low(p, a)
  PROVE  Low(p, b)
  BY DEF Low, Pkt, Strata

LEMMA NearMaster ==
  ASSUME SyncTypes, FreshInv, NearInv, master' = master, NEW s \in Slaves, MasterDoes(s)
  PROVE  NearInv'
<1> DEFINE m == master[s]
<1>1. m \in Nodes /\ stratum[m] \in Strata /\ mrecv[s] \in Pkt
  BY DEF SyncTypes
<1>2. \A t : Near(t)' <=> Near(t)
  BY DEF Near
<1> USE DEF SyncTypes, NearInv
<1>3. CASE MasterEnds(s) \/ NoReply(s)
  BY <1>2, <1>3 DEF MasterEnds, NoReply, NextRound, globals, slaveTh
<1>4. CASE MasterFills(s)
  BY <1>2, <1>4 DEF MasterFills, globals, slaveTh
<1>5. CASE MasterSends(s)
  <2> DEFINE p == IF synced[m] THEN [mrecv[s] EXCEPT !.seqnum = seqnum[s]] ELSE send_pkt[s]
  <2>1. mpc[s] = "send" /\ (Near(s) => Low(p, stratum[m]))
    BY <1>1, <1>5, WithSeqnum DEF MasterSends, FreshInv, Low
  <2>2. /\ mpc' = [mpc EXCEPT ![s] = "poll"]
        /\ mrecv' = IF synced[m] THEN [mrecv EXCEPT ![s] = p] ELSE mrecv
        /\ down' = [down EXCEPT ![s] = Sent(@, p)]
        /\ UNCHANGED <<stratum, spc, srecv, up>>
    BY <1>5 DEF MasterSends, slaveTh
  <2> HIDE DEF p
  <2>3. Near(s) => \A r \in Sent(down[s], p) : Low(r, stratum[m])
    BY <2>1, SentPacket
  <2> QED
    BY <1>2, <2>1, <2>2, <2>3
<1>6. CASE Reply(s)
  BY <1>2, <1>6 DEF Reply, globals, slaveTh
<1>7. CASE CheckReply(s)
  <2>1. CASE Counts(m, mrecv[s])
    <3>1. /\ mpc[s] = "check" /\ mpc' = [mpc EXCEPT ![s] = "calc"]
          /\ UNCHANGED <<stratum, mrecv, spc, srecv, down, up>>
      BY <1>7, <2>1 DEF CheckReply, slaveTh
    <3>2. mrecv[s].stratum \in Int /\ stratum[m] \in Int /\ mrecv[s].stratum > stratum[m]
      BY <1>1, <2>1 DEF Counts, Pkt, Strata
    <3>3. Near(s) => ~mrecv[s].setclock
      BY <3>1, <3>2 DEF Low
    <3> QED
      BY <1>2, <3>1, <3>3
  <2>2. CASE ~Counts(m, mrecv[s])
    BY <1>2, <1>7, <2>2 DEF CheckReply, NextRound, slaveTh
  <2> QED
    BY <2>1, <2>2
<1>8. CASE CalcDelay(s)
  <2>1. Full(s, stratum[m]).stratum = stratum[m]
    BY <1>1, FullType
  <2>2. /\ mpc' = [mpc EXCEPT ![s] = "top"]
        /\ mrecv' = [mrecv EXCEPT ![s] = Full(s, stratum[m])]
        /\ UNCHANGED <<stratum, spc, srecv, down, up>>
    BY <1>8 DEF CalcDelay, NextRound, slaveTh
  <2>3. Low(mrecv'[s], stratum[m])
    BY <1>1, <2>1, <2>2 DEF Low, Strata
  <2> QED
    BY <1>2, <2>2, <2>3
<1>9. CASE AssertFails(s)
  BY <1>2, <1>9 DEF AssertFails, masterTh, slaveTh
<1> QED
  BY <1>3, <1>4, <1>5, <1>6, <1>7, <1>8, <1>9 DEF MasterDoes

LEMMA NearSlave ==
  ASSUME SyncTypes, SyncTypes', NearInv, master' = master, NEW s \in Slaves,
         SlaveEnds(s) \/ SlaveReceives(s) \/ SlaveAnswers(s) \/ LosePacket(s),
         \A t \in Slaves : Near(t) => stratum[master[t]] <= stratum'[master[t]]
  PROVE  NearInv'
<1>1. \A t : Near(t)' <=> Near(t)
  BY DEF Near
<1>2. CASE SlaveEnds(s) \/ SlaveReceives(s) \/ LosePacket(s)
  BY <1>1, <1>2 DEF SlaveEnds, SlaveReceives, LosePacket, globals, masterTh, slaveTh, NearInv, SyncTypes
<1>3. CASE SlaveAnswers(s)
  <2> DEFINE a == AnswerTo(srecv[s])
  <2>1. /\ spc[s] = "got" /\ spc' = [spc EXCEPT ![s] = "loop"]
        /\ up' = [up EXCEPT ![s] = Sent(@, a)]
        /\ UNCHANGED <<mpc, mrecv, srecv, down>>
    BY <1>3 DEF SlaveAnswers, masterTh
  <2>2. Near(s) => Low(a, stratum[master[s]])
    BY <2>1, AnswerType DEF SyncTypes, NearInv, Low
  <2> HIDE DEF a
  <2> SUFFICES ASSUME NEW t \in Slaves, Near(t)
               PROVE  /\ \A p \in down'[t] \cup up'[t] : Low(p, stratum'[master[t]])
                      /\ spc'[t] = "got" => Low(srecv'[t], stratum'[master[t]])
                      /\ mpc'[t] # "calc" => Low(mrecv'[t], stratum'[master[t]])
                      /\ mpc'[t] = "calc" => ~mrecv'[t].setclock
    BY <1>1 DEF NearInv
  <2>3. /\ stratum[master[t]] \in Strata /\ stratum'[master[t]] \in Strata
        /\ down'[t] \subseteq Pkt /\ up'[t] \subseteq Pkt /\ srecv'[t] \in Pkt /\ mrecv'[t] \in Pkt
    BY DEF SyncTypes
  <2>4. \A p \in down'[t] \cup up'[t] : Low(p, stratum[master[t]])
    BY <2>1, <2>2, SentPacket DEF NearInv, SyncTypes
  <2>5. \A p \in down'[t] \cup up'[t] : Low(p, stratum'[master[t]])
    BY <2>3, <2>4, LowRises
  <2>6. spc'[t] = "got" => Low(srecv'[t], stratum'[master[t]])
    BY <2>1, <2>3, LowRises DEF NearInv, SyncTypes
  <2>7. mpc'[t] # "calc" => Low(mrecv'[t], stratum'[master[t]])
    BY <2>1, <2>3, LowRises DEF NearInv
  <2>8. mpc'[t] = "calc" => ~mrecv'[t].setclock
    BY <2>1 DEF NearInv
  <2> QED
    BY <2>5, <2>6, <2>7, <2>8
<1> QED
  BY <1>2, <1>3

LEMMA NearInit == Init => NearInv
  BY DEF Init, NearInv, Low, ZeroPacket, Plain

LEMMA NearStep ==
  SyncTypes /\ FreshInv /\ RootLinkInv /\ NearInv /\ [Next]_vars => NearInv'
<1> SUFFICES ASSUME SyncTypes, FreshInv, RootLinkInv, NearInv, [Next]_vars PROVE NearInv'
  OBVIOUS
<1>1. CASE UNCHANGED vars
  BY <1>1 DEF vars, globals, masterTh, slaveTh, NearInv, Near
<1>2. SyncTypes'
  BY TypesStep
<1>3. \A t \in Slaves : Near(t) => stratum[master[t]] <= stratum'[master[t]]
  BY NearRises
<1> QED
  BY <1>1, <1>2, <1>3, Steps, NearMaster, NearSlave

LEMMA NearInvariance == Spec => [](SyncTypes /\ OrderInv /\ FreshInv /\ RootLinkInv /\ NearInv)
  BY SyncInvariance, FreshInit, FreshStep, RootLinkInit, RootLinkStep, NearInit, NearStep, PTL DEF Spec

(* What a slave sends back of a packet that set its clock is not taken for *)
(* a reply (slave.c:51, 105), by the masters of the first two levels.      *)
THEOREM EchoCorrect == Spec => []EchoNeverCounted
<1>1. NearInv => EchoNeverCounted
  BY DEF NearInv, EchoNeverCounted
<1> QED
  BY <1>1, NearInvariance, PTL

-----------------------------------------------------------------------------
(* What is never made good.                                                *)

LEMMA SamplesGrow ==
  ASSUME SyncTypes, [Next]_vars, NEW n \in Nodes
  PROVE  totalsync[n] <= totalsync'[n]
<1>1. totalsync \in [Nodes -> Nat]
  BY DEF SyncTypes
<1>2. CASE \A s \in Slaves : ~CalcDelay(s)
  <2>1. totalsync' = totalsync
    BY <1>2, Steps DEF vars, MasterDoes, globals, MasterEnds, MasterFills, MasterSends, NoReply, Reply,
       CheckReply, AssertFails, SlaveEnds, SlaveReceives, SlaveAnswers, LosePacket
  <2> QED
    BY <1>1, <2>1
<1>3. ASSUME NEW s \in Slaves, CalcDelay(s)
      PROVE  totalsync[n] <= totalsync'[n]
  BY <1>1, <1>3 DEF CalcDelay, Counted
<1> QED
  BY <1>2, <1>3

LEMMA OnlyOwnEnd ==
  ASSUME SyncTypes, [Next]_vars, NEW s \in Slaves, mpc[s] # "done", mpc'[s] = "done"
  PROVE  totalsync[master[s]] = NO_OF_SYNC + 1
<1>1. mpc \in [Slaves -> {"top", "send", "poll", "check", "calc", "done"}]
  BY DEF SyncTypes
<1>2. mpc' # mpc
  OBVIOUS
<1>3. PICK t \in Slaves : MasterDoes(t)
  BY <1>2, Steps DEF vars, masterTh, SlaveEnds, SlaveReceives, SlaveAnswers, LosePacket
<1>4. CASE MasterEnds(t)
  BY <1>1, <1>4 DEF MasterEnds, LoopEnds
<1>5. CASE ~MasterEnds(t)
  <2>1. \E v \in {"top", "send", "poll", "check", "calc"} : mpc' = [mpc EXCEPT ![t] = v] \/ mpc' = mpc
    BY <1>3, <1>5 DEF MasterDoes, MasterFills, MasterSends, NoReply, Reply, CheckReply, CalcDelay,
       AssertFails, NextRound, masterTh
  <2> QED
    BY <1>1, <2>1
<1> QED
  BY <1>4, <1>5

(* Two threads that count past the end of the loop leave all threads of    *)
(* their node that still run without one (master.c:28).                    *)
THEOREM OvershootCorrect == Spec => OvershootIsFatal
<1>1. SyncTypes /\ [Next]_vars =>
        [\A s \in Slaves :
           /\ totalsync[master[s]] > NO_OF_SYNC + 1
           /\ mpc[s] # "done"
           => totalsync'[master[s]] > NO_OF_SYNC + 1 /\ mpc'[s] # "done"]_vars
  <2> SUFFICES ASSUME SyncTypes, [Next]_vars, NEW s \in Slaves,
                      totalsync[master[s]] > NO_OF_SYNC + 1, mpc[s] # "done"
               PROVE  totalsync'[master[s]] > NO_OF_SYNC + 1 /\ mpc'[s] # "done"
    OBVIOUS
  <2>1. master[s] \in Nodes /\ totalsync[master[s]] \in Nat /\ totalsync'[master[s]] \in Nat
    BY TypesStep, Steps DEF SyncTypes
  <2>2. totalsync[master[s]] <= totalsync'[master[s]]
    BY <2>1, SamplesGrow
  <2>3. NO_OF_SYNC + 1 \in Nat
    BY NtpAssumption
  <2> QED
    BY <2>1, <2>2, <2>3, OnlyOwnEnd
<1> QED
  BY <1>1, SyncInvariance, PTL DEF Spec, OvershootIsFatal

LEMMA AloneMaster ==
  ASSUME SyncTypes, master' = master, NEW s \in Slaves, LeftAlone(s), NEW t \in Slaves, MasterDoes(t)
  PROVE  LeftAlone(s)'
<1> DEFINE m == master[s]
<1>1. /\ m \in Nodes /\ totalsync[m] \in Nat /\ NO_OF_SYNC + 1 \in Nat /\ NO_OF_SYNC \in Nat
      /\ mpc \in [Slaves -> {"top", "send", "poll", "check", "calc", "done"}]
      /\ mrecv \in [Slaves -> Pkt] /\ up \in [Slaves -> SUBSET Pkt] /\ totalsync \in [Nodes -> Nat]
  BY NtpAssumption DEF SyncTypes
<1>2. /\ Alone(m) /\ Near(s) /\ spc[s] = "done" /\ totalsync[m] <= NO_OF_SYNC /\ mpc[s] # "done"
      /\ ~ReplyUnderWay(s)
  BY DEF LeftAlone
<1>3. Alone(m)' /\ Near(s)'
  BY <1>2 DEF Alone, Near, LinksOf
<1>4. stratum' = stratum /\ spc' = spc
  BY DEF MasterDoes, globals, slaveTh, MasterEnds, MasterFills, MasterSends, NoReply, Reply,
     CheckReply, CalcDelay, AssertFails
<1>5. CASE t # s
  <2>1. master[t] # m
    BY <1>2, <1>5, AloneOnly
  <2>2. totalsync'[m] = totalsync[m] /\ mpc'[s] = mpc[s] /\ mrecv'[s] = mrecv[s] /\ up'[s] = up[s]
    BY <1>1, <1>5, <2>1 DEF MasterDoes, globals, MasterEnds, MasterFills, MasterSends, NoReply, Reply,
       CheckReply, CalcDelay, AssertFails, NextRound, masterTh
  <2> QED
    BY <1>2, <1>3, <1>4, <2>2 DEF LeftAlone, ReplyUnderWay, Counts
<1>6. CASE t = s
  <2>1. ~MasterEnds(s)
    BY <1>1, <1>2 DEF MasterEnds, LoopEnds
  <2>2. ~CalcDelay(s) /\ ~AssertFails(s)
    BY <1>2 DEF CalcDelay, AssertFails, ReplyUnderWay
  <2>3. CASE MasterFills(s) \/ MasterSends(s) \/ NoReply(s)
    <3>1. up' = up /\ totalsync' = totalsync /\ mpc'[s] \in {"send", "poll", "top"}
      BY <1>1, <2>3 DEF MasterFills, MasterSends, NoReply, NextRound, globals
    <3> QED
      BY <1>2, <1>3, <1>4, <3>1 DEF LeftAlone, ReplyUnderWay, Counts
  <2>4. CASE Reply(s)
    <3>1. PICK p \in up[s] : up' = [up EXCEPT ![s] = @ \ {p}] /\ mrecv' = [mrecv EXCEPT ![s] = p]
      BY <2>4 DEF Reply
    <3>2. mrecv'[s] = p /\ up'[s] \subseteq up[s] /\ mpc'[s] = "check" /\ totalsync' = totalsync
      BY <1>1, <2>4, <3>1 DEF Reply, globals
    <3> QED
      BY <1>2, <1>3, <1>4, <3>2 DEF LeftAlone, ReplyUnderWay, Counts
  <2>5. CASE CheckReply(s)
    <3>1. mpc[s] = "check" /\ ~Counts(m, mrecv[s])
      BY <1>2, <2>5 DEF CheckReply, ReplyUnderWay
    <3>2. up' = up /\ totalsync' = totalsync /\ mpc'[s] = "top"
      BY <1>1, <2>5, <3>1 DEF CheckReply, NextRound
    <3> QED
      BY <1>2, <1>3, <1>4, <3>2 DEF LeftAlone, ReplyUnderWay, Counts
  <2> QED
    BY <1>6, <2>1, <2>2, <2>3, <2>4, <2>5 DEF MasterDoes
<1> QED
  BY <1>5, <1>6

LEMMA AloneSlave ==
  ASSUME SyncTypes, RootLinkInv, [Next]_vars, master' = master,
         NEW s \in Slaves, LeftAlone(s), NEW t \in Slaves,
         SlaveEnds(t) \/ SlaveReceives(t) \/ SlaveAnswers(t) \/ LosePacket(t)
  PROVE  LeftAlone(s)'
<1> DEFINE m == master[s]
<1>1. /\ Alone(m) /\ Near(s) /\ spc[s] = "done" /\ totalsync[m] <= NO_OF_SYNC /\ mpc[s] # "done"
      /\ ~ReplyUnderWay(s)
  BY DEF LeftAlone
<1>2. Alone(m)' /\ Near(s)'
  BY <1>1 DEF Alone, Near, LinksOf
<1>3. totalsync' = totalsync /\ mpc' = mpc /\ mrecv' = mrecv
  BY DEF globals, masterTh, SlaveEnds, SlaveReceives, SlaveAnswers, LosePacket
<1>4. spc'[s] = "done" /\ up'[s] \subseteq up[s]
  <2>1. spc \in [Slaves -> {"loop", "got", "done"}] /\ up \in [Slaves -> SUBSET Pkt]
    BY DEF SyncTypes
  <2>2. CASE LosePacket(t)
    BY <1>1, <2>1, <2>2 DEF LosePacket, slaveTh
  <2>3. CASE ~LosePacket(t)
    <3>1. spc[t] # "done" /\ t # s
      BY <1>1, <2>3 DEF SlaveEnds, SlaveReceives, SlaveAnswers
    <3> QED
      BY <1>1, <2>1, <2>3, <3>1 DEF SlaveEnds, SlaveReceives, SlaveAnswers
  <2> QED
    BY <2>2, <2>3
<1>5. stratum[m] \in Int /\ stratum'[m] \in Int /\ stratum[m] <= stratum'[m]
  BY <1>1, NearRises, TypesStep DEF SyncTypes, Strata
<1>6. \A p \in up'[s] : ~(p.stratum > stratum'[m])
  <2> SUFFICES ASSUME NEW p \in up'[s] PROVE ~(p.stratum > stratum'[m])
    OBVIOUS
  <2>1. p \in up[s] /\ p.stratum \in Int
    BY <1>4 DEF SyncTypes, Pkt, Strata
  <2>2. ~(p.stratum > stratum[m])
    BY <1>1, <2>1 DEF ReplyUnderWay, Counts
  <2> QED
    BY <1>5, <2>1, <2>2
<1>7. mpc[s] = "check" => ~(mrecv[s].stratum > stratum'[m])
  <2>1. mrecv[s].stratum \in Int
    BY DEF SyncTypes, Pkt, Strata
  <2>2. mpc[s] = "check" => ~(mrecv[s].stratum > stratum[m])
    BY <1>1 DEF ReplyUnderWay, Counts
  <2> QED
    BY <1>5, <2>1, <2>2
<1> QED
  BY <1>1, <1>2, <1>3, <1>4, <1>6, <1>7 DEF LeftAlone, ReplyUnderWay, Counts

(* A master whose only slave has stopped, and for which no reply is under  *)
(* way, sends for ever (slave.c:30, master.c:28).                          *)
THEOREM LostReplyCorrect == Spec => LostReplyIsFatal
<1>1. SyncTypes /\ RootLinkInv /\ [Next]_vars => [\A s \in Slaves : LeftAlone(s) => LeftAlone(s)']_vars
  <2> SUFFICES ASSUME SyncTypes, RootLinkInv, [Next]_vars, ~UNCHANGED vars,
                      NEW s \in Slaves, LeftAlone(s)
               PROVE  LeftAlone(s)'
    OBVIOUS
  <2> QED
    BY Steps, AloneMaster, AloneSlave
<1> QED
  BY <1>1, NearInvariance, PTL DEF Spec, LostReplyIsFatal

-----------------------------------------------------------------------------
(* The types, with the bounds that come from the tree: no stratum exceeds  *)
(* the depth of its node, nor does a packet's that of the node it is from. *)

DepthInv ==
  \A d \in Depths(master) :
    /\ \A n \in Nodes : stratum[n] <= d[n]
    /\ \A s \in Slaves :
         /\ send_pkt[s].stratum <= d[master[s]]
         /\ \A p \in down[s] : p.stratum <= d[master[s]]
         /\ srecv[s].stratum <= d[master[s]]
         /\ \A p \in up[s] : p.stratum <= d[s]
         /\ mpc[s] \in {"check", "calc"} => mrecv[s].stratum <= d[s]
         /\ mpc[s] \notin {"check", "calc"} => mrecv[s].stratum <= d[master[s]]

LEMMA DepthTypes ==
  ASSUME SyncTypes, NEW d \in Depths(master)
  PROVE  /\ \A n \in Nodes : d[n] \in Nat /\ d[n] <= Cardinality(Slaves)
         /\ d[Root] = 0 /\ \A s \in Slaves : d[s] = d[master[s]] + 1
<1>1. Cardinality(Slaves) \in Nat
  BY NtpAssumption, FS_CardinalityType
<1> QED
  BY <1>1 DEF Depths

LEMMA DepthMaster ==
  ASSUME SyncTypes, DepthInv, master' = master, NEW s \in Slaves, MasterDoes(s)
  PROVE  DepthInv'
<1> SUFFICES ASSUME NEW d \in Depths(master)
             PROVE  /\ \A n \in Nodes : stratum'[n] <= d[n]
                    /\ \A t \in Slaves :
                         /\ send_pkt'[t].stratum <= d[master[t]]
                         /\ \A p \in down'[t] : p.stratum <= d[master[t]]
                         /\ srecv'[t].stratum <= d[master[t]]
                         /\ \A p \in up'[t] : p.stratum <= d[t]
                         /\ mpc'[t] \in {"check", "calc"} => mrecv'[t].stratum <= d[t]
                         /\ mpc'[t] \notin {"check", "calc"} => mrecv'[t].stratum <= d[master[t]]
  BY DEF DepthInv
<1> DEFINE m == master[s]
<1>1. /\ m \in Nodes /\ s \in Nodes /\ stratum[m] \in Int /\ mrecv[s] \in Pkt
      /\ mrecv[s].stratum \in Int /\ d[m] \in Nat /\ d[s] = d[m] + 1
  BY DepthTypes DEF SyncTypes, Nodes, Strata, Pkt
<1>2. /\ \A n \in Nodes : stratum[n] <= d[n]
      /\ \A t \in Slaves :
           /\ send_pkt[t].stratum <= d[master[t]]
           /\ \A p \in down[t] : p.stratum <= d[master[t]]
           /\ srecv[t].stratum <= d[master[t]]
           /\ \A p \in up[t] : p.stratum <= d[t]
           /\ mpc[t] \in {"check", "calc"} => mrecv[t].stratum <= d[t]
           /\ mpc[t] \notin {"check", "calc"} => mrecv[t].stratum <= d[master[t]]
  BY DEF DepthInv
<1>3. CASE MasterEnds(s) \/ NoReply(s)
  BY <1>2, <1>3 DEF MasterEnds, NoReply, NextRound, globals, slaveTh, SyncTypes
<1>4. CASE MasterFills(s)
  <2> DEFINE p == Plain(seqnum[s], stratum[m], totalsync[m])
  <2>1. p.stratum <= d[m]
    BY <1>1, <1>2 DEF Plain
  <2>2. /\ mpc[s] = "top" /\ mpc' = [mpc EXCEPT ![s] = "send"]
        /\ send_pkt' = [send_pkt EXCEPT ![s] = p]
        /\ UNCHANGED <<stratum, mrecv, spc, srecv, down, up>>
    BY <1>4 DEF MasterFills, globals, slaveTh
  <2> HIDE DEF p
  <2> QED
    BY <1>2, <2>1, <2>2 DEF SyncTypes
<1>5. CASE MasterSends(s)
  <2> DEFINE p == IF synced[m] THEN [mrecv[s] EXCEPT !.seqnum = seqnum[s]] ELSE send_pkt[s]
  <2>1. mpc[s] = "send" /\ p.stratum <= d[m]
    <3>1. mpc[s] = "send"
      BY <1>5 DEF MasterSends
    <3>2. mrecv[s].stratum <= d[m] /\ send_pkt[s].stratum <= d[m]
      BY <1>2, <3>1
    <3>3. synced[m] => p.stratum = mrecv[s].stratum
      BY <1>1, WithSeqnum DEF SyncTypes
    <3> QED
      BY <3>1, <3>2, <3>3
  <2>2. /\ mpc' = [mpc EXCEPT ![s] = "poll"]
        /\ mrecv' = IF synced[m] THEN [mrecv EXCEPT ![s] = p] ELSE mrecv
        /\ down' = [down EXCEPT ![s] = Sent(@, p)]
        /\ UNCHANGED <<stratum, send_pkt, spc, srecv, up>>
    BY <1>5 DEF MasterSends, slaveTh
  <2> HIDE DEF p
  <2>3. \A r \in Sent(down[s], p) : r.stratum <= d[m]
    BY <1>2, <2>1, SentPacket
  <2> QED
    BY <1>2, <2>1, <2>2, <2>3 DEF SyncTypes
<1>6. CASE Reply(s)
  BY <1>2, <1>6 DEF Reply, globals, slaveTh, SyncTypes
<1>7. CASE CheckReply(s)
  <2>1. CASE Counts(m, mrecv[s])
    BY <1>2, <1>7, <2>1 DEF CheckReply, slaveTh, SyncTypes
  <2>2. CASE ~Counts(m, mrecv[s])
    <3>1. mrecv[s].stratum <= d[m]
      BY <1>1, <1>2, <2>2 DEF Counts
    <3>2. /\ mpc' = [mpc EXCEPT ![s] = "top"]
          /\ UNCHANGED <<stratum, send_pkt, mrecv, spc, srecv, down, up>>
      BY <1>7, <2>2 DEF CheckReply, NextRound, slaveTh
    <3> QED
      BY <1>2, <3>1, <3>2 DEF SyncTypes
  <2> QED
    BY <2>1, <2>2
<1>8. CASE CalcDelay(s)
  <2>1. Full(s, stratum[m]).stratum <= d[m]
    BY <1>1, <1>2, FullType DEF SyncTypes
  <2>2. /\ mpc' = [mpc EXCEPT ![s] = "top"]
        /\ mrecv' = [mrecv EXCEPT ![s] = Full(s, stratum[m])]
        /\ UNCHANGED <<stratum, send_pkt, spc, srecv, down, up>>
    BY <1>8 DEF CalcDelay, NextRound, slaveTh
  <2> QED
    BY <1>2, <2>1, <2>2 DEF SyncTypes
<1>9. CASE AssertFails(s)
  BY <1>2, <1>9 DEF AssertFails, masterTh, slaveTh
<1> QED
  BY <1>3, <1>4, <1>5, <1>6, <1>7, <1>8, <1>9 DEF MasterDoes

LEMMA DepthSlave ==
  ASSUME SyncTypes, DepthInv, master' = master, NEW s \in Slaves,
         SlaveEnds(s) \/ SlaveReceives(s) \/ SlaveAnswers(s) \/ LosePacket(s)
  PROVE  DepthInv'
<1>1. CASE SlaveEnds(s) \/ SlaveReceives(s) \/ LosePacket(s)
  <2>1. UNCHANGED <<stratum, send_pkt, mpc, mrecv>>
    BY <1>1 DEF SlaveEnds, SlaveReceives, LosePacket, globals, masterTh
  <2>2. \A t \in Slaves :
          /\ down'[t] \subseteq down[t] /\ up'[t] \subseteq up[t]
          /\ srecv'[t] = srecv[t] \/ srecv'[t] \in down[t]
    BY <1>1 DEF SlaveEnds, SlaveReceives, LosePacket, slaveTh, SyncTypes
  <2> SUFFICES ASSUME NEW d \in Depths(master)
               PROVE  /\ \A n \in Nodes : stratum[n] <= d[n]
                      /\ \A t \in Slaves :
                           /\ send_pkt[t].stratum <= d[master[t]]
                           /\ \A p \in down'[t] : p.stratum <= d[master[t]]
                           /\ srecv'[t].stratum <= d[master[t]]
                           /\ \A p \in up'[t] : p.stratum <= d[t]
                           /\ mpc[t] \in {"check", "calc"} => mrecv[t].stratum <= d[t]
                           /\ mpc[t] \notin {"check", "calc"} => mrecv[t].stratum <= d[master[t]]
    BY <2>1 DEF DepthInv
  <2>3. /\ \A n \in Nodes : stratum[n] <= d[n]
        /\ \A t \in Slaves :
             /\ send_pkt[t].stratum <= d[master[t]]
             /\ mpc[t] \in {"check", "calc"} => mrecv[t].stratum <= d[t]
             /\ mpc[t] \notin {"check", "calc"} => mrecv[t].stratum <= d[master[t]]
    BY DEF DepthInv
  <2>4. ASSUME NEW t \in Slaves
        PROVE  /\ \A p \in down'[t] : p.stratum <= d[master[t]]
               /\ srecv'[t].stratum <= d[master[t]]
               /\ \A p \in up'[t] : p.stratum <= d[t]
    <3>1. /\ \A p \in down[t] : p.stratum <= d[master[t]]
          /\ srecv[t].stratum <= d[master[t]]
          /\ \A p \in up[t] : p.stratum <= d[t]
      BY DEF DepthInv
    <3>2. /\ down'[t] \subseteq down[t] /\ up'[t] \subseteq up[t]
          /\ srecv'[t] = srecv[t] \/ srecv'[t] \in down[t]
      BY <2>2
    <3>3. srecv'[t].stratum <= d[master[t]]
      BY <3>1, <3>2
    <3> QED
      BY <3>1, <3>2, <3>3
  <2> QED
    BY <2>3, <2>4
<1>2. CASE SlaveAnswers(s)
  <2> SUFFICES ASSUME NEW d \in Depths(master)
               PROVE  /\ \A n \in Nodes : stratum'[n] <= d[n]
                      /\ \A t \in Slaves : \A p \in up'[t] : p.stratum <= d[t]
    BY <1>2 DEF SlaveAnswers, masterTh, DepthInv
  <2> DEFINE a == AnswerTo(srecv[s])
  <2>1. /\ srecv[s] \in Pkt /\ srecv[s].stratum \in Int /\ srecv[s].stratum <= d[master[s]]
        /\ d[master[s]] \in Nat /\ d[s] = d[master[s]] + 1
    BY DepthTypes DEF DepthInv, SyncTypes, Pkt, Strata
  <2>2. a.stratum <= d[s] /\ srecv[s].stratum + 1 <= d[s]
    BY <2>1, AnswerType
  <2> HIDE DEF a
  <2>3. \A r \in Sent(up[s], a) : r.stratum <= d[s]
    BY <2>2, SentPacket DEF DepthInv
  <2> QED
    BY <1>2, <2>2, <2>3 DEF SlaveAnswers, DepthInv, SyncTypes, a
<1> QED
  BY <1>1, <1>2

LEMMA DepthInit == Init => DepthInv
<1> SUFFICES ASSUME Init, NEW d \in Depths(master)
             PROVE  /\ \A n \in Nodes : stratum[n] <= d[n]
                    /\ \A s \in Slaves :
                         /\ send_pkt[s].stratum <= d[master[s]] /\ srecv[s].stratum <= d[master[s]]
                         /\ mrecv[s].stratum <= d[s] /\ mrecv[s].stratum <= d[master[s]]
  BY DEF DepthInv, Init
<1>1. ZeroPacket.stratum = 0 /\ \A p \in Uninitialised : p.stratum = 0
  BY DEF ZeroPacket, Uninitialised, Plain
<1>2. \A n \in Nodes : d[n] \in Nat
  BY InitTypes, DepthTypes
<1>3. master \in [Slaves -> Nodes] /\ Slaves \subseteq Nodes
  BY InitTypes DEF SyncTypes, Nodes
<1> QED
  BY <1>1, <1>2, <1>3 DEF Init

LEMMA DepthStep == SyncTypes /\ DepthInv /\ [Next]_vars => DepthInv'
<1> SUFFICES ASSUME SyncTypes, DepthInv, [Next]_vars PROVE DepthInv'
  OBVIOUS
<1>1. CASE UNCHANGED vars
  BY <1>1 DEF vars, globals, masterTh, slaveTh, DepthInv
<1> QED
  BY <1>1, Steps, DepthMaster, DepthSlave

(* A master of one slave is not in a round when it has counted to the end. *)
LoopInv ==
  /\ \A n \in Nodes : Alone(n) => totalsync[n] <= NO_OF_SYNC + 1
  /\ \A s \in Slaves : Alone(master[s]) /\ Busy(s) => totalsync[master[s]] <= NO_OF_SYNC

LEMMA LoopMaster ==
  ASSUME SyncTypes, OrderInv, LoopInv, master' = master, NEW s \in Slaves, MasterDoes(s)
  PROVE  LoopInv'
<1> DEFINE m == master[s]
<1>1. /\ m \in Nodes /\ totalsync \in [Nodes -> Nat] /\ NO_OF_SYNC \in Nat
      /\ mpc \in [Slaves -> {"top", "send", "poll", "check", "calc", "done"}]
  BY NtpAssumption DEF SyncTypes
<1>2. \A n : Alone(n)' <=> Alone(n)
  BY DEF Alone, LinksOf
<1>3. \A t \in Slaves : Alone(master[t]) /\ master[t] = m => t = s
  BY AloneOnly
<1>4. CASE MasterFills(s)
  <2>1. totalsync[m] <= NO_OF_SYNC + 1 => totalsync[m] <= NO_OF_SYNC
    <3>1. totalsync[m] # NO_OF_SYNC + 1 \/ ~(m = Root \/ slavesync[m])
      BY <1>4 DEF MasterFills, LoopEnds
    <3>2. totalsync[m] > 0 => m = Root \/ slavesync[m]
      BY <1>1 DEF OrderInv
    <3> QED
      BY <1>1, <3>1, <3>2
  <2>2. totalsync' = totalsync /\ \A t \in Slaves : t # s => mpc'[t] = mpc[t]
    BY <1>1, <1>4 DEF MasterFills, globals
  <2> QED
    BY <1>1, <1>2, <2>1, <2>2 DEF LoopInv, Busy
<1>5. CASE CalcDelay(s)
  <2>1. Busy(s) /\ Counted(m) \in Nat /\ Counted(m) <= totalsync[m] + 1
    BY <1>1, <1>5 DEF CalcDelay, Busy, Counted
  <2>2. totalsync' = [totalsync EXCEPT ![m] = Counted(m)] /\ mpc' = [mpc EXCEPT ![s] = "top"]
    BY <1>5 DEF CalcDelay, NextRound
  <2>3. Alone(m) => Counted(m) <= NO_OF_SYNC + 1
    BY <1>1, <2>1 DEF LoopInv
  <2>4. \A n \in Nodes : Alone(n) => totalsync'[n] <= NO_OF_SYNC + 1
    BY <1>1, <2>2, <2>3 DEF LoopInv
  <2>5. ASSUME NEW t \in Slaves, Alone(master[t]), Busy(t)'
        PROVE  totalsync'[master[t]] <= NO_OF_SYNC
    <3>1. t # s
      BY <1>1, <2>2, <2>5 DEF Busy
    <3>2. master[t] # m
      BY <1>3, <2>5, <3>1
    <3>3. totalsync'[master[t]] = totalsync[master[t]] /\ Busy(t)
      BY <1>1, <2>2, <2>5, <3>1, <3>2 DEF Busy, SyncTypes
    <3> QED
      BY <2>5, <3>3 DEF LoopInv
  <2> QED
    BY <1>2, <2>4, <2>5 DEF LoopInv
<1>6. CASE ~MasterFills(s) /\ ~CalcDelay(s)
  <2>1. totalsync' = totalsync
    BY <1>6 DEF MasterDoes, MasterEnds, MasterSends, NoReply, Reply, CheckReply, AssertFails, globals
  <2>2. \A t \in Slaves : Busy(t)' => Busy(t)
    BY <1>1, <1>6 DEF Busy, MasterDoes, MasterEnds, MasterSends, NoReply, Reply, CheckReply,
       AssertFails, NextRound, masterTh
  <2> QED
    BY <1>2, <2>1, <2>2 DEF LoopInv
<1> QED
  BY <1>4, <1>5, <1>6

LEMMA LoopSlave ==
  ASSUME LoopInv, master' = master, NEW s \in Slaves,
         SlaveEnds(s) \/ SlaveReceives(s) \/ SlaveAnswers(s) \/ LosePacket(s)
  PROVE  LoopInv'
<1>1. totalsync' = totalsync /\ mpc' = mpc
  BY DEF SlaveEnds, SlaveReceives, SlaveAnswers, LosePacket, globals, masterTh
<1> QED
  BY <1>1 DEF LoopInv, Alone, LinksOf, Busy

LEMMA LoopInit == Init => LoopInv
<1> SUFFICES ASSUME Init PROVE LoopInv
  OBVIOUS
<1>1. NO_OF_SYNC \in Nat /\ master \in [Slaves -> Nodes]
  BY NtpAssumption DEF Init
<1> QED
  BY <1>1 DEF Init, LoopInv, Busy

LEMMA LoopStep == SyncTypes /\ OrderInv /\ LoopInv /\ [Next]_vars => LoopInv'
<1> SUFFICES ASSUME SyncTypes, OrderInv, LoopInv, [Next]_vars PROVE LoopInv'
  OBVIOUS
<1>1. CASE UNCHANGED vars
  BY <1>1 DEF vars, globals, masterTh, LoopInv, Alone, LinksOf, Busy
<1> QED
  BY <1>1, Steps, LoopMaster, LoopSlave

LEMMA BoundedPacket ==
  ASSUME NEW p \in Pkt, p.stratum <= Cardinality(Slaves)
  PROVE  p \in Packet
<1>1. Cardinality(Slaves) \in Nat
  BY NtpAssumption, FS_CardinalityType
<1>2. p.stratum \in -1..Cardinality(Slaves)
  BY <1>1 DEF Pkt, Strata
<1> QED
  BY <1>2 DEF Pkt, Packet

(* Every variable has its type: no stratum exceeds the number of slaves,   *)
(* and a master of one slave counts at most one past NO_OF_SYNC            *)
(* (slave.c:70, 83).                                                       *)
THEOREM NtpTypeCorrect == Spec => []NtpTypeOK
<1>1. SyncTypes /\ DepthInv /\ LoopInv => NtpTypeOK
  <2> SUFFICES ASSUME SyncTypes, DepthInv, LoopInv PROVE NtpTypeOK
    OBVIOUS
  <2>1. PICK d \in Depths(master) : TRUE
    BY DEF SyncTypes
  <2>2. /\ Cardinality(Slaves) \in Nat /\ Slaves \subseteq Nodes /\ master \in [Slaves -> Nodes]
        /\ \A n \in Nodes : d[n] \in Nat /\ d[n] <= Cardinality(Slaves)
    BY NtpAssumption, FS_CardinalityType, DepthTypes DEF SyncTypes, Nodes
  <2>3. stratum \in [Nodes -> -1..Cardinality(Slaves)]
    <3>1. \A n \in Nodes : stratum[n] \in Int /\ stratum[n] >= -1 /\ stratum[n] <= d[n]
      BY DEF SyncTypes, DepthInv, Strata
    <3>2. \A n \in Nodes : stratum[n] \in -1..Cardinality(Slaves)
      BY <2>2, <3>1
    <3> QED
      BY <3>2 DEF SyncTypes
  <2>4. ASSUME NEW s \in Slaves
        PROVE  /\ send_pkt[s] \in Packet /\ mrecv[s] \in Packet /\ srecv[s] \in Packet
               /\ down[s] \subseteq Packet /\ up[s] \subseteq Packet
    <3>1. \A n \in Nodes, p \in Pkt : p.stratum <= d[n] => p \in Packet
      <4> SUFFICES ASSUME NEW n \in Nodes, NEW p \in Pkt, p.stratum <= d[n] PROVE p \in Packet
        OBVIOUS
      <4>1. p.stratum \in Int
        BY DEF Pkt, Strata
      <4> QED
        BY <2>2, <4>1, BoundedPacket
    <3>2. s \in Nodes /\ master[s] \in Nodes
      BY <2>2
    <3>3. /\ send_pkt[s] \in Pkt /\ mrecv[s] \in Pkt /\ srecv[s] \in Pkt
          /\ down[s] \subseteq Pkt /\ up[s] \subseteq Pkt
      BY DEF SyncTypes
    <3>4. /\ send_pkt[s].stratum <= d[master[s]] /\ srecv[s].stratum <= d[master[s]]
          /\ mrecv[s].stratum <= d[s] \/ mrecv[s].stratum <= d[master[s]]
          /\ \A p \in down[s] : p.stratum <= d[master[s]]
          /\ \A p \in up[s] : p.stratum <= d[s]
      BY DEF DepthInv
    <3> QED
      BY <3>1, <3>2, <3>3, <3>4
  <2>5. /\ send_pkt \in [Slaves -> Packet] /\ mrecv \in [Slaves -> Packet]
        /\ srecv \in [Slaves -> Packet]
    BY <2>4 DEF SyncTypes
  <2> QED
    BY <2>3, <2>4, <2>5 DEF NtpTypeOK, SyncTypes, LoopInv
<1> QED
  BY <1>1, SyncInvariance, DepthInit, DepthStep, LoopInit, LoopStep, PTL DEF Spec
=============================================================================
