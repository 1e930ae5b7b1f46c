------------------------------- MODULE NtpSync -------------------------------
(***************************************************************************)
(* The packets of the NTP Enhancement: master.c at the root, slave.c at    *)
(* every other node, which may be the master of further nodes.             *)
(*                                                                         *)
(* A link is named by its slave.  At its upper end runs mastersyncproc, at *)
(* its lower end slavesyncproc; the threads of a node share its globals.   *)
(* What is measured and which clock is set to what is in NtpClock.         *)
(*                                                                         *)
(* A packet that was sent has its time stamp on the error queue, which     *)
(* makes the socket ready at once: a thread looks for a reply right after  *)
(* it has sent and finds one of this round, of an earlier one, or none.    *)
(***************************************************************************)
EXTENDS Integers, FiniteSets

CONSTANTS Root, Slaves,
          Trees,        \* the possible configurations: the master of each slave
          NO_OF_SYNC,
          MaxRound,     \* bound: rounds of each mastersyncproc
          InFlight      \* bound: packets under way in one direction of a link

Nodes == {Root} \cup Slaves

(* How far each node is from the root.                                     *)
Depths(t) ==
  {d \in [Nodes -> 0..Cardinality(Slaves)] : d[Root] = 0 /\ \A s \in Slaves : d[s] = d[t[s]] + 1}

ASSUME NtpAssumption ==
  /\ Root \notin Slaves
  /\ IsFiniteSet(Slaves)
  /\ Trees \subseteq [Slaves -> Nodes]
  /\ \A t \in Trees : Depths(t) # {}
  /\ NO_OF_SYNC \in Nat \ {0}
  /\ MaxRound \in Nat
  /\ InFlight \in Nat \ {0}

VARIABLES
  master,                               \* the configuration
  stratum, totalsync, synced, slavesync, aborted,   \* globals of each node
  mpc, seqnum, send_pkt, mrecv,         \* mastersyncproc of each link
  spc, srecv,                           \* slavesyncproc of each link
  down, up                              \* packets under way on each link

globals  == <<stratum, totalsync, synced, slavesync, aborted>>
masterTh == <<mpc, seqnum, send_pkt, mrecv>>
slaveTh  == <<spc, srecv>>
vars == <<master, globals, masterTh, slaveTh, down, up>>

Rounds  == 0..MaxRound
NoRound == -1

(* mastertime is the round it was taken in.                                *)
Packet == [seqnum : Rounds \cup {NoRound}, stratum : -1..Cardinality(Slaves), ifsync : Nat,
           setclock : BOOLEAN, oldseqnum : Rounds \cup {NoRound},
           mastertime : Rounds \cup {NoRound}]

Plain(q, st, n) == [seqnum |-> q, stratum |-> st, ifsync |-> n, setclock |-> FALSE,
                    oldseqnum |-> NoRound, mastertime |-> NoRound]
ZeroPacket == Plain(0, 0, 0)

(* What is under way with p, unless there is no room for p.                *)
Sent(c, p) == IF Cardinality(c) < InFlight THEN c \cup {p} ELSE c

-----------------------------------------------------------------------------
(* mastersyncproc for slave s.                                             *)

(* The root ends at exactly one more; any other node only when it has been *)
(* synchronised itself.                                                    *)
LoopEndsEither(m) == totalsync[m] = NO_OF_SYNC + 1 \/ slavesync[m] \* mutant
LoopEndsAbove(m) == totalsync[m] > NO_OF_SYNC                    \* mutant

LoopEnds(m) == totalsync[m] = NO_OF_SYNC + 1 /\ (m = Root \/ slavesync[m])

MasterEnds(s) ==
  /\ mpc[s] = "top"
  /\ LoopEnds(master[s])
  /\ mpc' = [mpc EXCEPT ![s] = "done"]
  /\ UNCHANGED <<globals, seqnum, send_pkt, mrecv, slaveTh, down, up>>

MasterFills(s) ==
  LET m == master[s] IN
  /\ mpc[s] = "top"
  /\ ~LoopEnds(m)
  /\ seqnum[s] < MaxRound
  /\ send_pkt' = [send_pkt EXCEPT ![s] = Plain(seqnum[s], stratum[m], totalsync[m])]
  /\ mpc' = [mpc EXCEPT ![s] = "send"]
  /\ UNCHANGED <<globals, seqnum, mrecv, slaveTh, down, up>>

(* Whoever of the threads of the node comes first takes synced, and sends  *)
(* what it has received itself.                                            *)
MasterSends(s) ==
  LET m == master[s]
      p == IF synced[m] THEN [mrecv[s] EXCEPT !.seqnum = seqnum[s]] ELSE send_pkt[s]
  IN
  /\ mpc[s] = "send"
  /\ synced' = [synced EXCEPT ![m] = FALSE]
  /\ mrecv' = IF synced[m] THEN [mrecv EXCEPT ![s] = p] ELSE mrecv
  /\ down' = [down EXCEPT ![s] = Sent(@, p)]
  /\ mpc' = [mpc EXCEPT ![s] = "poll"]
  /\ UNCHANGED <<stratum, totalsync, slavesync, aborted, seqnum, send_pkt, slaveTh, up>>

NextRound(s) ==
  /\ seqnum' = [seqnum EXCEPT ![s] = @ + 1]
  /\ mpc' = [mpc EXCEPT ![s] = "top"]

NoReply(s) ==
  /\ mpc[s] = "poll"
  /\ NextRound(s)
  /\ UNCHANGED <<globals, send_pkt, mrecv, slaveTh, down, up>>

Reply(s) ==
  /\ mpc[s] = "poll"
  /\ \E p \in up[s] :
       /\ up' = [up EXCEPT ![s] = @ \ {p}]
       /\ mrecv' = [mrecv EXCEPT ![s] = p]
  /\ mpc' = [mpc EXCEPT ![s] = "check"]
  /\ UNCHANGED <<globals, seqnum, send_pkt, slaveTh, down>>

CountsAny(m, p) == p.stratum >= stratum[m]                       \* mutant

Counts(m, p) == p.stratum > stratum[m]

CheckReply(s) ==
  LET m == master[s] IN
  /\ mpc[s] = "check"
  /\ IF Counts(m, mrecv[s])
       THEN /\ synced' = [synced EXCEPT ![m] = TRUE]
            /\ mpc' = [mpc EXCEPT ![s] = "calc"]
            /\ UNCHANGED seqnum
       ELSE NextRound(s) /\ UNCHANGED synced
  /\ UNCHANGED <<stratum, totalsync, slavesync, aborted, send_pkt, mrecv, slaveTh, down, up>>

(* calcnetdelay asserts again what has just been tested: stratum may have  *)
(* changed.                                                                *)
AssertFails(s) ==
  LET m == master[s] IN
  /\ mpc[s] = "calc"
  /\ stratum[m] >= mrecv[s].stratum
  /\ aborted' = [aborted EXCEPT ![m] = TRUE]
  /\ UNCHANGED <<stratum, totalsync, synced, slavesync, masterTh, slaveTh, down, up>>

(* totalsync of a node that is not synchronised itself stays 0.  Load and  *)
(* store are one step here, and stratum is read once, where slave.c reads  *)
(* it in lines 108 and 111.                                                *)
AlwaysCounted(m) == totalsync[m] + 1                             \* mutant

Counted(m) == IF m = Root \/ slavesync[m] THEN totalsync[m] + 1 ELSE totalsync[m]

FullOfReply(s, st) ==                                            \* mutant
  [mrecv[s] EXCEPT !.stratum = st, !.setclock = TRUE, !.oldseqnum = mrecv[s].seqnum,
                   !.mastertime = mrecv[s].seqnum]

Full(s, st) ==
  [mrecv[s] EXCEPT !.stratum = st, !.setclock = TRUE, !.oldseqnum = mrecv[s].seqnum,
                   !.mastertime = seqnum[s]]

CalcDelay(s) ==
  LET m == master[s] IN
  /\ mpc[s] = "calc"
  /\ stratum[m] < mrecv[s].stratum
  /\ mrecv' = [mrecv EXCEPT ![s] = Full(s, stratum[m])]
  /\ totalsync' = [totalsync EXCEPT ![m] = Counted(m)]
  /\ NextRound(s)
  /\ UNCHANGED <<stratum, synced, slavesync, aborted, send_pkt, slaveTh, down, up>>

MasterStep(s) ==
  /\ ~aborted[master[s]]
  /\ \/ MasterEnds(s) \/ MasterFills(s) \/ MasterSends(s) \/ NoReply(s)
     \/ Reply(s) \/ CheckReply(s) \/ CalcDelay(s) \/ AssertFails(s)

-----------------------------------------------------------------------------
(* slavesyncproc of slave s.                                               *)

SlaveEnds(s) ==
  /\ spc[s] = "loop"
  /\ srecv[s].ifsync = NO_OF_SYNC
  /\ slavesync' = [slavesync EXCEPT ![s] = TRUE]
  /\ spc' = [spc EXCEPT ![s] = "done"]
  /\ UNCHANGED <<stratum, totalsync, synced, aborted, masterTh, srecv, down, up>>

SlaveReceives(s) ==
  /\ spc[s] = "loop"
  /\ srecv[s].ifsync # NO_OF_SYNC
  /\ \E p \in down[s] :
       /\ down' = [down EXCEPT ![s] = @ \ {p}]
       /\ srecv' = [srecv EXCEPT ![s] = p]
  /\ spc' = [spc EXCEPT ![s] = "got"]
  /\ UNCHANGED <<globals, masterTh, up>>

(* A packet with setclock is sent back as it came.                         *)
AnswerRaisedTwice(p) ==                                          \* mutant
  IF p.setclock THEN p ELSE Plain(p.seqnum, p.stratum + 2, 0)

AnswerTo(p) == IF p.setclock THEN p ELSE Plain(p.seqnum, p.stratum + 1, 0)

SlaveAnswers(s) ==
  LET p == srecv[s] IN
  /\ spc[s] = "got"
  /\ stratum' = [stratum EXCEPT ![s] = p.stratum + 1]
  /\ up' = [up EXCEPT ![s] = Sent(@, AnswerTo(p))]
  /\ spc' = [spc EXCEPT ![s] = "loop"]
  /\ UNCHANGED <<totalsync, synced, slavesync, aborted, masterTh, srecv, down>>

SlaveStep(s) ==
  /\ ~aborted[s]
  /\ \/ SlaveEnds(s) \/ SlaveReceives(s) \/ SlaveAnswers(s)

-----------------------------------------------------------------------------
LosePacket(s) ==
  /\ \/ \E p \in down[s] : down' = [down EXCEPT ![s] = @ \ {p}] /\ UNCHANGED up
     \/ \E p \in up[s] : up' = [up EXCEPT ![s] = @ \ {p}] /\ UNCHANGED down
  /\ UNCHANGED <<globals, masterTh, slaveTh>>

(* recv_pkt of slavesyncproc is tested before anything was put into it.    *)
Uninitialised == {Plain(NoRound, 0, n) : n \in {0, NO_OF_SYNC}}

Init ==
  /\ master \in Trees
  /\ stratum = [n \in Nodes |-> IF n = Root THEN 0 ELSE -1]
  /\ totalsync = [n \in Nodes |-> 0]
  /\ synced = [n \in Nodes |-> FALSE]
  /\ slavesync = [n \in Nodes |-> FALSE]
  /\ aborted = [n \in Nodes |-> FALSE]
  /\ mpc = [s \in Slaves |-> "top"]
  /\ seqnum = [s \in Slaves |-> 0]
  /\ send_pkt = [s \in Slaves |-> ZeroPacket]
  /\ mrecv = [s \in Slaves |-> ZeroPacket]
  /\ spc = [s \in Slaves |-> "loop"]
  /\ srecv \in [Slaves -> Uninitialised]
  /\ down = [s \in Slaves |-> {}]
  /\ up = [s \in Slaves |-> {}]

Next ==
  /\ \E s \in Slaves : MasterStep(s) \/ SlaveStep(s) \/ LosePacket(s)
  /\ UNCHANGED master

Spec == Init /\ [][Next]_vars

-----------------------------------------------------------------------------
(* Properties.                                                             *)

LinksOf(n) == {s \in Slaves : master[s] = n}
Alone(n)   == Cardinality(LinksOf(n)) = 1
Near(s)    == master[s] = Root \/ master[master[s]] = Root

(* Every variable has its type; a master of one slave never counts past    *)
(* the number at which its loop ends (master.c:28, slave.c:83).            *)
NtpTypeOK ==
  /\ master \in [Slaves -> Nodes]
  /\ stratum \in [Nodes -> -1..Cardinality(Slaves)]
  /\ totalsync \in [Nodes -> Nat]
  /\ \A n \in Nodes : Alone(n) => totalsync[n] <= NO_OF_SYNC + 1
  /\ synced \in [Nodes -> BOOLEAN]
  /\ slavesync \in [Nodes -> BOOLEAN]
  /\ aborted \in [Nodes -> BOOLEAN]
  /\ mpc \in [Slaves -> {"top", "send", "poll", "check", "calc", "done"}]
  /\ seqnum \in [Slaves -> Rounds]
  /\ send_pkt \in [Slaves -> Packet]
  /\ mrecv \in [Slaves -> Packet]
  /\ spc \in [Slaves -> {"loop", "got", "done"}]
  /\ srecv \in [Slaves -> Packet]
  /\ \A s \in Slaves : down[s] \subseteq Packet /\ up[s] \subseteq Packet

(* The receiver adds one SLEEPTIME to mastertime (ntpapis.c:519), so a     *)
(* packet that sets a clock must leave in the very next round.  With more  *)
(* than one slave another thread may take synced away (master.c:33).       *)
SampleFresh ==
  \A s \in Slaves : Alone(master[s]) =>
    \A p \in down[s] : p.setclock => p.seqnum = p.mastertime + 1

(* A packet with setclock is sent back as it came (slave.c:51): it must    *)
(* not be taken for a reply with t2 and t3, whatever stratum the master    *)
(* has got in the meantime (slave.c:105).  It is not, down to the second   *)
(* level of masters; further down a master's stratum may also fall, when   *)
(* packets of its own master overtake each other.                          *)
EchoNeverCounted ==
  \A s \in Slaves : Near(s) /\ mpc[s] = "calc" => ~mrecv[s].setclock

(* A slave that was told to stop is below a master that has NO_OF_SYNC     *)
(* samples and is synchronised itself (slave.c:115): the tree becomes      *)
(* synchronised from the root down.  This speaks of no slave that stopped  *)
(* before it had received anything, on what happened to be in its recv_pkt *)
(* (slave.c:30); but the master may have been such a slave itself, and     *)
(* then counts its samples with a slavesync nobody has given it.           *)
EndsInOrder ==
  \A s \in Slaves : spc[s] = "done" /\ srecv[s].seqnum # NoRound =>
    /\ totalsync[master[s]] >= NO_OF_SYNC
    /\ master[s] # Root => slavesync[master[s]]

(* The assertion of calcnetdelay (ntpapis.c:441) fails when the stratum of *)
(* the node is raised between the two tests.  That never happens at the    *)
(* root, nor before slavesyncproc of the node has had a packet: a reply    *)
(* that passed the first test (slave.c:105) is above the stratum of a node *)
(* that has none.                                                          *)
OnlyIntermediateAborts ==
  \A n \in Nodes : aborted[n] => n # Root /\ stratum[n] >= 0

(* A slave stops at the first packet with ifsync NO_OF_SYNC, its master    *)
(* only after one more reply (slave.c:30, master.c:28): when that reply is *)
(* lost, or the slave stopped on what happened to be in recv_pkt, the      *)
(* master goes on for ever.                                                *)
ReplyUnderWay(s) ==
  \/ \E p \in up[s] : Counts(master[s], p)
  \/ mpc[s] = "check" /\ Counts(master[s], mrecv[s])
  \/ mpc[s] = "calc"
LeftAlone(s) ==
  /\ Alone(master[s]) /\ Near(s)
  /\ spc[s] = "done"
  /\ ~ReplyUnderWay(s)
  /\ totalsync[master[s]] <= NO_OF_SYNC
  /\ mpc[s] # "done"
LostReplyIsFatal == [][\A s \in Slaves : LeftAlone(s) => LeftAlone(s)']_vars

(* The loop ends when totalsync is exactly one more than NO_OF_SYNC        *)
(* (master.c:28): two threads that both count up to it step over it, and   *)
(* none of the threads still running ever ends.                            *)
OvershootIsFatal ==
  [][\A s \in Slaves :
       /\ totalsync[master[s]] > NO_OF_SYNC + 1
       /\ mpc[s] # "done"
       => totalsync'[master[s]] > NO_OF_SYNC + 1 /\ mpc'[s] # "done"]_vars
=============================================================================
