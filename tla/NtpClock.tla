------------------------------ MODULE NtpClock ------------------------------
(***************************************************************************)
(* What the NTP Enhancement computes (ntpapis.c), on the link between the  *)
(* root and one of its slaves: in every round the master sends a packet,   *)
(* takes the four time stamps of an answer if there is one, and the delay, *)
(* the offset and its own time go to the slave in the next round, which    *)
(* sets its clock.  Samples overlap: one is measured while an earlier one  *)
(* is still on its way to the slave.  When the protocol counts and stops   *)
(* is in NtpSync.                                                          *)
(*                                                                         *)
(* Time is counted in microseconds of the master's clock.  A struct        *)
(* timeval is the number of its microseconds, but for the one that is      *)
(* given to settimeofday, whose tv_usec may be out of range.               *)
(*                                                                         *)
(* In each node one list of time stamps, keyed by seqnum alone, is used by *)
(* all threads: shared has the nodes that run others than these two.  The  *)
(* packet of a round is a plain one and the answer to it, or a full one    *)
(* (setclock) and its echo.  A packet that has not arrived after one of    *)
(* Ways never will.                                                        *)
(***************************************************************************)
EXTENDS Integers

CONSTANTS
  US,            \* microseconds in a second (1000000)
  IntRange,      \* 2^31: an int is in -IntRange..IntRange-1
  SLEEPTIME,     \* in seconds
  Ways,          \* times a packet may be under way
  Jitters,       \* from gettimeofday(&t3) to the time stamp of the packet sent
  Overheads,     \* by which a round of the master is longer than SLEEPTIME
  Handlings,     \* by which the slave reads a packet later than it could
  Starts, Leads, \* clock of the master and lead of the slave's at the start
  Sharings,      \* which of the two nodes have other threads
  MaxRounds,     \* bound: rounds of the master
  MaxForeign     \* bound: what other threads do to the shared variables

ASSUME ClockAssumption ==
  /\ US \in Nat /\ US > 1
  /\ IntRange \in Nat \ {0}
  /\ SLEEPTIME \in Nat
  /\ Ways \subseteq Nat
  /\ Jitters \subseteq Nat
  /\ Overheads \subseteq Nat
  /\ Handlings \subseteq Nat
  /\ Starts \subseteq Nat
  /\ Leads \subseteq Int
  /\ Sharings \subseteq SUBSET {"master", "slave"}
  /\ MaxRounds \in Nat \ {0}
  /\ MaxForeign \in Nat

VARIABLES
  shared,                \* the nodes of which other threads are running
  foreign,
  now,                   \* the master's clock
  lead,                  \* by which the slave's clock is ahead of it
  mpc, seqnum, synced, recv_pkt, wake,         \* mastersyncproc
  spc, cur, prevOffset,  \* slavesyncproc; the packet in its recv_pkt
  where, pkt,            \* of the packet of each round: where and what it is
  sent, arrived, asked, replied, back,         \* by the master's clock
  leadThen, leadBack,    \* lead when it arrived, and when it was answered
  sendtime, recvtime,    \* the master's list of time stamps
  ssendtime, srecvtime   \* the slave's

others  == <<shared, foreign>>
masterV == <<mpc, seqnum, synced, recv_pkt, wake>>
slaveV  == <<spc, cur, prevOffset, lead>>
wayDown == <<sent, arrived, leadThen>>
wayUp   == <<asked, replied, leadBack, back>>
lists   == <<sendtime, recvtime, ssendtime, srecvtime>>
vars    == <<others, now, masterV, slaveV, where, pkt, wayDown, wayUp, lists>>

Seqs == 0..(MaxRounds - 1)

Empty == [setclock |-> FALSE, oldseqnum |-> 0, t1 |-> 0, t2 |-> 0, t3 |-> 0, t4 |-> 0,
          networkdelay |-> 0, offset |-> 0, mastertime |-> 0]

-----------------------------------------------------------------------------
(* Arithmetic of C.                                                        *)

TruncDiv(a, b) == IF a >= 0 THEN a \div b ELSE -((-a) \div b)
TruncMod(a, b) == a - b * TruncDiv(a, b)
ToInt(a) == ((a + IntRange) % (2 * IntRange)) - IntRange
Magnitude(a) == IF a >= 0 THEN a ELSE -a
abs(a) == IF a = -IntRange THEN a ELSE Magnitude(a)
INT_MAX == IntRange - 1

time_diff(x, y) == y - x

-----------------------------------------------------------------------------
(* mastersyncproc.                                                         *)

(* The thread wakes up, and sends what it has of a sample, or an empty     *)
(* packet.                                                                 *)
MasterSends ==
  /\ mpc = "send"
  /\ seqnum \in Seqs
  /\ \E e \in Overheads : now' = IF now > wake + e THEN now ELSE wake + e
  /\ pkt' = [pkt EXCEPT ![seqnum] = IF synced THEN recv_pkt ELSE Empty]
  /\ where' = [where EXCEPT ![seqnum] = "down"]
  /\ sent' = [sent EXCEPT ![seqnum] = now']
  /\ sendtime' = [sendtime EXCEPT ![seqnum] = now']
  /\ synced' = FALSE
  /\ mpc' = "look"
  /\ UNCHANGED <<others, seqnum, recv_pkt, wake, slaveV, arrived, leadThen, wayUp,
                 recvtime, ssendtime, srecvtime>>

NextRound ==
  /\ seqnum' = seqnum + 1
  /\ wake' = now + SLEEPTIME * US
  /\ mpc' = "send"

(* Select is also ended by the time stamp of the packet that was sent.     *)
NothingThere ==
  /\ mpc = "look"
  /\ \A k \in Seqs : where[k] # "master"
  /\ NextRound
  /\ UNCHANGED <<others, now, synced, recv_pkt, slaveV, where, pkt, wayDown, wayUp, lists>>

(* The packet that came first is taken.  An echo has the stratum of the    *)
(* master and counts for nothing.  In any other packet oldseqnum is set to *)
(* seqnum, by the end of calcnetdelay in the code.                         *)
Look ==
  /\ mpc = "look"
  /\ \E k \in Seqs :
       /\ where[k] = "master"
       /\ \A i \in Seqs : where[i] = "master" => back[k] <= back[i]
       /\ where' = [where EXCEPT ![k] = "taken"]
       /\ recvtime' = [recvtime EXCEPT ![k] = back[k]]
       /\ recv_pkt' = [pkt[k] EXCEPT !.oldseqnum = IF pkt[k].setclock THEN @ ELSE k]
       /\ IF pkt[k].setclock
            THEN NextRound
            ELSE mpc' = "calc" /\ UNCHANGED <<seqnum, wake>>
  /\ UNCHANGED <<others, now, synced, slaveV, pkt, wayDown, wayUp, sendtime, ssendtime, srecvtime>>

NetDelayOneWay(a, b, c, d) == ToInt(time_diff(a, d))             \* mutant

NetDelay(a, b, c, d) == ToInt(time_diff(a, d) - time_diff(b, c))

OffsetCrossed(a, b, c, d) ==                                     \* mutant
  ToInt(TruncDiv(time_diff(a, b) + time_diff(c, d), 2))

Offset(a, b, c, d) == ToInt(TruncDiv(time_diff(a, b) + time_diff(d, c), 2))

Measured(p, q) ==
  LET t1 == sendtime[q]
      t4 == recvtime[q]
  IN  [setclock |-> TRUE, oldseqnum |-> q, t1 |-> t1, t2 |-> p.t2, t3 |-> p.t3, t4 |-> t4,
       networkdelay |-> NetDelay(t1, p.t2, p.t3, t4), offset |-> Offset(t1, p.t2, p.t3, t4),
       mastertime |-> now]

calcnetdelay ==
  /\ mpc = "calc"
  /\ recv_pkt' = Measured(recv_pkt, recv_pkt.oldseqnum)
  /\ synced' = TRUE
  /\ NextRound
  /\ UNCHANGED <<others, now, slaveV, where, pkt, wayDown, wayUp, lists>>

-----------------------------------------------------------------------------
(* slavesyncproc.                                                          *)

Read ==
  /\ spc = "select"
  /\ \E k \in Seqs, h \in Handlings :
       /\ where[k] = "slave"
       /\ \A i \in Seqs : where[i] = "slave" => arrived[k] <= arrived[i]
       /\ where' = [where EXCEPT ![k] = "read"]
       /\ srecvtime' = [srecvtime EXCEPT ![k] = arrived[k] + leadThen[k]]
       /\ cur' = k
       /\ spc' = IF pkt[k].setclock THEN "update" ELSE "answer"
       /\ now' = now + h
  /\ UNCHANGED <<others, masterV, lead, prevOffset, pkt, wayDown, wayUp, sendtime, recvtime,
                 ssendtime>>

(* The packet is sent back, and the stamp of that goes to the list.        *)
SendBack(p) ==
  /\ pkt' = [pkt EXCEPT ![cur] = p]
  /\ where' = [where EXCEPT ![cur] = "up"]
  /\ asked' = [asked EXCEPT ![cur] = now]
  /\ replied' = [replied EXCEPT ![cur] = now']
  /\ leadBack' = [leadBack EXCEPT ![cur] = lead']
  /\ ssendtime' = [ssendtime EXCEPT ![cur] = now' + lead']
  /\ spc' = "select"
  /\ UNCHANGED <<others, masterV, cur, wayDown, back, sendtime, recvtime, srecvtime>>

Answer ==
  /\ spc = "answer"
  /\ \E j \in Jitters : now' = now + j
  /\ UNCHANGED <<lead, prevOffset>>
  /\ SendBack([Empty EXCEPT !.t2 = srecvtime[cur], !.t3 = now + lead])

(* updatetime.  The delay is split into seconds of 999999 microseconds,    *)
(* and half an odd second is dropped.                                      *)
SplitAt == US - 1
sectoadd(p)  == TruncDiv(p.networkdelay, SplitAt)
usectoadd(p) == TruncMod(p.networkdelay, SplitAt)

calcdelayerror(p) ==
  ToInt(p.networkdelay + time_diff(p.t4, p.t1) + time_diff(p.t2, ssendtime[p.oldseqnum]))

recvjitter == ToInt(time_diff(srecvtime[cur], now + lead))

FinalSec(p)  == (p.mastertime \div US) + TruncDiv(sectoadd(p), 2) + SLEEPTIME
FinalUsec(p) == (p.mastertime % US) + recvjitter + TruncDiv(usectoadd(p), 2) - calcdelayerror(p)

(* settimeofday refuses a tv_usec that is not part of a second.            *)
Accepted(p)   == FinalUsec(p) \in 0..(US - 1)
FinalClock(p) == FinalSec(p) * US + FinalUsec(p)

BetterAny(p) == TRUE                                             \* mutant

Better(p) == ~(abs(prevOffset) < abs(p.offset))

updatetime ==
  /\ spc = "update"
  /\ LET p == pkt[cur] IN
     /\ IF Better(p)
          THEN /\ prevOffset' = p.offset
               /\ lead' = IF Accepted(p) THEN FinalClock(p) - now ELSE lead
          ELSE UNCHANGED <<prevOffset, lead>>
     /\ now' = now
     /\ SendBack(p)

-----------------------------------------------------------------------------
(* The way of a packet, down to the slave and up to the master.            *)

ArriveDown(k) ==
  /\ where[k] = "down"
  /\ \E w \in Ways : sent[k] + w >= now /\ now' = sent[k] + w
  /\ where' = [where EXCEPT ![k] = "slave"]
  /\ arrived' = [arrived EXCEPT ![k] = now']
  /\ leadThen' = [leadThen EXCEPT ![k] = lead]
  /\ UNCHANGED <<others, masterV, slaveV, pkt, sent, wayUp, lists>>

ArriveUp(k) ==
  /\ where[k] = "up"
  /\ \E w \in Ways : replied[k] + w >= now /\ now' = replied[k] + w
  /\ where' = [where EXCEPT ![k] = "master"]
  /\ back' = [back EXCEPT ![k] = now']
  /\ UNCHANGED <<others, masterV, slaveV, pkt, wayDown, asked, replied, leadBack, lists>>

(* Another thread of the node stamps a packet of its own, which has the    *)
(* same seqnum; at the master it may also take synced away or set it.      *)
Overwrite ==
  /\ foreign < MaxForeign
  /\ foreign' = foreign + 1
  /\ \/ /\ "master" \in shared
        /\ \/ /\ \E k \in Seqs : sendtime' = [sendtime EXCEPT ![k] = now]
              /\ UNCHANGED <<recvtime, synced>>
           \/ /\ \E k \in Seqs : recvtime' = [recvtime EXCEPT ![k] = now]
              /\ UNCHANGED <<sendtime, synced>>
           \/ synced' = ~synced /\ UNCHANGED <<sendtime, recvtime>>
        /\ UNCHANGED <<ssendtime, srecvtime>>
     \/ /\ "slave" \in shared
        /\ \/ /\ \E k \in Seqs : ssendtime' = [ssendtime EXCEPT ![k] = now + lead]
              /\ UNCHANGED srecvtime
           \/ /\ \E k \in Seqs : srecvtime' = [srecvtime EXCEPT ![k] = now + lead]
              /\ UNCHANGED ssendtime
        /\ UNCHANGED <<sendtime, recvtime, synced>>
  /\ UNCHANGED <<shared, now, mpc, seqnum, recv_pkt, wake, slaveV, where, pkt, wayDown, wayUp>>

Init ==
  /\ shared \in Sharings
  /\ foreign = 0
  /\ now \in Starts
  /\ lead \in Leads
  /\ mpc = "send" /\ seqnum = 0 /\ synced = FALSE /\ recv_pkt = Empty /\ wake = now
  /\ spc = "select" /\ cur = 0 /\ prevOffset = INT_MAX
  /\ where = [k \in Seqs |-> "unsent"]
  /\ pkt = [k \in Seqs |-> Empty]
  /\ sent = [k \in Seqs |-> 0] /\ arrived = sent /\ asked = sent /\ replied = sent /\ back = sent
  /\ leadThen = sent /\ leadBack = sent
  /\ sendtime = sent /\ recvtime = sent /\ ssendtime = sent /\ srecvtime = sent

Next ==
  \/ MasterSends \/ NothingThere \/ Look \/ calcnetdelay
  \/ Read \/ Answer \/ updatetime
  \/ Overwrite
  \/ \E k \in Seqs : ArriveDown(k) \/ ArriveUp(k)

Spec == Init /\ [][Next]_vars

-----------------------------------------------------------------------------
(* Properties.                                                             *)

(* Every variable has its type; what is kept in an int fits in one.        *)
Ints == -IntRange..INT_MAX
Packets == [setclock : BOOLEAN, oldseqnum : Seqs, t1 : Nat, t2 : Int, t3 : Int, t4 : Nat,
            networkdelay : Ints, offset : Ints, mastertime : Nat]
Places == {"unsent", "down", "slave", "read", "up", "master", "taken"}
ClockTypeOK ==
  /\ shared \in SUBSET {"master", "slave"} /\ foreign \in 0..MaxForeign
  /\ now \in Nat /\ lead \in Int
  /\ mpc \in {"send", "look", "calc"} /\ seqnum \in 0..MaxRounds /\ synced \in BOOLEAN
  /\ recv_pkt \in Packets /\ wake \in Nat
  /\ spc \in {"select", "answer", "update"} /\ cur \in Seqs /\ prevOffset \in Ints
  /\ where \in [Seqs -> Places] /\ pkt \in [Seqs -> Packets]
  /\ sent \in [Seqs -> Nat] /\ arrived \in [Seqs -> Nat] /\ asked \in [Seqs -> Nat]
  /\ replied \in [Seqs -> Nat] /\ back \in [Seqs -> Nat]
  /\ leadThen \in [Seqs -> Int] /\ leadBack \in [Seqs -> Int]
  /\ sendtime \in [Seqs -> Nat] /\ recvtime \in [Seqs -> Nat]
  /\ ssendtime \in [Seqs -> Int] /\ srecvtime \in [Seqs -> Int]

(* What really happened to packet q, which neither program sees.           *)
Down(q)   == arrived[q] - sent[q]
Jitter(q) == replied[q] - asked[q]
Up(q)     == back[q] - replied[q]
Skew(q)      == Down(q) - Up(q) - Jitter(q)
RoundTrip(q) == Down(q) + Up(q) + Jitter(q)
SteadyClock(q) == leadBack[q] = leadThen[q]

OwnStamps(p) ==
  LET q == p.oldseqnum IN
  p.t1 = sent[q] /\ p.t2 = arrived[q] + leadThen[q] /\ p.t4 = back[q]

(* A measured packet has the stamps of its own exchange, whatever else is  *)
(* under way, as long as no other thread of a node uses its list: that is  *)
(* keyed by seqnum alone (ntpapis.c:106).  The offset (ntpapis.c:467) of   *)
(* such a packet is the lead the slave's clock had in the exchange, but    *)
(* for half of what the two ways differ by; kept in an int, which is that  *)
(* value only when it fits.                                                *)
OffsetRight ==
  recv_pkt.setclock =>
    LET q == recv_pkt.oldseqnum
        twice == 2 * leadThen[q] + Skew(q)
    IN
    /\ shared = {} => OwnStamps(recv_pkt)
    /\ OwnStamps(recv_pkt) /\ SteadyClock(q) =>
         /\ recv_pkt.offset = ToInt(TruncDiv(twice, 2))
         /\ Magnitude(twice) < 2 * IntRange => Magnitude(2 * recv_pkt.offset - twice) <= 1

(* How much later than SLEEPTIME after its mastertime the full packet is   *)
(* there, how long it then waits, and the microseconds that should be set. *)
Late(p) == arrived[cur] - p.mastertime - SLEEPTIME * US
Handling == now - arrived[cur]
Due(p) == (p.mastertime % US) + Handling + (RoundTrip(p.oldseqnum) \div 2) - Jitter(p.oldseqnum)

(* All four stamps that updatetime uses are those of the two packets: two  *)
(* come with the packet, and two are looked up in the slave's list.        *)
OwnSetting(p) ==
  /\ OwnStamps(p) /\ SteadyClock(p.oldseqnum)
  /\ ssendtime[p.oldseqnum] = replied[p.oldseqnum] + leadBack[p.oldseqnum]
  /\ srecvtime[cur] = arrived[cur] + lead

Sets == spc = "update" /\ spc' # "update" /\ Better(pkt[cur])

(* What a setting of the clock does (ntpapis.c:506-522) when the stamps    *)
(* are their packets' own; the slave's own mastersyncproc can replace two  *)
(* of them (ntpapis.c:106, 489, 516), and the source calls the step        *)
(* faulty (ntpapis.c:505).  Below 999999 microseconds of delay the clock   *)
(* is off by half the round trip, less the jitter and what the packet is   *)
(* late by, or it is not set at all, namely when the microseconds are not  *)
(* part of a second (ntpapis.c:520); from there on half a second of the    *)
(* delay may be dropped as well (ntpapis.c:511).                           *)
SetClockRight ==
  [][LET p == pkt[cur]
         q == p.oldseqnum
         error == 2 * lead' - (RoundTrip(q) - 2 * Jitter(q) - 2 * Late(p))
     IN
     Sets /\ OwnSetting(p) /\ RoundTrip(q) < IntRange /\ Handling < IntRange =>
       /\ RoundTrip(q) < SplitAt =>
            IF Due(p) \in 0..(US - 1) THEN error \in -1..0 ELSE lead' = lead
       /\ RoundTrip(q) < 2 * SplitAt /\ lead' # lead => error \in (-1 - SplitAt)..0]_vars

(* Only a sample whose offset is no larger than the best one so far sets   *)
(* the clock (ntpapis.c:501), and the best one is kept even when the clock *)
(* was set wrong or not at all by it.  Samples overlap: one that was       *)
(* measured with the clock of before a setting may still set it again.     *)
(* Once no sample under way passes, and none can that the clock as it is   *)
(* will give, the clock is never set again.                                *)
Worse(p) == abs(prevOffset) < abs(p.offset)
WorseFromNow ==
  \A d, u \in Ways, j \in Jitters :
    LET twice == 2 * lead + d - u - j IN
    /\ Magnitude(twice) < 2 * IntRange - 1
    /\ Magnitude(twice) > 2 * Magnitude(prevOffset) + 1
AsItIs(q) == leadThen[q] = lead /\ leadBack[q] = lead
Frozen ==
  /\ shared = {}
  /\ WorseFromNow
  /\ synced => Worse(recv_pkt)
  /\ mpc = "calc" => AsItIs(recv_pkt.oldseqnum)
  /\ \A k \in Seqs :
       IF pkt[k].setclock
         THEN where[k] \in {"down", "slave", "read"} => Worse(pkt[k])
         ELSE /\ where[k] \in {"slave", "read"} => leadThen[k] = lead
              /\ where[k] \in {"up", "master"} => AsItIs(k)
FrozenForGood == [][Frozen => Frozen' /\ lead' = lead /\ prevOffset' = prevOffset]_vars
=============================================================================
