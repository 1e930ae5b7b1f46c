--------------------------- MODULE NtpClockProofs ---------------------------
(***************************************************************************)
(* Proofs about NtpClock, for every length of a second and of an int and   *)
(* whatever the network does with the packets.                             *)
(***************************************************************************)
EXTENDS NtpClock, TLAPS

-----------------------------------------------------------------------------
(* Arithmetic of C.                                                        *)

LEMMA SmallDiv ==
  ASSUME NEW a \in Nat, NEW b \in Nat, a < b
  PROVE  a \div b = 0 /\ a % b = a
  OBVIOUS

LEMMA OnceDiv ==
  ASSUME NEW a \in Nat, NEW b \in Nat, b <= a, a < 2 * b
  PROVE  a \div b = 1
  OBVIOUS

LEMMA DivType ==
  ASSUME NEW a \in Int, NEW b \in Nat, b > 0
  PROVE  /\ a \div b \in Int
         /\ a % b \in 0..(b - 1)
         /\ a = b * (a \div b) + (a % b)
<1>1. a \div b \in Int
  OBVIOUS
<1>2. a % b \in 0..(b - 1)
  OBVIOUS
<1>3. a = b * (a \div b) + (a % b)
  OBVIOUS
<1> QED
  BY <1>1, <1>2, <1>3

LEMMA Half ==
  ASSUME NEW a \in Int
  PROVE  /\ TruncDiv(a, 2) \in Int
         /\ a >= 0 => 2 * TruncDiv(a, 2) \in (a - 1)..a
         /\ a < 0 => 2 * TruncDiv(a, 2) \in a..(a + 1)
  BY DEF TruncDiv

LEMMA ToIntType == ASSUME NEW a \in Int PROVE ToInt(a) \in Ints
<1>1. (a + IntRange) % (2 * IntRange) \in 0..(2 * IntRange - 1)
  BY DivType, ClockAssumption
<1> QED
  BY <1>1, ClockAssumption DEF ToInt, Ints, INT_MAX

(* What fits in an int stays what it is.                                   *)
LEMMA ToIntFits == ASSUME NEW a \in Ints PROVE ToInt(a) = a
<1>1. a + IntRange \in Nat /\ a + IntRange < 2 * IntRange /\ 2 * IntRange \in Nat
  BY ClockAssumption DEF Ints, INT_MAX
<1>2. (a + IntRange) % (2 * IntRange) = a + IntRange
  BY <1>1, SmallDiv
<1> QED
  BY <1>2, ClockAssumption DEF ToInt, Ints, INT_MAX

(* Half of what two clocks differ by, and how far rounding takes it off.   *)
LEMMA HalfFits ==
  ASSUME NEW a \in Int, Magnitude(a) < 2 * IntRange
  PROVE  /\ ToInt(TruncDiv(a, 2)) = TruncDiv(a, 2)
         /\ Magnitude(2 * TruncDiv(a, 2)) <= Magnitude(a)
         /\ Magnitude(2 * TruncDiv(a, 2)) >= Magnitude(a) - 1
         /\ Magnitude(2 * TruncDiv(a, 2) - a) <= 1
<1> DEFINE h == TruncDiv(a, 2)
<1>1. /\ h \in Int
      /\ a >= 0 => 2 * h \in (a - 1)..a
      /\ a < 0 => 2 * h \in a..(a + 1)
  BY Half
<1> HIDE DEF h
<1>2. h \in Ints
  BY <1>1, ClockAssumption DEF Ints, INT_MAX, Magnitude
<1>3. ToInt(h) = h
  BY <1>2, ToIntFits
<1>4. a >= 0 => h >= 0
  BY <1>1
<1>5. /\ Magnitude(2 * h) <= Magnitude(a)
      /\ Magnitude(2 * h) >= Magnitude(a) - 1
      /\ Magnitude(2 * h - a) <= 1
  BY <1>1, <1>4 DEF Magnitude
<1> QED
  BY <1>3, <1>5 DEF h

-----------------------------------------------------------------------------
(* The inductive invariant.                                                *)

(* The rounds to come have sent nothing.                                   *)
RoundInv ==
  /\ mpc # "send" => seqnum \in Seqs
  /\ \A k \in Seqs : k > seqnum \/ (k = seqnum /\ mpc = "send") => where[k] = "unsent"

(* What each thread has in hand.                                           *)
ThreadInv ==
  /\ spc # "select" => where[cur] = "read" /\ (spc = "update" <=> pkt[cur].setclock)
  /\ spc = "answer" /\ shared = {} => srecvtime[cur] = arrived[cur] + leadThen[cur]
  /\ mpc = "calc" => /\ ~recv_pkt.setclock
                     /\ where[recv_pkt.oldseqnum] = "taken"
                     /\ ~pkt[recv_pkt.oldseqnum].setclock
  /\ mpc # "send" /\ shared = {} => ~synced

(* What a packet can have been through.                                    *)
TripInv ==
  \A k \in Seqs :
    /\ where[k] \notin {"unsent", "down"} => Down(k) \in Ways
    /\ where[k] \in {"slave", "read"} => arrived[k] <= now
    /\ where[k] \in {"up", "master", "taken"} =>
         Jitter(k) \in Nat /\ (~pkt[k].setclock => Jitter(k) \in Jitters)
    /\ where[k] \in {"master", "taken"} => Up(k) \in Ways

(* What the stamps of an exchange are.                                     *)
Answered(p, k) ==
  /\ p.t3 = asked[k] + leadBack[k]
  /\ shared = {} => p.t2 = arrived[k] + leadThen[k]
StampInv ==
  /\ \A k \in Seqs :
       /\ where[k] \in {"up", "master"} /\ ~pkt[k].setclock => Answered(pkt[k], k)
       /\ where[k] # "unsent" /\ shared = {} => sendtime[k] = sent[k]
       /\ where[k] = "taken" /\ shared = {} => recvtime[k] = back[k]
  /\ mpc = "calc" => Answered(recv_pkt, recv_pkt.oldseqnum)

(* A measured packet is that of an exchange that is over.                  *)
Sample(p) ==
  p.setclock =>
    /\ where[p.oldseqnum] = "taken"
    /\ p.t3 = asked[p.oldseqnum] + leadBack[p.oldseqnum]
    /\ p.networkdelay = NetDelay(p.t1, p.t2, p.t3, p.t4)
    /\ p.offset = Offset(p.t1, p.t2, p.t3, p.t4)
    /\ shared = {} => OwnStamps(p)
SampleInv == Sample(recv_pkt) /\ \A k \in Seqs : Sample(pkt[k])

ClockInv == ClockTypeOK /\ RoundInv /\ ThreadInv /\ TripInv /\ StampInv /\ SampleInv

LEMMA Sizes ==
  /\ Seqs \subseteq Nat /\ 0 \in Seqs /\ 0 \in Ints /\ INT_MAX \in Ints
  /\ Ways \subseteq Nat /\ Jitters \subseteq Nat /\ Overheads \subseteq Nat
  /\ Handlings \subseteq Nat /\ SLEEPTIME * US \in Nat /\ Empty \in Packets
<1>1. /\ Seqs \subseteq Nat /\ 0 \in Seqs /\ 0 \in Ints /\ INT_MAX \in Ints
  BY ClockAssumption DEF Seqs, Ints, INT_MAX
<1>2. SLEEPTIME * US \in Nat
  BY ClockAssumption
<1>3. Empty \in Packets
  BY <1>1 DEF Empty, Packets
<1> QED
  BY <1>1, <1>2, <1>3, ClockAssumption

LEMMA InitClock == Init => ClockInv
<1> SUFFICES ASSUME Init PROVE ClockInv
  OBVIOUS
<1>1. ClockTypeOK
  <2>1. shared \in SUBSET {"master", "slave"}
    BY ClockAssumption DEF Init
  <2>2. now \in Nat /\ lead \in Int /\ foreign \in 0..MaxForeign /\ seqnum \in 0..MaxRounds
    BY ClockAssumption DEF Init
  <2>3. /\ where \in [Seqs -> Places] /\ pkt \in [Seqs -> Packets]
        /\ sent \in [Seqs -> Nat] /\ sent \in [Seqs -> Int]
    BY Sizes DEF Init, Places
  <2> QED
    BY <2>1, <2>2, <2>3, Sizes DEF Init, ClockTypeOK
<1>2. RoundInv /\ ThreadInv /\ TripInv /\ StampInv
  BY Sizes DEF Init, RoundInv, ThreadInv, TripInv, StampInv
<1>3. SampleInv
  BY DEF Init, SampleInv, Sample, Empty
<1> QED
  BY <1>1, <1>2, <1>3 DEF ClockInv

LEMMA NetDelayType ==
  ASSUME NEW a \in Int, NEW b \in Int, NEW c \in Int, NEW d \in Int
  PROVE  NetDelay(a, b, c, d) \in Ints /\ Offset(a, b, c, d) \in Ints
<1>1. time_diff(a, d) - time_diff(b, c) \in Int
  BY DEF time_diff
<1>2. time_diff(a, b) + time_diff(d, c) \in Int
  BY DEF time_diff
<1>3. TruncDiv(time_diff(a, b) + time_diff(d, c), 2) \in Int
  BY <1>2, Half
<1> QED
  BY <1>1, <1>3, ToIntType DEF NetDelay, Offset

(* Every step keeps the types.                                             *)

LEMMA FinalType ==
  ASSUME ClockTypeOK, NEW p \in Packets
  PROVE  FinalClock(p) \in Int
<1>1. US \in Nat /\ US > 0 /\ SplitAt \in Nat /\ SplitAt > 0 /\ SLEEPTIME \in Nat
  BY ClockAssumption DEF SplitAt
<1>2. /\ p.networkdelay \in Int /\ p.mastertime \in Int /\ p.t1 \in Int /\ p.t4 \in Int
      /\ p.t2 \in Int /\ p.oldseqnum \in Seqs
  BY ClockAssumption DEF Packets, Ints, INT_MAX
<1>3. \A a \in Int : TruncDiv(a, SplitAt) \in Int
  BY <1>1, DivType DEF TruncDiv
<1>4. sectoadd(p) \in Int
  BY <1>2, <1>3 DEF sectoadd
<1>5. usectoadd(p) \in Int
  BY <1>1, <1>2, <1>3 DEF usectoadd, TruncMod
<1>6. \A a \in Int : ToInt(a) \in Int
  BY ToIntType, ClockAssumption DEF Ints, INT_MAX
<1>7. ssendtime[p.oldseqnum] \in Int /\ srecvtime[cur] \in Int /\ now \in Int /\ lead \in Int
  BY <1>2 DEF ClockTypeOK
<1>8. calcdelayerror(p) \in Int
  BY <1>2, <1>6, <1>7 DEF calcdelayerror, time_diff
<1>9. p.mastertime \div US \in Int /\ p.mastertime % US \in Int
  BY <1>1, <1>2
<1>10. FinalSec(p) \in Int
  BY <1>1, <1>4, <1>9, Half DEF FinalSec
<1>11. recvjitter \in Int
  BY <1>6, <1>7 DEF recvjitter, time_diff
<1>12. FinalUsec(p) \in Int
  BY <1>5, <1>8, <1>9, <1>11, Half DEF FinalUsec
<1> QED
  BY <1>1, <1>10, <1>12 DEF FinalClock

LEMMA MeasuredType ==
  ASSUME ClockTypeOK
  PROVE  Measured(recv_pkt, recv_pkt.oldseqnum) \in Packets
<1> DEFINE q == recv_pkt.oldseqnum
<1>1. /\ q \in Seqs /\ recv_pkt.t2 \in Int /\ recv_pkt.t3 \in Int
      /\ sendtime[q] \in Nat /\ recvtime[q] \in Nat /\ now \in Nat
  BY DEF ClockTypeOK, Packets
<1>2. /\ NetDelay(sendtime[q], recv_pkt.t2, recv_pkt.t3, recvtime[q]) \in Ints
      /\ Offset(sendtime[q], recv_pkt.t2, recv_pkt.t3, recvtime[q]) \in Ints
  BY <1>1, NetDelayType
<1> QED
  BY <1>1, <1>2 DEF Measured, Packets

LEMMA MasterTypes ==
  ASSUME ClockTypeOK, RoundInv, MasterSends \/ NothingThere \/ Look \/ calcnetdelay
  PROVE  ClockTypeOK'
<1> USE DEF others, masterV, slaveV, wayDown, wayUp, lists
<1>1. ASSUME mpc # "send", NextRound
      PROVE  seqnum' \in 0..MaxRounds /\ wake' \in Nat /\ mpc' \in {"send", "look", "calc"}
  <2>1. seqnum \in 0..(MaxRounds - 1) /\ MaxRounds \in Nat
    BY <1>1, ClockAssumption DEF RoundInv, Seqs
  <2>2. wake' \in Nat
    BY <1>1, Sizes DEF NextRound, ClockTypeOK
  <2> QED
    BY <1>1, <2>1, <2>2 DEF NextRound
<1>2. CASE MasterSends
  <2>1. now' \in Nat
    BY <1>2, Sizes DEF MasterSends, ClockTypeOK
  <2>2. pkt' \in [Seqs -> Packets] /\ where' \in [Seqs -> Places]
    BY <1>2, Sizes DEF MasterSends, ClockTypeOK, Places
  <2>3. sent' \in [Seqs -> Nat] /\ sendtime' \in [Seqs -> Nat]
    BY <1>2, <2>1 DEF MasterSends, ClockTypeOK
  <2> QED
    BY <1>2, <2>1, <2>2, <2>3 DEF MasterSends, ClockTypeOK
<1>3. CASE NothingThere
  BY <1>1, <1>3 DEF NothingThere, ClockTypeOK
<1>4. CASE Look
  <2>1. PICK k \in Seqs :
          /\ where[k] = "master"
          /\ where' = [where EXCEPT ![k] = "taken"]
          /\ recvtime' = [recvtime EXCEPT ![k] = back[k]]
          /\ recv_pkt' = [pkt[k] EXCEPT !.oldseqnum = IF pkt[k].setclock THEN @ ELSE k]
          /\ IF pkt[k].setclock
               THEN NextRound
               ELSE mpc' = "calc" /\ UNCHANGED <<seqnum, wake>>
    BY <1>4 DEF Look
  <2>2. recv_pkt' \in Packets
    BY <2>1 DEF ClockTypeOK, Packets
  <2>3. where' \in [Seqs -> Places] /\ recvtime' \in [Seqs -> Nat]
    BY <2>1 DEF ClockTypeOK, Places
  <2>4. /\ seqnum' \in 0..MaxRounds /\ wake' \in Nat
        /\ mpc' \in {"send", "look", "calc"}
    BY <1>1, <1>4, <2>1 DEF Look, ClockTypeOK
  <2> QED
    BY <1>4, <2>2, <2>3, <2>4 DEF Look, ClockTypeOK
<1>5. CASE calcnetdelay
  <2>1. recv_pkt' \in Packets
    BY <1>5, MeasuredType DEF calcnetdelay
  <2> QED
    BY <1>1, <1>5, <2>1 DEF calcnetdelay, ClockTypeOK
<1> QED
  BY <1>2, <1>3, <1>4, <1>5

LEMMA SlaveTypes ==
  ASSUME ClockTypeOK, Read \/ Answer \/ updatetime
  PROVE  ClockTypeOK'
<1> USE DEF others, masterV, slaveV, wayDown, wayUp, lists
<1>1. CASE Read
  <2>1. PICK k \in Seqs, h \in Handlings :
          /\ where' = [where EXCEPT ![k] = "read"]
          /\ srecvtime' = [srecvtime EXCEPT ![k] = arrived[k] + leadThen[k]]
          /\ cur' = k
          /\ spc' = IF pkt[k].setclock THEN "update" ELSE "answer"
          /\ now' = now + h
    BY <1>1 DEF Read
  <2>2. now' \in Nat /\ arrived[k] + leadThen[k] \in Int
    BY <2>1, Sizes DEF ClockTypeOK
  <2>3. /\ where' \in [Seqs -> Places] /\ srecvtime' \in [Seqs -> Int]
        /\ spc' \in {"select", "answer", "update"}
    BY <2>1, <2>2 DEF ClockTypeOK, Places
  <2> QED
    BY <1>1, <2>1, <2>2, <2>3 DEF Read, ClockTypeOK
<1>2. ASSUME NEW p \in Packets, SendBack(p), now' \in Nat, lead' \in Int, prevOffset' \in Ints
      PROVE  ClockTypeOK'
  <2>1. now \in Nat /\ now' + lead' \in Int /\ cur \in Seqs
    BY <1>2 DEF ClockTypeOK
  <2>2. pkt' \in [Seqs -> Packets] /\ where' \in [Seqs -> Places]
    BY <1>2, <2>1 DEF SendBack, ClockTypeOK, Places
  <2>3. asked' \in [Seqs -> Nat] /\ replied' \in [Seqs -> Nat]
    BY <1>2, <2>1 DEF SendBack, ClockTypeOK
  <2>4. leadBack' \in [Seqs -> Int] /\ ssendtime' \in [Seqs -> Int]
    BY <1>2, <2>1 DEF SendBack, ClockTypeOK
  <2> QED
    BY <1>2, <2>2, <2>3, <2>4 DEF SendBack, ClockTypeOK
<1>3. CASE Answer
  <2> DEFINE p == [Empty EXCEPT !.t2 = srecvtime[cur], !.t3 = now + lead]
  <2>1. srecvtime[cur] \in Int /\ now + lead \in Int
    BY DEF ClockTypeOK
  <2>2. p \in Packets
    BY <2>1, Sizes DEF Packets
  <2>3. now' \in Nat /\ lead' \in Int /\ prevOffset' \in Ints
    BY <1>3, Sizes DEF Answer, ClockTypeOK
  <2>4. SendBack(p)
    BY <1>3 DEF Answer
  <2> QED
    BY <1>2, <2>2, <2>3, <2>4
<1>4. CASE updatetime
  <2>1. pkt[cur] \in Packets
    BY DEF ClockTypeOK
  <2>2. now' \in Nat /\ lead' \in Int /\ prevOffset' \in Ints
    <3>1. FinalClock(pkt[cur]) \in Int
      BY <2>1, FinalType
    <3>2. pkt[cur].offset \in Ints
      BY <2>1 DEF Packets
    <3> QED
      BY <1>4, <3>1, <3>2 DEF updatetime, ClockTypeOK
  <2>3. SendBack(pkt[cur])
    BY <1>4 DEF updatetime
  <2> QED
    BY <1>2, <2>1, <2>2, <2>3
<1> QED
  BY <1>1, <1>3, <1>4

LEMMA WayTypes ==
  ASSUME ClockTypeOK, Overwrite \/ \E k \in Seqs : ArriveDown(k) \/ ArriveUp(k)
  PROVE  ClockTypeOK'
<1> USE DEF others, masterV, slaveV, wayDown, wayUp, lists
<1>1. CASE Overwrite
  <2>1. foreign' \in 0..MaxForeign /\ now \in Nat /\ now + lead \in Int
    BY <1>1, ClockAssumption DEF Overwrite, ClockTypeOK
  <2>2. sendtime' \in [Seqs -> Nat]
    BY <1>1, <2>1 DEF Overwrite, ClockTypeOK
  <2>3. recvtime' \in [Seqs -> Nat]
    BY <1>1, <2>1 DEF Overwrite, ClockTypeOK
  <2>4. synced' \in BOOLEAN
    BY <1>1 DEF Overwrite, ClockTypeOK
  <2>5. ssendtime' \in [Seqs -> Int] /\ srecvtime' \in [Seqs -> Int]
    BY <1>1, <2>1 DEF Overwrite, ClockTypeOK
  <2> QED
    BY <1>1, <2>1, <2>2, <2>3, <2>4, <2>5 DEF Overwrite, ClockTypeOK
<1>2. CASE \E k \in Seqs : ArriveDown(k)
  <2>1. PICK k \in Seqs : ArriveDown(k)
    BY <1>2
  <2>2. now' \in Nat
    BY <2>1, Sizes DEF ArriveDown, ClockTypeOK
  <2>3. /\ where' \in [Seqs -> Places] /\ arrived' \in [Seqs -> Nat]
        /\ leadThen' \in [Seqs -> Int]
    BY <2>1, <2>2 DEF ArriveDown, ClockTypeOK, Places
  <2> QED
    BY <2>1, <2>2, <2>3 DEF ArriveDown, ClockTypeOK
<1>3. CASE \E k \in Seqs : ArriveUp(k)
  <2>1. PICK k \in Seqs : ArriveUp(k)
    BY <1>3
  <2>2. now' \in Nat
    BY <2>1, Sizes DEF ArriveUp, ClockTypeOK
  <2>3. where' \in [Seqs -> Places] /\ back' \in [Seqs -> Nat]
    BY <2>1, <2>2 DEF ArriveUp, ClockTypeOK, Places
  <2> QED
    BY <2>1, <2>2, <2>3 DEF ArriveUp, ClockTypeOK
<1> QED
  BY <1>1, <1>2, <1>3

LEMMA Types == ClockTypeOK /\ RoundInv /\ Next => ClockTypeOK'
  BY MasterTypes, SlaveTypes, WayTypes DEF Next

-----------------------------------------------------------------------------
(* What has happened to a packet is not changed any more.                  *)

Story(q) == <<sent[q], arrived[q], leadThen[q], asked[q], replied[q], leadBack[q], back[q]>>

LEMMA Kept ==
  ASSUME ClockInv, Next, NEW q \in Seqs, where[q] = "taken"
  PROVE  where'[q] = "taken" /\ Story(q)' = Story(q) /\ pkt'[q] = pkt[q]
<1> USE DEF Story, ClockTypeOK, others, masterV, slaveV, wayDown, wayUp, lists
<1>1. ClockTypeOK /\ RoundInv /\ ThreadInv
  BY DEF ClockInv
<1>2. CASE MasterSends
  <2>1. seqnum \in Seqs /\ where[seqnum] = "unsent"
    BY <1>1, <1>2, Sizes DEF MasterSends, RoundInv
  <2>2. q # seqnum
    BY <2>1
  <2> QED
    BY <1>1, <1>2, <2>2 DEF MasterSends
<1>3. CASE NothingThere \/ Look \/ calcnetdelay
  BY <1>1, <1>3 DEF NothingThere, Look, calcnetdelay
<1>4. CASE Read
  BY <1>1, <1>4 DEF Read
<1>5. CASE Answer \/ updatetime
  <2>1. where[cur] = "read"
    BY <1>1, <1>5 DEF Answer, updatetime, ThreadInv
  <2>2. q # cur
    BY <2>1
  <2>3. PICK p : SendBack(p)
    BY <1>5 DEF Answer, updatetime
  <2> QED
    BY <1>1, <2>2, <2>3 DEF SendBack
<1>6. CASE Overwrite
  BY <1>1, <1>6 DEF Overwrite
<1>7. CASE \E k \in Seqs : ArriveDown(k) \/ ArriveUp(k)
  BY <1>1, <1>7 DEF ArriveDown, ArriveUp
<1> QED
  BY <1>2, <1>3, <1>4, <1>5, <1>6, <1>7 DEF Next

-----------------------------------------------------------------------------
(* Every step keeps the rest.                                              *)

LEMMA Rounds == ClockInv /\ Next => RoundInv'
<1> SUFFICES ASSUME ClockInv, Next PROVE RoundInv'
  OBVIOUS
<1> USE DEF ClockTypeOK, RoundInv, others, masterV, slaveV, wayDown, wayUp, lists
<1>1. ClockTypeOK /\ RoundInv /\ ThreadInv /\ seqnum \in Nat /\ Seqs \subseteq Nat
  BY Sizes DEF ClockInv
<1>2. CASE MasterSends
  BY <1>1, <1>2 DEF MasterSends
<1>3. CASE NothingThere
  BY <1>1, <1>3 DEF NothingThere, NextRound
<1>4. CASE Look
  <2>1. PICK k \in Seqs :
          /\ where[k] = "master"
          /\ where' = [where EXCEPT ![k] = "taken"]
          /\ \/ NextRound
             \/ mpc' = "calc" /\ UNCHANGED seqnum
    BY <1>4 DEF Look
  <2> QED
    BY <1>1, <1>4, <2>1 DEF Look, NextRound
<1>5. CASE calcnetdelay
  BY <1>1, <1>5 DEF calcnetdelay, NextRound
<1>6. CASE Read
  BY <1>1, <1>6 DEF Read
<1>7. CASE Answer \/ updatetime
  <2>1. where[cur] = "read" /\ \E p : SendBack(p)
    BY <1>1, <1>7 DEF Answer, updatetime, ThreadInv
  <2> QED
    BY <1>1, <2>1 DEF SendBack
<1>8. CASE Overwrite
  BY <1>1, <1>8 DEF Overwrite
<1>9. CASE \E k \in Seqs : ArriveDown(k) \/ ArriveUp(k)
  BY <1>1, <1>9 DEF ArriveDown, ArriveUp
<1> QED
  BY <1>2, <1>3, <1>4, <1>5, <1>6, <1>7, <1>8, <1>9 DEF Next

LEMMA Threads == ClockInv /\ Next => ThreadInv'
<1> SUFFICES ASSUME ClockInv, Next PROVE ThreadInv'
  OBVIOUS
<1> USE DEF ClockTypeOK, ThreadInv, others, masterV, slaveV, wayDown, wayUp, lists
<1>1. /\ ClockTypeOK /\ RoundInv /\ ThreadInv /\ Seqs \subseteq Nat
      /\ recv_pkt.oldseqnum \in Seqs
  BY Sizes DEF ClockInv, Packets
<1>2. CASE MasterSends
  <2>1. seqnum \in Seqs /\ where[seqnum] = "unsent" /\ mpc' = "look" /\ ~synced'
    BY <1>1, <1>2 DEF MasterSends, RoundInv
  <2>2. spc # "select" => where'[cur] = "read" /\ (spc = "update" <=> pkt'[cur].setclock)
    BY <1>1, <1>2, <2>1 DEF MasterSends
  <2> QED
    BY <1>1, <1>2, <2>1, <2>2 DEF MasterSends
<1>3. CASE NothingThere
  BY <1>1, <1>3 DEF NothingThere, NextRound
<1>4. CASE Look
  <2>1. PICK k \in Seqs :
          /\ where[k] = "master"
          /\ where' = [where EXCEPT ![k] = "taken"]
          /\ recv_pkt' = [pkt[k] EXCEPT !.oldseqnum = IF pkt[k].setclock THEN @ ELSE k]
          /\ IF pkt[k].setclock THEN NextRound ELSE mpc' = "calc"
    BY <1>4 DEF Look
  <2>2. pkt[k] \in Packets
    BY <1>1
  <2>3. mpc' = "calc" =>
          ~recv_pkt'.setclock /\ recv_pkt'.oldseqnum = k /\ where'[k] = "taken" /\ ~pkt'[k].setclock
    BY <1>1, <1>4, <2>1, <2>2 DEF Look, NextRound, Packets
  <2>4. spc # "select" => where'[cur] = "read"
    BY <1>1, <2>1
  <2> QED
    BY <1>1, <1>4, <2>3, <2>4 DEF Look
<1>5. CASE calcnetdelay
  BY <1>1, <1>5 DEF calcnetdelay, NextRound
<1>6. CASE Read
  <2>1. PICK k \in Seqs :
          /\ where[k] = "slave"
          /\ where' = [where EXCEPT ![k] = "read"]
          /\ srecvtime' = [srecvtime EXCEPT ![k] = arrived[k] + leadThen[k]]
          /\ cur' = k
          /\ spc' = IF pkt[k].setclock THEN "update" ELSE "answer"
    BY <1>6 DEF Read
  <2>2. /\ where'[k] = "read" /\ pkt[k].setclock \in BOOLEAN
        /\ srecvtime'[k] = arrived[k] + leadThen[k]
    BY <1>1, <2>1 DEF Packets
  <2>3. mpc = "calc" => where'[recv_pkt.oldseqnum] = "taken"
    BY <1>1, <2>1
  <2> QED
    BY <1>1, <1>6, <2>1, <2>2, <2>3 DEF Read
<1>7. CASE Answer \/ updatetime
  <2>1. where[cur] = "read" /\ \E p : SendBack(p)
    BY <1>1, <1>7 DEF Answer, updatetime
  <2>2. spc' = "select" /\ UNCHANGED <<shared, mpc, recv_pkt, synced>>
    BY <2>1 DEF SendBack
  <2>3. mpc = "calc" =>
          where'[recv_pkt.oldseqnum] = "taken" /\ pkt'[recv_pkt.oldseqnum] = pkt[recv_pkt.oldseqnum]
    BY <1>1, Kept
  <2> QED
    BY <1>1, <2>2, <2>3
<1>8. CASE Overwrite
  BY <1>1, <1>8 DEF Overwrite
<1>9. CASE \E k \in Seqs : ArriveDown(k) \/ ArriveUp(k)
  <2>1. PICK k \in Seqs : ArriveDown(k) \/ ArriveUp(k)
    BY <1>9
  <2>2. spc # "select" => cur # k /\ where'[cur] = where[cur] /\ leadThen'[cur] = leadThen[cur]
                          /\ arrived'[cur] = arrived[cur]
    BY <1>1, <2>1 DEF ArriveDown, ArriveUp
  <2>3. mpc = "calc" => where'[recv_pkt.oldseqnum] = "taken"
    BY <1>1, Kept
  <2> QED
    BY <1>1, <2>1, <2>2, <2>3 DEF ArriveDown, ArriveUp
<1> QED
  BY <1>2, <1>3, <1>4, <1>5, <1>6, <1>7, <1>8, <1>9 DEF Next

LEMMA Trips == ClockInv /\ Next => TripInv'
<1> SUFFICES ASSUME ClockInv, Next PROVE TripInv'
  OBVIOUS
<1> USE DEF ClockTypeOK, TripInv, Down, Jitter, Up, others, masterV, slaveV, wayDown, wayUp, lists
<1>1. /\ ClockTypeOK /\ RoundInv /\ ThreadInv /\ TripInv /\ Seqs \subseteq Nat
      /\ Ways \subseteq Nat /\ Jitters \subseteq Nat /\ now \in Nat
  BY Sizes DEF ClockInv
<1>2. CASE MasterSends
  <2>1. seqnum \in Seqs /\ now' \in Nat /\ now' >= now
    BY <1>1, <1>2, Sizes DEF MasterSends
  <2>2. where'[seqnum] = "down"
    BY <1>1, <1>2, <2>1 DEF MasterSends
  <2> SUFFICES ASSUME NEW k \in Seqs, k # seqnum
               PROVE  /\ where'[k] \notin {"unsent", "down"} => arrived'[k] - sent'[k] \in Ways
                      /\ where'[k] \in {"slave", "read"} => arrived'[k] <= now'
                      /\ where'[k] \in {"up", "master", "taken"} =>
                           /\ replied'[k] - asked'[k] \in Nat
                           /\ ~pkt'[k].setclock => replied'[k] - asked'[k] \in Jitters
                      /\ where'[k] \in {"master", "taken"} => back'[k] - replied'[k] \in Ways
    BY <2>2
  <2>3. /\ where'[k] = where[k] /\ sent'[k] = sent[k] /\ pkt'[k] = pkt[k]
        /\ UNCHANGED <<arrived, asked, replied, back>>
    BY <1>1, <1>2 DEF MasterSends
  <2>4. arrived[k] \in Nat
    BY <1>1
  <2> QED
    BY <1>1, <2>1, <2>3, <2>4
<1>3. CASE NothingThere \/ calcnetdelay
  BY <1>1, <1>3 DEF NothingThere, calcnetdelay
<1>4. CASE Look
  BY <1>1, <1>4 DEF Look
<1>5. CASE Read
  <2>1. PICK k \in Seqs, h \in Handlings :
          where[k] = "slave" /\ where' = [where EXCEPT ![k] = "read"] /\ now' = now + h
    BY <1>5 DEF Read
  <2>2. now' \in Nat /\ now' >= now
    BY <1>1, <2>1, Sizes
  <2>3. UNCHANGED <<sent, arrived, asked, replied, back, pkt>>
    BY <1>5 DEF Read
  <2> QED
    BY <1>1, <2>1, <2>2, <2>3
<1>6. CASE Answer \/ updatetime
  <2>1. PICK p :
          /\ SendBack(p) /\ now' - now \in Nat /\ now' \in Nat /\ now <= now'
          /\ ~p.setclock => now' - now \in Jitters
    <3>1. CASE Answer
      <4> DEFINE p == [Empty EXCEPT !.t2 = srecvtime[cur], !.t3 = now + lead]
      <4>1. now' - now \in Jitters /\ now' \in Nat /\ now <= now' /\ SendBack(p)
        BY <1>1, <3>1 DEF Answer
      <4> QED
        BY <1>1, <4>1
    <3>2. CASE updatetime
      <4>1. SendBack(pkt[cur]) /\ now' = now
        BY <3>2 DEF updatetime
      <4>2. now' - now \in Nat /\ now' \in Nat /\ now <= now'
        BY <1>1, <4>1
      <4>3. spc = "update"
        BY <3>2 DEF updatetime
      <4>4. pkt[cur].setclock
        BY <1>1, <4>3 DEF ThreadInv
      <4> QED
        BY <4>1, <4>2, <4>4
    <3> QED
      BY <1>6, <3>1, <3>2
  <2>2. where[cur] = "read" /\ cur \in Seqs
    BY <1>1, <1>6 DEF Answer, updatetime, ThreadInv
  <2>3. /\ pkt'[cur] = p /\ where'[cur] = "up" /\ asked'[cur] = now /\ replied'[cur] = now'
        /\ UNCHANGED <<sent, arrived, back>>
    BY <1>1, <2>1, <2>2 DEF SendBack
  <2>4. \A k \in Seqs : k # cur =>
          /\ pkt'[k] = pkt[k] /\ where'[k] = where[k]
          /\ asked'[k] = asked[k] /\ replied'[k] = replied[k]
    BY <1>1, <2>1 DEF SendBack
  <2>5. /\ arrived'[cur] - sent'[cur] \in Ways
        /\ replied'[cur] - asked'[cur] \in Nat
        /\ ~pkt'[cur].setclock => replied'[cur] - asked'[cur] \in Jitters
    <3>1. arrived[cur] - sent[cur] \in Ways
      BY <1>1, <2>2
    <3>2. replied'[cur] - asked'[cur] = now' - now
      BY <2>3
    <3> QED
      BY <2>1, <2>3, <3>1, <3>2
  <2>6. \A k \in Seqs : arrived[k] <= now => arrived'[k] <= now'
    <3>1. now \in Nat /\ now' \in Nat /\ now <= now'
      BY <1>1, <2>1
    <3>2. \A k \in Seqs : arrived'[k] = arrived[k] /\ arrived[k] \in Nat
      BY <1>1, <2>3
    <3> QED
      BY <3>1, <3>2
  <2> QED
    BY <1>1, <2>2, <2>3, <2>4, <2>5, <2>6
<1>7. CASE Overwrite
  BY <1>1, <1>7 DEF Overwrite
<1>8. CASE \E k \in Seqs : ArriveDown(k)
  <2>1. PICK k \in Seqs, w \in Ways :
          /\ where[k] = "down" /\ where' = [where EXCEPT ![k] = "slave"]
          /\ now' = sent[k] + w /\ now' >= now
          /\ arrived' = [arrived EXCEPT ![k] = now']
          /\ UNCHANGED <<sent, asked, replied, back, pkt>>
    BY <1>8 DEF ArriveDown
  <2>2. now' \in Nat /\ arrived'[k] = now' /\ now' - sent[k] = w /\ where'[k] = "slave"
    BY <1>1, <2>1
  <2>3. \A i \in Seqs : i # k => arrived'[i] = arrived[i] /\ where'[i] = where[i]
    BY <1>1, <2>1
  <2>4. \A i \in Seqs : arrived[i] <= now => arrived[i] <= now'
    BY <1>1, <2>1, <2>2
  <2> QED
    BY <1>1, <2>1, <2>2, <2>3, <2>4
<1>9. CASE \E k \in Seqs : ArriveUp(k)
  <2>1. PICK k \in Seqs, w \in Ways :
          /\ where[k] = "up" /\ where' = [where EXCEPT ![k] = "master"]
          /\ now' = replied[k] + w /\ now' >= now
          /\ back' = [back EXCEPT ![k] = now']
          /\ UNCHANGED <<sent, arrived, asked, replied, pkt>>
    BY <1>9 DEF ArriveUp
  <2>2. now' \in Nat /\ back'[k] - replied[k] = w
    BY <1>1, <2>1
  <2>3. \A i \in Seqs : i # k => back'[i] = back[i] /\ where'[i] = where[i]
    BY <1>1, <2>1
  <2>4. \A i \in Seqs : arrived[i] <= now => arrived[i] <= now'
    BY <1>1, <2>1, <2>2
  <2> QED
    BY <1>1, <2>1, <2>2, <2>3, <2>4
<1> QED
  BY <1>2, <1>3, <1>4, <1>5, <1>6, <1>7, <1>8, <1>9 DEF Next

LEMMA Stamps == ClockInv /\ Next => StampInv'
<1> SUFFICES ASSUME ClockInv, Next PROVE StampInv'
  OBVIOUS
<1> USE DEF ClockTypeOK, StampInv, Answered, others, masterV, slaveV, wayDown, wayUp, lists
<1>1. /\ ClockTypeOK /\ ThreadInv /\ StampInv /\ Seqs \subseteq Nat
      /\ recv_pkt.oldseqnum \in Seqs
  BY Sizes DEF ClockInv, Packets
<1> DEFINE r == recv_pkt.oldseqnum
<1>2. ASSUME mpc = "calc"
      PROVE  /\ asked'[r] = asked[r] /\ leadBack'[r] = leadBack[r]
             /\ arrived'[r] = arrived[r] /\ leadThen'[r] = leadThen[r]
  <2>1. where[r] = "taken"
    BY <1>1, <1>2 DEF ThreadInv
  <2> QED
    BY <1>1, <2>1, Kept DEF Story
<1>3. CASE MasterSends
  <2>1. seqnum \in Seqs /\ mpc' = "look"
    BY <1>3 DEF MasterSends
  <2>2. where'[seqnum] = "down" /\ sendtime'[seqnum] = sent'[seqnum]
    BY <1>1, <1>3, <2>1 DEF MasterSends
  <2>3. \A k \in Seqs : k # seqnum =>
          /\ where'[k] = where[k] /\ pkt'[k] = pkt[k]
          /\ sendtime'[k] = sendtime[k] /\ sent'[k] = sent[k]
    BY <1>1, <1>3 DEF MasterSends
  <2>4. UNCHANGED <<shared, recvtime, back, asked, leadBack, arrived, leadThen>>
    BY <1>3 DEF MasterSends
  <2> QED
    BY <1>1, <2>1, <2>2, <2>3, <2>4
<1>4. CASE NothingThere
  BY <1>1, <1>4 DEF NothingThere, NextRound
<1>5. CASE Look
  <2>1. PICK k \in Seqs :
          /\ where[k] = "master"
          /\ where' = [where EXCEPT ![k] = "taken"]
          /\ recvtime' = [recvtime EXCEPT ![k] = back[k]]
          /\ recv_pkt' = [pkt[k] EXCEPT !.oldseqnum = IF pkt[k].setclock THEN @ ELSE k]
          /\ IF pkt[k].setclock THEN NextRound ELSE mpc' = "calc"
    BY <1>5 DEF Look
  <2>2. UNCHANGED <<shared, pkt, sent, sendtime, back, asked, leadBack, arrived, leadThen>>
    BY <1>5 DEF Look
  <2>3. pkt[k] \in Packets
    BY <1>1
  <2>4. mpc' = "calc" => /\ ~pkt[k].setclock /\ recv_pkt'.oldseqnum = k
                        /\ recv_pkt'.t2 = pkt[k].t2 /\ recv_pkt'.t3 = pkt[k].t3
    BY <2>1, <2>3 DEF NextRound, Packets
  <2>5. mpc' = "calc" => Answered(recv_pkt', recv_pkt'.oldseqnum)
    BY <1>1, <2>1, <2>4
  <2>6. \A i \in Seqs : where'[i] \in {"up", "master"} => where'[i] = where[i]
    BY <1>1, <2>1
  <2>7. \A i \in Seqs : where'[i] # "unsent" => where[i] # "unsent"
    BY <1>1, <2>1
  <2>8. \A i \in Seqs : where'[i] = "taken" =>
          recvtime'[i] = back[i] \/ (where[i] = "taken" /\ recvtime'[i] = recvtime[i])
    BY <1>1, <2>1
  <2> QED
    BY <1>1, <2>2, <2>5, <2>6, <2>7, <2>8
<1>6. CASE calcnetdelay
  BY <1>1, <1>6 DEF calcnetdelay, NextRound
<1>7. CASE Read
  <2>1. UNCHANGED <<shared, mpc, recv_pkt, pkt, sent, sendtime, recvtime, back, asked, leadBack,
                    arrived, leadThen>>
    BY <1>7 DEF Read
  <2>2. \A i \in Seqs : where'[i] # where[i] => where[i] = "slave" /\ where'[i] = "read"
    BY <1>1, <1>7 DEF Read
  <2> QED
    BY <1>1, <2>1, <2>2
<1>8. CASE Answer \/ updatetime
  <2>1. PICK p :
          /\ SendBack(p)
          /\ ~p.setclock => /\ p.t3 = now + lead'
                            /\ shared = {} => p.t2 = arrived[cur] + leadThen[cur]
    <3>1. CASE Answer
      <4> DEFINE p == [Empty EXCEPT !.t2 = srecvtime[cur], !.t3 = now + lead]
      <4>1. SendBack(p) /\ lead' = lead /\ spc = "answer"
        BY <3>1 DEF Answer
      <4>2. p.t3 = now + lead /\ p.t2 = srecvtime[cur]
        BY DEF Empty
      <4>3. shared = {} => srecvtime[cur] = arrived[cur] + leadThen[cur]
        BY <1>1, <4>1 DEF ThreadInv
      <4> QED
        BY <4>1, <4>2, <4>3
    <3>2. CASE updatetime
      <4>1. SendBack(pkt[cur]) /\ spc = "update"
        BY <3>2 DEF updatetime
      <4>2. pkt[cur].setclock
        BY <1>1, <4>1 DEF ThreadInv
      <4> QED
        BY <4>1, <4>2
    <3> QED
      BY <1>8, <3>1, <3>2
  <2>2. cur \in Seqs /\ where[cur] = "read"
    BY <1>1, <1>8 DEF Answer, updatetime, ThreadInv
  <2>3. UNCHANGED <<shared, mpc, recv_pkt, sent, sendtime, recvtime, back, arrived, leadThen>>
    BY <2>1 DEF SendBack
  <2>4. /\ pkt'[cur] = p /\ where'[cur] = "up" /\ asked'[cur] = now /\ leadBack'[cur] = lead'
    BY <1>1, <2>1 DEF SendBack
  <2>5. \A k \in Seqs : k # cur =>
          /\ pkt'[k] = pkt[k] /\ where'[k] = where[k]
          /\ asked'[k] = asked[k] /\ leadBack'[k] = leadBack[k]
    BY <1>1, <2>1 DEF SendBack
  <2>6. ~pkt'[cur].setclock =>
          /\ pkt'[cur].t3 = asked'[cur] + leadBack'[cur]
          /\ shared' = {} => pkt'[cur].t2 = arrived'[cur] + leadThen'[cur]
    BY <2>1, <2>3, <2>4
  <2> QED
    BY <1>1, <1>2, <2>2, <2>3, <2>4, <2>5, <2>6
<1>9. CASE Overwrite
  <2>1. UNCHANGED <<shared, mpc, recv_pkt, pkt, where, sent, back, asked, leadBack, arrived, leadThen>>
    BY <1>9 DEF Overwrite
  <2>2. shared # {}
    BY <1>9 DEF Overwrite
  <2> QED
    BY <1>1, <2>1, <2>2
<1>10. CASE \E k \in Seqs : ArriveDown(k)
  <2>1. PICK k \in Seqs : ArriveDown(k)
    BY <1>10
  <2>2. UNCHANGED <<shared, mpc, recv_pkt, pkt, sent, sendtime, recvtime, back, asked, leadBack>>
    BY <2>1 DEF ArriveDown
  <2>3. where[k] = "down" /\ where'[k] = "slave"
    BY <1>1, <2>1 DEF ArriveDown
  <2>4. \A i \in Seqs : i # k =>
          where'[i] = where[i] /\ arrived'[i] = arrived[i] /\ leadThen'[i] = leadThen[i]
    BY <1>1, <2>1 DEF ArriveDown
  <2> QED
    BY <1>1, <1>2, <2>2, <2>3, <2>4
<1>11. CASE \E k \in Seqs : ArriveUp(k)
  <2>1. PICK k \in Seqs : ArriveUp(k)
    BY <1>11
  <2>2. UNCHANGED <<shared, mpc, recv_pkt, pkt, sent, sendtime, recvtime, asked, leadBack, arrived,
                    leadThen>>
    BY <2>1 DEF ArriveUp
  <2>3. where[k] = "up" /\ where'[k] = "master"
    BY <1>1, <2>1 DEF ArriveUp
  <2>4. \A i \in Seqs : i # k => where'[i] = where[i] /\ back'[i] = back[i]
    BY <1>1, <2>1 DEF ArriveUp
  <2> QED
    BY <1>1, <1>2, <2>2, <2>3, <2>4
<1> QED
  BY <1>3, <1>4, <1>5, <1>6, <1>7, <1>8, <1>9, <1>10, <1>11 DEF Next

(* The stamps of the exchange that has just ended make a sample.           *)
LEMMA NewSample ==
  ASSUME ClockInv, mpc = "calc"
  PROVE  LET m == Measured(recv_pkt, recv_pkt.oldseqnum) IN Sample(m)
<1> DEFINE q == recv_pkt.oldseqnum
           m == Measured(recv_pkt, q)
<1>1. q \in Seqs /\ where[q] = "taken"
  BY DEF ClockInv, ClockTypeOK, Packets, ThreadInv
<1>2. Answered(recv_pkt, q)
  BY DEF ClockInv, StampInv
<1>3. shared = {} => sendtime[q] = sent[q] /\ recvtime[q] = back[q]
  BY <1>1 DEF ClockInv, StampInv
<1>4. /\ m.oldseqnum = q /\ m.t1 = sendtime[q] /\ m.t2 = recv_pkt.t2 /\ m.t3 = recv_pkt.t3
      /\ m.t4 = recvtime[q]
      /\ m.networkdelay = NetDelay(sendtime[q], recv_pkt.t2, recv_pkt.t3, recvtime[q])
      /\ m.offset = Offset(sendtime[q], recv_pkt.t2, recv_pkt.t3, recvtime[q])
  BY DEF Measured
<1> HIDE DEF m, q
<1>5. Sample(m)
  BY <1>1, <1>2, <1>3, <1>4 DEF Sample, Answered, OwnStamps
<1> QED
  BY <1>5 DEF m, q

LEMMA Samples == ClockInv /\ Next => SampleInv'
<1> SUFFICES ASSUME ClockInv, Next PROVE SampleInv'
  OBVIOUS
<1> USE DEF ClockTypeOK, others, masterV, slaveV, wayDown, wayUp, lists
<1>1. ClockTypeOK /\ ThreadInv /\ SampleInv
  BY DEF ClockInv
<1>2. shared' = shared
  BY DEF Next, MasterSends, NothingThere, Look, calcnetdelay, Read, Answer, updatetime, SendBack,
     Overwrite, ArriveDown, ArriveUp
<1> DEFINE Later(p) ==
      p.setclock =>
        /\ where'[p.oldseqnum] = "taken"
        /\ p.t3 = asked'[p.oldseqnum] + leadBack'[p.oldseqnum]
        /\ p.networkdelay = NetDelay(p.t1, p.t2, p.t3, p.t4)
        /\ p.offset = Offset(p.t1, p.t2, p.t3, p.t4)
        /\ shared' = {} =>
             /\ p.t1 = sent'[p.oldseqnum]
             /\ p.t2 = arrived'[p.oldseqnum] + leadThen'[p.oldseqnum]
             /\ p.t4 = back'[p.oldseqnum]
<1>3. ASSUME NEW p \in Packets, Sample(p) PROVE Later(p)
  <2>1. CASE p.setclock
    <3>1. p.oldseqnum \in Seqs /\ where[p.oldseqnum] = "taken"
      BY <1>3, <2>1 DEF Sample, Packets
    <3>2. where'[p.oldseqnum] = "taken" /\ Story(p.oldseqnum)' = Story(p.oldseqnum)
      BY <3>1, Kept
    <3> QED
      BY <1>2, <1>3, <2>1, <3>2 DEF Story, Sample, OwnStamps
  <2> QED
    BY <2>1
<1>4. Later(recv_pkt) /\ \A k \in Seqs : Later(pkt[k])
  BY <1>1, <1>3 DEF SampleInv
<1>5. ASSUME NEW p, p.setclock = FALSE PROVE Later(p)
  BY <1>5
<1>6. Later(recv_pkt') /\ \A k \in Seqs : Later(pkt'[k])
  <2> HIDE DEF Later
  <2>1. CASE MasterSends
    <3>1. Later(Empty)
      BY <1>5 DEF Empty
    <3>2. recv_pkt' = recv_pkt /\ \A k \in Seqs : pkt'[k] \in {pkt[k], recv_pkt, Empty}
      BY <1>1, <2>1 DEF MasterSends
    <3> QED
      BY <1>4, <3>1, <3>2
  <2>2. CASE NothingThere \/ Read \/ Overwrite \/ \E k \in Seqs : ArriveDown(k) \/ ArriveUp(k)
    <3>1. recv_pkt' = recv_pkt /\ pkt' = pkt
      BY <2>2 DEF NothingThere, Read, Overwrite, ArriveDown, ArriveUp
    <3> QED
      BY <1>4, <3>1
  <2>3. CASE Look
    <3>1. pkt' = pkt
      BY <2>3 DEF Look
    <3>2. PICK k \in Seqs :
            recv_pkt' = [pkt[k] EXCEPT !.oldseqnum = IF pkt[k].setclock THEN @ ELSE k]
      BY <2>3 DEF Look
    <3>3. pkt[k] \in Packets
      BY <1>1
    <3>4. CASE pkt[k].setclock
      <4>1. recv_pkt' = [pkt[k] EXCEPT !.oldseqnum = pkt[k].oldseqnum]
        BY <3>2, <3>4
      <4>2. recv_pkt' = pkt[k]
        BY <3>3, <4>1 DEF Packets
      <4> QED
        BY <1>4, <3>1, <4>2
    <3>5. CASE ~pkt[k].setclock
      <4>1. recv_pkt'.setclock = FALSE
        BY <3>2, <3>3, <3>5 DEF Packets
      <4> QED
        BY <1>4, <1>5, <3>1, <4>1
    <3> QED
      BY <3>4, <3>5
  <2>4. CASE calcnetdelay
    <3>1. pkt' = pkt /\ recv_pkt' = Measured(recv_pkt, recv_pkt.oldseqnum) /\ mpc = "calc"
      BY <2>4 DEF calcnetdelay
    <3>2. Sample(Measured(recv_pkt, recv_pkt.oldseqnum))
      BY <3>1, NewSample
    <3>3. Measured(recv_pkt, recv_pkt.oldseqnum) \in Packets
      BY <1>1, MeasuredType
    <3> QED
      BY <1>3, <1>4, <3>1, <3>2, <3>3
  <2>5. CASE Answer
    <3> DEFINE p == [Empty EXCEPT !.t2 = srecvtime[cur], !.t3 = now + lead]
    <3>1. p.setclock = FALSE
      BY DEF Empty
    <3>2. Later(p)
      BY <1>5, <3>1
    <3>3. SendBack(p)
      BY <2>5 DEF Answer
    <3> HIDE DEF p
    <3>4. recv_pkt' = recv_pkt /\ \A k \in Seqs : pkt'[k] \in {pkt[k], p}
      BY <1>1, <3>3 DEF SendBack
    <3> QED
      BY <1>4, <3>2, <3>4
  <2>6. CASE updatetime
    <3>1. SendBack(pkt[cur])
      BY <2>6 DEF updatetime
    <3>2. recv_pkt' = recv_pkt /\ \A k \in Seqs : pkt'[k] = pkt[k]
      BY <1>1, <3>1 DEF SendBack
    <3> QED
      BY <1>4, <3>2
  <2> QED
    BY <2>1, <2>2, <2>3, <2>4, <2>5, <2>6 DEF Next
<1> QED
  BY <1>6 DEF SampleInv, Sample, OwnStamps

LEMMA StutterClock == ClockInv /\ UNCHANGED vars => ClockInv'
  BY DEF vars, others, masterV, slaveV, wayDown, wayUp, lists, ClockInv, ClockTypeOK, RoundInv,
     ThreadInv, TripInv, Down, Jitter, Up, StampInv, Answered, SampleInv, Sample, OwnStamps

(* The inductive invariant holds in every state.                           *)
THEOREM ClockInvariance == Spec => []ClockInv
<1>1. ClockInv /\ [Next]_vars => ClockInv'
  BY Types, Rounds, Threads, Trips, Stamps, Samples, StutterClock DEF ClockInv
<1> QED
  BY <1>1, InitClock, PTL DEF Spec

(* What is kept in an int fits in one, and every variable has its type.    *)
THEOREM ClockTypeCorrect == Spec => []ClockTypeOK
  BY ClockInvariance, PTL DEF ClockInv

-----------------------------------------------------------------------------
(* What the stamps of an exchange say of the two clocks.                   *)

LEMMA PacketTypes ==
  ASSUME ClockTypeOK, NEW q \in Seqs
  PROVE  /\ sent[q] \in Int /\ arrived[q] \in Int /\ asked[q] \in Int /\ replied[q] \in Int
         /\ back[q] \in Int /\ leadThen[q] \in Int /\ leadBack[q] \in Int
         /\ ssendtime[q] \in Int
         /\ Down(q) \in Int /\ Up(q) \in Int /\ Jitter(q) \in Int
         /\ Skew(q) \in Int /\ RoundTrip(q) \in Int
  BY DEF ClockTypeOK, Down, Up, Jitter, Skew, RoundTrip

LEMMA Stamped ==
  ASSUME ClockTypeOK, NEW p \in Packets, p.setclock, Sample(p), OwnStamps(p),
         SteadyClock(p.oldseqnum)
  PROVE  LET q == p.oldseqnum IN
         /\ time_diff(p.t1, p.t2) + time_diff(p.t4, p.t3) = 2 * leadThen[q] + Skew(q)
         /\ time_diff(p.t1, p.t4) - time_diff(p.t2, p.t3) = RoundTrip(q)
<1> DEFINE q == p.oldseqnum
<1>1. /\ p.t1 = sent[q] /\ p.t2 = arrived[q] + leadThen[q] /\ p.t4 = back[q]
      /\ p.t3 = asked[q] + leadThen[q]
  BY DEF Sample, OwnStamps, SteadyClock
<1>2. q \in Seqs
  BY DEF Packets
<1>3. /\ sent[q] \in Int /\ arrived[q] \in Int /\ asked[q] \in Int /\ replied[q] \in Int
      /\ back[q] \in Int /\ leadThen[q] \in Int
  BY <1>2, PacketTypes
<1> HIDE DEF q
<1>4. /\ time_diff(p.t1, p.t2) + time_diff(p.t4, p.t3) = 2 * leadThen[q] + Skew(q)
      /\ time_diff(p.t1, p.t4) - time_diff(p.t2, p.t3) = RoundTrip(q)
  BY <1>1, <1>3 DEF time_diff, Skew, RoundTrip, Down, Up, Jitter
<1> QED
  BY <1>4 DEF q

(* Whatever else is under way, a measured packet has the stamps of its own *)
(* exchange unless another thread uses the list (ntpapis.c:106), and its   *)
(* offset is then the lead the slave's clock had, but for half of what the *)
(* two ways differ by (ntpapis.c:467).                                     *)
THEOREM OffsetCorrect == Spec => []OffsetRight
<1>1. ASSUME ClockInv PROVE OffsetRight
  <2> DEFINE p == recv_pkt
             q == p.oldseqnum
             twice == 2 * leadThen[q] + Skew(q)
  <2>1. SUFFICES ASSUME p.setclock
                 PROVE  /\ shared = {} => OwnStamps(p)
                        /\ OwnStamps(p) /\ SteadyClock(q) =>
                             /\ p.offset = ToInt(TruncDiv(twice, 2))
                             /\ Magnitude(twice) < 2 * IntRange =>
                                  Magnitude(2 * p.offset - twice) <= 1
    BY DEF OffsetRight
  <2>2. ClockTypeOK /\ p \in Packets /\ q \in Seqs /\ Sample(p)
    BY <1>1 DEF ClockInv, ClockTypeOK, Packets, SampleInv
  <2>3. shared = {} => OwnStamps(p)
    BY <2>1, <2>2 DEF Sample
  <2>4. ASSUME OwnStamps(p), SteadyClock(q)
        PROVE  /\ p.offset = ToInt(TruncDiv(twice, 2))
               /\ Magnitude(twice) < 2 * IntRange => Magnitude(2 * p.offset - twice) <= 1
    <3>1. p.offset = Offset(p.t1, p.t2, p.t3, p.t4)
      BY <2>1, <2>2 DEF Sample
    <3>2. time_diff(p.t1, p.t2) + time_diff(p.t4, p.t3) = twice
      BY <2>1, <2>2, <2>4, Stamped
    <3>3. p.offset = ToInt(TruncDiv(twice, 2))
      BY <3>1, <3>2 DEF Offset
    <3>4. twice \in Int
      BY <2>2, PacketTypes
    <3> HIDE DEF twice
    <3> QED
      BY <3>3, <3>4, HalfFits
  <2> QED
    BY <2>3, <2>4
<1> QED
  BY <1>1, ClockInvariance, PTL

-----------------------------------------------------------------------------
(* A frozen clock.                                                         *)

(* A sample that is taken with the clock as it is does not pass.           *)
LEMMA TakenNow ==
  ASSUME ClockInv, Frozen, mpc = "calc"
  PROVE  Worse(Measured(recv_pkt, recv_pkt.oldseqnum))
<1> DEFINE q == recv_pkt.oldseqnum
           m == Measured(recv_pkt, q)
           twice == 2 * lead + Down(q) - Up(q) - Jitter(q)
<1>1. /\ ClockTypeOK /\ q \in Seqs /\ where[q] = "taken" /\ ~pkt[q].setclock
      /\ m \in Packets /\ Sample(m)
  BY MeasuredType, NewSample DEF ClockInv, ClockTypeOK, Packets, ThreadInv
<1>2. m.setclock /\ m.oldseqnum = q
  BY DEF Measured
<1>3. leadThen[q] = lead /\ leadBack[q] = lead /\ shared = {}
  BY DEF Frozen, AsItIs
<1>4. Down(q) \in Ways /\ Up(q) \in Ways /\ Jitter(q) \in Jitters
  BY <1>1 DEF ClockInv, TripInv
<1>5. /\ Magnitude(twice) < 2 * IntRange - 1
      /\ Magnitude(twice) > 2 * Magnitude(prevOffset) + 1
  BY <1>4 DEF Frozen, WorseFromNow
<1>6. lead \in Int /\ prevOffset \in Ints /\ m.offset \in Ints /\ IntRange \in Nat
  BY <1>1, ClockAssumption DEF ClockTypeOK, Packets
<1>7. Down(q) \in Int /\ Up(q) \in Int /\ Jitter(q) \in Int
  BY <1>1, PacketTypes
<1>8. twice \in Int /\ Magnitude(twice) \in Int
  BY <1>6, <1>7 DEF Magnitude
<1>9. m.offset = Offset(m.t1, m.t2, m.t3, m.t4) /\ OwnStamps(m) /\ SteadyClock(m.oldseqnum)
  BY <1>1, <1>2, <1>3 DEF Sample, SteadyClock
<1> HIDE DEF m
<1>10. time_diff(m.t1, m.t2) + time_diff(m.t4, m.t3) = 2 * leadThen[m.oldseqnum] + Skew(m.oldseqnum)
  BY <1>1, <1>2, <1>9, Stamped
<1>11. 2 * leadThen[m.oldseqnum] + Skew(m.oldseqnum) = twice
  BY <1>2, <1>3, <1>6, <1>7 DEF Skew
<1>12. m.offset = ToInt(TruncDiv(twice, 2))
  BY <1>9, <1>10, <1>11 DEF Offset
<1> HIDE DEF twice
<1>13. Magnitude(twice) < 2 * IntRange
  BY <1>5, <1>6, <1>8
<1>14. /\ Magnitude(2 * m.offset) <= Magnitude(twice)
       /\ Magnitude(2 * m.offset) >= Magnitude(twice) - 1
  BY <1>8, <1>12, <1>13, HalfFits
<1>15. /\ m.offset \in Int /\ m.offset # -IntRange
       /\ Magnitude(m.offset) > Magnitude(prevOffset)
  BY <1>5, <1>6, <1>8, <1>14 DEF Magnitude, Ints, INT_MAX
<1>16. abs(m.offset) = Magnitude(m.offset)
  BY <1>15 DEF abs
<1>17. abs(prevOffset) <= Magnitude(prevOffset) /\ abs(prevOffset) \in Int
  BY <1>6 DEF abs, Magnitude, Ints, INT_MAX
<1>18. Worse(m)
  BY <1>6, <1>15, <1>16, <1>17 DEF Worse, Magnitude, Ints, INT_MAX
<1> QED
  BY <1>18 DEF m

LEMMA FrozenStays ==
  ASSUME ClockInv, Next, Frozen
  PROVE  Frozen' /\ lead' = lead /\ prevOffset' = prevOffset
<1> USE DEF ClockTypeOK, AsItIs, others, masterV, slaveV, wayDown, wayUp, lists
<1>1. /\ ClockTypeOK /\ RoundInv /\ ThreadInv /\ recv_pkt.oldseqnum \in Seqs
      /\ shared = {} /\ \A k \in Seqs : pkt[k] \in Packets
  BY DEF ClockInv, Packets, Frozen
<1>2. lead' = lead /\ prevOffset' = prevOffset
  <2>1. CASE updatetime
    <3>1. pkt[cur].setclock /\ where[cur] = "read" /\ cur \in Seqs
      BY <1>1, <2>1 DEF updatetime, ThreadInv
    <3>2. ~Better(pkt[cur])
      BY <3>1 DEF Frozen, Better, Worse
    <3> QED
      BY <2>1, <3>2 DEF updatetime
  <2>2. CASE Answer
    BY <2>2 DEF Answer
  <2>3. CASE ~(updatetime \/ Answer)
    BY <2>3 DEF Next, MasterSends, NothingThere, Look, calcnetdelay, Read, Overwrite,
       ArriveDown, ArriveUp
  <2> QED
    BY <2>1, <2>2, <2>3
<1>3. shared' = {}
  BY <1>1 DEF Next, MasterSends, NothingThere, Look, calcnetdelay, Read, Answer, updatetime,
     SendBack, Overwrite, ArriveDown, ArriveUp
<1>4. WorseFromNow'
  BY <1>2 DEF Frozen, WorseFromNow
<1> DEFINE Bad(p) == abs(prevOffset) < abs(p.offset)
           Fine(k, p, place, there, thence) ==
             IF p.setclock
               THEN place \in {"down", "slave", "read"} => Bad(p)
               ELSE /\ place \in {"slave", "read"} => there = lead
                    /\ place \in {"up", "master"} => there = lead /\ thence = lead
<1>5. /\ synced => Bad(recv_pkt)
      /\ mpc = "calc" => /\ leadThen[recv_pkt.oldseqnum] = lead
                         /\ leadBack[recv_pkt.oldseqnum] = lead
      /\ \A k \in Seqs : Fine(k, pkt[k], where[k], leadThen[k], leadBack[k])
  BY DEF Frozen, Worse
<1>6. SUFFICES /\ synced' => Bad(recv_pkt')
               /\ mpc' = "calc" => /\ leadThen'[recv_pkt'.oldseqnum] = lead
                                   /\ leadBack'[recv_pkt'.oldseqnum] = lead
               /\ \A k \in Seqs : Fine(k, pkt'[k], where'[k], leadThen'[k], leadBack'[k])
  BY <1>2, <1>3, <1>4 DEF Frozen, Worse
<1>7. mpc = "calc" =>
        /\ leadThen'[recv_pkt.oldseqnum] = leadThen[recv_pkt.oldseqnum]
        /\ leadBack'[recv_pkt.oldseqnum] = leadBack[recv_pkt.oldseqnum]
  <2>1. mpc = "calc" => where[recv_pkt.oldseqnum] = "taken"
    BY <1>1 DEF ThreadInv
  <2> QED
    BY <1>1, <2>1, Kept DEF Story
<1>8. CASE MasterSends
  <2>1. seqnum \in Seqs /\ ~synced' /\ mpc' = "look"
    BY <1>8 DEF MasterSends
  <2>2. where'[seqnum] = "down" /\ pkt'[seqnum] = IF synced THEN recv_pkt ELSE Empty
    BY <1>1, <1>8, <2>1 DEF MasterSends
  <2>3. ~Empty.setclock
    BY DEF Empty
  <2>4. Fine(seqnum, pkt'[seqnum], where'[seqnum], leadThen'[seqnum], leadBack'[seqnum])
    BY <1>5, <2>2, <2>3
  <2>5. \A k \in Seqs : k # seqnum =>
          /\ where'[k] = where[k] /\ pkt'[k] = pkt[k]
          /\ leadThen'[k] = leadThen[k] /\ leadBack'[k] = leadBack[k]
    BY <1>1, <1>8 DEF MasterSends
  <2> HIDE DEF Fine
  <2>6. \A k \in Seqs : Fine(k, pkt'[k], where'[k], leadThen'[k], leadBack'[k])
    BY <1>5, <2>4, <2>5
  <2> QED
    BY <2>1, <2>6
<1>9. CASE NothingThere
  BY <1>5, <1>9 DEF NothingThere, NextRound
<1>10. CASE Look
  <2>1. PICK k \in Seqs :
          /\ where[k] = "master"
          /\ where' = [where EXCEPT ![k] = "taken"]
          /\ recv_pkt' = [pkt[k] EXCEPT !.oldseqnum = IF pkt[k].setclock THEN @ ELSE k]
          /\ IF pkt[k].setclock THEN NextRound ELSE mpc' = "calc"
    BY <1>10 DEF Look
  <2>2. UNCHANGED <<synced, pkt, leadThen, leadBack>> /\ mpc = "look"
    BY <1>10 DEF Look
  <2>3. ~synced'
    BY <1>1, <2>2 DEF ThreadInv
  <2>4. mpc' = "calc" => ~pkt[k].setclock /\ recv_pkt'.oldseqnum = k
    BY <1>1, <2>1 DEF NextRound, Packets
  <2>5. mpc' = "calc" => leadThen[k] = lead /\ leadBack[k] = lead
    BY <1>5, <2>1, <2>4
  <2>6. \A i \in Seqs : where'[i] \in {"down", "slave", "read", "up", "master"} =>
          where'[i] = where[i]
    BY <1>1, <2>1
  <2>7. \A i \in Seqs : Fine(i, pkt'[i], where'[i], leadThen'[i], leadBack'[i])
    BY <1>5, <2>2, <2>6
  <2> HIDE DEF Fine
  <2> QED
    BY <2>2, <2>3, <2>4, <2>5, <2>7
<1>11. CASE calcnetdelay
  <2>1. /\ recv_pkt' = Measured(recv_pkt, recv_pkt.oldseqnum) /\ mpc = "calc" /\ mpc' = "send"
        /\ UNCHANGED <<pkt, where, leadThen, leadBack>>
    BY <1>11 DEF calcnetdelay, NextRound
  <2>2. Bad(recv_pkt')
    BY <2>1, TakenNow DEF Worse
  <2> HIDE DEF Bad, Fine
  <2> QED
    BY <1>5, <2>1, <2>2
<1>12. CASE Read
  <2>1. UNCHANGED <<synced, recv_pkt, mpc, pkt, leadThen, leadBack>>
    BY <1>12 DEF Read
  <2>2. \A i \in Seqs : where'[i] # where[i] => where[i] = "slave" /\ where'[i] = "read"
    BY <1>1, <1>12 DEF Read
  <2> QED
    BY <1>5, <2>1, <2>2
<1>13. CASE Answer \/ updatetime
  <2>1. PICK p : SendBack(p)
    BY <1>13 DEF Answer, updatetime
  <2>2. cur \in Seqs /\ where[cur] = "read"
    BY <1>1, <1>13 DEF Answer, updatetime, ThreadInv
  <2>3. UNCHANGED <<synced, recv_pkt, mpc, leadThen>>
    BY <2>1 DEF SendBack
  <2>4. where'[cur] = "up" /\ leadBack'[cur] = lead'
    BY <1>1, <2>1 DEF SendBack
  <2>5. \A k \in Seqs : k # cur =>
          pkt'[k] = pkt[k] /\ where'[k] = where[k] /\ leadBack'[k] = leadBack[k]
    BY <1>1, <2>1 DEF SendBack
  <2>6. ~pkt'[cur].setclock => leadThen[cur] = lead
    <3>1. CASE Answer
      <4>1. ~pkt[cur].setclock
        BY <1>1, <3>1 DEF Answer, ThreadInv
      <4> QED
        BY <1>5, <2>2, <4>1
    <3>2. CASE updatetime
      <4>1. SendBack(pkt[cur]) /\ pkt[cur].setclock
        BY <1>1, <3>2 DEF updatetime, ThreadInv
      <4>2. pkt'[cur] = pkt[cur]
        BY <1>1, <4>1 DEF SendBack
      <4> QED
        BY <4>1, <4>2
    <3> QED
      BY <1>13, <3>1, <3>2
  <2>7. Fine(cur, pkt'[cur], where'[cur], leadThen'[cur], leadBack'[cur])
    BY <1>2, <2>3, <2>4, <2>6
  <2> HIDE DEF Fine
  <2>8. \A k \in Seqs : Fine(k, pkt'[k], where'[k], leadThen'[k], leadBack'[k])
    BY <1>5, <2>3, <2>5, <2>7
  <2> QED
    BY <1>5, <1>7, <2>3, <2>8
<1>14. CASE Overwrite
  BY <1>1, <1>14 DEF Overwrite
<1>15. CASE \E k \in Seqs : ArriveDown(k)
  <2>1. PICK k \in Seqs : ArriveDown(k)
    BY <1>15
  <2>2. UNCHANGED <<synced, recv_pkt, mpc, pkt, leadBack>>
    BY <2>1 DEF ArriveDown
  <2>3. where[k] = "down" /\ where'[k] = "slave" /\ leadThen'[k] = lead
    BY <1>1, <2>1 DEF ArriveDown
  <2>4. \A i \in Seqs : i # k => where'[i] = where[i] /\ leadThen'[i] = leadThen[i]
    BY <1>1, <2>1 DEF ArriveDown
  <2>5. Fine(k, pkt'[k], where'[k], leadThen'[k], leadBack'[k])
    BY <1>5, <2>2, <2>3
  <2> HIDE DEF Fine
  <2>6. \A i \in Seqs : Fine(i, pkt'[i], where'[i], leadThen'[i], leadBack'[i])
    BY <1>5, <2>2, <2>4, <2>5
  <2> QED
    BY <1>5, <1>7, <2>2, <2>6
<1>16. CASE \E k \in Seqs : ArriveUp(k)
  <2>1. PICK k \in Seqs : ArriveUp(k)
    BY <1>16
  <2>2. UNCHANGED <<synced, recv_pkt, mpc, pkt, leadThen, leadBack>>
    BY <2>1 DEF ArriveUp
  <2>3. \A i \in Seqs : where'[i] # where[i] => where[i] = "up" /\ where'[i] = "master"
    BY <1>1, <2>1 DEF ArriveUp
  <2> QED
    BY <1>5, <2>2, <2>3
<1> QED
  BY <1>8, <1>9, <1>10, <1>11, <1>12, <1>13, <1>14, <1>15, <1>16 DEF Next

(* Once no sample under way passes (ntpapis.c:501), and none can that the  *)
(* clock as it is will give, the clock is never set again, although        *)
(* samples overlap.                                                        *)
THEOREM FrozenCorrect == Spec => FrozenForGood
<1>1. ClockInv /\ [Next]_vars => [Frozen => Frozen' /\ lead' = lead /\ prevOffset' = prevOffset]_vars
  BY FrozenStays
<1> QED
  BY <1>1, ClockInvariance, PTL DEF Spec, FrozenForGood

-----------------------------------------------------------------------------
(* What updatetime sets the clock to.                                      *)

(* The delay in seconds and microseconds, before the halves of both are    *)
(* taken: the half of the seconds is 0 below two of them.                  *)
LEMMA SplitDelay ==
  ASSUME NEW p, NEW n \in Nat, p.networkdelay = n, n < 2 * SplitAt
  PROVE  /\ TruncDiv(sectoadd(p), 2) = 0
         /\ TruncDiv(usectoadd(p), 2) \in Int
         /\ n < SplitAt => 2 * TruncDiv(usectoadd(p), 2) - n \in -1..0
         /\ 2 * TruncDiv(usectoadd(p), 2) - n \in (-1 - SplitAt)..0
<1>1. SplitAt \in Nat /\ SplitAt > 0
  BY ClockAssumption DEF SplitAt
<1>2. sectoadd(p) = n \div SplitAt /\ usectoadd(p) = n - SplitAt * (n \div SplitAt)
  BY <1>1 DEF sectoadd, usectoadd, TruncMod, TruncDiv
<1>3. CASE n < SplitAt
  <2>1. n \div SplitAt = 0
    BY <1>1, <1>3, SmallDiv
  <2>2. SplitAt * 0 = 0
    BY <1>1
  <2>3. sectoadd(p) = 0 /\ usectoadd(p) = n
    BY <1>2, <2>1, <2>2
  <2>4. TruncDiv(0, 2) = 0
    BY DEF TruncDiv
  <2>5. TruncDiv(n, 2) \in Int /\ 2 * TruncDiv(n, 2) \in (n - 1)..n
    BY Half
  <2> QED
    BY <1>1, <2>3, <2>4, <2>5
<1>4. CASE ~(n < SplitAt)
  <2>1. n \div SplitAt = 1
    BY <1>1, <1>4, OnceDiv
  <2>2. SplitAt * 1 = SplitAt
    BY <1>1
  <2>3. sectoadd(p) = 1 /\ usectoadd(p) = n - SplitAt /\ n - SplitAt \in Nat
    BY <1>1, <1>2, <1>4, <2>1, <2>2
  <2>4. TruncDiv(1, 2) = 0
    BY DEF TruncDiv
  <2>5. /\ TruncDiv(n - SplitAt, 2) \in Int
        /\ 2 * TruncDiv(n - SplitAt, 2) \in (n - SplitAt - 1)..(n - SplitAt)
    BY <2>3, Half
  <2> QED
    BY <1>1, <1>4, <2>3, <2>4, <2>5
<1> QED
  BY <1>3, <1>4

(* Jitter and handling cancel out.                                         *)
LEMMA Cancel ==
  ASSUME ClockInv, spc = "update", OwnSetting(pkt[cur]), RoundTrip(pkt[cur].oldseqnum) < IntRange,
         Handling < IntRange
  PROVE  LET p == pkt[cur]
             q == p.oldseqnum
         IN
         /\ p.networkdelay = RoundTrip(q) /\ RoundTrip(q) \in Nat
         /\ calcdelayerror(p) = Jitter(q) /\ Jitter(q) \in Nat
         /\ recvjitter = Handling /\ Handling \in Nat
<1> DEFINE p == pkt[cur]
           q == p.oldseqnum
<1>1. /\ ClockTypeOK /\ cur \in Seqs /\ p \in Packets /\ q \in Seqs /\ Sample(p)
      /\ p.setclock /\ where[cur] = "read"
  BY DEF ClockInv, ClockTypeOK, Packets, SampleInv, ThreadInv
<1>2. where[q] = "taken"
  BY <1>1 DEF Sample
<1>3. Jitter(q) \in Nat /\ Down(q) \in Nat /\ Up(q) \in Nat
  BY <1>1, <1>2, Sizes DEF ClockInv, TripInv
<1>4. RoundTrip(q) \in Nat /\ Jitter(q) <= RoundTrip(q)
  BY <1>3 DEF RoundTrip
<1>5. RoundTrip(q) < IntRange /\ IntRange \in Nat
  BY ClockAssumption
<1>6. RoundTrip(q) \in Ints /\ Jitter(q) \in Ints
  BY <1>3, <1>4, <1>5 DEF Ints, INT_MAX
<1>7. OwnStamps(p) /\ SteadyClock(q) /\ ssendtime[q] = replied[q] + leadBack[q]
  BY DEF OwnSetting
<1>8. p.networkdelay = RoundTrip(q)
  <2>1. time_diff(p.t1, p.t4) - time_diff(p.t2, p.t3) = RoundTrip(q)
    BY <1>1, <1>7, Stamped
  <2>2. p.networkdelay = NetDelay(p.t1, p.t2, p.t3, p.t4)
    BY <1>1 DEF Sample
  <2> QED
    BY <1>6, <2>1, <2>2, ToIntFits DEF NetDelay
<1>9. calcdelayerror(p) = Jitter(q)
  <2>1. /\ p.t1 = sent[q] /\ p.t2 = arrived[q] + leadThen[q] /\ p.t4 = back[q]
        /\ leadBack[q] = leadThen[q]
    BY <1>7 DEF OwnStamps, SteadyClock
  <2>2. /\ sent[q] \in Int /\ arrived[q] \in Int /\ asked[q] \in Int /\ replied[q] \in Int
        /\ back[q] \in Int /\ leadThen[q] \in Int
    BY <1>1, PacketTypes
  <2> HIDE DEF p, q
  <2>3. RoundTrip(q) + time_diff(p.t4, p.t1) + time_diff(p.t2, ssendtime[q]) = Jitter(q)
    BY <1>7, <2>1, <2>2 DEF time_diff, RoundTrip, Down, Up, Jitter
  <2>4. q = p.oldseqnum
    BY DEF q
  <2> QED
    BY <1>6, <1>8, <2>3, <2>4, ToIntFits DEF calcdelayerror
<1>10. recvjitter = Handling /\ Handling \in Nat
  <2>1. arrived[cur] <= now /\ arrived[cur] \in Nat /\ now \in Nat /\ lead \in Int
    BY <1>1 DEF ClockInv, TripInv, ClockTypeOK
  <2>2. srecvtime[cur] = arrived[cur] + lead
    BY DEF OwnSetting
  <2>3. time_diff(srecvtime[cur], now + lead) = Handling
    BY <2>1, <2>2 DEF time_diff, Handling
  <2>4. Handling \in Nat
    BY <2>1 DEF Handling
  <2>5. Handling \in Ints
    BY <1>5, <2>4 DEF Ints, INT_MAX
  <2> QED
    BY <2>3, <2>4, <2>5, ToIntFits DEF recvjitter
<1> QED
  BY <1>3, <1>4, <1>8, <1>9, <1>10

LEMMA Seconds ==
  ASSUME NEW m \in Nat, NEW x \in Int, NEW y \in Nat, NEW u \in Nat, NEW f \in Int,
         m = u * x + f
  PROVE  (x + 0 + y) * u + f = m + y * u
<1>1. (x + 0 + y) * u = u * x + y * u
  OBVIOUS
<1>2. u * x \in Int /\ y * u \in Int
  OBVIOUS
<1> QED
  BY <1>1, <1>2

LEMMA Setting ==
  ASSUME ClockInv, updatetime, Better(pkt[cur]), OwnSetting(pkt[cur]),
         RoundTrip(pkt[cur].oldseqnum) < IntRange, Handling < IntRange
  PROVE  LET p == pkt[cur]
             q == p.oldseqnum
             error == 2 * lead' - (RoundTrip(q) - 2 * Jitter(q) - 2 * Late(p))
         IN
         /\ RoundTrip(q) < SplitAt =>
              IF Due(p) \in 0..(US - 1) THEN error \in -1..0 ELSE lead' = lead
         /\ RoundTrip(q) < 2 * SplitAt /\ lead' # lead => error \in (-1 - SplitAt)..0
<1> DEFINE p == pkt[cur]
           q == p.oldseqnum
           R == RoundTrip(q)
           J == Jitter(q)
           H == Handling
           L == Late(p)
           error == 2 * lead' - (R - 2 * J - 2 * L)
<1>1. spc = "update" /\ lead' = (IF Accepted(p) THEN FinalClock(p) - now ELSE lead)
  BY DEF updatetime
<1>2. /\ p.networkdelay = R /\ R \in Nat
      /\ calcdelayerror(p) = J /\ J \in Nat
      /\ recvjitter = H /\ H \in Nat
  BY <1>1, Cancel
<1>3. /\ p.mastertime \in Nat /\ now \in Nat /\ lead \in Int /\ arrived[cur] \in Nat
      /\ US \in Nat /\ US > 1 /\ SLEEPTIME \in Nat /\ SplitAt \in Nat
  BY ClockAssumption DEF ClockInv, ClockTypeOK, Packets, SplitAt
<1> DEFINE B == TruncDiv(usectoadd(p), 2)
           f == p.mastertime % US
           x == p.mastertime \div US
           nap == SLEEPTIME * US
<1>4. x \in Int /\ f \in Int /\ nap \in Int /\ p.mastertime = US * x + f
  BY <1>3, DivType
<1>5. now = p.mastertime + nap + L + H
  BY <1>3, <1>4 DEF Late, Handling
<1>6. L \in Int
  <2>1. L = (arrived[cur] - p.mastertime) - nap
    BY DEF Late
  <2> HIDE DEF L, p, nap
  <2> QED
    BY <1>3, <1>4, <2>1
<1>7. ASSUME R < 2 * SplitAt
      PROVE  /\ B \in Int
             /\ R < SplitAt => 2 * B - R \in -1..0
             /\ 2 * B - R \in (-1 - SplitAt)..0
             /\ FinalUsec(p) = f + H + B - J
             /\ Accepted(p) => error = 2 * B - R
  <2>1. /\ TruncDiv(sectoadd(p), 2) = 0
        /\ B \in Int
        /\ R < SplitAt => 2 * B - R \in -1..0
        /\ 2 * B - R \in (-1 - SplitAt)..0
    BY <1>2, <1>7, SplitDelay
  <2>2. FinalSec(p) = x + 0 + SLEEPTIME
    BY <2>1 DEF FinalSec
  <2>3. FinalUsec(p) = f + H + B - J
    BY <1>2 DEF FinalUsec
  <2> HIDE DEF p, q, R, J, H, L, B, f, x, nap, error
  <2>4. FinalSec(p) * US + f = p.mastertime + nap
    BY <1>3, <1>4, <2>2, Seconds DEF nap
  <2>5. FinalSec(p) * US \in Int
    BY <1>3, <1>4, <2>2
  <2>6. FinalClock(p) - now = B - J - L
    <3> DEFINE s == FinalSec(p) * US
               m == p.mastertime
    <3>1. FinalClock(p) = s + (f + H + B - J)
      BY <2>3 DEF FinalClock
    <3>2. s + f = m + nap /\ s \in Int /\ m \in Int /\ now = m + nap + L + H
      BY <1>3, <1>5, <2>4, <2>5
    <3> HIDE DEF s, m
    <3>3. (s + (f + H + B - J)) - now = B - J - L
      BY <1>2, <1>4, <1>6, <2>1, <3>2
    <3> QED
      BY <3>1, <3>3
  <2>7. Accepted(p) => lead' = B - J - L
    BY <1>1, <2>6
  <2>8. Accepted(p) => error = 2 * B - R
    BY <1>2, <1>6, <2>1, <2>7 DEF error
  <2> QED
    BY <2>1, <2>3, <2>8
<1>8. ASSUME R < SplitAt
      PROVE  IF Due(p) \in 0..(US - 1) THEN error \in -1..0 ELSE lead' = lead
  <2>1. R < 2 * SplitAt
    BY <1>2, <1>3, <1>8
  <2>2. 2 * B - R \in -1..0 /\ B \in Int /\ FinalUsec(p) = f + H + B - J
    BY <1>7, <1>8, <2>1
  <2>3. Due(p) = f + H + (R \div 2) - J
    BY DEF Due
  <2> HIDE DEF p, q, R, J, H, L, B, f, x, nap, error
  <2>4. B = R \div 2
    BY <1>2, <2>2
  <2>5. Accepted(p) <=> Due(p) \in 0..(US - 1)
    BY <2>2, <2>3, <2>4 DEF Accepted
  <2> QED
    BY <1>1, <1>7, <2>1, <2>2, <2>5
<1>9. ASSUME R < 2 * SplitAt, lead' # lead PROVE error \in (-1 - SplitAt)..0
  <2> HIDE DEF p, q, R, J, H, L, B, f, x, nap, error
  <2>1. Accepted(p)
    BY <1>1, <1>9
  <2> QED
    BY <1>7, <1>9, <2>1
<1> QED
  BY <1>8, <1>9

(* What a setting of the clock does (ntpapis.c:506-522) when the stamps    *)
(* are their packets' own: it leaves the clock off by half the round trip  *)
(* less the jitter and what the packet is late by, or by up to half a      *)
(* second more where that is lost to rounding (ntpapis.c:511); or it is    *)
(* refused, when the microseconds are not part of a second.                *)
THEOREM SetClockCorrect == Spec => SetClockRight
<1>1. ASSUME ClockInv, [Next]_vars, Sets, OwnSetting(pkt[cur]),
             RoundTrip(pkt[cur].oldseqnum) < IntRange, Handling < IntRange
      PROVE  LET p == pkt[cur]
                 q == p.oldseqnum
                 error == 2 * lead' - (RoundTrip(q) - 2 * Jitter(q) - 2 * Late(p))
             IN
             /\ RoundTrip(q) < SplitAt =>
                  IF Due(p) \in 0..(US - 1) THEN error \in -1..0 ELSE lead' = lead
             /\ RoundTrip(q) < 2 * SplitAt /\ lead' # lead => error \in (-1 - SplitAt)..0
  <2>1. updatetime
    <3>1. spc = "update" /\ spc' # spc
      BY <1>1 DEF Sets
    <3>2. Next
      BY <1>1, <3>1 DEF vars, slaveV
    <3> QED
      BY <3>1, <3>2 DEF Next, MasterSends, NothingThere, Look, calcnetdelay, Read, Answer,
         Overwrite, ArriveDown, ArriveUp, slaveV
  <2> QED
    BY <1>1, <2>1, Setting DEF Sets
<1>2. ClockInv /\ [Next]_vars =>
        [LET p == pkt[cur]
             q == p.oldseqnum
             error == 2 * lead' - (RoundTrip(q) - 2 * Jitter(q) - 2 * Late(p))
         IN
         Sets /\ OwnSetting(p) /\ RoundTrip(q) < IntRange /\ Handling < IntRange =>
           /\ RoundTrip(q) < SplitAt =>
                IF Due(p) \in 0..(US - 1) THEN error \in -1..0 ELSE lead' = lead
           /\ RoundTrip(q) < 2 * SplitAt /\ lead' # lead => error \in (-1 - SplitAt)..0]_vars
  BY <1>1
<1> QED
  BY <1>2, ClockInvariance, PTL DEF Spec, SetClockRight
=============================================================================
