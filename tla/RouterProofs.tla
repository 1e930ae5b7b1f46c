---------------------------- MODULE RouterProofs ----------------------------
(***************************************************************************)
(* Proofs about Router, for every number of interfaces and whatever frames *)
(* the hosts send.                                                         *)
(***************************************************************************)
EXTENDS Router, TLAPS

(* The list has the entries of all threads but the newest, and of all when *)
(* main is past linking it.                                                *)
ListMade ==
  /\ linked = IF main = "link" THEN made - 1 ELSE made
  /\ main = "link" => made >= 1
  /\ main = "make" => made < IfCount
  /\ \A t \in Ifs : pc[t] # "off" => t <= made

(* A thread that has found a list walks one with an entry.                 *)
HeadLinked == \A t \in Ifs : current[t] # NULL => linked >= 1

(* The interface a thread has found, and what it puts into sol_send.       *)
Found(t) ==
  /\ current[t] # NULL
  /\ out[t] \in Ifs
  /\ frame[t].dest_name \in Ifs =>
       \/ out[t] = frame[t].dest_name
       \/ out[t] = entries[t] /\ entries[t] < frame[t].dest_name
  /\ pc[t] # "zero" => sol_send.by # NULL
  /\ pc[t] = "send" /\ sol_send.by = t => sol_send.if_index = out[t]
WayFound == \A t \in Ifs : pc[t] \in {"zero", "fill", "send"} => Found(t)

(* sol_send is cleared only by a thread that has not filled it in yet.     *)
Cleared ==
  sol_send.by # NULL => (sol_send.if_index = NULL <=> pc[sol_send.by] = "fill")

(* A frame that may be forwarded: a host has sent it, and it is of         *)
(* protocol 19.                                                            *)
MayCross(f) == f.my_protocol = 19 /\ \E k \in Ifs : <<k, f>> \in put

FrameTrue ==
  \A t \in Ifs : pc[t] \in {"walk", "zero", "fill", "send"} => MayCross(frame[t])

AirTrue == \A l \in Ifs, f \in Frames : <<l, f>> \in air => <<l, f>> \in put \/ MayCross(f)

OnlyHostFrames == put \subseteq HostFrames

IInv ==
  /\ RouterTypeOK
  /\ ListMade
  /\ HeadLinked
  /\ OnlyFirstSeesNoList
  /\ WayFound
  /\ Cleared
  /\ FrameTrue
  /\ AirTrue
  /\ OnlyHostFrames

LEMMA InitIInv == Init => IInv
  BY RouterAssumption
  DEF Init, IInv, RouterTypeOK, ListMade, HeadLinked, OnlyFirstSeesNoList, WayFound, Found, Cleared,
      FrameTrue, AirTrue, OnlyHostFrames, Ifs, NULL, NoFrame

-----------------------------------------------------------------------------
(* main.                                                                   *)

LEMMA CreateThreadInv == IInv /\ CreateThread => IInv'
<1> SUFFICES ASSUME IInv, CreateThread PROVE IInv'
  OBVIOUS
<1> USE RouterAssumption DEF IInv, CreateThread, Ifs, NULL
<1>1. made' = made + 1 /\ made' \in 1..IfCount
  BY DEF RouterTypeOK, ListMade
<1>2. RouterTypeOK'
  BY <1>1 DEF RouterTypeOK
<1>3. ListMade'
  BY <1>1 DEF RouterTypeOK, ListMade
<1>4. HeadLinked' /\ OnlyHostFrames'
  BY DEF HeadLinked, OnlyHostFrames
<1>5. OnlyFirstSeesNoList'
  BY DEF OnlyFirstSeesNoList, RouterTypeOK
<1>6. WayFound' /\ FrameTrue' /\ AirTrue'
  BY DEF WayFound, Found, FrameTrue, AirTrue, MayCross, RouterTypeOK
<1>7. Cleared'
  BY <1>1 DEF Cleared, RouterTypeOK, ListMade
<1> QED
  BY <1>2, <1>3, <1>4, <1>5, <1>6, <1>7

LEMMA LinkInv == IInv /\ Link => IInv'
<1> SUFFICES ASSUME IInv, Link PROVE IInv'
  OBVIOUS
<1> USE RouterAssumption DEF IInv, Link, Ifs, NULL, thrVars
<1>1. RouterTypeOK'
  BY DEF RouterTypeOK
<1>2. ListMade' /\ HeadLinked'
  BY DEF RouterTypeOK, ListMade, HeadLinked
<1> QED
  BY <1>1, <1>2
  DEF OnlyFirstSeesNoList, WayFound, Found, Cleared, FrameTrue, AirTrue, MayCross, OnlyHostFrames

LEMMA JoinInv == IInv /\ Join => IInv'
<1> SUFFICES ASSUME IInv, Join PROVE IInv'
  OBVIOUS
<1> USE DEF IInv, Join, thrVars
<1>1. RouterTypeOK'
  BY DEF RouterTypeOK
<1>2. ListMade' /\ HeadLinked' /\ OnlyFirstSeesNoList' /\ WayFound' /\ Cleared'
  BY DEF ListMade, HeadLinked, OnlyFirstSeesNoList, WayFound, Found, Cleared
<1>3. FrameTrue' /\ AirTrue' /\ OnlyHostFrames'
  BY DEF FrameTrue, AirTrue, MayCross, OnlyHostFrames
<1> QED
  BY <1>1, <1>2, <1>3

-----------------------------------------------------------------------------
(* The threads.                                                            *)

LEMMA TopInv == ASSUME IInv, NEW t \in Ifs, Top(t) PROVE IInv'
<1> USE RouterAssumption DEF IInv, Top, mainVars, thread_anchor, NULL
<1>1. RouterTypeOK'
  BY DEF RouterTypeOK
<1>2. ListMade'
  BY DEF RouterTypeOK, ListMade
<1>3. HeadLinked'
  BY DEF RouterTypeOK, HeadLinked
<1>4. OnlyFirstSeesNoList'
  <2> SUFFICES ASSUME NEW u \in Ifs, u = t, linked = 0 PROVE u = 1
    BY DEF OnlyFirstSeesNoList, RouterTypeOK
  <2> QED
    BY DEF ListMade, RouterTypeOK, Ifs
<1>5. WayFound' /\ OnlyHostFrames'
  BY DEF WayFound, Found, OnlyHostFrames, RouterTypeOK
<1>6. FrameTrue'
  BY DEF FrameTrue, MayCross, RouterTypeOK
<1>7. AirTrue'
  BY DEF AirTrue, MayCross
<1>8. Cleared'
  BY DEF Cleared, RouterTypeOK
<1> QED
  BY <1>1, <1>2, <1>3, <1>4, <1>5, <1>6, <1>7, <1>8

LEMMA RecvInv == ASSUME IInv, NEW t \in Ifs, Recv(t) PROVE IInv'
<1> USE DEF IInv, Recv, mainVars, validate_it
<1> PICK a \in air : /\ frame' = [frame EXCEPT ![t] = IF validate_it(a[2]) THEN a[2] ELSE NoFrame]
                     /\ pc' = [pc EXCEPT ![t] = IF validate_it(a[2]) THEN "walk" ELSE "top"]
  OBVIOUS
<1>1. PICK l \in Ifs, f \in Frames : a = <<l, f>>
  BY DEF RouterTypeOK
<1>2. RouterTypeOK'
  BY <1>1 DEF RouterTypeOK
<1>3. ListMade' /\ HeadLinked' /\ OnlyFirstSeesNoList' /\ OnlyHostFrames'
  BY DEF RouterTypeOK, ListMade, HeadLinked, OnlyFirstSeesNoList, OnlyHostFrames
<1>4. WayFound'
  <2> SUFFICES ASSUME NEW u \in Ifs, pc'[u] \in {"zero", "fill", "send"} PROVE Found(u)'
    BY DEF WayFound
  <2>1. u # t /\ pc'[u] = pc[u] /\ frame'[u] = frame[u]
    BY DEF RouterTypeOK
  <2> QED
    BY <2>1 DEF WayFound, Found
<1>8. AirTrue'
  BY DEF AirTrue, MayCross
<1>5. f.my_protocol = 19 => MayCross(f)
  BY <1>1 DEF AirTrue, MayCross
<1>6. FrameTrue'
  BY <1>1, <1>5 DEF RouterTypeOK, FrameTrue, MayCross
<1>7. Cleared'
  BY DEF Cleared, RouterTypeOK
<1> QED
  BY <1>2, <1>3, <1>4, <1>6, <1>7, <1>8

LEMMA WalkInv == ASSUME IInv, NEW t \in Ifs, Walk(t) PROVE IInv'
<1> USE DEF IInv, Walk, mainVars
<1> DEFINE d == frame[t].dest_name
<1>1. linked \in Ifs
  BY RouterAssumption DEF HeadLinked, RouterTypeOK, Ifs
<1>2. /\ Walked(d) \in Ifs
      /\ d \in Ifs => Walked(d) = d \/ (Walked(d) = linked /\ linked < d)
  BY <1>1, RouterAssumption DEF Walked, Ifs
<1>3. RouterTypeOK'
  BY <1>2 DEF RouterTypeOK
<1>4. ListMade' /\ HeadLinked' /\ OnlyFirstSeesNoList' /\ OnlyHostFrames'
  BY DEF RouterTypeOK, ListMade, HeadLinked, OnlyFirstSeesNoList, OnlyHostFrames
<1>5. WayFound'
  BY <1>2 DEF RouterTypeOK, WayFound, Found
<1>6. /\ pc[t] = "walk" /\ pc' = [pc EXCEPT ![t] = "zero"]
      /\ UNCHANGED <<frame, put, air>>
  OBVIOUS
<1>7. FrameTrue'
  <2> SUFFICES ASSUME NEW u \in Ifs, pc'[u] \in {"walk", "zero", "fill", "send"}
               PROVE  MayCross(frame[u])
    BY <1>6 DEF FrameTrue, MayCross
  <2>1. pc[u] \in {"walk", "zero", "fill", "send"}
    BY <1>6 DEF RouterTypeOK
  <2> QED
    BY <2>1 DEF FrameTrue
<1>8. AirTrue'
  BY <1>6 DEF AirTrue, MayCross
<1>9. Cleared'
  BY DEF Cleared, RouterTypeOK
<1> QED
  BY <1>3, <1>4, <1>5, <1>7, <1>8, <1>9

LEMMA WalkNULLInv == ASSUME IInv, NEW t \in Ifs, WalkNULL(t) PROVE IInv'
  BY DEF IInv, WalkNULL, thrVars, RouterTypeOK, ListMade, HeadLinked, OnlyFirstSeesNoList,
         WayFound, Found, Cleared, FrameTrue, AirTrue, MayCross, OnlyHostFrames

LEMMA FillInv == ASSUME IInv, NEW t \in Ifs, Bzero(t) \/ Fill(t) PROVE IInv'
<1> USE DEF IInv, Bzero, Fill, mainVars
<1>1. RouterTypeOK'
  BY DEF RouterTypeOK, WayFound, Found
<1>2. ListMade' /\ HeadLinked' /\ OnlyHostFrames'
  BY DEF RouterTypeOK, ListMade, HeadLinked, OnlyHostFrames
<1>3. OnlyFirstSeesNoList'
  BY DEF RouterTypeOK, OnlyFirstSeesNoList, WayFound, Found
<1>4. WayFound'
  <2> SUFFICES ASSUME NEW u \in Ifs, pc'[u] \in {"zero", "fill", "send"} PROVE Found(u)'
    BY DEF WayFound
  <2>1. t # NULL
    BY RouterAssumption DEF Ifs, NULL
  <2>2. Found(u)
    BY DEF RouterTypeOK, WayFound
  <2>3. CASE Bzero(t)
    BY <2>1, <2>2, <2>3 DEF RouterTypeOK, Found
  <2>4. CASE Fill(t)
    BY <2>1, <2>2, <2>4 DEF RouterTypeOK, Found
  <2> QED
    BY <2>3, <2>4
<1>5. FrameTrue'
  <2> SUFFICES ASSUME NEW u \in Ifs, pc'[u] \in {"walk", "zero", "fill", "send"}
               PROVE  MayCross(frame[u])
    BY DEF FrameTrue, MayCross
  <2>1. pc[u] \in {"walk", "zero", "fill", "send"}
    BY DEF RouterTypeOK
  <2> QED
    BY <2>1 DEF FrameTrue
<1>6. AirTrue'
  BY DEF AirTrue, MayCross
<1>7. Cleared'
  <2>1. CASE Bzero(t)
    BY <2>1 DEF Cleared, RouterTypeOK
  <2>2. CASE Fill(t)
    BY <2>2, RouterAssumption DEF Cleared, RouterTypeOK, WayFound, Found, Ifs, NULL
  <2> QED
    BY <2>1, <2>2
<1> QED
  BY <1>1, <1>2, <1>3, <1>4, <1>5, <1>6, <1>7

LEMMA SendInv == ASSUME IInv, NEW t \in Ifs, Send(t) PROVE IInv'
<1> USE DEF IInv, Send, mainVars
<1>1. MayCross(frame[t]) /\ frame[t] \in Frames
  BY DEF FrameTrue, RouterTypeOK, MayCross, NoFrame
<1>2. RouterTypeOK'
  BY <1>1, RouterAssumption DEF RouterTypeOK
<1>3. ListMade' /\ HeadLinked' /\ OnlyFirstSeesNoList' /\ OnlyHostFrames'
  BY DEF RouterTypeOK, ListMade, HeadLinked, OnlyFirstSeesNoList, OnlyHostFrames
<1>4. WayFound'
  <2> SUFFICES ASSUME NEW u \in Ifs, pc'[u] \in {"zero", "fill", "send"} PROVE Found(u)'
    BY DEF WayFound
  <2>1. /\ u # t /\ pc'[u] = pc[u] /\ frame'[u] = frame[u]
        /\ out'[u] = out[u] /\ entries'[u] = entries[u]
    BY DEF RouterTypeOK
  <2> QED
    BY <2>1 DEF WayFound, Found
<1>7. FrameTrue'
  <2> SUFFICES ASSUME NEW u \in Ifs, pc'[u] \in {"walk", "zero", "fill", "send"}
               PROVE  MayCross(frame'[u])
    BY DEF FrameTrue, MayCross
  <2>1. u # t /\ pc'[u] = pc[u] /\ frame'[u] = frame[u]
    BY DEF RouterTypeOK
  <2> QED
    BY <2>1 DEF FrameTrue
<1>5. AirTrue'
  BY <1>1 DEF AirTrue, MayCross
<1>6. Cleared'
  BY DEF Cleared, RouterTypeOK
<1> QED
  BY <1>2, <1>3, <1>4, <1>5, <1>6, <1>7

-----------------------------------------------------------------------------
(* The hosts and the links.                                                *)

LEMMA HostPutsInv == IInv /\ HostPuts => IInv'
<1> SUFFICES ASSUME IInv, HostPuts PROVE IInv'
  OBVIOUS
<1> USE DEF IInv, HostPuts, mainVars, thrVars
<1>1. RouterTypeOK'
  BY RouterAssumption DEF RouterTypeOK
<1>2. put \subseteq put'
  OBVIOUS
<1>3. FrameTrue'
  BY <1>2 DEF FrameTrue, MayCross
<1>4. AirTrue'
  BY <1>2 DEF AirTrue, MayCross
<1> QED
  BY <1>1, <1>3, <1>4
  DEF ListMade, HeadLinked, OnlyFirstSeesNoList, WayFound, Found, Cleared, OnlyHostFrames

LEMMA LoseInv == IInv /\ Lose => IInv'
<1> SUFFICES ASSUME IInv, Lose PROVE IInv'
  OBVIOUS
<1> USE DEF IInv, Lose, mainVars, thrVars
<1>1. RouterTypeOK'
  BY DEF RouterTypeOK
<1>2. ListMade' /\ HeadLinked' /\ OnlyFirstSeesNoList' /\ WayFound' /\ Cleared'
  BY DEF ListMade, HeadLinked, OnlyFirstSeesNoList, WayFound, Found, Cleared
<1>3. FrameTrue' /\ OnlyHostFrames'
  BY DEF FrameTrue, MayCross, OnlyHostFrames
<1>4. AirTrue'
  BY DEF AirTrue, MayCross
<1> QED
  BY <1>1, <1>2, <1>3, <1>4

LEMMA NextIInv == IInv /\ [Next]_vars => IInv'
<1>1. ASSUME IInv, UNCHANGED vars PROVE IInv'
  BY <1>1 DEF IInv, vars, mainVars, thrVars, RouterTypeOK, ListMade, HeadLinked,
         OnlyFirstSeesNoList, WayFound, Found, Cleared, FrameTrue, AirTrue, MayCross, OnlyHostFrames
<1>2. ASSUME IInv, NEW t \in Ifs, manage_traffic(t) PROVE IInv'
  BY <1>2, TopInv, RecvInv, WalkInv, WalkNULLInv, FillInv, SendInv DEF manage_traffic
<1> QED
  BY <1>1, <1>2, CreateThreadInv, LinkInv, JoinInv, HostPutsInv, LoseInv DEF Next

(* The inductive invariant holds in every reachable state.                 *)
THEOREM RouterInvariance == Spec => []IInv
  BY InitIInv, NextIInv, PTL DEF Spec

(* Every variable keeps its type: the walk never leaves the list.          *)
THEOREM RouterTypeCorrect == Spec => []RouterTypeOK
  BY RouterInvariance, PTL DEF IInv

(* Only the first thread can meet a null list (router_new.c:122, 182),     *)
(* however many interfaces there are.                                      *)
THEOREM FirstThreadOnly == Spec => []OnlyFirstSeesNoList
  BY RouterInvariance, PTL DEF IInv

(* A frame leaves by its destination's interface, or the destination was   *)
(* not in the list yet, or another thread has been at sol_send since       *)
(* (router_new.c:129, 137), with any number of interfaces.                 *)
THEOREM WrongWayCorrect == Spec => []WrongWayExplained
<1>1. IInv => WrongWayExplained
  BY DEF IInv, RouterTypeOK, WayFound, Found, Cleared, WrongWayExplained
<1> QED
  BY <1>1, RouterInvariance, PTL

-----------------------------------------------------------------------------
(* The refinement: a step of the router is a step of the wire or none.     *)

LEMMA StepRefinesWire == IInv /\ [Next]_vars => [W!NextWire]_<<put, air>>
<1> SUFFICES ASSUME IInv, [Next]_vars PROVE [W!NextWire]_<<put, air>>
  OBVIOUS
<1>1. CASE HostPuts
  <2>1. PICK h \in HostFrames \ put : put' = put \cup {h} /\ air' = air \cup {h}
    BY <1>1 DEF HostPuts
  <2>2. PICK l \in Ifs, f \in Frames : h = <<l, f>>
    BY RouterAssumption
  <2>3. f \in {k[2] : k \in HostFrames}
    BY <2>1, <2>2
  <2> QED
    BY <2>1, <2>2, <2>3 DEF W!NextWire, W!Put
<1>2. CASE Lose
  BY <1>2 DEF Lose, W!NextWire, W!LoseFrame
<1>3. ASSUME NEW t \in Ifs, Send(t) PROVE [W!NextWire]_<<put, air>>
  <2>1. CASE sol_send.if_index = NULL
    BY <1>3, <2>1 DEF Send
  <2>2. CASE sol_send.if_index # NULL
    <3>1. sol_send.if_index \in Ifs
      BY <2>2 DEF IInv, RouterTypeOK
    <3>2. PICK k \in Ifs : <<k, frame[t]>> \in put
      BY <1>3 DEF Send, IInv, FrameTrue, MayCross
    <3>3. frame[t] \in {h[2] : h \in HostFrames}
      BY <3>2 DEF IInv, OnlyHostFrames
    <3>4. W!Forward(frame[t], sol_send.if_index)
      BY <1>3, <2>2, <3>2 DEF Send, IInv, FrameTrue, MayCross, W!Forward
    <3> QED
      BY <3>1, <3>3, <3>4 DEF W!NextWire
  <2> QED
    BY <2>1, <2>2
<1>4. CASE UNCHANGED <<put, air>>
  BY <1>4
<1>5. HostPuts \/ Lose \/ (\E t \in Ifs : Send(t)) \/ UNCHANGED <<put, air>>
  BY DEF Next, vars, CreateThread, Link, Join, manage_traffic, Top, Recv, Walk, WalkNULL,
         Bzero, Fill
<1> QED
  BY <1>1, <1>2, <1>3, <1>4, <1>5

(* The router with its threads is a wire that invents and changes nothing, *)
(* and lets only protocol 19 across (router_new.c:82).                     *)
THEOREM WireRefinement == Spec => RefinesWire
<1>1. Init => W!InitWire
  BY DEF Init, W!InitWire
<1> QED
  BY <1>1, StepRefinesWire, RouterInvariance, PTL DEF Spec, RefinesWire, W!Wire
=============================================================================
