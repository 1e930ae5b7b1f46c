------------------------------- MODULE Router -------------------------------
(***************************************************************************)
(* router_new.c: main makes a list with an entry and starts a thread for   *)
(* each interface; the threads forward frames with the list while main     *)
(* still extends it, and all of them fill in the one global sol_send.      *)
(*                                                                         *)
(* Entry i of the list is interface i, so the list is the number of its    *)
(* entries and thread_anchor the number 1, or NULL.  A link has the number *)
(* of the interface of the router it is connected to; a socket that is not *)
(* bound reads the frames of all links, those included that the other      *)
(* threads have sent.                                                      *)
(***************************************************************************)
EXTENDS Integers

CONSTANTS IfCount,   \* if_count
          HostFrames \* the <<link, frame>> that hosts put on their links

Ifs    == 1..IfCount
Frames == [my_protocol : {19, 99}, dest_name : Nat]

ASSUME RouterAssumption ==
  /\ IfCount \in Nat \ {0}
  /\ HostFrames \subseteq Ifs \X Frames

NULL == 0
NoFrame == [my_protocol |-> 0, dest_name |-> 0]

VARIABLES main,      \* "make", "link", "join", "left"
          made,      \* threads that have been created
          linked,    \* entries of the list
          pc, current, frame, out,     \* of each thread
          sol_send,  \* its sll_ifindex, and which thread has set it
          crashed,
          put, air,
          entries    \* what was in the list when the thread walked it, which
                     \* only the properties look at

mainVars == <<main, made, linked, crashed>>
thrVars  == <<pc, current, frame, out, entries>>
vars     == <<mainVars, thrVars, sol_send, put, air>>

-----------------------------------------------------------------------------
(* main.  The entry is linked only after its thread has been started.      *)

CreateThread ==
  /\ main = "make"
  /\ made' = made + 1
  /\ main' = "link"
  /\ pc' = [pc EXCEPT ![made'] = "top"]
  /\ UNCHANGED <<linked, crashed, current, frame, out, entries, sol_send, put, air>>

Link ==
  /\ main = "link"
  /\ linked' = made
  /\ main' = IF made = IfCount THEN "join" ELSE "make"
  /\ UNCHANGED <<made, crashed, thrVars, sol_send, put, air>>

(* thrd[0] was never created: to join it fails, and main leaves the        *)
(* threads alone, or it crashes.                                           *)
Join ==
  /\ main = "join"
  /\ \/ main' = "left" /\ UNCHANGED crashed
     \/ crashed' = "join" /\ UNCHANGED main
  /\ UNCHANGED <<made, linked, thrVars, sol_send, put, air>>

-----------------------------------------------------------------------------
(* manage_traffic of thread t.                                             *)

thread_anchor_at_end == IF linked < IfCount THEN NULL ELSE 1     \* mutant

thread_anchor == IF linked = 0 THEN NULL ELSE 1

Top(t) ==
  /\ pc[t] = "top"
  /\ current' = [current EXCEPT ![t] = thread_anchor]
  /\ pc' = [pc EXCEPT ![t] = "recv"]
  /\ UNCHANGED <<mainVars, frame, out, entries, sol_send, put, air>>

validate_any(f) == f.my_protocol \in {19, 99}                    \* mutant

validate_it(f) == f.my_protocol = 19

Recv(t) ==
  /\ pc[t] = "recv"
  /\ \E a \in air :
       /\ frame' = [frame EXCEPT ![t] = IF validate_it(a[2]) THEN a[2] ELSE NoFrame]
       /\ pc' = [pc EXCEPT ![t] = IF validate_it(a[2]) THEN "walk" ELSE "top"]
  /\ UNCHANGED <<mainVars, current, out, entries, sol_send, put, air>>

(* The entry of the destination, or else the last one.                     *)
WalkedToEnd(d)   == linked                                       \* mutant

Walked(d) == IF d \in 1..linked THEN d ELSE linked

Walk(t) ==
  /\ pc[t] = "walk"
  /\ current[t] # NULL
  /\ out' = [out EXCEPT ![t] = Walked(frame[t].dest_name)]
  /\ entries' = [entries EXCEPT ![t] = linked]
  /\ pc' = [pc EXCEPT ![t] = "zero"]
  /\ UNCHANGED <<mainVars, current, frame, sol_send, put, air>>

WalkNULL(t) ==
  /\ pc[t] = "walk"
  /\ current[t] = NULL
  /\ crashed' = "walk"
  /\ UNCHANGED <<main, made, linked, thrVars, sol_send, put, air>>

(* fillsll clears sol_send and then sets it.                               *)
Bzero(t) ==
  /\ pc[t] = "zero"
  /\ sol_send' = [by |-> t, if_index |-> NULL]
  /\ pc' = [pc EXCEPT ![t] = "fill"]
  /\ UNCHANGED <<mainVars, current, frame, out, entries, put, air>>

Fill(t) ==
  /\ pc[t] = "fill"
  /\ sol_send' = [by |-> t, if_index |-> out[t]]
  /\ pc' = [pc EXCEPT ![t] = "send"]
  /\ UNCHANGED <<mainVars, current, frame, out, entries, put, air>>

(* sendto without an interface fails, and nobody looks at the result.  The *)
(* frame and its way are not used again.                                   *)
Send(t) ==
  /\ pc[t] = "send"
  /\ air' = IF sol_send.if_index = NULL THEN air
                                        ELSE air \cup {<<sol_send.if_index, frame[t]>>}
  /\ pc' = [pc EXCEPT ![t] = "top"]
  /\ frame' = [frame EXCEPT ![t] = NoFrame]
  /\ out' = [out EXCEPT ![t] = NULL]
  /\ entries' = [entries EXCEPT ![t] = 0]
  /\ UNCHANGED <<mainVars, current, sol_send, put>>

manage_traffic(t) ==
  \/ Top(t) \/ Recv(t) \/ Walk(t) \/ WalkNULL(t) \/ Bzero(t) \/ Fill(t) \/ Send(t)

-----------------------------------------------------------------------------
(* The hosts and the links.                                                *)

HostPuts ==
  /\ \E h \in HostFrames \ put : put' = put \cup {h} /\ air' = air \cup {h}
  /\ UNCHANGED <<mainVars, thrVars, sol_send>>

Lose ==
  /\ \E a \in air : air' = air \ {a}
  /\ UNCHANGED <<mainVars, thrVars, sol_send, put>>

Init ==
  /\ main = "make"
  /\ made = 0
  /\ linked = 0
  /\ pc = [t \in Ifs |-> "off"]
  /\ current = [t \in Ifs |-> NULL]
  /\ frame = [t \in Ifs |-> NoFrame]
  /\ out = [t \in Ifs |-> NULL]
  /\ entries = [t \in Ifs |-> 0]
  /\ sol_send = [by |-> NULL, if_index |-> NULL]
  /\ crashed = "no"
  /\ put = {}
  /\ air = {}

Next ==
  \/ /\ crashed = "no"
     /\ \/ CreateThread
        \/ Link
        \/ Join
        \/ \E t \in Ifs : manage_traffic(t)
  \/ HostPuts
  \/ Lose

Spec == Init /\ [][Next]_vars

-----------------------------------------------------------------------------
(* Properties.                                                             *)

RouterTypeOK ==
  /\ main \in {"make", "link", "join", "left"}
  /\ made \in 0..IfCount
  /\ linked \in 0..IfCount
  /\ pc \in [Ifs -> {"off", "top", "recv", "walk", "zero", "fill", "send"}]
  /\ current \in [Ifs -> {NULL, 1}]
  /\ frame \in [Ifs -> Frames \cup {NoFrame}]
  /\ out \in [Ifs -> Ifs \cup {NULL}]
  /\ entries \in [Ifs -> 0..IfCount]
  /\ sol_send \in [by : Ifs \cup {NULL}, if_index : Ifs \cup {NULL}]
  /\ crashed \in {"no", "walk", "join"}
  /\ put \subseteq Ifs \X Frames
  /\ air \subseteq Ifs \X Frames

(* A thread is started before its entry is in the list, and reads the head *)
(* of the list before it waits for a frame (router_new.c:182, 122): only   *)
(* the thread of the first interface can find no list and follow a null    *)
(* pointer.  A frame that it drops lets it look again; with one that it    *)
(* has walked the list for, it had found the list.                         *)
OnlyFirstSeesNoList ==
  \A t \in Ifs :
    pc[t] \in {"recv", "walk", "zero", "fill", "send"} /\ current[t] = NULL
      => t = 1 /\ pc[t] \in {"recv", "walk"}

(* A frame that is about to be sent leaves by the interface of its         *)
(* destination.  There are two ways for it not to.  The list grows while   *)
(* the threads walk it (router_new.c:129, 186): the frame leaves by the    *)
(* last entry there was when the thread walked it.  And another thread     *)
(* refills sol_send (router_new.c:137) after this one has: the frame goes  *)
(* where that thread's frame goes, or nowhere while sol_send is cleared.   *)
WrongWayExplained ==
  \A t \in Ifs :
    pc[t] = "send" /\ frame[t].dest_name \in Ifs =>
      \/ sol_send.if_index = frame[t].dest_name
      \/ /\ sol_send.by = t
         /\ sol_send.if_index = entries[t]
         /\ entries[t] < frame[t].dest_name
      \/ /\ sol_send.by \in Ifs \ {t}
         /\ sol_send.if_index = NULL <=> pc[sol_send.by] = "fill"

W == INSTANCE RouterWire WITH Links <- Ifs, Frames <- {h[2] : h \in HostFrames}

(* Whatever the threads do to each other, the router forwards only what a  *)
(* host has sent, unchanged, and only packets of protocol 19               *)
(* (router_new.c:82): no NAK and no ack of the Custom Protocol crosses it. *)
RefinesWire == W!Wire
=============================================================================
