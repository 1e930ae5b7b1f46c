----------------------------- MODULE RouterWire -----------------------------
(***************************************************************************)
(* What the hosts of the Custom Protocol may rely on: the links with the   *)
(* router between them are one wire that loses, repeats and reorders       *)
(* frames, invents none and changes none, and on which a frame of another  *)
(* protocol than 19 never leaves the link it was put on.                   *)
(***************************************************************************)
CONSTANTS Links, Frames

VARIABLES put,       \* what the hosts have put on the links
          air        \* what is on the links

InitWire == put = {} /\ air = {}

Put(l, f) ==
  /\ put' = put \cup {<<l, f>>}
  /\ air' = air \cup {<<l, f>>}

Forward(f, l) ==
  /\ f.my_protocol = 19
  /\ \E k \in Links : <<k, f>> \in put
  /\ air' = air \cup {<<l, f>>}
  /\ UNCHANGED put

LoseFrame(a) ==
  /\ air' = air \ {a}
  /\ UNCHANGED put

NextWire ==
  \/ \E l \in Links, f \in Frames : Put(l, f) \/ Forward(f, l)
  \/ \E a \in air : LoseFrame(a)

Wire == InitWire /\ [][NextWire]_<<put, air>>
=============================================================================
