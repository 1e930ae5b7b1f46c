---------------------------- MODULE FileTransfer ----------------------------
(***************************************************************************)
(* What one direction of the UDP file copy promises, without saying how:   *)
(* the chunks of a file reach the other machine in any order, each one at  *)
(* its own place; the receiver declares the file complete only when every  *)
(* chunk is there; and the sender is let go only after that.               *)
(*                                                                         *)
(* A place the original does not have (one past its end) may be filled     *)
(* with anything: the promise is about the chunks of the file.             *)
(***************************************************************************)
CONSTANTS Seqs,     \* the places a chunk can have in the file
          Chunk,    \* what a place can hold
          Hole      \* a place that holds nothing (and is no Chunk)

VARIABLES original, \* the sender's file
          copy,     \* the receiver's file
          complete, \* the receiver has declared the file complete
          released  \* the sender knows, and no longer serves the file

vars == <<original, copy, complete, released>>

File == [Seqs -> Chunk \cup {Hole}]

(* Every chunk of the original is in the copy, at its place.               *)
Delivered == \A i \in Seqs : original[i] # Hole => copy[i] = original[i]

Init == /\ original \in File
        /\ copy = [i \in Seqs |-> Hole]
        /\ complete = FALSE
        /\ released = FALSE

(* One more place of the copy is filled, and never with a wrong chunk.     *)
Deliver(i, c) == /\ ~complete
                 /\ copy[i] = Hole
                 /\ original[i] # Hole => c = original[i]
                 /\ copy' = [copy EXCEPT ![i] = c]
                 /\ complete' \in BOOLEAN
                 /\ complete' => Delivered'
                 /\ UNCHANGED <<original, released>>

Release == /\ complete
           /\ ~released
           /\ released' = TRUE
           /\ UNCHANGED <<original, copy, complete>>

Next == \/ \E i \in Seqs, c \in Chunk : Deliver(i, c)
        \/ Release

Spec == Init /\ [][Next]_vars
=============================================================================
