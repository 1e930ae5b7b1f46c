----------------------------- MODULE MCNtpClock -----------------------------
(***************************************************************************)
(* NtpClock with a second of 8 microseconds and an int of 5 bits.          *)
(***************************************************************************)
EXTENDS NtpClock

MCLeads == {0, 20}
MCSharings == {{}, {"master", "slave"}}

(* Bounds.  The slave reads a packet when it arrives, but for Handlings,   *)
(* and it and calcnetdelay go on before anything else happens, except for  *)
(* what the other threads do.                                              *)
Prompt ==
  LET due == spc # "select" \/ \E k \in Seqs : where[k] = "slave" IN
  foreign' = foreign =>
    /\ due => spc' # spc
    /\ ~due /\ mpc = "calc" => mpc' # mpc

(* With other threads, two rounds.                                         *)
SharedShort == shared # {} => seqnum < 2
=============================================================================
