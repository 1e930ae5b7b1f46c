--------------------------- MODULE MCCustomSession ---------------------------
(* CustomSession with a few packets.                                       *)
EXTENDS CustomSession
=============================================================================
