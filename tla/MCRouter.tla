------------------------------ MODULE MCRouter ------------------------------
(* Router with a packet for each side, one for nobody, and a NAK.          *)
EXTENDS Router

Frame(p, d) == [my_protocol |-> p, dest_name |-> d]

MCHostFrames == {<<1, Frame(19, 2)>>, <<2, Frame(19, 1)>>, <<2, Frame(19, 7)>>, <<2, Frame(99, 2)>>}
=============================================================================
