---------------------------- MODULE MCUdpSession ----------------------------
(* UdpSession with small files: every chunk has bytes of its own.          *)
EXTENDS UdpSession

MCPastEof == 9
MCBytes   == (0..FileSize \div Payload) \cup {MCPastEof}
MCText    == [i \in 0..FileSize \div Payload |-> i]

(* A datagram that is never taken is as good as lost: a property that does *)
(* not look at the networks needs no other loss.                           *)
NoLoss == toServer \subseteq toServer' /\ toClient \subseteq toClient'
=============================================================================
