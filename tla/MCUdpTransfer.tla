---------------------------- MODULE MCUdpTransfer ----------------------------
(* UdpTransfer with small files: every chunk has bytes of its own.         *)
EXTENDS UdpTransfer

MCPastEof == 9
MCBytes   == (0..FileSize \div Payload) \cup {MCPastEof}
MCText    == [i \in 0..FileSize \div Payload |-> i]
=============================================================================
