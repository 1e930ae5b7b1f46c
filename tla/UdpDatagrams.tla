---------------------------- MODULE UdpDatagrams ----------------------------
(***************************************************************************)
(* The file and the datagrams that client.c and server.c exchange: what    *)
(* both directions of the copy, and both programs, have in common.         *)
(*                                                                         *)
(* A chunk of the file is a label for its bytes and its length.            *)
(***************************************************************************)
EXTENDS Integers

CONSTANTS FileSize,  \* size of the sender's file in bytes
          Payload,   \* PAYLOAD / MAXBUFSIZE
          Bytes,     \* labels for the contents of a buffer
          PastEof,   \* the label of whatever lies past the end of the file
          Text       \* the label of each chunk of the file

TotalSeq == FileSize \div Payload
LeftByte == FileSize % Payload
Seqs     == 0..TotalSeq

ASSUME SizesAssumption == FileSize \in Nat \ {0} /\ Payload \in Nat \ {0}
ASSUME BytesAssumption == PastEof \in Bytes /\ Text \in [Seqs -> Bytes]

-----------------------------------------------------------------------------
Chunk == [buf : Bytes, size : 1..Payload]
Hole  == [buf |-> PastEof, size |-> 0]   \* a place that holds no byte

ChunkSize(i) == IF i < TotalSeq THEN Payload ELSE LeftByte
Original == [i \in Seqs |->
               IF ChunkSize(i) = 0 THEN Hole
               ELSE [buf |-> Text[i], size |-> ChunkSize(i)]]

(* What a program reads first in a datagram is an int in both kinds of     *)
(* message: a bare int (a size, a NAK, an ack), or the seqNum of a dgram.  *)
IntMsg(n)   == [kind |-> "int", first |-> n]
Dgram(i, c) == [kind |-> "dgram", first |-> i, chunk |-> c]
Ack         == IntMsg(-1)

IsAckOrZero(m) == m.first <= 0           \* mutant: 0 is a packet
IsAck(m)       == m.first < 0

Message == [kind : {"int"}, first : Int]
             \cup [kind : {"dgram"}, first : Nat, chunk : Chunk]
=============================================================================
