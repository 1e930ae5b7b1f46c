# Verification of the inter-networking labs

Four C programs are in this repository: a reliable file copy over UDP, the same
over raw ethernet through a router ("Custom Protocol"), a node that exchanges
files with one or two peers over raw ethernet (`OpenFlow/mynode.c`), and a
three-tier NTP. All of them are hand-written protocols on a network that loses,
delays and reorders, run by threads that share plain variables. This directory
holds TLA+ models of them, the TLC runs that check them on small instances, and
proofs of their properties for every instance.

## 1. Inventory

### UDP copy (`UDP_Relaibility/client.c`, `server.c`)

The client sends `textfile.txt`, the server stores it as `textref.txt`, then
sends that file back and the client stores it as `textfile_back.txt`.

| part | state | operations |
|---|---|---|
| sender's main loop (`client.c:290-318`, `server.c:346-374`) | `seq`, `datasize`, the mapped file | send every chunk once, then join the retransmit thread |
| retransmit thread (`client.c:148-192`, `server.c:60-105`) | `filesize`, the socket | receive an int: negative means done, any other is a packet number that is sent again |
| receive loop (`server.c:267-302`, `client.c:355-389`) | `allNodes`, `totalPacketsArrived`, `totalSeq`, the file | drop bare ints; mark, write and count what arrives for the first time; at `totalSeq+1` packets send 20 acks and stop |
| NAK thread (`server.c:155-183`, `client.c:81-108`) | `iteratingptr` | scan `allNodes` from where it stopped, ask for the next missing packet |

Interaction: datagrams on two sockets that serve both directions; inside a
program the threads share the variables above under one mutex (the tests on
`totalPacketsArrived` are outside of it). Hard: any first datagram is the size;
datagrams of one direction are read by the thread of the other; the acks are
sent in a single burst; `ceil` of an integer division; `allNodes` is one byte
too short. Correct means: the copy is the file, the sender is let go only when
that is so, every gap is asked for, and the session ends.

### OpenFlow node (`OpenFlow/mynode.c`, `raw.c`, `raw.h`)

| part | state | operations |
|---|---|---|
| main | the mapped file | send every packet once to each destination; start both threads; join them |
| receive thread (`236-382`) | the list of known peers: `retras`, `totalPacketsArrived`, `recievedComplete`, `finishRestramit`; `flag`; `myfile` | end when all known peers are done; store data; note final acks; answer NACKs |
| NACK thread (`386-437`) | `current`, `iteratingptr` | wait for `flag` to be 0; ask for the next missing packet; go on to the next peer |
| raw sockets | | filter by destination; set-up |

Hard: the peers are discovered by what arrives; the number of packets of a peer
is computed from the node's own file; `flag` makes nodes silence each other;
retransmissions have a fixed destination. Correct means: a final ack is sent
only for a complete file, a node ends only when all its peers are done, every
missing packet is asked for, the program ends.

### Custom Protocol (`client_new.c`, `server_new.c`, `router_new.c`)

| part | state | operations |
|---|---|---|
| client, server: `recvthr` | `retrans`, `max`, `ttlpkt`, the file | store, mark and count packets; end at `no_pkts` of them |
| client, server: `nakthr` | `min`, `max` | scan `retrans` below `max`, ask for a gap; end with acks (seqno 111) |
| client's, server's main | the sequence number of its pass | client: send, then receive; server: receive, then send |
| server: `retrthr` | | answer NAKs, end on an ack |
| router: main | the list of interfaces | extend the list and start a thread per interface; join |
| router: a thread per interface | `current`, the frame; the global `sol_send` | receive, find the interface of the destination, fill `sol_send`, send |

Hard: the offset of the client's pass does not advance, its retransmit thread is
not started, 111 is an ack and a packet number, the node numbers of NAKs, the
range of the scan, a list built while threads walk it, a shared address
structure. Correct means: what arrives is the file, no thread says so before,
and the router delivers each packet on the right interface.

### NTP (`NTP Enhancement/master`, `slave`, `ntpapis.c`)

| part | state | operations |
|---|---|---|
| `mastersyncproc`, one thread per slave | `seqnum`, its packets; shared in the program: `synced`, `totalsync`, `stratum`, `slavesync` | per second: send a packet, look for a reply, compute a sample and send it with the next packet |
| `slavesyncproc` | `recv_pkt`, `stratum`, `slavesync` | answer packets with its own stamps, set the clock from a sample, stop at `NO_OF_SYNC` |
| `ntpapis.c` | the list of time stamps, the best offset | delay and offset from four stamps; the new time for `settimeofday` |

A node between root and leaves runs both. Hard: `synced` and `totalsync` are
shared by the threads of all slaves, equality tests on counters, replies that
come a round late, time stamps keyed by sequence number only, time arithmetic in
`int`. Correct means: a slave is given only offsets computed from its own
exchange, both sides stop after their rounds, from the root down, and clocks are
set from the sample with the smallest offset.

The hazards of all parts, each at its line, are in `PROJECT.json`.

## 2. Modules

| module | stands for |
|---|---|
| `FileTransfer` | abstract: chunks of a file arrive in any order, each at its place; complete only when all are there; the sender released only after that |
| `UdpDatagrams` | the file, the chunks and the messages of the UDP copy |
| `UdpTransfer` | one direction of the UDP copy: sender, receiver and network |
| `UdpSession` | both directions (two instances of `UdpTransfer`) over shared sockets, with the size handshake |
| `MyNode` | the nodes of `mynode.c` and their wire |
| `CustomReceiver` | `recvthr` and `nakthr`, which client and server of the Custom Protocol have in common |
| `CustomSession` | the client and the server on one wire (two instances of `CustomReceiver`) |
| `RouterWire` | abstract: links that lose, repeat and reorder frames, and carry only protocol 19 from one to the other |
| `Router` | `router_new.c`: main, the forwarding threads, the list and `sol_send` |
| `NtpSync` | the packets and threads of the NTP in a tree of nodes |
| `NtpClock` | stamps, delay, offset and clock on one link |
| `*Proofs` | theorems about the module they are named after (`CustomProofs`: about `CustomSession`) |
| `MC*` | values of the constants for TLC |

### UdpTransfer and the code

The sender's first pass is `SendNext`, its retransmit thread `StartSender`,
`Answer`, `Crash` and `ReleaseSender`. The receiver's main is `StartReceiver`
(the size is known, the file opened, the NAK thread started), `Calloc` (the
thread may run before it), `Receive`, `SendAcks`, `Join`; its NAK thread is
`NakCheck`, `Iterate`, `NakSend`, three steps because the test and the sending
are outside of the mutex. A chunk of the file is a label and a length.

* *Network.* A message stays in its network when it is delivered, so it can come
  late, out of order or again; `Lose` takes it away. Two equal datagrams are one
  element. The burst of 20 acks is one message: losing it is losing all of them.
* *The byte behind `allNodes`.* `calloc(totalSeq)` has no entry for the last
  packet. The model lets it have any value of `EdgeBytes` at allocation, after
  which nobody else writes it.
* *Reading past the mapping.* A NAK for something the file does not have makes
  `memcpy` read behind it: the model either sends `PastEof` or crashes.
* *Size.* `filesize` is an `int`: files below 2^31 bytes.

### UdpSession and the code

`Fwd` is the way to the server, `Bwd` the way back; they are instances of
`UdpTransfer` on one pair of networks, so a datagram of one direction is seen by
whatever thread of the other reads the socket. A program that waits for an int
takes the first one of any datagram. `SizeFirst` says that a size datagram is
read first and that all copies are gone before the server turns to sending; with
`SizeFirst = FALSE` anything may be first.

### MyNode and the code

`recv`, `nack` are the program counters of the two threads; `track` is the list
at `track_head`; `retras`, `recievedComplete`, `finishRestramit` its fields by
peer; `myfile` the one file all peers are written to. The test at the top of the
receive loop is a step of its own (`AllDone`, `GoOn`), since the NACK thread may
run between a packet and the test. The test of `NACKTest` over the list is one
step, which is exact with one peer. A node drops what is not addressed to it
(`validate_it`), which changes nothing and is not a step.

The wire is a set of packets that can still arrive, and again: `sendACKS` sends
20 copies, and two threads send equal NACKs. `Lose` takes the last copy away.
`flag` is read anew in every turn of `while (flag);`, as an unoptimised build
does. A retransmission goes to `dest_node[0]`, whoever asked (`mynode.c:360`).

* *Ten bytes too many.* The answer to a NACK copies the share and the ten bytes
  of the header (`mynode.c:155`, 356), so it reads and writes ten bytes behind
  the packet and, for the last packet, reads behind the mapping. The model sends
  the packet as it should be; no property depends on what those bytes are.
* *One step of the NACK thread.* `NACKNext` is the scan and the move to the next
  peer (409-414), between which the code sleeps for a second. That differs only
  when a peer joins the list in that second, which takes a third node.

### Custom Protocol and the code

`CustomReceiver` is translated from `client_new.c` and holds for the same
functions of `server_new.c`; the constants `Me`, `Peer` and `KeepsMin` are what
they differ in. `Store` and `Count` are two steps: `retrans` and `max` are
changed before `ttlpkt`, and `nakthr`, which does not take the same lock, may
look in between. `min` is a local of the scan in the client and survives in the
server. A packet behind the file (111, sent by a server that answers its own ack)
is marked behind the array, and its entry can be marked by nobody.

`CustomSession` puts both on one wire, `air`. A frame is seen by every socket
not bound to an interface, those of its own host included, so the server's
`retrthr` meets the NAKs the server itself has sent. The packet's layout is that
of `router_new.c:35-41`, the NAK's that of `nak_pack`; `client.h` is an older
header. A piece is named by its place in the file: `ClientPiece` is always the
first, because `ptr` is never advanced (`client_new.c:491`). `retrthr` of the
client (`client_new.c:287-400`) is never started and has no action.

`Router` has a step for each access to what the threads share: `CreateThread`
and `Link` (a thread runs before its entry is in the list), `Top` (reads
`thread_anchor` once), `Recv`, `Walk`, and `Bzero`, `Fill`, `Send`, between
which another thread can refill `sol_send`. `Walk` over the list is one step: the
list only grows at its end, so any order of looking at it ends at the entry of
the destination or at the last entry there was (`entries` notes how many). Joining `thrd[0]`, which was
never created, fails or crashes.

The router invents and changes nothing (`RefinesWire`), and `CustomSession` may
lose and repeat frames itself, so the properties of the session hold with the
router in between, where moreover no NAK gets across.

### NtpSync and the code

A link is named by its slave; `master` is the tree, chosen at the start from
`Trees`. A round of `mastersyncproc` is `MasterFills` (which packet goes out,
with the `totalsync` of that moment), `MasterSends`, then `NoReply` or `Reply`,
`CheckReply`, and `CalcDelay` or `AssertFails`; `MasterEnds` is the test of its
loop. The reading of `synced` and its reset are one step, as are the reads of the
globals into one packet. `totalsync++` (`master.c:64`, `slave.c:119`) is one step
too: a lost increment takes two threads that count at the same time, and makes a
difference to the count of a master with three slaves or more. `stratum` is read
once where the code reads it at `slave.c:108` and 111. Between filling, sending,
checking and computing the threads of the node interleave. `slavesyncproc` is `SlaveReceives`,
`SlaveAnswers`, `SlaveEnds`. Since a packet that was sent puts its stamp on the
error queue, which makes the socket ready, `select` returns at once: a master
looks for a reply right after sending and finds one of this round, an older one,
or none.

### NtpClock and the code

The link between the root and one of its slaves, over several rounds. The
master's round is `MasterSends` (the sample it has, or an empty packet), then
`NothingThere` or `Look`, and `calcnetdelay` when the reply is not an echo. The
slave's thread is `Read`, then `Answer` for an empty packet or `updatetime` for a
sample. `ArriveDown` and `ArriveUp` are the ways of a packet. The arithmetic is
that of C (`TruncDiv`, `TruncMod`, `ToInt` wraps).

* *Samples overlap.* The master sends every second whatever is under way, so a
  packet can be answered, measured, delivered and used to set the clock while
  others are on any part of the same way. Packets are told apart by their round.
* *What really happened.* `sent`, `arrived`, `asked`, `replied`, `back` are the
  times of each packet by the master's clock, and `leadThen`, `leadBack` what the
  slave's clock was ahead of it at both ends of the slave's part. No action looks
  at them to decide anything that the programs decide: they are what the stamps
  are compared with.
* *The lists of stamps.* `sendtime`, `recvtime` are the master's list and
  `ssendtime`, `srecvtime` the slave's; each is keyed by the sequence number alone
  and used by all threads of its node. `shared` has the nodes that run other
  threads: there `Overwrite` replaces a stamp of the same number by the clock of
  that moment (`ntpapis.c:106`), and at the master it may take `synced` away or
  set it. An intermediate node is a slave whose list is shared: its own
  `mastersyncproc` replaces what `updatetime` looks up (`ntpapis.c:489`, 516).
* *settimeofday* refuses a `tv_usec` outside of a second, and the code takes no
  notice: `prevOffset` is then that of a sample that set nothing.

Taken for granted: the master's clock is the reference, so the model is of a link
of the root, or of a lower one as long as the clock of its master is not set; the
stamp of a packet that was sent is in the list when it is looked up; the kernel
stamps an echo when it is sent, without jitter; a packet that has not arrived
after one of `Ways` never does. When the two programs stop is in `NtpSync`.

## 3. Runs

| run | instance | checks |
|---|---|---|
| `UdpSafety` | 5 bytes, payload 2 (3 packets, the last short), edge byte 0 or 1 | the counter is the number of packets stored; the finished copy is the file; the sender is released only then; nothing behind the file is read; a nonzero edge byte stops the transfer for good; refines `FileTransfer`; under fairness the receiver finishes unless the edge byte is set, and the sender ends unless all acks are lost |
| `UdpMultiple` | 4 bytes, payload 2 | a size that is a multiple of the payload: the finished copy is the file and one more packet |
| `SessionSafety` | 3 bytes, two packets each way | the file comes back as it was sent, through both copies and with datagrams of the wrong phase; a lost burst of acks is fatal |
| `SessionLive` | 1 byte | both programs end unless a burst of acks is lost |
| `SessionAnySize` | 4 bytes (two full packets and the surplus one), any first datagram | the server stores only true chunks; the client is released only by an ack |
| `SessionMisread` | any first datagram | **violation**: "we got the whole file" for a part of it |
| `NodePair` | two nodes, two packets each, final acks may be lost | final acks only for complete files; marks and file agree; a NACK thread left in its loop, lost final acks, and two nodes that have silenced each other while each misses a packet are never made good |
| `NodeLossless` | two nodes, one packet each, no loss | both receive threads end |
| `CustomSafety` | 3 packets, ack number 4 | scans stay inside; what each side stores and when it says so; the last packet is never asked for; the server's `retrthr` ends on the client's ack; a lost packet is fatal in both directions |
| `RouterSafety` | 2 interfaces, 4 frames (each side, nobody, a NAK) | only the first thread follows a null pointer; a frame leaves by its own interface unless the list ended before that when the thread walked it, or another thread has refilled `sol_send`, whose interface it then takes; refines `RouterWire` |
| `NtpSafety` | a chain and a fan of three nodes, `NO_OF_SYNC` 1, 3 rounds, 1 packet per direction | samples leave in the next round; echoes are not counted; slaves stop from the root down; who can fail the assertion; a lost last reply and an overshot counter keep a master running |
| `ClockSafety` | a second of 8 ticks, an int of 32 values, 4 rounds that overlap, or 2 with other threads in both nodes | a sample has the stamps of its own exchange unless a list is shared, and offset and set clock are as right as the ways are symmetric and the stamps are its own; once no sample under way can pass, a best offset that is too good freezes the clock |

Bounds.

* UDP: three packets give a first, a middle and a short last one, which are all
  the cases the code distinguishes, and let two gaps and a late copy coexist. The
  sessions have two packets each way (one in the liveness run): enough for a
  datagram of one phase to be a valid packet number in the other. `NoLoss`
  (`SessionAnySize`) and `FewLosses` (`NodePair`, only final acks are lost) are
  action constraints: a datagram that is never taken is as good as lost for
  invariants that do not look at the network; `LostFinalAcksAreFatal` looks only
  at the final acks, and for `SilenceIsFatal` packets 0 may be lost once both
  NACK threads are silent.
* Nodes: one peer each and files of the same size, because the instance with two
  peers is beyond what TLC finishes in minutes: a list that grows and files of
  different lengths are left to the theorems. `NodePair` is symmetric in its nodes
  and has no liveness property.
* Custom: `AckNo = 4` with packets 0 to 2 leaves a number between the file and
  the ack, as 111 does in a short file. `AckNo \in Pkts`, a file of more than 111
  packets, is covered by the proofs.
* Router: `thrd` has room for two interfaces (`router_new.c:21`): with a third the
  program writes behind it, which is not modelled.
* NTP: three rounds are enough for a sample, its delivery, the last reply and one
  round after the end of the count with `NO_OF_SYNC = 1`; a packet that does not
  fit in `InFlight` is lost. They only just reach a lost last reply, and cannot push
  a master of one slave past its limit whatever the test of its loop is; theorems
  `LostReplyCorrect` and `NtpTypeCorrect` cover the rounds after that.
* Clock: `US = 8` and `IntRange = 16` make both the split of seconds and the wrap of
  ints happen. `Leads` has one that fits and one that does not, and ways of 1 and 4
  give delays on both sides of the split. Four rounds are two samples, each with
  its delivery, of which the second is measured with the clock of before the first
  one's setting, and which can set the clock twice. With other threads
  (`SharedShort`) two rounds are enough for a sample and its delivery, with one
  stamp replaced (`MaxForeign`). `Prompt` lets nothing come between the arrival of
  a packet and what the slave does with it, nor before `calcnetdelay`, but for what
  other threads do; `Handlings` is the time that passes before a packet is read.

Deadlock is not checked: every program comes to an end.

### Findings

`SessionMisread`, a failing run and an entry of `findings`: the first datagram is
the size, whatever it is (`server.c:245`), against "we got the whole file"
(`server.c:292`).

Other disagreements of code and intention are stated as properties that hold:

* A size that is a multiple of 1400 costs one more packet, since
  `ceil(filesize / MAXBUFSIZE)` divides integers (`server.c:247`, `SurplusPacket`).
* `mynode.c` does not always "terminate the program" (172-175): a NACK thread that
  waits for `flag` when the receive thread ends waits for good
  (`DoneWithFlagIsFatal`), final acks that are all lost are not sent again
  (`LostFinalAcksAreFatal`), and two running nodes silence each other for good when
  each has been asked for a packet and misses one itself (`SilenceIsFatal`). With two
  peers a NACK thread can stay with one of
  them for ever (`mynode.c:410`, `StuckOnPeer` in `MyNodeProofs`), and the one that
  is not first in the list of destinations is sent nothing again (`mynode.c:360`,
  `SecondNotServed`). Two nodes whose files have different numbers of packets never
  end (`mynode.c:301`, `NoneEnds`).
* The Custom Protocol's server ends up with the first piece in every place
  (`ServerCopy`; `clientfile.txt` of the repository is such a file), a lost packet
  of the client is fatal, and so is one of the server's for which the server itself
  has no NAK under way (`LostPacketIsFatal`), a lost last packet is never asked for
  (`LastNeverAsked`).
* The router can send a frame out of the wrong interface or nowhere, in the two ways
  of `WrongWayExplained`.
* The NTP's master may run for ever (`LostReplyIsFatal`, `OvershootIsFatal`), and an
  intermediate node abort (`OnlyIntermediateAborts`). A slave's clock may be off, or
  not set at all, by what `SetClockRight` says, and then stay so (`FrozenForGood`);
  for a slave that is a master too, or has one with other slaves, even the stamps
  may be another packet's (`ntpapis.c:505` calls the step faulty).

## 4. Fairness

`UdpTransfer!Fairness` and those of the sessions: weak fairness of every thread's
own steps (threads are scheduled, nothing but a receive blocks), strong fairness
of receiving each packet and each NAK (what is sent again and again gets
through), strong fairness of taking an ack that stays on its way. Nothing is
assumed of the acks' survival, since they are sent once; hence the "unless" of
the liveness properties. `MyNode!Fairness`, used on a wire without loss: every
thread runs; a packet a node still needs and a NACK are received if they are on
the wire again and again; the NACK thread leaves its loop if `flag` is 0 again
and again. The Custom Protocol, the router and the NTP have no fairness: what
matters there is what keeps them from ending, which are action properties.

## 5. Proofs

Each proof module proves its theorems for every value of the constants that the
named assumptions allow. The type invariants of `UdpTransfer`, `UdpSession`,
`MyNode`, `CustomSession`, `Router` and `NtpClock` are proved and have no run.

* `UdpTransferProofs` (`IndInv`). That the sender is released only by a complete
  receiver needs that acks come only from one (`IntsTrue`, `AckSeen`); that the
  copy is true needs that every datagram on its way is (`DgramsTrue`), and that
  in turn that every NAK names a packet in range (`IntsTrue`, `NakInRange`) and
  that both sides compute the same `totalSeq` (`SizeAgreed`); that a complete
  counter means a complete file needs that the counter is the number of packets
  written (`CountMatchesFile`), each of which is marked (`StoredMarked`) and true
  (`StoredTrue`). `WholeFileCorrect` and `SenderStaysInFileCorrect` are for sizes
  that are no multiple of the payload, which `UdpMultiple` shows to be necessary.
  `Refinement`: `Receive` is `Deliver` or a stutter, `ReleaseSender` is `Release`.
  `SurplusCorrect` is for the multiples: a packet with the number `TotalSeq` holds
  the same surplus bytes wherever it is (`SurplusInv`). `AskingCorrect` is the
  part of `TransferEnds` that needs no fairness: while the receiver waits its NAK
  thread runs and there is a packet to ask for, but for one that the byte behind
  `allNodes` passes for, since a mark without a packet can only be that (`GapInv`).
* `UdpSessionProofs`. The last section of `UdpTransferProofs` says what a sender and
  a receiver do on sockets that others use too (`SenderMoves`, `ReceiverMoves`,
  `FullReceiver`: no assumption about what comes in except that a datagram with a
  chunk carries one); it is instantiated for both directions. `GenInv` holds whatever the
  server takes for the size: the receivers' halves, which ints can be under way
  (`WireTypes`), that each half of a program begins only after the other side has
  finished the one before (`PhaseInv`), and that what travels to the server is true
  (`CopyInv`). It gives the types, `TextrefTrue`, `LostAcksAreFatal`, the same for the
  acks of the client (`BwdAcksFatal`), and that both receivers go on asking
  (`BothAsk`). When the size comes first (`SizeFirst`), `ExactInv` adds the size the
  server has and that what travels back is what the server has. What both sides end
  up with is `Final`, the file and, when its last packet is full, one packet of what
  lies beyond it (`CopyDone`); hence, step by step, `EchoIsFileTransfer` for files of
  any size, and for those that end in a short packet `ServerWholeFile` and
  `TurnOnlyWithFile`. `StaysInFiles` (with `FirstsInv`: which ints can reach whom)
  says that the surplus packet makes only the client read past its file: the server
  has it as a packet of its own. `SessionMisread` shows what happens without
  `SizeFirst`.
* `MyNodeProofs`. For any nodes: types (`NodeTypes`), `DoneWithFlagIsFatal`,
  `LostFinalAcksAreFatal` and `StuckOnPeer`. `MarkInv`, also for any nodes, says that a
  node marks only what a peer has, and takes a peer for complete only with as many
  marks as its own file has packets: so who ends knows nobody with a shorter file
  (`EndsOnlyWithLongerFiles`), and a packet that is lost on its way to a second
  destination keeps that node from ending (`SecondNotServed`). The rest is false with
  a second peer and is proved under `TwoNodes`: `PairInv` (what is marked is in the
  file, a final ack received or a thread ended tells the truth) and `AcksTrue` (so
  does one on its way). For files of any lengths it gives `SilenceIsFatal` (the `flag` of a
  silent node falls only when its peer has sent a final ack, which one that misses
  a packet cannot have), what a final ack tells (`FinishMeansPrefix`) and that nodes with different numbers
  of packets never end (`NoneEnds`); with `SamePackets`, which is what the code takes
  for granted, `FinishMeansStored` and `MarksMatchFile`.
* `CustomReceiverProofs`, `CustomProofs`. Of the receiver (`CountInv`): `ttlpkt` is
  the number of marks but for the one that `recvthr` is about to count, and
  nothing is marked behind the array but 111. Of the wire (`FrameInv`): what a
  packet may carry, who may have sent a NAK, and that an ack means a receiver
  that has finished. `CustomProofs` uses the former for both programs.
  `LostPacketIsFatal` has a lemma for each direction (`ToServerLost`, `ToClientLost`):
  nothing sends a packet of the client's again, and of the server's only what the
  server has asked for itself.
* `RouterProofs` (`IInv`). The head of the list is linked before a second thread
  starts (`ListMade`, `HeadLinked`); a way found is that of the destination, or the
  last entry there was, which is before it (`WayFound`); `sol_send` has no interface
  only while the thread that cleared it has not filled it (`Cleared`). With that
  `WrongWayExplained` is an invariant. What threads hold and links carry was put by a host
  (`FrameTrue`, `AirTrue`).
* `NtpSyncProofs`. One invariant per question, on top of the types: who has counted
  how far when a slave is told to stop (`OrderInv`), that a reply that is being
  counted is above the first test, so that only a stratum raised since can fail the
  assertion (`AbortInv`), what a full packet holds in the round it leaves
  (`FreshInv`), which strata can be under way on the first two levels
  (`RootLinkInv`, `NearInv`), that no stratum exceeds a depth (`DepthInv`), that
  a master of one slave stops counting (`LoopInv`). `EchoNeverCounted` and
  `LostReplyIsFatal` speak of the first two levels of masters only (`Near`):
  further down a stratum can fall, and an echo can be counted.
* `NtpClockProofs` (`ClockInv`). What each packet has been through (`RoundInv`,
  `ThreadInv`, `TripInv`), what its stamps are in terms of that (`StampInv`), and what
  a sample is computed from (`SampleInv`): its own exchange, which is over, and its
  own stamps where no list is shared. `OffsetRight` needs no more than that and the
  arithmetic. `SetClockRight` is for samples with their own stamps, which the
  invariant does not promise at a node that shares its list. `FrozenForGood` is
  inductive only because `Frozen` looks at everything under way: a sample that was
  measured with the clock of before the last setting can pass once more, so what
  must not pass is each sample on its way, each exchange that will become one, and
  whatever the clock as it is can give.

Only model-checked: liveness (`TransferEnds`, `SenderEndsUnlessAcksLost`,
`SessionEndsUnlessAcksLost`, `AllReceiveThreadsEnd`; fairness and ENABLED are
beyond the prover).

## 6. Not modelled

Set-up of sockets and interfaces, the paths of failing system calls, time
measurement, printing. The reading of configuration files in the NTP (two `fgets`
of which only the second line is used) and its signal handler; the memory of the
lists of stamps and interfaces; the lengths of `strncpy`. Lengths of pieces in the
Custom Protocol, whose `FILESIZE` is in no file of the repository. A router with
more than two interfaces, whose `thrd` overflows. `flag` of `mynode.c` held in a
register by an optimising compiler. The exchange of three nodes is covered by the
theorems that hold for any nodes and by no run; with two peers a receive thread
may end before it has heard of the second one.

## 7. Plan

Done: the UDP copy, the node, the Custom Protocol, the NTP, and the proofs of the
safety properties above.

Left: liveness of `MyNode` with loss, which lost final acks (`LostFinalAcksAreFatal`),
nodes that silence each other (`SilenceIsFatal`) and a thread left waiting
(`DoneWithFlagIsFatal`) all prevent, and which is for TLC; and, for the proofs, what
can still be said of an NTP master with
several slaves and of slaves further down, where `EchoNeverCounted` and
`LostReplyIsFatal` stop.
