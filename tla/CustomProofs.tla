---------------------------- MODULE CustomProofs ----------------------------
(***************************************************************************)
(* Proofs about CustomSession, for any number of packets and whatever      *)
(* becomes of the frames.  What holds of either receiver is proved once,   *)
(* in CustomReceiverProofs; here is what the two of them put on the wire.  *)
(***************************************************************************)
EXTENDS CustomSession, FiniteSetTheorems, TLAPS

CliP == INSTANCE CustomReceiverProofs WITH
  Me <- 1, Peer <- 2, KeepsMin <- FALSE,
  rcv <- crcv, retrans <- cretrans, max <- cmax, min <- cmin,
  ttlpkt <- cttlpkt, file <- cfile, nak <- cnak, parser <- cparser

SrvP == INSTANCE CustomReceiverProofs WITH
  Me <- 2, Peer <- 1, KeepsMin <- TRUE,
  rcv <- srcv, retrans <- sretrans, max <- smax, min <- smin,
  ttlpkt <- sttlpkt, file <- sfile, nak <- snak, parser <- sparser

LEMMA SizesHold == CliP!Sizes /\ SrvP!Sizes
  BY CustomAssumption DEF CliP!Sizes, SrvP!Sizes

LEMMA ClientSteps ==
  /\ Cli!Start <=> CliP!Start
  /\ Cli!Next <=> CliP!Next
  /\ Cli!Finished <=> cnak = "exited"
  BY DEF Cli!Start, Cli!Next, Cli!Calloc, Cli!Store, Cli!Count, Cli!Scan, Cli!SendAcks, Cli!SendNak,
     Cli!validate_it, Cli!missed_pkts, Cli!Missing, Cli!ScanRange, Cli!AllReceived, Cli!Pkts,
     Cli!NakPack, Cli!AckPack, Cli!Hole, Cli!recvVars, Cli!nakVars, Cli!Finished,
     CliP!Start, CliP!Next, CliP!Calloc, CliP!Store, CliP!Count, CliP!Scan, CliP!SendAcks, CliP!SendNak,
     CliP!validate_it, CliP!missed_pkts, CliP!Missing, CliP!ScanRange, CliP!AllReceived, CliP!Pkts,
     CliP!NakPack, CliP!AckPack, CliP!Hole, CliP!recvVars, CliP!nakVars

LEMMA ServerSteps ==
  /\ Srv!Start <=> SrvP!Start
  /\ Srv!Next <=> SrvP!Next
  /\ Srv!Finished <=> snak = "exited"
  BY DEF Srv!Start, Srv!Next, Srv!Calloc, Srv!Store, Srv!Count, Srv!Scan, Srv!SendAcks, Srv!SendNak,
     Srv!validate_it, Srv!missed_pkts, Srv!Missing, Srv!ScanRange, Srv!AllReceived, Srv!Pkts,
     Srv!NakPack, Srv!AckPack, Srv!Hole, Srv!recvVars, Srv!nakVars, Srv!Finished,
     SrvP!Start, SrvP!Next, SrvP!Calloc, SrvP!Store, SrvP!Count, SrvP!Scan, SrvP!SendAcks, SrvP!SendNak,
     SrvP!validate_it, SrvP!missed_pkts, SrvP!Missing, SrvP!ScanRange, SrvP!AllReceived, SrvP!Pkts,
     SrvP!NakPack, SrvP!AckPack, SrvP!Hole, SrvP!recvVars, SrvP!nakVars

-----------------------------------------------------------------------------
(* The invariant.                                                          *)

ToServer(m) == m.my_protocol = 19 /\ m.dest = 2
ToClient(m) == m.my_protocol = 19 /\ m.dest = 1

(* Each frame says what its sender's side allows: the client sends its     *)
(* first piece under every number; the server sends what Copied gives, for *)
(* packets and for AckNo; a NAK is for an entry below its sender's max, or *)
(* it is the ack of a sender that has finished.                            *)
FrameInv(m) ==
  /\ ToServer(m) => m.seqno \in Pkts /\ m.piece = 0
  /\ ToClient(m) => m.seqno \in Pkts \cup {AckNo} /\ m.piece = Copied(m.seqno)
  /\ m.my_protocol = 99 =>
       /\ m.dest # 2 => /\ m.seqno \in Pkts \cup {AckNo}
                        /\ m.seqno = NoPkts - 1 => AckNo = NoPkts - 1
       /\ m.dest = 2 => /\ m.seqno = AckNo => cnak = "exited" \/ AckNo \in Pkts
                        /\ m.seqno = NoPkts - 1 /\ AckNo # NoPkts - 1 => AckNo \in cretrans \ Pkts

MainInv ==
  /\ cseq \in 0..NoPkts /\ sseq \in 0..NoPkts
  /\ retr \in {"off", "on", "exited", "crashed"}
  /\ retr = "exited" => cnak = "exited" \/ AckNo \in Pkts
  /\ sseq > 0 => snak = "exited"

FileInv ==
  /\ sretrans \subseteq Pkts
  /\ \A i \in Pkts : sfile[i] \in {0, -1}
  /\ \A i \in Pkts : cfile[i] \in {i, -1}

AirInv == \A m \in air : FrameInv(m)

CustomInv == CliP!RecvInv /\ SrvP!RecvInv /\ MainInv /\ FileInv /\ AirInv

LEMMA InitCustom == Init => CustomInv
<1> SUFFICES ASSUME Init PROVE CustomInv
  OBVIOUS
<1>1. CliP!Init /\ SrvP!Init
  BY DEF Init, Cli!Init, Srv!Init, CliP!Init, SrvP!Init, Cli!Pkts, Srv!Pkts, CliP!Pkts, SrvP!Pkts,
     Cli!Hole, Srv!Hole, CliP!Hole, SrvP!Hole
<1>2. CliP!RecvInv /\ SrvP!RecvInv
  BY <1>1, SizesHold, CliP!RecvInit, SrvP!RecvInit
<1>3. MainInv /\ FileInv /\ AirInv
  BY CustomAssumption DEF Init, Cli!Init, Srv!Init, Cli!Pkts, Srv!Pkts, Cli!Hole, Srv!Hole,
     MainInv, FileInv, AirInv, Pkts
<1> QED
  BY <1>2, <1>3 DEF CustomInv

LEMMA FramesFit == AirInv => CliP!FramesInRange /\ SrvP!FramesInRange
<1> SUFFICES ASSUME AirInv, NEW m \in air
             PROVE  /\ ToClient(m) => /\ m.seqno \in Pkts \cup {AckNo}
                                      /\ m.piece \in Pkts \cup {-2}
                    /\ ToServer(m) => /\ m.seqno \in Pkts \cup {AckNo}
                                      /\ m.piece \in Pkts \cup {-2}
  BY DEF CliP!FramesInRange, SrvP!FramesInRange, CliP!validate_it, SrvP!validate_it, ToClient, ToServer,
     CliP!Numbers, SrvP!Numbers, CliP!Pieces, SrvP!Pieces, CliP!Pkts, SrvP!Pkts, CliP!Behind,
     SrvP!Behind, Pkts
<1>1. FrameInv(m)
  BY DEF AirInv
<1>2. 0 \in Pkts
  BY CustomAssumption DEF Pkts
<1> QED
  BY <1>1, <1>2 DEF FrameInv, Copied, Srv!Behind

LEMMA FrameKept ==
  ASSUME NEW m, FrameInv(m), cnak = "exited" => cnak' = "exited", cretrans \subseteq cretrans'
  PROVE  FrameInv(m)'
  BY DEF FrameInv, ToServer, ToClient, Copied

-----------------------------------------------------------------------------
(* The steps of the two mains and of the wire.                             *)

LEMMA ClientSendsStep == ASSUME CustomInv, ClientSends PROVE CustomInv'
<1> PICK f : f = Cli!Data(2, cseq, ClientPiece)
  OBVIOUS
<1>1. /\ cseq < NoPkts /\ cseq' = cseq + 1 /\ air' = air \cup {f}
      /\ UNCHANGED <<sseq, retr>> /\ UNCHANGED clientRcv /\ UNCHANGED serverRcv
  BY DEF ClientSends
<1>2. CliP!RecvInv' /\ SrvP!RecvInv'
  BY <1>1, CliP!RecvStutter, SrvP!RecvStutter DEF CustomInv, clientRcv, serverRcv
<1>3. cseq \in Pkts /\ cseq + 1 \in 0..NoPkts
  BY <1>1, CustomAssumption DEF CustomInv, MainInv, Pkts
<1>4. MainInv'
  BY <1>1, <1>3 DEF CustomInv, MainInv, clientRcv, serverRcv
<1>5. FileInv'
  BY <1>1 DEF CustomInv, FileInv, clientRcv, serverRcv
<1>6. /\ f.my_protocol = 19 /\ f.dest = 2 /\ f.seqno = cseq /\ f.piece = 0
  BY DEF Cli!Data, ClientPiece
<1>7. FrameInv(f)'
  BY <1>3, <1>6 DEF FrameInv, ToServer, ToClient
<1>8. AirInv'
  BY <1>1, <1>7, FrameKept DEF CustomInv, AirInv, clientRcv
<1> QED
  BY <1>2, <1>4, <1>5, <1>8 DEF CustomInv

LEMMA ServerSendsStep ==
  ASSUME CustomInv, ServerSends \/ RetrthrAnswers
  PROVE  CustomInv'
<1>1. UNCHANGED clientRcv /\ UNCHANGED serverRcv /\ UNCHANGED <<cseq, retr>>
  BY DEF ServerSends, RetrthrAnswers, mainVars
<1>2. CliP!RecvInv' /\ SrvP!RecvInv'
  BY <1>1, CliP!RecvStutter, SrvP!RecvStutter DEF CustomInv, clientRcv, serverRcv
<1>3. FileInv'
  BY <1>1 DEF CustomInv, FileInv, clientRcv, serverRcv
<1>4. MainInv'
  <2>1. CASE ServerSends
    BY <1>1, <2>1, CustomAssumption DEF ServerSends, Joined, CustomInv, MainInv, clientRcv, serverRcv
  <2>2. CASE RetrthrAnswers
    BY <1>1, <2>2 DEF RetrthrAnswers, mainVars, CustomInv, MainInv, clientRcv, serverRcv
  <2> QED
    BY <2>1, <2>2
<1>5. \E i \in Pkts \cup {AckNo} : air' = air \cup {Srv!Data(1, i, Copied(i))}
  <2>1. CASE ServerSends
    <3>1. sseq \in Pkts /\ Copied(sseq) = sseq
      BY <2>1, CustomAssumption DEF ServerSends, CustomInv, MainInv, Pkts, Copied
    <3> QED
      BY <2>1, <3>1 DEF ServerSends
  <2>2. CASE RetrthrAnswers
    BY <2>2 DEF RetrthrAnswers, Answered, CustomInv, AirInv, FrameInv
  <2> QED
    BY <2>1, <2>2
<1>6. PICK i \in Pkts \cup {AckNo} : air' = air \cup {Srv!Data(1, i, Copied(i))}
  BY <1>5
<1> DEFINE f == Srv!Data(1, i, Copied(i))
<1>7. FrameInv(f)'
  BY DEF FrameInv, ToServer, ToClient, Srv!Data, Copied
<1> HIDE DEF f
<1>8. AirInv'
  BY <1>1, <1>6, <1>7, FrameKept DEF CustomInv, AirInv, clientRcv, f
<1> QED
  BY <1>2, <1>3, <1>4, <1>8 DEF CustomInv

LEMMA QuietStep ==
  ASSUME CustomInv, StartRetrthr \/ RetrthrEnds \/ RetrthrCrashes \/ Lose \/ UNCHANGED vars
  PROVE  CustomInv'
<1>1. UNCHANGED clientRcv /\ UNCHANGED serverRcv /\ UNCHANGED <<cseq, sseq>> /\ air' \subseteq air
  BY DEF StartRetrthr, RetrthrEnds, RetrthrCrashes, Lose, mainVars, vars
<1>2. CliP!RecvInv' /\ SrvP!RecvInv'
  BY <1>1, CliP!RecvStutter, SrvP!RecvStutter DEF CustomInv, clientRcv, serverRcv
<1>3. AirInv' /\ FileInv'
  BY <1>1, FrameKept DEF CustomInv, AirInv, FileInv, clientRcv, serverRcv
<1>4. retr' \in {"off", "on", "exited", "crashed"}
  BY DEF StartRetrthr, RetrthrEnds, RetrthrCrashes, Lose, mainVars, vars, CustomInv, MainInv
<1>5. retr' = "exited" => cnak = "exited" \/ AckNo \in Pkts
  <2>1. CASE RetrthrEnds
    BY <2>1 DEF RetrthrEnds, EndsRetrthr, CustomInv, AirInv, FrameInv
  <2>2. CASE ~RetrthrEnds
    BY <2>2 DEF StartRetrthr, RetrthrCrashes, Lose, mainVars, vars, CustomInv, MainInv
  <2> QED
    BY <2>1, <2>2
<1>6. MainInv'
  BY <1>1, <1>4, <1>5 DEF CustomInv, MainInv, clientRcv, serverRcv
<1> QED
  BY <1>2, <1>3, <1>6 DEF CustomInv

-----------------------------------------------------------------------------
(* The steps of the receivers.                                             *)

LEMMA ClientStep ==
  ASSUME CustomInv, ClientTurns \/ ClientReceives
  PROVE  CustomInv'
<1>1. (CliP!Start \/ CliP!Next) /\ UNCHANGED mainVars /\ UNCHANGED serverRcv
  BY ClientSteps DEF ClientTurns, ClientReceives
<1>2. CliP!RecvInv' /\ SrvP!RecvInv'
  BY <1>1, SizesHold, FramesFit, CliP!RecvNext, SrvP!RecvStutter DEF CustomInv, serverRcv
<1>3. /\ cmax \in Pkts \cup {AckNo} /\ cparser \in -1..cmax /\ (cparser # -1 => cparser < cmax)
      /\ (cmax # 0 => cmax \in cretrans) /\ (cnak = "exited" => crcv = "done")
      /\ cfile \in [Pkts -> Pkts \cup {-2} \cup {-1}]
  BY DEF CustomInv, CliP!RecvInv, CliP!RecvTypes, CliP!CountInv, CliP!Numbers, CliP!Pkts,
     CliP!Pieces, CliP!Behind, CliP!Hole, Pkts
<1>4. /\ cnak = "exited" => cnak' = "exited"
      /\ cretrans \subseteq cretrans'
  BY <1>1, <1>3 DEF CliP!Start, CliP!Next, CliP!Calloc, CliP!Store, CliP!Count, CliP!Scan,
     CliP!SendAcks, CliP!SendNak, CliP!recvVars, CliP!nakVars
<1>5. MainInv'
  BY <1>1, <1>4 DEF CustomInv, MainInv, mainVars, serverRcv
<1>6. ASSUME NEW i \in Pkts
      PROVE  cfile'[i] \in {i, -1}
  <2>1. CASE \E m \in air : CliP!Store(m)
    <3>1. PICK m \in air : CliP!Store(m)
      BY <2>1
    <3>2. m.seqno \in Pkts => m.piece = m.seqno
      BY <3>1 DEF CliP!Store, CliP!validate_it, CustomInv, AirInv, FrameInv, ToClient, Copied
    <3>3. cfile' = IF m.seqno \in Pkts THEN [cfile EXCEPT ![m.seqno] = m.piece] ELSE cfile
      BY <3>1 DEF CliP!Store, CliP!Pkts, Pkts
    <3> QED
      BY <1>3, <3>2, <3>3 DEF CustomInv, FileInv
  <2>2. CASE ~\E m \in air : CliP!Store(m)
    <3>1. cfile' = cfile
      BY <1>1, <2>2 DEF CliP!Start, CliP!Next, CliP!Calloc, CliP!Count, CliP!Scan,
         CliP!SendAcks, CliP!SendNak, CliP!recvVars
    <3> QED
      BY <3>1 DEF CustomInv, FileInv
  <2> QED
    BY <2>1, <2>2
<1>7. FileInv'
  BY <1>1, <1>6 DEF CustomInv, FileInv, serverRcv
<1>8. ASSUME NEW m \in air', m \notin air
      PROVE  FrameInv(m)'
  <2>1. CASE m = CliP!AckPack(2) /\ cnak' = "exited"
    BY <2>1, CustomAssumption DEF CliP!AckPack, CliP!NakPack, FrameInv, ToServer, ToClient
  <2>2. CASE m = CliP!NakPack(2, cparser) /\ cparser # -1
    <3>1. cparser \in Nat /\ cmax \in Nat /\ cparser < cmax /\ NoPkts \in Nat /\ AckNo \in Nat
      BY <1>3, <2>2, CustomAssumption DEF Pkts
    <3>2. cparser = AckNo => AckNo \in Pkts
      BY <1>3, <3>1 DEF Pkts
    <3>3. cparser = NoPkts - 1 => AckNo \in cretrans \ Pkts
      BY <1>3, <3>1 DEF Pkts
    <3>4. m.my_protocol = 99 /\ m.dest = 2 /\ m.seqno = cparser
      BY <2>2 DEF CliP!NakPack
    <3> QED
      BY <1>4, <3>2, <3>3, <3>4 DEF FrameInv, ToServer, ToClient
  <2> QED
    BY <1>1, <1>8, <2>1, <2>2 DEF CliP!Start, CliP!Next, CliP!Calloc, CliP!Store, CliP!Count, CliP!Scan,
       CliP!SendAcks, CliP!SendNak
<1>9. AirInv'
  BY <1>4, <1>8, FrameKept DEF CustomInv, AirInv
<1> QED
  BY <1>2, <1>5, <1>7, <1>9 DEF CustomInv

LEMMA ServerStep ==
  ASSUME CustomInv, ServerStart \/ ServerReceives
  PROVE  CustomInv'
<1>1. (SrvP!Start \/ SrvP!Next) /\ UNCHANGED mainVars /\ UNCHANGED clientRcv
  BY ServerSteps DEF ServerStart, ServerReceives
<1>2. CliP!RecvInv' /\ SrvP!RecvInv'
  BY <1>1, SizesHold, FramesFit, SrvP!RecvNext, CliP!RecvStutter DEF CustomInv, clientRcv
<1>3. /\ smax \in Pkts \cup {AckNo} /\ sparser \in -1..smax /\ (sparser # -1 => sparser < smax)
      /\ (smax # 0 => smax \in sretrans) /\ (snak = "exited" => srcv = "done")
      /\ sfile \in [Pkts -> Pkts \cup {-2} \cup {-1}]
  BY DEF CustomInv, SrvP!RecvInv, SrvP!RecvTypes, SrvP!CountInv, SrvP!Numbers, SrvP!Pkts,
     SrvP!Pieces, SrvP!Behind, SrvP!Hole, Pkts
<1>4. smax \in Pkts
  BY <1>3, CustomAssumption DEF CustomInv, FileInv, Pkts
<1>5. snak = "exited" => snak' = "exited"
  BY <1>1, <1>3 DEF SrvP!Start, SrvP!Next, SrvP!Calloc, SrvP!Store, SrvP!Count, SrvP!Scan,
     SrvP!SendAcks, SrvP!SendNak, SrvP!recvVars, SrvP!nakVars
<1>6. MainInv'
  BY <1>1, <1>5 DEF CustomInv, MainInv, mainVars, clientRcv
<1>7. FileInv'
  <2>1. CASE \E m \in air : SrvP!Store(m)
    <3>1. PICK m \in air : SrvP!Store(m)
      BY <2>1
    <3>2. m.seqno \in Pkts /\ m.piece = 0
      BY <3>1 DEF SrvP!Store, SrvP!validate_it, CustomInv, AirInv, FrameInv, ToServer
    <3>3. sfile' = [sfile EXCEPT ![m.seqno] = 0] /\ sretrans' = sretrans \cup {m.seqno}
      BY <3>1, <3>2 DEF SrvP!Store, SrvP!Pkts, Pkts
    <3> QED
      BY <1>1, <1>3, <3>2, <3>3 DEF CustomInv, FileInv, clientRcv
  <2>2. CASE ~\E m \in air : SrvP!Store(m)
    <3>1. sfile' = sfile /\ sretrans' = sretrans
      BY <1>1, <2>2 DEF SrvP!Start, SrvP!Next, SrvP!Calloc, SrvP!Count, SrvP!Scan,
         SrvP!SendAcks, SrvP!SendNak, SrvP!recvVars
    <3> QED
      BY <1>1, <3>1 DEF CustomInv, FileInv, clientRcv
  <2> QED
    BY <2>1, <2>2
<1>8. ASSUME NEW m \in air', m \notin air
      PROVE  FrameInv(m)'
  <2>1. m.my_protocol = 99 /\ m.dest = 1 /\ (m.seqno = AckNo \/ m.seqno \in 0..(NoPkts - 2))
    <3>1. m = SrvP!AckPack(1) \/ (m = SrvP!NakPack(1, sparser) /\ sparser # -1)
      BY <1>1, <1>8 DEF SrvP!Start, SrvP!Next, SrvP!Calloc, SrvP!Store, SrvP!Count, SrvP!Scan,
         SrvP!SendAcks, SrvP!SendNak
    <3>2. sparser # -1 => sparser \in 0..(NoPkts - 2)
      BY <1>3, <1>4, CustomAssumption DEF Pkts
    <3> QED
      BY <3>1, <3>2 DEF SrvP!AckPack, SrvP!NakPack
  <2>2. m.seqno \in Pkts \cup {AckNo} /\ (m.seqno = NoPkts - 1 => AckNo = NoPkts - 1)
    BY <2>1, CustomAssumption DEF Pkts
  <2> QED
    BY <2>1, <2>2 DEF FrameInv, ToServer, ToClient
<1>9. AirInv'
  BY <1>1, <1>8, FrameKept DEF CustomInv, AirInv, clientRcv
<1> QED
  BY <1>2, <1>6, <1>7, <1>9 DEF CustomInv

(* The inductive invariant holds in every state.                           *)
THEOREM CustomInvariance == Spec => []CustomInv
<1>1. CustomInv /\ [Next]_vars => CustomInv'
  BY ClientSendsStep, ClientStep, ServerStep, ServerSendsStep, QuietStep DEF Next
<1> QED
  BY <1>1, InitCustom, PTL DEF Spec

-----------------------------------------------------------------------------
(* What follows.                                                           *)

(* Both programs keep their types.                                         *)
THEOREM CustomTypeCorrect == Spec => []SessionTypeOK
<1>1. CustomInv => SessionTypeOK
  <2> SUFFICES ASSUME CustomInv PROVE SessionTypeOK
    OBVIOUS
  <2>1. CliP!TypeOK /\ SrvP!TypeOK
    BY CliP!RecvTypeOK, SrvP!RecvTypeOK DEF CustomInv
  <2>2. Cli!TypeOK /\ Srv!TypeOK
    BY <2>1 DEF Cli!TypeOK, CliP!TypeOK, Srv!TypeOK, SrvP!TypeOK, Cli!Pkts, CliP!Pkts, Srv!Pkts, SrvP!Pkts,
       Cli!Pieces, CliP!Pieces, Srv!Pieces, SrvP!Pieces, Cli!Behind, CliP!Behind, Srv!Behind, SrvP!Behind,
       Cli!Hole, CliP!Hole, Srv!Hole, SrvP!Hole
  <2> QED
    BY <2>2 DEF CustomInv, MainInv, SessionTypeOK
<1> QED
  BY <1>1, CustomInvariance, PTL

(* Neither scan looks at an entry that is not there (client_new.c:76, 205; *)
(* server_new.c:78, 227), but for a client that has got packet 111.        *)
THEOREM ScansInsideCorrect == Spec => []ScansInside
<1>1. CustomInv => ScansInside
  <2> SUFFICES ASSUME CustomInv PROVE ScansInside
    OBVIOUS
  <2>1. CliP!ScanInside /\ SrvP!ScanInside
    BY SizesHold, CliP!RecvScanInside, SrvP!RecvScanInside DEF CustomInv
  <2> QED
    BY <2>1 DEF ScansInside, Cli!ScanInside, CliP!ScanInside, Srv!ScanInside, SrvP!ScanInside,
       Cli!ScanRange, CliP!ScanRange, Srv!ScanRange, SrvP!ScanRange, Cli!Pkts, CliP!Pkts, Srv!Pkts, SrvP!Pkts
<1> QED
  BY <1>1, CustomInvariance, PTL

LEMMA ServerHasAll ==
  ASSUME CustomInv, snak = "exited"
  PROVE  sretrans = Pkts
<1>1. srcv = "done" /\ AckNo \notin sretrans \ SrvP!Pkts
  BY DEF CustomInv, SrvP!RecvInv, SrvP!CountInv, FileInv, SrvP!Pkts, Pkts
<1>2. sretrans = SrvP!Pkts
  BY <1>1, SizesHold, SrvP!AllNumbers DEF CustomInv
<1> QED
  BY <1>2 DEF SrvP!Pkts, Pkts

(* When the server says that all packets are received each place of its    *)
(* file holds the first piece of the client's (client_new.c:491).          *)
THEOREM ServerCopyCorrect == Spec => []ServerCopy
<1>1. CustomInv => ServerCopy
  <2> SUFFICES ASSUME CustomInv, snak = "exited" PROVE sfile = [i \in Pkts |-> 0]
    BY ServerSteps DEF ServerCopy
  <2>1. sretrans = Pkts
    BY ServerHasAll
  <2>2. /\ sfile \in [Pkts -> Pkts \cup {-2} \cup {-1}]
        /\ \A i \in Pkts : sfile[i] # -1 <=> i \in sretrans
    BY DEF CustomInv, SrvP!RecvInv, SrvP!RecvTypes, SrvP!CountInv, SrvP!Pkts, SrvP!Pieces,
       SrvP!Behind, SrvP!Hole, Pkts
  <2>3. \A i \in Pkts : sfile[i] = 0
    BY <2>1, <2>2 DEF CustomInv, FileInv
  <2> QED
    BY <2>2, <2>3
<1> QED
  BY <1>1, CustomInvariance, PTL

(* What the client stores is the server's file, and all of it when it says *)
(* so, but for one packet that 111 was counted for (client_new.c:133).     *)
THEOREM ClientCopyCorrect == Spec => []ClientCopy
<1>1. CustomInv => ClientCopy
  <2> SUFFICES ASSUME CustomInv PROVE ClientCopy
    OBVIOUS
  <2>1. CliP!AckMeansStored
    BY SizesHold, CliP!RecvAckMeansStored DEF CustomInv
  <2>2. Cli!AckMeansStored
    BY <2>1 DEF Cli!AckMeansStored, CliP!AckMeansStored, Cli!Finished, CliP!Finished, Cli!Stored, CliP!Stored,
       Cli!Pkts, CliP!Pkts, Cli!Hole, CliP!Hole
  <2> QED
    BY <2>2 DEF ClientCopy, CustomInv, FileInv, Cli!Hole
<1> QED
  BY <1>1, CustomInvariance, PTL

(* The last packet is asked for only by a client whose max was pushed up   *)
(* by packet 111 (server_new.c:78, client_new.c:76).                       *)
THEOREM LastNeverAskedCorrect == Spec => []LastNeverAsked
<1>1. CustomInv => LastNeverAsked
  BY DEF CustomInv, AirInv, FrameInv, LastNeverAsked
<1> QED
  BY <1>1, CustomInvariance, PTL

(* The server's retransmit thread ends only on the ack of a client that    *)
(* has finished (server_new.c:367).                                        *)
THEOREM RetrEndCorrect == Spec => []RetrEndsOnClientAck
<1>1. CustomInv => RetrEndsOnClientAck
  BY ClientSteps DEF CustomInv, MainInv, RetrEndsOnClientAck
<1> QED
  BY <1>1, CustomInvariance, PTL

LEMMA ToServerLost ==
  ASSUME CustomInv, Next, LostToServer
  PROVE  LostToServer'
<1>1. PICK i \in Pkts : /\ i < cseq /\ i \notin sretrans
                        /\ \A m \in air : ~(ToServer(m) /\ m.seqno = i)
  BY DEF LostToServer, NotComing, ToServer
<1>2. cseq \in Nat /\ i \in Nat
  BY CustomAssumption DEF CustomInv, MainInv, Pkts
<1>3. i < cseq' /\ i \notin sretrans' /\ \A m \in air' : ~(ToServer(m) /\ m.seqno = i)
  <2>1. CASE ClientSends
    BY <1>1, <1>2, <2>1 DEF ClientSends, Cli!Data, ClientPiece, serverRcv, ToServer
  <2>2. CASE ClientTurns \/ ClientReceives
    <3>1. (CliP!Start \/ CliP!Next) /\ UNCHANGED mainVars /\ UNCHANGED serverRcv
      BY <2>2, ClientSteps DEF ClientTurns, ClientReceives
    <3>2. ASSUME NEW m \in air' PROVE m \in air \/ m.my_protocol = 99
      BY <3>1 DEF CliP!Start, CliP!Next, CliP!Calloc, CliP!Store, CliP!Count, CliP!Scan,
         CliP!SendAcks, CliP!SendNak, CliP!AckPack, CliP!NakPack
    <3> QED
      BY <1>1, <3>1, <3>2 DEF mainVars, serverRcv, ToServer
  <2>3. CASE ServerStart \/ ServerReceives
    <3>1. (SrvP!Start \/ SrvP!Next) /\ UNCHANGED mainVars
      BY <2>3, ServerSteps DEF ServerStart, ServerReceives
    <3>2. ASSUME NEW m \in air' PROVE m \in air \/ m.my_protocol = 99
      BY <3>1 DEF SrvP!Start, SrvP!Next, SrvP!Calloc, SrvP!Store, SrvP!Count, SrvP!Scan,
         SrvP!SendAcks, SrvP!SendNak, SrvP!AckPack, SrvP!NakPack
    <3>3. i \notin sretrans'
      BY <1>1, <3>1 DEF SrvP!Start, SrvP!Next, SrvP!Calloc, SrvP!Store, SrvP!Count, SrvP!Scan,
         SrvP!SendAcks, SrvP!SendNak, SrvP!recvVars, SrvP!validate_it, ToServer
    <3> QED
      BY <1>1, <3>1, <3>2, <3>3 DEF mainVars, ToServer
  <2>4. CASE ServerSends \/ RetrthrAnswers
    BY <1>1, <2>4 DEF ServerSends, RetrthrAnswers, Srv!Data, mainVars, serverRcv, ToServer
  <2>5. CASE StartRetrthr \/ RetrthrEnds \/ RetrthrCrashes \/ Lose
    BY <1>1, <2>5 DEF StartRetrthr, RetrthrEnds, RetrthrCrashes, Lose, mainVars, serverRcv
  <2> QED
    BY <2>1, <2>2, <2>3, <2>4, <2>5 DEF Next
<1> QED
  BY <1>1, <1>3 DEF LostToServer, NotComing, ToServer

(* The frames that a receiver makes are NAKs to the other side, until it   *)
(* has finished.                                                           *)
LEMMA ClientFrames ==
  ASSUME CliP!Start \/ CliP!Next, NEW m \in air', m \notin air
  PROVE  m.my_protocol = 99 /\ m.dest = 2
  BY DEF CliP!Start, CliP!Next, CliP!Calloc, CliP!Store, CliP!Count, CliP!Scan,
         CliP!SendAcks, CliP!SendNak, CliP!AckPack, CliP!NakPack

LEMMA ServerFrames ==
  ASSUME SrvP!Start \/ SrvP!Next, NEW m \in air', m \notin air
  PROVE  m.my_protocol = 99 /\ snak # "exited"
  BY DEF SrvP!Start, SrvP!Next, SrvP!Calloc, SrvP!Store, SrvP!Count, SrvP!Scan,
         SrvP!SendAcks, SrvP!SendNak, SrvP!AckPack, SrvP!NakPack

LEMMA ToClientLost ==
  ASSUME CustomInv, Next, LostToClient
  PROVE  LostToClient'
<1>1. PICK i \in Pkts : /\ i < sseq /\ i \notin cretrans
                        /\ \A m \in air : ~(ToClient(m) /\ m.seqno = i)
                        /\ \A m \in air : ~(Answered(m) /\ m.seqno = i)
  BY DEF LostToClient, NotComing, ToClient
<1>2. sseq \in Nat /\ i \in Nat /\ snak = "exited"
  BY <1>1, CustomAssumption DEF CustomInv, MainInv, Pkts
<1>3. /\ i < sseq' /\ i \notin cretrans'
      /\ \A m \in air' : ~(ToClient(m) /\ m.seqno = i) /\ ~(Answered(m) /\ m.seqno = i)
  <2>1. CASE ClientSends
    BY <1>1, <2>1 DEF ClientSends, Cli!Data, ClientPiece, clientRcv, ToClient, Answered
  <2>2. CASE ClientTurns \/ ClientReceives
    <3>1. (CliP!Start \/ CliP!Next) /\ UNCHANGED mainVars
      BY <2>2, ClientSteps DEF ClientTurns, ClientReceives
    <3>2. i \notin cretrans'
      BY <1>1, <3>1 DEF CliP!Start, CliP!Next, CliP!Calloc, CliP!Store, CliP!Count, CliP!Scan,
         CliP!SendAcks, CliP!SendNak, CliP!recvVars, CliP!validate_it, ToClient
    <3> QED
      BY <1>1, <3>1, <3>2, ClientFrames DEF mainVars, ToClient, Answered
  <2>3. CASE ServerStart \/ ServerReceives
    <3>1. (SrvP!Start \/ SrvP!Next) /\ UNCHANGED mainVars /\ UNCHANGED clientRcv
      BY <2>3, ServerSteps DEF ServerStart, ServerReceives
    <3>2. \A m \in air' : m \in air
      BY <1>2, <3>1, ServerFrames
    <3> QED
      BY <1>1, <3>1, <3>2 DEF mainVars, clientRcv
  <2>4. CASE ServerSends
    <3>1. ~(Srv!Data(1, sseq, sseq).seqno = i)
      BY <1>1, <1>2 DEF Srv!Data
    <3> QED
      BY <1>1, <1>2, <2>4, <3>1 DEF ServerSends, Srv!Data, clientRcv, ToClient, Answered
  <2>5. CASE RetrthrAnswers
    BY <1>1, <2>5 DEF RetrthrAnswers, Srv!Data, mainVars, clientRcv, ToClient, Answered
  <2>6. CASE StartRetrthr \/ RetrthrEnds \/ RetrthrCrashes \/ Lose
    BY <1>1, <2>6 DEF StartRetrthr, RetrthrEnds, RetrthrCrashes, Lose, mainVars, clientRcv
  <2> QED
    BY <2>1, <2>2, <2>3, <2>4, <2>5, <2>6 DEF Next
<1> QED
  BY <1>1, <1>3 DEF LostToClient, NotComing, ToClient, Answered, EndsRetrthr

(* A packet of the client's first pass that is lost keeps the server in    *)
(* its receiving half for ever (client_new.c:541); one of the server's     *)
(* that is lost, with no NAK of the server's own left for it, never        *)
(* reaches the client (server_new.c:376).                                  *)
THEOREM LostPacketCorrect == Spec => LostPacketIsFatal
<1> DEFINE Waits == /\ LostToServer => ~Srv!Finished /\ sseq = 0
                    /\ LostToClient => (Cli!Finished => AckNo \in cretrans \ Pkts)
<1>1. CustomInv /\ Waits' /\ [Next]_vars
        => [/\ LostToServer => LostToServer' /\ ~Srv!Finished' /\ sseq' = 0
            /\ LostToClient =>
                 LostToClient' /\ (Cli!Finished' => AckNo \in cretrans' \ Pkts)]_vars
  BY ToServerLost, ToClientLost DEF Pkts
<1>2. CustomInv => Waits
  <2> SUFFICES ASSUME CustomInv PROVE Waits
    OBVIOUS
  <2>1. LostToServer => snak # "exited" /\ sseq = 0
    <3> SUFFICES ASSUME LostToServer PROVE snak # "exited" /\ sseq = 0
      OBVIOUS
    <3>1. snak # "exited"
      BY ServerHasAll DEF LostToServer
    <3> QED
      BY <3>1 DEF CustomInv, MainInv
  <2>2. LostToClient /\ cnak = "exited" => AckNo \in cretrans \ Pkts
    <3> SUFFICES ASSUME LostToClient, cnak = "exited", AckNo \notin cretrans \ Pkts PROVE FALSE
      OBVIOUS
    <3>1. CliP!Pkts = Pkts
      BY DEF CliP!Pkts, Pkts
    <3>2. crcv = "done"
      BY DEF CustomInv, CliP!RecvInv, CliP!CountInv
    <3>3. cretrans = Pkts
      BY <3>1, <3>2, SizesHold, CliP!AllNumbers DEF CustomInv
    <3> QED
      BY <3>3 DEF LostToClient
  <2> QED
    BY <2>1, <2>2, ClientSteps, ServerSteps
<1> HIDE DEF Waits
<1> QED
  BY <1>1, <1>2, CustomInvariance, PTL DEF Spec, LostPacketIsFatal
=============================================================================
