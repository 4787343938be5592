--------------------------- MODULE EventLoopProofs ---------------------------
(***************************************************************************)
(* What the kernel and the event loop keep true whichever server runs on   *)
(* them: lemmas that TcpServerProofs and TcpThreadingServerProofs cite.    *)
(***************************************************************************)
EXTENDS EventLoop, WellFoundedInduction, SequenceTheorems, TLAPS

(* A connection is in one place at a time: in the backlog once, or under   *)
(* one descriptor; and before the client connects, in neither.             *)
OnePlace ==
  /\ \A i, j \in DOMAIN backlog : backlog[i] = backlog[j] => i = j
  /\ \A i \in DOMAIN backlog, fd \in Fds : fdTable[fd] # backlog[i]
  /\ \A fd, f \in Fds : fdTable[fd] \in Conns /\ fdTable[fd] = fdTable[f] => fd = f
  /\ \A i \in DOMAIN backlog : sock[backlog[i]] # "idle"
  /\ \A fd \in Fds : fdTable[fd] \in Conns => sock[fdTable[fd]] # "idle"

(* Only descriptors in use are ready, and no more is read than was sent.   *)
ReadyInUse == \A fd \in ready \cap Fds : fdTable[fd] \in Conns
ReadIsSent == \A c \in Conns : taken[c] <= sent[c]

KernelInv == KernelTypeOK /\ OnePlace /\ ReadyInUse /\ ReadIsSent

(* Of the listening socket the only news is a connection.                  *)
AcceptsAreOfListen == \A e \in batch : e.fd = Listen <=> e.kind = "accept"

LoopInv == LoopTypeOK /\ AcceptsAreOfListen

-----------------------------------------------------------------------------
(* Descriptors *)

LEMMA LeastExists ==
  ASSUME NEW S \in SUBSET Nat, S # {}
  PROVE  \E m \in S : \A n \in S : m <= n
<1> DEFINE Less == {p \in Nat \X Nat : p[1] < p[2]}
<1>1. IsWellFoundedOn(Less, Nat)
  BY NatLessThanWellFounded, Zenon DEF OpToRel
<1>2. PICK m \in S : \A n \in S : <<n, m>> \notin Less
  <2> HIDE DEF Less
  <2> QED BY <1>1, WFMin
<1>3. ASSUME NEW n \in S PROVE m <= n
  <2>1. <<n, m>> \in Nat \X Nat /\ <<n, m>>[1] = n /\ <<n, m>>[2] = m
    OBVIOUS
  <2>2. ~(n < m)
    BY <1>2, <2>1
  <2>3. QED
    BY <2>2
<1>4. QED
  BY <1>3

(* accept() takes a descriptor that is free. *)
LEMMA LowestIsFree == FreeFds # {} => Lowest \in FreeFds
<1>1. FreeFds \in SUBSET Nat
  BY SizesAssumption DEF FreeFds, Fds
<1>2. QED
  BY <1>1, LeastExists DEF Lowest

LEMMA ListenIsApart == Listen \notin Fds /\ Watched = Fds \cup {Listen} /\ Fds \in SUBSET Nat
BY SizesAssumption DEF Listen, Fds, Watched

-----------------------------------------------------------------------------
(* Each system call, and each step of a peer, keeps KernelInv. *)

LEMMA KernelInitially == KernelInit => KernelInv
<1> SUFFICES ASSUME KernelInit PROVE KernelInv
  OBVIOUS
<1>1. KernelTypeOK
  BY SizesAssumption DEF KernelInit, KernelTypeOK, SockState
<1>2. OnePlace /\ ReadyInUse /\ ReadIsSent
  BY NoConnAssumption DEF KernelInit, OnePlace, ReadyInUse, ReadIsSent
<1>3. QED
  BY <1>1, <1>2 DEF KernelInv

LEMMA CloseKeepsKernel ==
  ASSUME KernelInv, NEW fd \in Watched, fd # Listen, Close(fd), UNCHANGED <<sent, taken, backlog, alive>>
  PROVE  KernelInv'
<1> USE ListenIsApart
<1>1. KernelTypeOK'
  BY DEF KernelInv, KernelTypeOK, Close, SockState
<1>2. OnePlace' /\ ReadyInUse' /\ ReadIsSent'
  BY NoConnAssumption DEF KernelInv, KernelTypeOK, OnePlace, ReadyInUse, ReadIsSent, Close
<1>3. QED
  BY <1>1, <1>2 DEF KernelInv

LEMMA AcceptKeepsKernel ==
  ASSUME KernelInv, FreeFds # {}, AcceptOnto(Lowest)
  PROVE  KernelInv'
<1> DEFINE fd == Lowest
           c == Head(backlog)
<1>1. fd \in Fds /\ fdTable[fd] = NoConn
  BY LowestIsFree DEF FreeFds
<1> HIDE DEF fd
<1>2. /\ backlog \in Seq(Conns) /\ backlog # <<>>
      /\ c \in Conns /\ c = backlog[1] /\ 1 \in DOMAIN backlog
      /\ backlog' = Tail(backlog) /\ backlog' \in Seq(Conns)
      /\ \A i \in DOMAIN backlog' : i + 1 \in DOMAIN backlog /\ backlog'[i] = backlog[i + 1] /\ i + 1 # 1
  BY DEF KernelInv, KernelTypeOK, AcceptOnto
<1>3. /\ fdTable' = [fdTable EXCEPT ![fd] = c]
      /\ ready' \in {ready, ready \cup {fd}}
      /\ UNCHANGED <<sock, sent, taken, alive>>
  BY DEF AcceptOnto, fd
<1> HIDE DEF c
<1>4. KernelTypeOK'
  BY <1>1, <1>2, <1>3, ListenIsApart DEF KernelInv, KernelTypeOK
<1>5. OnePlace'
  <2>1. \A i, j \in DOMAIN backlog' : backlog'[i] = backlog'[j] => i = j
    BY <1>2 DEF KernelInv, OnePlace
  <2>2. ASSUME NEW i \in DOMAIN backlog', NEW f \in Fds PROVE fdTable'[f] # backlog'[i]
    BY <1>1, <1>2, <1>3 DEF KernelInv, KernelTypeOK, OnePlace
  <2>3. ASSUME NEW f \in Fds, NEW g \in Fds, fdTable'[f] \in Conns, fdTable'[f] = fdTable'[g] PROVE f = g
    BY <1>1, <1>2, <1>3, <2>3 DEF KernelInv, KernelTypeOK, OnePlace
  <2>4. \A i \in DOMAIN backlog' : sock'[backlog'[i]] # "idle"
    BY <1>2, <1>3 DEF KernelInv, OnePlace
  <2>5. ASSUME NEW f \in Fds, fdTable'[f] \in Conns PROVE sock'[fdTable'[f]] # "idle"
    BY <1>1, <1>2, <1>3, <2>5 DEF KernelInv, KernelTypeOK, OnePlace
  <2>6. QED
    BY <2>1, <2>2, <2>3, <2>4, <2>5 DEF OnePlace
<1>6. ReadyInUse' /\ ReadIsSent'
  BY <1>1, <1>2, <1>3 DEF KernelInv, KernelTypeOK, ReadyInUse, ReadIsSent
<1>7. QED
  BY <1>4, <1>5, <1>6 DEF KernelInv

LEMMA DropKeepsKernel == KernelInv /\ AcceptDrops => KernelInv'
<1> SUFFICES ASSUME KernelInv, AcceptDrops PROVE KernelInv'
  OBVIOUS
<1>1. /\ backlog \in Seq(Conns) /\ backlog # <<>>
      /\ Head(backlog) \in Conns /\ Head(backlog) = backlog[1] /\ 1 \in DOMAIN backlog
      /\ backlog' = Tail(backlog) /\ backlog' \in Seq(Conns)
      /\ \A i \in DOMAIN backlog' : i + 1 \in DOMAIN backlog /\ backlog'[i] = backlog[i + 1] /\ i + 1 # 1
  BY DEF KernelInv, KernelTypeOK, AcceptDrops
<1>2. /\ sock' = [sock EXCEPT ![Head(backlog)] = "gone"]
      /\ UNCHANGED <<fdTable, sent, taken, ready, alive>>
  BY DEF AcceptDrops
<1>3. KernelTypeOK'
  BY <1>1, <1>2 DEF KernelInv, KernelTypeOK, SockState
<1>4. OnePlace'
  BY <1>1, <1>2 DEF KernelInv, KernelTypeOK, OnePlace
<1>5. ReadyInUse' /\ ReadIsSent'
  BY <1>2 DEF KernelInv, ReadyInUse, ReadIsSent
<1>6. QED
  BY <1>3, <1>4, <1>5 DEF KernelInv

(* Nothing that was sent is lost or read twice by recv.                    *)
LEMMA RecvKeepsKernel ==
  ASSUME KernelInv, NEW c \in Conns \cup {NoConn}, NEW n \in Nat, AfterRecv(c, n),
         UNCHANGED <<fdTable, sent, backlog, ready, alive>>
  PROVE  KernelInv'
<1>1. \A d \in Conns : /\ taken[d] \in Nat /\ sent[d] \in 0 .. MaxSent /\ taken[d] <= sent[d]
                       /\ taken'[d] \in Nat /\ taken'[d] <= sent[d]
  BY SizesAssumption DEF KernelInv, KernelTypeOK, ReadIsSent, AfterRecv, Received, Unread, Min2
<1>2. sock' \in [Conns -> SockState] /\ \A d \in Conns : sock'[d] \in {sock[d], "dead"}
  BY DEF KernelInv, KernelTypeOK, AfterRecv, SockState
<1>3. KernelTypeOK'
  BY <1>1, <1>2, SizesAssumption DEF KernelInv, KernelTypeOK, AfterRecv
<1>4. OnePlace'
  BY <1>2 DEF KernelInv, KernelTypeOK, OnePlace
<1>5. ReadyInUse' /\ ReadIsSent'
  BY <1>1 DEF KernelInv, ReadyInUse, ReadIsSent
<1>6. QED
  BY <1>3, <1>4, <1>5 DEF KernelInv

LEMMA SendKeepsKernel ==
  ASSUME KernelInv, NEW fds, AfterSend(fds), UNCHANGED <<fdTable, sent, taken, backlog, ready, alive>>
  PROVE  KernelInv'
<1>1. sock' \in [Conns -> SockState] /\ \A d \in Conns : sock'[d] \in {sock[d], "dead"}
  BY DEF KernelInv, KernelTypeOK, AfterSend, SockState
<1>2. QED
  BY <1>1 DEF KernelInv, KernelTypeOK, OnePlace, ReadyInUse, ReadIsSent

LEMMA PeerKeepsKernel ==
  ASSUME KernelInv, NEW c \in Conns, Peer(c)
  PROVE  KernelInv'
<1> USE ListenIsApart
<1>1. CASE Connect(c)
  <2>1. /\ backlog \in Seq(Conns) /\ backlog' \in Seq(Conns) /\ Len(backlog') = Len(backlog) + 1
        /\ DOMAIN backlog' = DOMAIN backlog \cup {Len(backlog) + 1}
        /\ Len(backlog) + 1 \notin DOMAIN backlog
        /\ \A i \in DOMAIN backlog : backlog'[i] = backlog[i]
        /\ backlog'[Len(backlog) + 1] = c
    BY <1>1 DEF KernelInv, KernelTypeOK, Connect
  <2>2. sock[c] = "idle" /\ sock' = [sock EXCEPT ![c] = "up"] /\ ready' = ready \cup {Listen}
    BY <1>1 DEF Connect
  <2>3. KernelTypeOK'
    BY <1>1, <2>1, <2>2 DEF KernelInv, KernelTypeOK, Connect, SockState
  <2>4. OnePlace'
    BY <1>1, <2>1, <2>2 DEF KernelInv, KernelTypeOK, OnePlace, Connect
  <2>5. ReadyInUse' /\ ReadIsSent'
    BY <1>1, <2>2 DEF KernelInv, ReadyInUse, ReadIsSent, Connect
  <2>6. QED
    BY <2>3, <2>4, <2>5 DEF KernelInv
<1>2. CASE PeerSends(c)
  <2>1. KernelTypeOK'
    <3>1. sent[c] \in 0 .. MaxSent /\ sent[c] < MaxSent /\ MaxSent \in Nat
      BY <1>2, SizesAssumption DEF KernelInv, KernelTypeOK, PeerSends
    <3>2. sent[c] + 1 \in 0 .. MaxSent
      BY <3>1
    <3>3. QED
      BY <1>2, <3>2 DEF KernelInv, KernelTypeOK, PeerSends, FdOf
  <2>2. OnePlace' /\ ReadyInUse' /\ ReadIsSent'
    BY <1>2, SizesAssumption DEF KernelInv, KernelTypeOK, OnePlace, ReadyInUse, ReadIsSent, PeerSends, FdOf
  <2>3. QED
    BY <2>1, <2>2 DEF KernelInv
<1>3. CASE PeerCloses(c)
  <2>1. KernelTypeOK'
    BY <1>3 DEF KernelInv, KernelTypeOK, PeerCloses, FdOf, SockState
  <2>2. OnePlace' /\ ReadyInUse' /\ ReadIsSent'
    BY <1>3 DEF KernelInv, KernelTypeOK, OnePlace, ReadyInUse, ReadIsSent, PeerCloses, FdOf
  <2>3. QED
    BY <2>1, <2>2 DEF KernelInv
<1>4. CASE PeerResets(c)
  <2>1. KernelTypeOK'
    BY <1>4 DEF KernelInv, KernelTypeOK, PeerResets, FdOf, SockState
  <2>2. OnePlace' /\ ReadyInUse' /\ ReadIsSent'
    BY <1>4 DEF KernelInv, KernelTypeOK, OnePlace, ReadyInUse, ReadIsSent, PeerResets, FdOf
  <2>3. QED
    BY <2>1, <2>2 DEF KernelInv
<1>5. QED
  BY <1>1, <1>2, <1>3, <1>4 DEF Peer

-----------------------------------------------------------------------------
(* The event loop *)

(* What epoll_wait reports is true when it reports it. *)
LEMMA HarvestFacts ==
  ASSUME KernelInv
  PROVE  /\ Harvest \in SUBSET Event
         /\ \A e, f \in Harvest : e.fd = f.fd => e = f
         /\ \A e \in Harvest :
              /\ e.fd = Listen <=> e.kind = "accept"
              /\ e.fd # Listen => e.conn = fdTable[e.fd] /\ e.conn \in Conns
              /\ e.kind = "hangup" => HungUp(e.conn)
              /\ e.kind = "in" => Unread(e.conn) > 0
         /\ Listen \in ready /\ backlog # <<>> => \E e \in Harvest : e.fd = Listen
<1>1. ASSUME NEW fd \in ready, EventOf(fd).kind # "none"
      PROVE  /\ EventOf(fd) \in Event
             /\ EventOf(fd).fd = fd
             /\ fd = Listen <=> EventOf(fd).kind = "accept"
             /\ fd # Listen => EventOf(fd).conn = fdTable[fd] /\ EventOf(fd).conn \in Conns
             /\ EventOf(fd).kind = "hangup" => HungUp(EventOf(fd).conn)
             /\ EventOf(fd).kind = "in" => Unread(EventOf(fd).conn) > 0
  <2>1. fd \in Watched
    BY DEF KernelInv, KernelTypeOK
  <2>2. CASE fd = Listen
    BY <1>1, <2>1, <2>2 DEF EventOf, Event
  <2>3. CASE fd # Listen
    <3>1. fdTable[fd] \in Conns
      BY <2>1, <2>3, ListenIsApart DEF KernelInv, ReadyInUse
    <3>2. EventOf(fd) = [fd |-> fd, conn |-> fdTable[fd],
                         kind |-> IF HungUp(fdTable[fd]) THEN "hangup"
                                  ELSE IF Unread(fdTable[fd]) > 0 THEN "in" ELSE "none"]
      BY <2>3 DEF EventOf
    <3>3. QED
      BY <1>1, <2>1, <2>3, <3>1, <3>2 DEF Event
  <2>4. QED
    BY <2>2, <2>3
<1>2. \A e \in Harvest : \E fd \in ready : e = EventOf(fd) /\ EventOf(fd).kind # "none"
  BY DEF Harvest
<1>3. ASSUME Listen \in ready, backlog # <<>>
      PROVE  EventOf(Listen) \in Harvest /\ EventOf(Listen).fd = Listen
  BY <1>3 DEF EventOf, Harvest
<1> HIDE DEF Harvest, EventOf
<1>4. QED
  BY <1>1, <1>2, <1>3

LEMMA LoopInitially == LoopInit => LoopInv
BY DEF LoopInit, LoopInv, LoopTypeOK, AcceptsAreOfListen, LoopPc

(* Events leave the batch one by one. *)
LEMMA SmallerBatch ==
  ASSUME LoopInv, batch' \in SUBSET batch, pc' \in LoopPc,
         pc' = "dispatch" => batch' # {},
         pc' \in {"loop", "wait", "stopped"} => batch' = {},
         done' \in BOOLEAN, hungUp' \in SUBSET Conns, acceptBroke' \in BOOLEAN
  PROVE  LoopInv'
BY DEF LoopInv, LoopTypeOK, AcceptsAreOfListen

LEMMA EpollWaitKeepsLoop == KernelInv /\ LoopInv /\ EpollWait => KernelInv' /\ LoopInv'
<1> SUFFICES ASSUME KernelInv, LoopInv, EpollWait PROVE KernelInv' /\ LoopInv'
  OBVIOUS
<1>1. KernelInv'
  BY DEF KernelInv, KernelTypeOK, OnePlace, ReadyInUse, ReadIsSent, EpollWait
<1>2. batch' = Harvest /\ pc' = IF Harvest = {} THEN "wait" ELSE "dispatch"
  BY DEF EpollWait
<1> HIDE DEF Harvest
<1>3. LoopInv'
  BY <1>2, HarvestFacts DEF LoopInv, LoopTypeOK, AcceptsAreOfListen, LoopPc, EpollWait
<1>4. QED
  BY <1>1, <1>3

LEMMA HangupKeepsLoop ==
  ASSUME KernelInv, LoopInv, NEW e \in batch, Hangup(e)
  PROVE  KernelInv' /\ LoopInv'
<1>1. e.fd \in Watched /\ e.fd # Listen
  BY DEF LoopInv, LoopTypeOK, AcceptsAreOfListen, Event, Hangup
<1>2. KernelInv'
  BY <1>1, CloseKeepsKernel DEF Hangup
<1>3. hungUp' \in SUBSET Conns
  BY <1>1, ListenIsApart DEF KernelInv, KernelTypeOK, LoopInv, LoopTypeOK, Hangup
<1>4. QED
  BY <1>2, <1>3, SmallerBatch DEF Hangup, Advance, LoopPc, LoopInv, LoopTypeOK

LEMMA LoopKeepsInv == KernelInv /\ LoopInv /\ Loop => KernelInv' /\ LoopInv'
<1> SUFFICES ASSUME KernelInv, LoopInv, Loop PROVE KernelInv' /\ LoopInv'
  OBVIOUS
<1>1. UNCHANGED kvars => KernelInv'
  BY DEF KernelInv, KernelTypeOK, OnePlace, ReadyInUse, ReadIsSent, kvars
<1>2. CASE CheckDone
  BY <1>1, <1>2, SmallerBatch DEF CheckDone, LoopPc, LoopInv, LoopTypeOK
<1>3. CASE EpollWait
  BY <1>3, EpollWaitKeepsLoop
<1>4. CASE StopAccepting
  <2>1. KernelInv'
    BY <1>1, <1>4, DropKeepsKernel DEF StopAccepting
  <2>2. LoopInv'
    BY <1>4, SmallerBatch DEF StopAccepting, Advance, LoopPc, LoopInv, LoopTypeOK
  <2>3. QED
    BY <2>1, <2>2
<1>5. ASSUME NEW e \in batch, Hangup(e) PROVE KernelInv' /\ LoopInv'
  BY <1>5, HangupKeepsLoop
<1>6. ASSUME NEW e \in batch, StartAccepting(e) PROVE KernelInv' /\ LoopInv'
  BY <1>1, <1>6, SmallerBatch DEF StartAccepting, LoopPc, LoopInv, LoopTypeOK
<1>7. QED
  BY <1>2, <1>3, <1>4, <1>5, <1>6 DEF Loop

LEMMA AcceptedKeepsInv ==
  ASSUME KernelInv, LoopInv, NEW to \in {"accept", "add"}, Accepted(to)
  PROVE  KernelInv' /\ LoopInv'
<1>1. KernelInv'
  BY AcceptKeepsKernel DEF Accepted
<1>2. LoopInv'
  BY SmallerBatch DEF Accepted, LoopPc, LoopInv, LoopTypeOK
<1>3. QED
  BY <1>1, <1>2

LEMMA SignalKeepsInv == KernelInv /\ LoopInv /\ Signal => KernelInv' /\ LoopInv'
<1> SUFFICES ASSUME KernelInv, LoopInv, Signal PROVE KernelInv' /\ LoopInv'
  OBVIOUS
<1>1. KernelInv'
  BY DEF KernelInv, KernelTypeOK, OnePlace, ReadyInUse, ReadIsSent, kvars, Signal
<1>2. LoopInv'
  BY SmallerBatch DEF Signal, LoopPc, LoopInv, LoopTypeOK
<1>3. QED
  BY <1>1, <1>2

-----------------------------------------------------------------------------
(* No connection is left waiting behind an edge that has been used up. *)

(* The steps of the loop, and of peers, keep the backlog in sight. *)
LEMMA LoopRemembersBacklog ==
  KernelInv /\ LoopInv /\ BacklogNeverForgotten /\ Loop => BacklogNeverForgotten'
<1> SUFFICES ASSUME KernelInv, LoopInv, BacklogNeverForgotten, Loop,
                    backlog' # <<>>
             PROVE  Pending(Listen)' \/ pc' \in {"accept", "add"} \/ acceptBroke' \/ done'
  BY DEF BacklogNeverForgotten
<1> USE DEF BacklogNeverForgotten, Pending
<1>1. CASE CheckDone
  BY <1>1 DEF CheckDone, kvars, LoopInv, LoopTypeOK
<1>2. CASE EpollWait
  <2>1. batch' = Harvest /\ backlog' = backlog /\ UNCHANGED <<acceptBroke, done>>
    BY <1>2 DEF EpollWait
  <2>2. \A e \in batch : FALSE
    BY <1>2 DEF EpollWait, LoopInv, LoopTypeOK
  <2> HIDE DEF Harvest
  <2>3. QED
    BY <1>2, <2>1, <2>2, HarvestFacts DEF EpollWait
<1>3. CASE StopAccepting
  BY <1>3 DEF StopAccepting
<1>4. ASSUME NEW e \in batch, Hangup(e) PROVE Pending(Listen)' \/ pc' \in {"accept", "add"} \/ acceptBroke' \/ done'
  <2>1. e.fd # Listen
    BY <1>4 DEF Hangup, LoopInv, AcceptsAreOfListen
  <2>2. QED
    BY <1>4, <2>1 DEF Hangup, Close, Advance
<1>5. ASSUME NEW e \in batch, StartAccepting(e) PROVE Pending(Listen)' \/ pc' \in {"accept", "add"} \/ acceptBroke' \/ done'
  BY <1>5 DEF StartAccepting
<1>6. QED
  BY <1>1, <1>2, <1>3, <1>4, <1>5 DEF Loop

LEMMA PeerRemembersBacklog ==
  ASSUME KernelInv, BacklogNeverForgotten, NEW c \in Conns, Peer(c), UNCHANGED loopvars
  PROVE  BacklogNeverForgotten'
BY DEF BacklogNeverForgotten, Pending, Peer, Connect, PeerSends, PeerCloses, PeerResets, loopvars

=============================================================================
