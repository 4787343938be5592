--------------------------- MODULE TcpServerProofs ---------------------------
(***************************************************************************)
(* Theorems about TcpServer for every set of connections, every number of  *)
(* descriptors, however much the peers send and however often descriptors  *)
(* are reused.                                                             *)
(***************************************************************************)
EXTENDS TcpServer, EventLoopProofs

ServerTypes ==
  /\ cur \in Event
  /\ cur = NoEvent <=> pc # "answer"
  /\ clients \in [Fds -> Identity \cup {Absent}]
  /\ fullRead \in SUBSET Conns

TypeInv == KernelInv /\ LoopInv /\ ServerTypes

(* EventsAreCurrent, and what a step needs to keep it: an event is of a    *)
(* connection, and no other event of the batch is about the descriptor     *)
(* that work() may be about to close.                                      *)
CurrentInv ==
  /\ \A e \in batch : e.kind # "accept" => e.conn \in Conns /\ fdTable[e.fd] = e.conn
  /\ \A e \in batch : e.kind = "in" => Unread(e.conn) > 0
  /\ pc = "answer" =>
       /\ cur.kind = "in" /\ cur.fd \in Fds /\ cur.conn \in Conns /\ fdTable[cur.fd] = cur.conn
       /\ \A e \in batch : e.fd # cur.fd

IInv == TypeInv /\ CurrentInv

-----------------------------------------------------------------------------
(* Facts about single steps *)

LEMMA EventOfDescriptor ==
  ASSUME TypeInv, NEW e \in batch, e.kind # "accept"
  PROVE  e \in Event /\ e.fd \in Fds
BY ListenIsApart DEF TypeInv, LoopInv, LoopTypeOK, AcceptsAreOfListen, Event

LEMMA HandledFacts ==
  ASSUME TypeInv, NEW fd \in Fds, NEW login \in BOOLEAN, cur.conn \in Conns
  PROVE  /\ Handled(fd, login) \in [Fds -> Identity \cup {Absent}]
         /\ Handled(fd, login)[fd] \in {cur.conn, clients[fd], Fresh}
         /\ \A f \in Fds \ {fd} : Handled(fd, login)[f] = clients[f]
BY DEF TypeInv, ServerTypes, Handled, Identity

LEMMA InitInv == Init => IInv
<1> SUFFICES ASSUME Init PROVE IInv
  OBVIOUS
<1>1. KernelInv /\ LoopInv
  BY KernelInitially, LoopInitially DEF Init
<1>2. ServerTypes
  BY DEF Init, LoopInit, ServerTypes, NoEvent, Event, Watched, Identity
<1>3. CurrentInv
  BY DEF Init, LoopInit, CurrentInv
<1>4. QED
  BY <1>1, <1>2, <1>3 DEF IInv, TypeInv

-----------------------------------------------------------------------------
(* Every step of the server and of its environment *)

LEMMA AcceptStep == IInv /\ Accept => IInv'
<1> SUFFICES ASSUME IInv, Accept PROVE IInv'
  OBVIOUS
<1>1. KernelInv' /\ LoopInv'
  BY AcceptedKeepsInv DEF Accept, IInv, TypeInv
<1>2. Lowest \in Fds /\ fdTable[Lowest] = NoConn
  BY LowestIsFree DEF Accept, Accepted, FreeFds
<1>3. ServerTypes'
  BY <1>2 DEF Accept, Accepted, AddClient, IInv, TypeInv, ServerTypes, Identity
<1>4. CurrentInv'
  <2>1. /\ \A fd \in Fds : fdTable[fd] # NoConn => fdTable'[fd] = fdTable[fd]
        /\ batch' = batch /\ pc = "accept" /\ pc' = "accept" /\ UNCHANGED <<sent, taken>>
    BY <1>2 DEF Accept, Accepted, AcceptOnto, IInv, TypeInv, KernelInv, KernelTypeOK
  <2>2. \A e \in batch : e.kind # "accept" => e.fd \in Fds
    BY EventOfDescriptor DEF IInv
  <2>3. QED
    BY <2>1, <2>2, NoConnAssumption DEF IInv, CurrentInv, Unread
<1>5. QED
  BY <1>1, <1>3, <1>4 DEF IInv, TypeInv

LEMMA ReceiveStep ==
  ASSUME IInv, NEW e \in batch, Receive(e)
  PROVE  IInv'
<1>1. e \in Event /\ e.fd \in Fds /\ e.kind = "in" /\ pc = "dispatch"
  BY EventOfDescriptor DEF IInv, Receive, Readable
<1>2. e.conn \in Conns /\ fdTable[e.fd] = e.conn
  BY <1>1 DEF IInv, CurrentInv
<1>3. KernelInv'
  BY <1>2, RecvKeepsKernel, SizesAssumption DEF Receive, IInv, TypeInv, RecvRoom
<1>4. LoopInv'
  BY SmallerBatch DEF Receive, IInv, TypeInv, LoopInv, LoopTypeOK, LoopPc
<1>5. ServerTypes'
  BY <1>1, <1>2, ListenIsApart DEF Receive, IInv, TypeInv, ServerTypes, NoEvent
<1>6. \A f \in batch' : f \in batch /\ f.fd # e.fd
  BY <1>1 DEF Receive, IInv, TypeInv, LoopInv, LoopTypeOK
<1>7. ASSUME NEW f \in batch', f.kind = "in" PROVE Unread(f.conn)' > 0
  <2>1. f.conn \in Conns /\ f.conn # e.conn /\ Unread(f.conn) > 0
    <3>1. f.fd \in Fds /\ f.conn \in Conns /\ fdTable[f.fd] = f.conn /\ Unread(f.conn) > 0
      BY <1>6, <1>7, EventOfDescriptor DEF IInv, CurrentInv
    <3>2. QED
      BY <1>1, <1>2, <1>6, <3>1 DEF IInv, TypeInv, KernelInv, OnePlace
  <2>2. taken'[f.conn] = taken[f.conn] /\ sent' = sent
    BY <1>2, <2>1 DEF Receive, AfterRecv
  <2>3. QED
    BY <2>1, <2>2 DEF Unread
<1>8. CurrentInv'
  BY <1>1, <1>2, <1>6, <1>7 DEF Receive, IInv, CurrentInv
<1>9. QED
  BY <1>3, <1>4, <1>5, <1>8 DEF IInv, TypeInv

LEMMA AnswerStep == IInv /\ Answer => IInv'
<1> SUFFICES ASSUME IInv, Answer PROVE IInv'
  OBVIOUS
<1>1. /\ pc = "answer" /\ cur.fd \in Fds /\ cur.conn \in Conns
      /\ \A e \in batch : e.fd # cur.fd
  BY DEF Answer, IInv, CurrentInv
<1>2. PICK login \in BOOLEAN, close \in BOOLEAN :
        IF close
        THEN Close(cur.fd) /\ clients' = DelClient(Handled(cur.fd, login), cur.fd)
        ELSE AfterSend({cur.fd}) /\ clients' = Handled(cur.fd, login) /\ UNCHANGED <<fdTable, ready>>
  BY DEF Answer
<1>3. KernelInv'
  BY <1>1, <1>2, CloseKeepsKernel, SendKeepsKernel, ListenIsApart DEF Answer, IInv, TypeInv
<1>4. LoopInv'
  BY SmallerBatch DEF Answer, Advance, IInv, TypeInv, LoopInv, LoopTypeOK, LoopPc
<1>5. ServerTypes'
  <2>1. Handled(cur.fd, login) \in [Fds -> Identity \cup {Absent}]
    BY <1>1, HandledFacts DEF IInv
  <2>2. clients' \in [Fds -> Identity \cup {Absent}]
    <3> HIDE DEF Handled
    <3> QED
      BY <1>2, <2>1 DEF DelClient
  <2>3. QED
    BY <2>2 DEF Answer, Advance, IInv, TypeInv, ServerTypes, NoEvent, Event, Watched
<1>6. CurrentInv'
  <2>1. \A fd \in Fds \ {cur.fd} : fdTable'[fd] = fdTable[fd]
    BY <1>2 DEF Close, IInv, TypeInv, KernelInv, KernelTypeOK
  <2>2. \A e \in batch : e.kind # "accept" => e.fd \in Fds \ {cur.fd}
    BY <1>1, EventOfDescriptor DEF IInv
  <2>3. QED
    BY <2>1, <2>2 DEF Answer, Advance, IInv, CurrentInv, Unread
<1>7. QED
  BY <1>3, <1>4, <1>5, <1>6 DEF IInv, TypeInv

(* The loop's own steps. *)
LEMMA LoopStep == IInv /\ Loop /\ UNCHANGED svars => IInv'
<1> SUFFICES ASSUME IInv, Loop, UNCHANGED svars PROVE IInv'
  OBVIOUS
<1>1. KernelInv' /\ LoopInv'
  BY LoopKeepsInv DEF IInv, TypeInv
<1>2. pc # "answer" /\ pc' # "answer"
  BY DEF Loop, CheckDone, EpollWait, StopAccepting, Hangup, StartAccepting, Advance
<1>3. ServerTypes'
  BY <1>2 DEF svars, IInv, TypeInv, ServerTypes
<1>4. CurrentInv'
  <2>1. CASE EpollWait
    <3>1. batch' = Harvest /\ UNCHANGED <<fdTable, sent, taken>>
      BY <2>1 DEF EpollWait
    <3> HIDE DEF Harvest
    <3>2. QED
      BY <1>2, <3>1, HarvestFacts DEF IInv, TypeInv, CurrentInv, Unread
  <2>2. CASE CheckDone
    BY <1>2, <2>2 DEF CheckDone, kvars, IInv, CurrentInv, Unread
  <2>3. CASE StopAccepting
    BY <1>2, <2>3 DEF StopAccepting, AcceptDrops, Advance, kvars, IInv, CurrentInv, Unread
  <2>4. ASSUME NEW e \in batch, Hangup(e) PROVE CurrentInv'
    <3>1. e.fd \in Fds /\ e.kind = "hangup"
      BY <2>4, EventOfDescriptor DEF IInv, Hangup
    <3>2. \A f \in batch' : f \in batch /\ f.fd # e.fd
      BY <2>4 DEF Hangup, Advance, IInv, TypeInv, LoopInv, LoopTypeOK
    <3>3. \A f \in batch : f.kind # "accept" => f.fd \in Fds
      BY EventOfDescriptor DEF IInv
    <3>4. \A fd \in Fds \ {e.fd} : fdTable'[fd] = fdTable[fd]
      BY <2>4 DEF Hangup, Close, IInv, TypeInv, KernelInv, KernelTypeOK
    <3>5. QED
      BY <1>2, <2>4, <3>2, <3>3, <3>4 DEF Hangup, IInv, CurrentInv, Unread
  <2>5. ASSUME NEW e \in batch, StartAccepting(e) PROVE CurrentInv'
    BY <1>2, <2>5 DEF StartAccepting, kvars, IInv, CurrentInv, Unread
  <2>6. QED
    BY <2>1, <2>2, <2>3, <2>4, <2>5 DEF Loop
<1>5. QED
  BY <1>1, <1>3, <1>4 DEF IInv, TypeInv

LEMMA PeerStep ==
  ASSUME IInv, NEW c \in Conns, Peer(c), UNCHANGED <<loopvars, svars>>
  PROVE  IInv'
<1>1. KernelInv' /\ LoopInv' /\ ServerTypes'
  BY PeerKeepsKernel
     DEF IInv, TypeInv, LoopInv, LoopTypeOK, AcceptsAreOfListen, ServerTypes, loopvars, svars
<1>2. /\ UNCHANGED <<fdTable, taken>>
      /\ \A d \in Conns : sent[d] \in Nat /\ sent'[d] \in Nat /\ sent[d] <= sent'[d] /\ taken[d] \in Nat
  BY SizesAssumption
     DEF Peer, Connect, PeerSends, PeerCloses, PeerResets, IInv, TypeInv, KernelInv, KernelTypeOK
<1>3. CurrentInv'
  BY <1>2 DEF IInv, TypeInv, LoopInv, LoopTypeOK, CurrentInv, Event, Unread, loopvars, svars
<1>4. QED
  BY <1>1, <1>3 DEF IInv, TypeInv

LEMMA InvStep == IInv /\ [Next]_vars => IInv'
<1> SUFFICES ASSUME IInv, [Next]_vars PROVE IInv'
  OBVIOUS
<1> USE DEF IInv, TypeInv
<1>1. CASE Loop /\ UNCHANGED svars
  BY <1>1, LoopStep
<1>2. CASE Accept
  BY <1>2, AcceptStep
<1>3. CASE Answer
  BY <1>3, AnswerStep
<1>4. CASE AnswerKills
  BY <1>4 DEF AnswerKills, KernelInv, KernelTypeOK, OnePlace, ReadyInUse, ReadIsSent, LoopInv, LoopTypeOK,
              AcceptsAreOfListen, ServerTypes, CurrentInv, Unread, loopvars, svars
<1>5. ASSUME NEW e \in batch, Receive(e) PROVE IInv'
  BY <1>5, ReceiveStep
<1>6. CASE Signal /\ UNCHANGED svars
  <2>1. KernelInv' /\ LoopInv'
    BY <1>6, SignalKeepsInv
  <2>2. ServerTypes' /\ CurrentInv'
    BY <1>6 DEF Signal, kvars, svars, ServerTypes, CurrentInv, Unread
  <2>3. QED
    BY <2>1, <2>2
<1>7. ASSUME NEW c \in Conns, Peer(c), UNCHANGED <<loopvars, svars>> PROVE IInv'
  BY <1>7, PeerStep
<1>8. CASE UNCHANGED vars
  BY <1>8 DEF vars, kvars, loopvars, svars, KernelInv, KernelTypeOK, OnePlace, ReadyInUse, ReadIsSent, LoopInv,
              LoopTypeOK, AcceptsAreOfListen, ServerTypes, CurrentInv, Unread
<1>9. QED
  BY <1>1, <1>2, <1>3, <1>4, <1>5, <1>6, <1>7, <1>8 DEF Next, Server, Environment

LEMMA Invariance == Spec => []IInv
<1>1. Init => IInv
  BY InitInv
<1>2. IInv /\ [Next]_vars => IInv'
  BY InvStep
<1>3. QED
  BY <1>1, <1>2, PTL DEF Spec

-----------------------------------------------------------------------------
(* Theorems *)

(* The server's variables keep their types (tcp_server.cpp's members, the  *)
(* kernel's tables, and one event at most for each descriptor in evs).     *)
THEOREM TypeCorrect == Spec => []TypeOK
<1>1. IInv => TypeOK
  BY DEF IInv, TypeInv, KernelInv, LoopInv, ServerTypes, TypeOK
<1>2. QED
  BY <1>1, Invariance, PTL

(* However many events one epoll_wait returns and whatever handlers close  *)
(* meanwhile, main_loop and work() act on the connection each event was    *)
(* about, find its bytes, and answer to the connection they came from.     *)
THEOREM EventsStayCurrent == Spec => []EventsAreCurrent
<1>1. IInv => EventsAreCurrent
  BY NoConnAssumption DEF IInv, CurrentInv, EventsAreCurrent, RecvResult
<1>2. QED
  BY <1>1, Invariance, PTL

LEMMA BacklogStep == IInv /\ BacklogNeverForgotten /\ [Next]_vars => BacklogNeverForgotten'
<1> SUFFICES ASSUME IInv, BacklogNeverForgotten, [Next]_vars PROVE BacklogNeverForgotten'
  OBVIOUS
<1>1. CASE Loop
  BY <1>1, LoopRemembersBacklog DEF IInv, TypeInv
<1>2. CASE Accept
  BY <1>2 DEF Accept, Accepted, BacklogNeverForgotten
<1>3. CASE Answer
  <2>1. cur.fd # Listen
    BY <1>3, ListenIsApart DEF Answer, IInv, CurrentInv
  <2>2. /\ \A fd \in Watched \ {cur.fd} : fd \in ready => fd \in ready'
        /\ batch' = batch /\ UNCHANGED <<backlog, acceptBroke, done>> /\ pc = "answer"
    BY <1>3 DEF Answer, Close, Advance
  <2>3. QED
    BY <2>1, <2>2, ListenIsApart DEF BacklogNeverForgotten, Pending
<1>4. CASE AnswerKills
  BY <1>4 DEF AnswerKills, loopvars, BacklogNeverForgotten, Pending
<1>5. ASSUME NEW e \in batch, Receive(e) PROVE BacklogNeverForgotten'
  <2>1. e.fd # Listen
    BY <1>5, EventOfDescriptor, ListenIsApart DEF IInv, Receive, Readable
  <2>2. QED
    BY <1>5, <2>1 DEF Receive, Readable, BacklogNeverForgotten, Pending
<1>6. CASE Signal
  BY <1>6 DEF Signal, BacklogNeverForgotten
<1>7. ASSUME NEW c \in Conns, Peer(c), UNCHANGED loopvars PROVE BacklogNeverForgotten'
  BY <1>7, PeerRemembersBacklog DEF IInv, TypeInv
<1>8. CASE UNCHANGED vars
  BY <1>8 DEF vars, kvars, loopvars, BacklogNeverForgotten, Pending
<1>9. QED
  BY <1>1, <1>2, <1>3, <1>4, <1>5, <1>6, <1>7, <1>8 DEF Next, Server, Environment

(* main_loop takes one edge of the listening socket for any number of      *)
(* connections and accepts until there are none: none is left waiting      *)
(* without an edge unless accept() failed, or the server is stopping.      *)
THEOREM BacklogIsRemembered == Spec => []BacklogNeverForgotten
<1>1. Init => BacklogNeverForgotten
  BY DEF Init, KernelInit, BacklogNeverForgotten
<1>2. QED
  BY <1>1, BacklogStep, Invariance, PTL DEF Spec

LEMMA IdentityStep ==
  IInv /\ IdentityInheritedOnlyAfterHangup /\ [Next]_vars => IdentityInheritedOnlyAfterHangup'
<1> SUFFICES ASSUME IInv, IdentityInheritedOnlyAfterHangup, [Next]_vars,
                    NEW fd \in Fds, clients'[fd] \in Conns
             PROVE  clients'[fd] = fdTable'[fd] \/ clients'[fd] \in hungUp'
  BY DEF IdentityInheritedOnlyAfterHangup
<1> DEFINE Goal == clients'[fd] = fdTable'[fd] \/ clients'[fd] \in hungUp'
<1>1. clients[fd] \in Conns => clients[fd] = fdTable[fd] \/ clients[fd] \in hungUp
  BY DEF IdentityInheritedOnlyAfterHangup
<1>2. clients' = clients /\ fdTable' = fdTable /\ hungUp' = hungUp => Goal
  BY <1>1
<1>3. CASE Loop /\ UNCHANGED svars
  <2>1. CASE fdTable' = fdTable /\ hungUp' = hungUp
    BY <1>2, <1>3, <2>1 DEF svars
  <2>2. ASSUME NEW e \in batch, Hangup(e) PROVE Goal
    <3>1. e.fd \in Fds
      BY <2>2, EventOfDescriptor DEF IInv, Hangup
    <3>2. CASE fd = e.fd
      BY <1>1, <1>3, <2>2, <3>1, <3>2, NoConnAssumption DEF Hangup, svars
    <3>3. CASE fd # e.fd
      BY <1>1, <1>3, <2>2, <3>1, <3>3 DEF Hangup, Close, svars, IInv, TypeInv, KernelInv, KernelTypeOK
    <3>4. QED
      BY <3>2, <3>3
  <2>3. QED
    BY <1>3, <2>1, <2>2 DEF Loop, CheckDone, EpollWait, StopAccepting, AcceptDrops, StartAccepting, kvars
<1>4. CASE Accept
  <2>1. Lowest \in Fds /\ fdTable[Lowest] = NoConn
    BY <1>4, LowestIsFree DEF Accept, Accepted, FreeFds
  <2>2. /\ fdTable'[fd] = fdTable[fd] \/ fd = Lowest
        /\ hungUp' = hungUp
        /\ clients'[fd] = clients[fd] \/ clients'[fd] = Fresh
    BY <1>4, <2>1 DEF Accept, Accepted, AcceptOnto, AddClient, IInv, TypeInv, KernelInv, KernelTypeOK, ServerTypes
  <2>3. QED
    BY <1>1, <2>1, <2>2, NoConnAssumption, MarksAssumption
<1>5. CASE Answer
  <2>1. cur.fd \in Fds /\ cur.conn \in Conns /\ fdTable[cur.fd] = cur.conn /\ hungUp' = hungUp
    BY <1>5 DEF Answer, IInv, CurrentInv
  <2>2. PICK login \in BOOLEAN, close \in BOOLEAN :
          IF close
          THEN Close(cur.fd) /\ clients' = DelClient(Handled(cur.fd, login), cur.fd)
          ELSE AfterSend({cur.fd}) /\ clients' = Handled(cur.fd, login) /\ UNCHANGED <<fdTable, ready>>
    BY <1>5 DEF Answer
  <2>3. /\ Handled(cur.fd, login) \in [Fds -> Identity \cup {Absent}]
        /\ Handled(cur.fd, login)[cur.fd] \in {cur.conn, clients[cur.fd], Fresh}
        /\ \A f \in Fds \ {cur.fd} : Handled(cur.fd, login)[f] = clients[f]
    BY <2>1, HandledFacts DEF IInv
  <2> HIDE DEF Handled
  <2>4. CASE close
    BY <1>1, <2>1, <2>2, <2>3, <2>4, MarksAssumption
       DEF DelClient, Close, Identity, IInv, TypeInv, KernelInv, KernelTypeOK
  <2>5. CASE ~close
    BY <1>1, <2>1, <2>2, <2>3, <2>5, MarksAssumption
  <2>6. QED
    BY <2>4, <2>5
<1>6. CASE AnswerKills
  BY <1>2, <1>6 DEF AnswerKills, loopvars, svars
<1>7. ASSUME NEW e \in batch, Receive(e) PROVE Goal
  BY <1>2, <1>7 DEF Receive
<1>8. CASE Signal /\ UNCHANGED svars
  BY <1>2, <1>8 DEF Signal, kvars, svars
<1>9. ASSUME NEW c \in Conns, Peer(c), UNCHANGED <<loopvars, svars>> PROVE Goal
  BY <1>2, <1>9 DEF Peer, Connect, PeerSends, PeerCloses, PeerResets, loopvars, svars
<1>10. CASE UNCHANGED vars
  BY <1>2, <1>10 DEF vars, kvars, loopvars, svars
<1>11. QED
  BY <1>3, <1>4, <1>5, <1>6, <1>7, <1>8, <1>9, <1>10 DEF Next, Server, Environment

(* The handler is given the identity of its own connection, or a fresh     *)
(* one, or that of a connection which main_loop closed: work() never       *)
(* leaves one behind, and no event about an old descriptor writes one.     *)
THEOREM IdentitiesAreOwnOrHungUp == Spec => []IdentityInheritedOnlyAfterHangup
<1>1. Init => IdentityInheritedOnlyAfterHangup
  BY MarksAssumption DEF Init, Identity, IdentityInheritedOnlyAfterHangup
<1>2. QED
  BY <1>1, IdentityStep, Invariance, PTL DEF Spec
=============================================================================
