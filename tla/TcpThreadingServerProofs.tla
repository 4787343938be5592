---------------------- MODULE TcpThreadingServerProofs ----------------------
(***************************************************************************)
(* Theorems about TcpThreadingServer for every number of workers,          *)
(* connections and descriptors.                                            *)
(***************************************************************************)
EXTENDS TcpThreadingServer, EventLoopProofs

PoolTypes ==
  /\ tasks \in Seq(Task)
  /\ wk \in [Workers -> Worker]
  /\ \A w \in Workers : wk[w].pc = "idle" <=> wk[w] = Idle
  /\ lock \in Workers \cup {Nobody}
  /\ \A w \in Workers : lock = w <=> wk[w].pc = "answer"
  /\ clients \in [Fds -> Identity \cup {Absent}]
  /\ adding \in Watched
  /\ adding # Listen <=> pc = "add"

HistoryTypes ==
  /\ used \in SUBSET Fds
  /\ secondhand \in SUBSET Conns /\ fullRead \in SUBSET Conns /\ asked \in SUBSET Conns
  /\ orphaned \in SUBSET Conns /\ crossed \in SUBSET Conns

(* A worker that has left "idle" has a descriptor, and one that has input  *)
(* or that closes has a connection.                                        *)
WorkersHaveDescriptors ==
  \A w \in Workers :
    /\ wk[w].pc # "idle" => wk[w].fd \in Fds
    /\ wk[w].pc \in {"lock", "answer", "close"} => wk[w].conn \in Conns

TypeInv == KernelInv /\ LoopInv /\ PoolTypes /\ HistoryTypes /\ WorkersHaveDescriptors

(* Somebody refers to c by its descriptor.  If the number has passed on,   *)
(* whoever has it now was given a used one.                                *)
Refers(fd, c) ==
  /\ fd \in used /\ sock[c] # "idle"
  /\ fdTable[fd] \in Conns => fdTable[fd] = c \/ fdTable[fd] \in secondhand

(* An event of the batch refers to its connection, a worker to the one it  *)
(* has read; and who is about to close one has its cause.                  *)
ReferenceInv ==
  /\ \A fd \in Fds : fdTable[fd] \in Conns => fd \in used
  /\ \A e \in batch : e.fd # Listen => e.conn \in Conns /\ Refers(e.fd, e.conn)
  /\ \A e \in batch : e.kind = "hangup" => sock[e.conn] # "up"
  /\ \A w \in Workers :
       /\ wk[w].pc \in {"lock", "answer", "close"} => Refers(wk[w].fd, wk[w].conn)
       /\ wk[w].pc = "close" => wk[w].conn \in asked \/ sock[wk[w].conn] # "up"

(* IdentityLeaksAreKnown, also of descriptors that are not in use: the     *)
(* next accept may take them into use as they are.                         *)
IdentityInv ==
  \A fd \in Fds :
    clients[fd] \in Conns =>
      \/ clients[fd] = fdTable[fd]
      \/ clients[fd] \in hungUp \cup crossed
      \/ \E w \in Workers : wk[w].pc = "del" /\ wk[w].fd = fd

IInv == TypeInv /\ ReferenceInv /\ ClosedForACause /\ IdentityInv

-----------------------------------------------------------------------------
(* Facts about single steps *)

LEMMA InitInv == Init => IInv
<1> SUFFICES ASSUME Init PROVE IInv
  OBVIOUS
<1>1. KernelInv /\ LoopInv
  BY KernelInitially, LoopInitially DEF Init
<1>2. PoolTypes /\ HistoryTypes /\ WorkersHaveDescriptors
  BY MarksAssumption
     DEF Init, LoopInit, PoolTypes, HistoryTypes, WorkersHaveDescriptors, Idle, Worker, WorkerPc, Watched, Identity
<1>3. ReferenceInv /\ ClosedForACause /\ IdentityInv
  BY NoConnAssumption, MarksAssumption
     DEF Init, KernelInit, LoopInit, ReferenceInv, ClosedForACause, IdentityInv, Idle, Identity
<1>4. QED
  BY <1>1, <1>2, <1>3 DEF IInv, TypeInv

(* No step of the kernel makes a connection that has been begun new again, *)
(* or one that has hung up healthy.                                        *)
SocketsGoOn ==
  \A c \in Conns : sock[c] # "idle" => sock'[c] # "idle" /\ (sock[c] # "up" => sock'[c] # "up")

(* What was known of a connection stays known while descriptors stay with  *)
(* their connections or are closed.                                        *)
LEMMA ReferencesStay ==
  ASSUME IInv, SocketsGoOn, NEW e \in Fds, NEW c \in Conns, Refers(e, c),
         \A fd \in Fds : fdTable'[fd] \in {fdTable[fd], NoConn},
         used \subseteq used', secondhand \subseteq secondhand'
  PROVE  Refers(e, c)'
BY NoConnAssumption DEF Refers, SocketsGoOn

(* A worker's own move. *)
LEMMA BecomeFacts ==
  ASSUME PoolTypes, NEW w \in Workers, NEW state \in Worker, Become(w, state)
  PROVE  /\ wk' \in [Workers -> Worker]
         /\ wk'[w] = state
         /\ \A v \in Workers \ {w} : wk'[v] = wk[v]
BY DEF PoolTypes, Become

LEMMA IdleIsWorker == Idle \in Worker
BY DEF Idle, Worker, WorkerPc, Watched

-----------------------------------------------------------------------------
(* The event loop's thread *)

LEMMA LoopOnlyStep ==
  ASSUME IInv, UNCHANGED <<pool, history>>,
         CheckDone \/ EpollWait \/ StopAccepting \/ \E e \in batch : StartAccepting(e)
  PROVE  IInv'
<1>1. KernelInv' /\ LoopInv'
  BY LoopKeepsInv DEF Loop, IInv, TypeInv
<1>2. pc # "add" /\ pc' # "add"
  BY DEF CheckDone, EpollWait, StopAccepting, StartAccepting, Advance
<1>3. TypeInv'
  BY <1>1, <1>2 DEF IInv, TypeInv, PoolTypes, HistoryTypes, WorkersHaveDescriptors, pool, history
<1>4. fdTable' = fdTable /\ hungUp' = hungUp /\ SocketsGoOn
  BY DEF CheckDone, EpollWait, StopAccepting, AcceptDrops, StartAccepting, kvars, SocketsGoOn,
         IInv, TypeInv, KernelInv, KernelTypeOK
<1>5. ASSUME NEW e \in batch', e.fd # Listen
      PROVE  /\ e.conn \in Conns /\ Refers(e.fd, e.conn)'
             /\ e.kind = "hangup" => sock'[e.conn] # "up"
  <2>1. CASE e \in batch
    BY <1>4, <1>5, <2>1 DEF IInv, ReferenceInv, Refers, SocketsGoOn, history
  <2>2. CASE e \notin batch
    <3>1. EpollWait /\ e \in Harvest /\ sock' = sock
      BY <2>2 DEF CheckDone, EpollWait, StopAccepting, StartAccepting, Advance
    <3>2. e.conn = fdTable[e.fd] /\ e.conn \in Conns /\ (e.kind = "hangup" => HungUp(e.conn)) /\ e.fd \in Fds
      BY <1>5, <3>1, HarvestFacts, ListenIsApart DEF IInv, TypeInv, Event
    <3>3. QED
      BY <1>4, <3>1, <3>2 DEF IInv, TypeInv, KernelInv, OnePlace, ReferenceInv, Refers, HungUp, history
  <2>3. QED
    BY <2>1, <2>2
<1>6. \A e \in batch' : e.kind = "hangup" => e.fd # Listen
  BY <1>1 DEF LoopInv, AcceptsAreOfListen
<1>7. ReferenceInv'
  <2>1. ASSUME NEW w \in Workers
        PROVE  /\ wk'[w].pc \in {"lock", "answer", "close"} => Refers(wk[w].fd, wk[w].conn)'
               /\ wk'[w].pc = "close" => wk'[w].conn \in asked' \/ sock'[wk'[w].conn] # "up"
    BY <1>4 DEF IInv, TypeInv, WorkersHaveDescriptors, ReferenceInv, Refers, SocketsGoOn, pool, history
  <2>2. QED
    BY <1>4, <1>5, <1>6, <2>1 DEF IInv, ReferenceInv, history
<1>8. ClosedForACause' /\ IdentityInv'
  BY <1>4 DEF IInv, ClosedForACause, IdentityInv, pool, history
<1>9. QED
  BY <1>3, <1>7, <1>8 DEF IInv

(* A task is queued for the descriptor of a readable connection. *)
LEMMA ProcessStep ==
  ASSUME IInv, NEW e \in batch, Process(e)
  PROVE  IInv'
<1>1. e \in Event /\ e.fd \in Fds /\ e.kind = "in"
  BY ListenIsApart DEF Process, Readable, IInv, TypeInv, LoopInv, LoopTypeOK, AcceptsAreOfListen, Event
<1>2. LoopInv'
  BY SmallerBatch DEF Process, Readable, Advance, IInv, TypeInv, LoopInv, LoopTypeOK, LoopPc
<1>3. tasks' \in Seq(Task)
  BY <1>1, AppendProperties DEF Process, IInv, TypeInv, PoolTypes, Task
<1>4. TypeInv'
  BY <1>2, <1>3 DEF Process, Readable, Advance, IInv, TypeInv, KernelInv, KernelTypeOK, OnePlace, ReadyInUse,
                    ReadIsSent, PoolTypes, HistoryTypes, WorkersHaveDescriptors, kvars, history
<1>5. ReferenceInv' /\ ClosedForACause' /\ IdentityInv'
  BY DEF Process, Advance, IInv, ReferenceInv, Refers, ClosedForACause, IdentityInv, kvars, history
<1>6. QED
  BY <1>4, <1>5 DEF IInv

(* A descriptor number passes on; those who still refer to its last owner  *)
(* meet one that is secondhand.                                            *)
LEMMA AcceptStep == IInv /\ Accept => IInv'
<1> SUFFICES ASSUME IInv, Accept PROVE IInv'
  OBVIOUS
<1>1. KernelInv' /\ LoopInv'
  BY AcceptedKeepsInv DEF Accept, IInv, TypeInv
<1>2. Lowest \in Fds /\ fdTable[Lowest] = NoConn
  BY LowestIsFree DEF Accept, Accepted, FreeFds
<1>3. Head(backlog) \in Conns
  BY DEF Accept, Accepted, AcceptOnto, IInv, TypeInv, KernelInv, KernelTypeOK
<1>4. TypeInv'
  BY <1>1, <1>2, <1>3, ListenIsApart
     DEF Accept, Accepted, IInv, TypeInv, PoolTypes, HistoryTypes, WorkersHaveDescriptors
<1>5. /\ fdTable' = [fdTable EXCEPT ![Lowest] = Head(backlog)]
      /\ batch' = batch /\ wk' = wk /\ sock' = sock /\ hungUp' = hungUp /\ clients' = clients
      /\ UNCHANGED <<asked, orphaned, crossed>>
      /\ used' = used \cup {Lowest}
      /\ secondhand' = IF Lowest \in used THEN secondhand \cup {Head(backlog)} ELSE secondhand
  BY DEF Accept, Accepted, AcceptOnto
<1>6. ASSUME NEW fd \in Fds, NEW c \in Conns, Refers(fd, c) PROVE Refers(fd, c)'
  BY <1>2, <1>3, <1>5, <1>6 DEF Refers, IInv, TypeInv, KernelInv, KernelTypeOK
<1>7. ReferenceInv'
  <2>1. \A fd \in Fds : fdTable'[fd] \in Conns => fd \in used'
    BY <1>2, <1>5 DEF IInv, ReferenceInv, TypeInv, KernelInv, KernelTypeOK
  <2>2. \A e \in batch' : e.fd # Listen => e.fd \in Fds /\ e.conn \in Conns /\ Refers(e.fd, e.conn)'
    BY <1>5, <1>6, ListenIsApart DEF IInv, ReferenceInv, TypeInv, LoopInv, LoopTypeOK, Event
  <2>3. \A w \in Workers : wk'[w].pc \in {"lock", "answer", "close"} => Refers(wk[w].fd, wk[w].conn)'
    BY <1>5, <1>6 DEF IInv, ReferenceInv, TypeInv, WorkersHaveDescriptors
  <2>4. QED
    BY <1>5, <2>1, <2>2, <2>3 DEF IInv, ReferenceInv
<1>8. ClosedForACause' /\ IdentityInv'
  BY <1>2, <1>5, NoConnAssumption DEF IInv, ClosedForACause, IdentityInv, TypeInv, KernelInv, KernelTypeOK
<1>9. QED
  BY <1>4, <1>7, <1>8 DEF IInv

LEMMA AddClientStep == IInv /\ AddClient => IInv'
<1> SUFFICES ASSUME IInv, AddClient PROVE IInv'
  OBVIOUS
<1>1. adding \in Fds
  BY ListenIsApart DEF AddClient, IInv, TypeInv, PoolTypes
<1>2. KernelInv' /\ LoopInv'
  BY SmallerBatch DEF AddClient, IInv, TypeInv, KernelInv, KernelTypeOK, OnePlace, ReadyInUse, ReadIsSent, kvars,
                      LoopInv, LoopTypeOK, LoopPc
<1>3. TypeInv'
  BY <1>1, <1>2, ListenIsApart
     DEF AddClient, IInv, TypeInv, PoolTypes, HistoryTypes, WorkersHaveDescriptors, Identity, history
<1>4. ReferenceInv' /\ ClosedForACause'
  BY DEF AddClient, IInv, ReferenceInv, Refers, ClosedForACause, kvars, history
<1>5. IdentityInv'
  <2>1. \A fd \in Fds : clients'[fd] \in {clients[fd], Fresh}
    BY <1>1 DEF AddClient, IInv, TypeInv, PoolTypes
  <2>2. QED
    BY <2>1, MarksAssumption DEF AddClient, IInv, IdentityInv, kvars, history
<1>6. QED
  BY <1>3, <1>4, <1>5 DEF IInv

(* A close takes a connection away only with a cause. *)
LEMMA CloseWithCause ==
  ASSUME IInv, NEW fd \in Fds, NEW c \in Conns, Refers(fd, c), c \in asked \/ sock[c] # "up",
         orphaned' = orphaned \cup OrphanedBy(fd), secondhand' = secondhand
  PROVE  ClosedForACause'
BY DEF Refers, OrphanedBy, IInv, ClosedForACause

LEMMA CloseGoesOn ==
  ASSUME IInv, NEW fd \in Fds, Close(fd)
  PROVE  /\ SocketsGoOn
         /\ \A f \in Fds : fdTable'[f] = IF f = fd THEN NoConn ELSE fdTable[f]
BY DEF IInv, TypeInv, KernelInv, KernelTypeOK, Close, SocketsGoOn

(* References survive a close, or any step that moves no descriptor. *)
LEMMA ReferencesKept ==
  ASSUME IInv, SocketsGoOn, \A fd \in Fds : fdTable'[fd] \in {fdTable[fd], NoConn},
         batch' \subseteq batch, UNCHANGED <<used, secondhand>>, asked \subseteq asked',
         NEW w \in Workers, \A v \in Workers \ {w} : wk'[v] = wk[v],
         wk'[w] = wk[w] \/ wk'[w].pc \notin {"lock", "answer", "close"}
  PROVE  ReferenceInv'
<1>1. ASSUME NEW fd \in Fds, NEW c \in Conns, Refers(fd, c) PROVE Refers(fd, c)'
  BY <1>1, ReferencesStay
<1>2. \A e \in batch' : e.fd # Listen => e.conn \in Conns /\ Refers(e.fd, e.conn)'
  BY <1>1, ListenIsApart DEF IInv, ReferenceInv, TypeInv, LoopInv, LoopTypeOK, Event
<1>3. \A e \in batch' : e.kind = "hangup" => sock'[e.conn] # "up"
  BY DEF IInv, ReferenceInv, TypeInv, LoopInv, AcceptsAreOfListen, Refers, SocketsGoOn
<1>4. ASSUME NEW v \in Workers
      PROVE  /\ wk'[v].pc \in {"lock", "answer", "close"} => Refers(wk[v].fd, wk[v].conn)'
             /\ wk'[v].pc = "close" => wk'[v].conn \in asked' \/ sock'[wk'[v].conn] # "up"
  <2>1. CASE wk'[v] = wk[v]
    BY <1>1, <2>1 DEF IInv, ReferenceInv, TypeInv, WorkersHaveDescriptors, Refers, SocketsGoOn
  <2>2. CASE wk'[v] # wk[v]
    BY <2>2
  <2>3. QED
    BY <2>1, <2>2
<1>5. QED
  BY <1>2, <1>3, <1>4, NoConnAssumption DEF IInv, ReferenceInv

LEMMA HangupStep ==
  ASSUME IInv, NEW e \in batch, MainHangup(e)
  PROVE  IInv'
<1>1. e \in Event /\ e.fd \in Fds /\ e.fd # Listen /\ Hangup(e) /\ e.kind = "hangup" /\ pc = "dispatch"
  BY ListenIsApart DEF MainHangup, Hangup, IInv, TypeInv, LoopInv, LoopTypeOK, AcceptsAreOfListen, Event
<1>2. KernelInv' /\ LoopInv'
  BY <1>1, HangupKeepsLoop DEF IInv, TypeInv
<1>3. /\ SocketsGoOn
      /\ \A f \in Fds : fdTable'[f] = IF f = e.fd THEN NoConn ELSE fdTable[f]
  BY <1>1, CloseGoesOn DEF Hangup
<1>4. TypeInv'
  BY <1>1, <1>2 DEF MainHangup, Hangup, Advance, OrphanedBy, IInv, TypeInv, PoolTypes, HistoryTypes,
                    WorkersHaveDescriptors, pool
<1>5. ReferenceInv'
  <2>1. wk' = wk /\ UNCHANGED <<used, secondhand, asked>> /\ batch' \subseteq batch
    BY <1>1 DEF MainHangup, Hangup, Advance, pool
  <2>2. CASE Workers = {}
    <3>1. ASSUME NEW fd \in Fds, NEW c \in Conns, Refers(fd, c) PROVE Refers(fd, c)'
      BY <1>3, <2>1, <3>1, ReferencesStay
    <3>2. QED
      BY <1>3, <2>1, <2>2, <3>1, NoConnAssumption, ListenIsApart
         DEF IInv, ReferenceInv, TypeInv, LoopInv, LoopTypeOK, AcceptsAreOfListen, Event, Refers, SocketsGoOn
  <2>3. CASE Workers # {}
    <3>1. PICK w \in Workers : TRUE
      BY <2>3
    <3>2. QED
      BY <1>3, <2>1, <3>1, ReferencesKept
  <2>4. QED
    BY <2>2, <2>3
<1>6. ClosedForACause'
  <2>1. e.conn \in Conns /\ Refers(e.fd, e.conn) /\ sock[e.conn] # "up"
    BY <1>1 DEF IInv, ReferenceInv
  <2>2. QED
    BY <1>1, <2>1, CloseWithCause DEF MainHangup
<1>7. IdentityInv'
  <2>1. clients' = clients /\ wk' = wk /\ crossed' = crossed
        /\ hungUp' = hungUp \cup ({fdTable[e.fd]} \ {NoConn})
    BY <1>1 DEF MainHangup, Hangup, pool
  <2>2. QED
    BY <1>3, <2>1, NoConnAssumption DEF IInv, IdentityInv
<1>8. QED
  BY <1>4, <1>5, <1>6, <1>7 DEF IInv

-----------------------------------------------------------------------------
(* A worker *)

(* A worker's move keeps the types if its new place is in order.           *)
LEMMA MoveKeepsTypes ==
  ASSUME IInv, NEW w \in Workers, NEW state \in Worker, Become(w, state),
         state.pc = "idle" <=> state = Idle,
         state.pc # "idle" => state.fd \in Fds,
         state.pc \in {"lock", "answer", "close"} => state.conn \in Conns,
         lock' \in Workers \cup {Nobody},
         \A v \in Workers : lock' = v <=> IF v = w THEN state.pc = "answer" ELSE wk[v].pc = "answer",
         tasks' \in Seq(Task), clients' \in [Fds -> Identity \cup {Absent}], KernelInv', HistoryTypes',
         UNCHANGED <<loopvars, adding>>
  PROVE  TypeInv'
<1>1. /\ wk' \in [Workers -> Worker]
      /\ wk'[w] = state
      /\ \A v \in Workers \ {w} : wk'[v] = wk[v]
  BY BecomeFacts DEF IInv, TypeInv
<1>2. LoopInv'
  BY DEF IInv, TypeInv, LoopInv, LoopTypeOK, AcceptsAreOfListen, loopvars
<1>3. PoolTypes'
  BY <1>1 DEF IInv, TypeInv, PoolTypes, loopvars
<1>4. WorkersHaveDescriptors'
  BY <1>1 DEF IInv, TypeInv, WorkersHaveDescriptors
<1>5. QED
  BY <1>2, <1>3, <1>4 DEF TypeInv

LEMMA KernelSame == KernelInv /\ UNCHANGED kvars => KernelInv' /\ SocketsGoOn
BY DEF KernelInv, KernelTypeOK, OnePlace, ReadyInUse, ReadIsSent, kvars, SocketsGoOn

LEMMA HistorySame == HistoryTypes /\ UNCHANGED history => HistoryTypes'
BY DEF HistoryTypes, history

(* A worker that moves between two places neither of which is "del" leaves *)
(* the registry's excuses as they are.                                     *)
LEMMA IdentitiesKept ==
  ASSUME IInv, NEW w \in Workers, wk[w].pc # "del", \A v \in Workers \ {w} : wk'[v] = wk[v],
         UNCHANGED <<clients, fdTable, hungUp>>, crossed \subseteq crossed'
  PROVE  IdentityInv'
BY DEF IInv, IdentityInv

LEMMA TakeStep ==
  ASSUME IInv, NEW w \in Workers, Take(w)
  PROVE  IInv'
<1> DEFINE state == [Idle EXCEPT !.pc = IF Head(tasks).kind = "work" THEN "recv" ELSE "cast",
                                 !.fd = Head(tasks).fd]
<1>1. Head(tasks) \in Task /\ tasks' \in Seq(Task)
  BY HeadTailProperties DEF Take, IInv, TypeInv, PoolTypes
<1>2. state \in Worker /\ state.fd \in Fds /\ state.pc \in {"recv", "cast"}
  BY <1>1, ListenIsApart DEF Task, Idle, Worker, WorkerPc
<1>3. Become(w, state)
  BY DEF Take
<1> HIDE DEF state
<1>4. KernelInv' /\ SocketsGoOn /\ HistoryTypes'
  BY KernelSame, HistorySame DEF Take, IInv, TypeInv
<1>5. state # Idle
  BY <1>2 DEF Idle
<1>6. TypeInv'
  BY <1>1, <1>2, <1>3, <1>4, <1>5, MoveKeepsTypes DEF Take, IInv, TypeInv, PoolTypes
<1>7. wk'[w] = state /\ \A v \in Workers \ {w} : wk'[v] = wk[v]
  BY <1>2, <1>3, BecomeFacts DEF IInv, TypeInv
<1>8. ReferenceInv' /\ ClosedForACause' /\ IdentityInv'
  BY <1>2, <1>4, <1>7, ReferencesKept, IdentitiesKept DEF Take, IInv, ClosedForACause, kvars, loopvars, history
<1>9. QED
  BY <1>6, <1>8 DEF IInv

LEMMA ReceiveStep ==
  ASSUME IInv, NEW w \in Workers, Receive(w)
  PROVE  IInv'
<1> DEFINE fd == wk[w].fd
           c == fdTable[fd]
           result == RecvResult(c)
           next == IF result = "data" THEN "lock" ELSE AfterNoInput(result)
           state == IF next = "idle" THEN Idle ELSE [pc |-> next, fd |-> fd, conn |-> c]
<1>1. /\ wk[w].pc = "recv" /\ fd \in Fds /\ c \in Conns \cup {NoConn}
      /\ AfterRecv(c, RecvRoom) /\ Become(w, state)
      /\ fullRead' \in {fullRead \cup {c}, fullRead \ {c}}
      /\ (fullRead' = fullRead \cup {c} => result = "data" \/ fullRead' = fullRead)
  <2>1. wk[w].pc = "recv" /\ AfterRecv(c, RecvRoom) /\ Become(w, state)
    BY DEF Receive
  <2>2. fd \in Fds /\ c \in Conns \cup {NoConn}
    BY <2>1 DEF IInv, TypeInv, WorkersHaveDescriptors, KernelInv, KernelTypeOK
  <2>3. fullRead' = IF (IF result = "data" THEN Received(c, RecvRoom) ELSE 0) = BufUnits
                    THEN fullRead \cup {c} ELSE fullRead \ {c}
    BY DEF Receive
  <2>4. QED
    BY <2>1, <2>2, <2>3, SizesAssumption
<1>2. next \in {"idle", "lock", "close"} /\ (next # "idle" => c \in Conns)
  BY <1>1, NoConnAssumption DEF RecvResult, AfterNoInput
<1>3. next = "close" => sock[c] # "up"
  BY <1>1 DEF RecvResult, AfterNoInput
<1>4. c \in Conns => Refers(fd, c)
  BY <1>1 DEF IInv, TypeInv, KernelInv, OnePlace, ReferenceInv, Refers
<1>5. result = "data" => c \in Conns
  BY <1>1 DEF RecvResult
<1>6. state \in Worker /\ (state.pc = "idle" <=> state = Idle)
  BY <1>1, <1>2, ListenIsApart DEF Idle, Worker, WorkerPc
<1>7. /\ KernelInv' /\ SocketsGoOn
      /\ UNCHANGED <<fdTable, loopvars, tasks, lock, clients, adding, secondhand, used, asked, orphaned, crossed>>
  <2>1. UNCHANGED <<fdTable, sent, backlog, ready, alive, loopvars, tasks, lock, clients, adding,
                    secondhand, used, asked, orphaned, crossed>>
    BY DEF Receive
  <2> HIDE DEF c
  <2>2. KernelInv'
    BY <1>1, <2>1, RecvKeepsKernel, SizesAssumption DEF RecvRoom, IInv, TypeInv
  <2>3. SocketsGoOn
    BY <1>1 DEF AfterRecv, SocketsGoOn
  <2>4. QED
    BY <2>1, <2>2, <2>3
<1>8. HistoryTypes'
  BY <1>1, <1>5, <1>7 DEF IInv, TypeInv, HistoryTypes
<1> HIDE DEF fd, c, result
<1>9. wk'[w] = state /\ \A v \in Workers \ {w} : wk'[v] = wk[v]
  BY <1>1, <1>6, BecomeFacts DEF IInv, TypeInv
<1>10. /\ state.pc = next
       /\ next # "idle" => state.fd = fd /\ state.conn = c
  BY DEF Idle
<1> HIDE DEF next, state
<1>11. TypeInv'
  BY <1>1, <1>2, <1>6, <1>7, <1>8, <1>10, MoveKeepsTypes DEF IInv, TypeInv, PoolTypes
<1>12. ReferenceInv'
  <2>1. ASSUME NEW f \in Fds, NEW d \in Conns, Refers(f, d) PROVE Refers(f, d)'
    BY <1>7, <2>1, ReferencesStay
  <2>2. \A e \in batch' : e.fd # Listen => e.conn \in Conns /\ Refers(e.fd, e.conn)'
    BY <1>7, <2>1, ListenIsApart DEF IInv, ReferenceInv, TypeInv, LoopInv, LoopTypeOK, Event, loopvars
  <2>3. \A e \in batch' : e.kind = "hangup" => sock'[e.conn] # "up"
    BY <1>7 DEF IInv, ReferenceInv, TypeInv, LoopInv, AcceptsAreOfListen, Refers, SocketsGoOn, loopvars
  <2>4. ASSUME NEW v \in Workers
        PROVE  /\ wk'[v].pc \in {"lock", "answer", "close"} => Refers(wk[v].fd, wk[v].conn)'
               /\ wk'[v].pc = "close" => wk'[v].conn \in asked' \/ sock'[wk'[v].conn] # "up"
    <3>1. CASE v = w
      BY <1>1, <1>2, <1>3, <1>4, <1>7, <1>9, <1>10, <2>1, <3>1 DEF Refers, SocketsGoOn
    <3>2. CASE v # w
      BY <1>7, <1>9, <2>1, <3>2 DEF IInv, ReferenceInv, TypeInv, WorkersHaveDescriptors, Refers, SocketsGoOn
    <3>3. QED
      BY <3>1, <3>2
  <2>5. QED
    BY <1>7, <2>2, <2>3, <2>4 DEF IInv, ReferenceInv
<1>13. ClosedForACause' /\ IdentityInv'
  BY <1>1, <1>7, <1>9, IdentitiesKept DEF IInv, ClosedForACause, loopvars
<1>14. QED
  BY <1>11, <1>12, <1>13 DEF IInv

LEMMA LockStep ==
  ASSUME IInv, NEW w \in Workers, Lock(w)
  PROVE  IInv'
<1> DEFINE state == [wk[w] EXCEPT !.pc = "answer"]
<1>1. wk[w].pc = "lock" /\ lock = Nobody /\ lock' = w /\ Become(w, state)
  BY DEF Lock
<1>2. /\ state \in Worker /\ state.pc = "answer" /\ state # Idle
      /\ state.fd = wk[w].fd /\ state.conn = wk[w].conn
      /\ state.fd \in Fds /\ state.conn \in Conns
  BY <1>1 DEF IInv, TypeInv, PoolTypes, WorkersHaveDescriptors, Worker, WorkerPc, Idle
<1> HIDE DEF state
<1>3. KernelInv' /\ SocketsGoOn /\ HistoryTypes'
  BY KernelSame, HistorySame DEF Lock, IInv, TypeInv
<1>4. wk'[w] = state /\ \A v \in Workers \ {w} : wk'[v] = wk[v]
  BY <1>1, <1>2, BecomeFacts DEF IInv, TypeInv
<1>5. \A v \in Workers : lock' = v <=> IF v = w THEN state.pc = "answer" ELSE wk[v].pc = "answer"
  BY <1>1, <1>2, MarksAssumption DEF IInv, TypeInv, PoolTypes
<1>6. TypeInv'
  BY <1>1, <1>2, <1>3, <1>5, MoveKeepsTypes DEF Lock, IInv, TypeInv, PoolTypes
<1>7. ReferenceInv'
  BY <1>1, <1>2, <1>4 DEF Lock, IInv, ReferenceInv, Refers, kvars, loopvars, history
<1>8. ClosedForACause' /\ IdentityInv'
  BY <1>1, <1>4, IdentitiesKept DEF Lock, IInv, ClosedForACause, kvars, loopvars, history
<1>9. QED
  BY <1>6, <1>7, <1>8 DEF IInv

(* The entry that the handler leaves is the one it found, a fresh one, or  *)
(* that of the connection whose input it was given.                        *)
LEMMA HandledFacts ==
  ASSUME PoolTypes, NEW w \in Workers, wk[w].fd \in Fds, wk[w].conn \in Conns, NEW login \in BOOLEAN
  PROVE  /\ Handled(w, login) \in [Fds -> Identity \cup {Absent}]
         /\ Handled(w, login)[wk[w].fd] \in {wk[w].conn, clients[wk[w].fd], Fresh}
         /\ \A f \in Fds \ {wk[w].fd} : Handled(w, login)[f] = clients[f]
BY DEF PoolTypes, Handled, Identity

LEMMA AnswerStep ==
  ASSUME IInv, NEW w \in Workers, Answer(w)
  PROVE  IInv'
<1> DEFINE fd == wk[w].fd
           c == wk[w].conn
<1>1. /\ wk[w].pc = "answer"
      /\ UNCHANGED <<fdTable, sent, taken, backlog, ready, alive, loopvars, adding,
                     secondhand, used, fullRead, orphaned>>
  BY DEF Answer
<1>2. fd \in Fds /\ c \in Conns /\ Refers(fd, c) /\ lock = w
  BY <1>1 DEF IInv, TypeInv, WorkersHaveDescriptors, PoolTypes, ReferenceInv
<1>3. PICK login \in BOOLEAN, close \in BOOLEAN, cast \in BOOLEAN :
        /\ clients' = Handled(w, login)
        /\ AfterSend({fd})
        /\ tasks' = IF cast THEN Append(tasks, [kind |-> "send_to_all", fd |-> fd]) ELSE tasks
        /\ Become(w, IF close THEN [wk[w] EXCEPT !.pc = "close"] ELSE Idle)
        /\ lock' = Unlock(close)
        /\ asked' = IF close THEN asked \cup {c} ELSE asked
        /\ crossed' = IF fdTable[fd] = c THEN crossed ELSE crossed \cup {c}
  BY DEF Answer
<1> DEFINE state == IF close THEN [wk[w] EXCEPT !.pc = "close"] ELSE Idle
<1>4. /\ state \in Worker /\ (state.pc = "idle" <=> state = Idle) /\ state.pc \in {"close", "idle"}
      /\ state.pc = "close" => close /\ state.fd = fd /\ state.conn = c
  BY IdleIsWorker DEF IInv, TypeInv, PoolTypes, Worker, WorkerPc, Idle
<1>5. wk'[w] = state /\ \A v \in Workers \ {w} : wk'[v] = wk[v]
  <2> HIDE DEF state
  <2>1. QED
    BY <1>3, <1>4, BecomeFacts DEF IInv, TypeInv, state
<1>6. tasks' \in Seq(Task)
  BY <1>2, <1>3, AppendProperties DEF IInv, TypeInv, PoolTypes, Task
<1>7. KernelInv'
  BY <1>1, <1>3, SendKeepsKernel DEF IInv, TypeInv
<1>8. SocketsGoOn
  BY <1>3 DEF AfterSend, SocketsGoOn
<1>9. /\ clients' \in [Fds -> Identity \cup {Absent}]
      /\ clients'[fd] \in {c, clients[fd], Fresh}
      /\ \A f \in Fds \ {fd} : clients'[f] = clients[f]
  BY <1>2, <1>3, HandledFacts DEF IInv, TypeInv
<1>10. HistoryTypes'
  BY <1>1, <1>2, <1>3 DEF IInv, TypeInv, HistoryTypes
<1>11. \A v \in Workers : lock' = v <=> IF v = w THEN state.pc = "answer" ELSE wk[v].pc = "answer"
  BY <1>2, <1>3, <1>4, MarksAssumption DEF Unlock, IInv, TypeInv, PoolTypes
<1>12. Become(w, state) /\ lock' = Nobody
  BY <1>3 DEF Unlock
<1>13. asked \subseteq asked' /\ crossed \subseteq crossed' /\ (close => c \in asked')
       /\ (fdTable[fd] # c => c \in crossed')
  BY <1>3
<1> HIDE DEF state, fd, c
<1>14. TypeInv'
  BY <1>1, <1>2, <1>4, <1>6, <1>7, <1>9, <1>10, <1>11, <1>12, MoveKeepsTypes DEF IInv
<1>15. ReferenceInv'
  <2>1. ASSUME NEW f \in Fds, NEW d \in Conns, Refers(f, d) PROVE Refers(f, d)'
    BY <1>1, <1>8, <2>1, ReferencesStay
  <2>2. \A e \in batch' : e.fd # Listen => e.conn \in Conns /\ Refers(e.fd, e.conn)'
    BY <1>1, <2>1, ListenIsApart DEF IInv, ReferenceInv, TypeInv, LoopInv, LoopTypeOK, Event, loopvars
  <2>3. \A e \in batch' : e.kind = "hangup" => sock'[e.conn] # "up"
    BY <1>1, <1>8 DEF IInv, ReferenceInv, TypeInv, LoopInv, AcceptsAreOfListen, Refers, SocketsGoOn, loopvars
  <2>4. ASSUME NEW v \in Workers
        PROVE  /\ wk'[v].pc \in {"lock", "answer", "close"} => Refers(wk[v].fd, wk[v].conn)'
               /\ wk'[v].pc = "close" => wk'[v].conn \in asked' \/ sock'[wk'[v].conn] # "up"
    <3>1. CASE v = w
      BY <1>2, <1>4, <1>5, <1>13, <2>1, <3>1
    <3>2. CASE v # w
      BY <1>5, <1>8, <1>13, <2>1, <3>2 DEF IInv, ReferenceInv, TypeInv, WorkersHaveDescriptors, Refers, SocketsGoOn
    <3>3. QED
      BY <3>1, <3>2
  <2>5. QED
    BY <1>1, <2>2, <2>3, <2>4 DEF IInv, ReferenceInv
<1>16. ClosedForACause'
  BY <1>1 DEF IInv, ClosedForACause
<1>17. IdentityInv'
  <2>1. ASSUME NEW f \in Fds, clients'[f] \in Conns
        PROVE  \/ clients'[f] = fdTable'[f]
               \/ clients'[f] \in hungUp' \cup crossed'
               \/ \E v \in Workers : wk'[v].pc = "del" /\ wk'[v].fd = f
    <3>1. hungUp' = hungUp /\ fdTable' = fdTable /\ \A v \in Workers : wk[v].pc = "del" => wk'[v] = wk[v]
      BY <1>1, <1>5 DEF loopvars
    <3>2. CASE clients'[f] = clients[f]
      BY <1>13, <2>1, <3>1, <3>2 DEF IInv, IdentityInv
    <3>3. CASE clients'[f] # clients[f]
      BY <1>1, <1>9, <1>13, <2>1, <3>3, MarksAssumption
    <3>4. QED
      BY <3>2, <3>3
  <2>2. QED
    BY <2>1 DEF IdentityInv
<1>18. QED
  BY <1>14, <1>15, <1>16, <1>17 DEF IInv

LEMMA CloseFdStep ==
  ASSUME IInv, NEW w \in Workers, CloseFd(w)
  PROVE  IInv'
<1> DEFINE fd == wk[w].fd
           c == wk[w].conn
           state == [wk[w] EXCEPT !.pc = "del"]
<1>1. /\ wk[w].pc = "close" /\ Close(fd) /\ Become(w, state) /\ orphaned' = orphaned \cup OrphanedBy(fd)
      /\ UNCHANGED <<sent, taken, backlog, alive, loopvars, tasks, lock, clients, adding,
                     secondhand, used, fullRead, asked, crossed>>
  BY DEF CloseFd
<1>2. fd \in Fds /\ c \in Conns /\ Refers(fd, c) /\ (c \in asked \/ sock[c] # "up")
  BY <1>1 DEF IInv, TypeInv, WorkersHaveDescriptors, ReferenceInv
<1>3. state \in Worker /\ state.pc = "del" /\ state # Idle /\ state.fd = fd
  BY <1>1 DEF IInv, TypeInv, PoolTypes, Worker, WorkerPc, Idle
<1>4. KernelInv'
  BY <1>1, <1>2, CloseKeepsKernel, ListenIsApart DEF IInv, TypeInv
<1> HIDE DEF fd, c, state
<1>5. /\ SocketsGoOn
      /\ \A f \in Fds : fdTable'[f] = IF f = fd THEN NoConn ELSE fdTable[f]
  BY <1>1, <1>2, CloseGoesOn
<1>6. wk'[w] = state /\ \A v \in Workers \ {w} : wk'[v] = wk[v]
  BY <1>1, <1>3, BecomeFacts DEF IInv, TypeInv
<1>7. HistoryTypes'
  BY <1>1 DEF IInv, TypeInv, HistoryTypes, OrphanedBy
<1>8. TypeInv'
  BY <1>1, <1>2, <1>3, <1>4, <1>7, MoveKeepsTypes DEF IInv, TypeInv, PoolTypes
<1>9. ReferenceInv'
  BY <1>1, <1>3, <1>5, <1>6, ReferencesKept DEF loopvars
<1>10. ClosedForACause'
  BY <1>1, <1>2, CloseWithCause
<1>11. IdentityInv'
  BY <1>1, <1>3, <1>5, <1>6 DEF IInv, IdentityInv, loopvars
<1>12. QED
  BY <1>8, <1>9, <1>10, <1>11 DEF IInv

(* Once the entry is gone, so is the need for the excuse.                  *)
LEMMA DelClientStep ==
  ASSUME IInv, NEW w \in Workers, DelClient(w)
  PROVE  IInv'
<1>1. /\ wk[w].pc = "del" /\ lock = Nobody /\ Become(w, Idle) /\ clients' = [clients EXCEPT ![wk[w].fd] = Absent]
      /\ UNCHANGED <<kvars, loopvars, tasks, lock, adding, history>>
  BY DEF DelClient, Erased
<1>2. KernelInv' /\ SocketsGoOn /\ HistoryTypes'
  BY <1>1, KernelSame, HistorySame DEF IInv, TypeInv
<1>3. wk'[w] = Idle /\ \A v \in Workers \ {w} : wk'[v] = wk[v]
  BY <1>1, IdleIsWorker, BecomeFacts DEF IInv, TypeInv
<1>4. clients' \in [Fds -> Identity \cup {Absent}]
  BY <1>1 DEF IInv, TypeInv, PoolTypes
<1>5. TypeInv'
  BY <1>1, <1>2, <1>4, IdleIsWorker, MoveKeepsTypes DEF Idle, IInv, TypeInv, PoolTypes
<1>6. ReferenceInv' /\ ClosedForACause'
  BY <1>1, <1>2, <1>3, ReferencesKept DEF Idle, IInv, ClosedForACause, kvars, loopvars, history
<1>7. IdentityInv'
  <2>1. /\ clients'[wk[w].fd] = Absent
        /\ \A f \in Fds \ {wk[w].fd} : clients'[f] = clients[f]
    BY <1>1 DEF IInv, TypeInv, PoolTypes, WorkersHaveDescriptors
  <2>2. QED
    BY <1>1, <1>3, <2>1, MarksAssumption DEF Identity, IInv, IdentityInv, kvars, loopvars, history
<1>8. QED
  BY <1>5, <1>6, <1>7 DEF IInv

LEMMA SendToAllStep ==
  ASSUME IInv, NEW w \in Workers, SendToAll(w)
  PROVE  IInv'
<1>1. /\ wk[w].pc = "cast" /\ AfterSend(Audience(wk[w].fd)) /\ Become(w, Idle)
      /\ UNCHANGED <<fdTable, sent, taken, backlog, ready, alive, loopvars, tasks, lock, clients, adding, history>>
  BY DEF SendToAll
<1>2. KernelInv'
  BY <1>1, SendKeepsKernel DEF IInv, TypeInv
<1>3. SocketsGoOn
  BY <1>1 DEF AfterSend, SocketsGoOn
<1>4. wk'[w] = Idle /\ \A v \in Workers \ {w} : wk'[v] = wk[v]
  BY <1>1, IdleIsWorker, BecomeFacts DEF IInv, TypeInv
<1>5. HistoryTypes'
  BY <1>1, HistorySame DEF IInv, TypeInv
<1>6. TypeInv'
  BY <1>1, <1>2, <1>5, IdleIsWorker, MoveKeepsTypes DEF Idle, IInv, TypeInv, PoolTypes
<1>7. ReferenceInv' /\ ClosedForACause' /\ IdentityInv'
  BY <1>1, <1>3, <1>4, ReferencesKept, IdentitiesKept DEF Idle, IInv, ClosedForACause, loopvars, history
<1>8. QED
  BY <1>6, <1>7 DEF IInv


-----------------------------------------------------------------------------
(* The others, and the whole *)

(* Steps that move neither a descriptor, nor an event, nor a worker.       *)
LEMMA QuietStep ==
  ASSUME IInv, KernelInv', LoopInv', SocketsGoOn, pc = "add" <=> pc' = "add",
         UNCHANGED <<fdTable, batch, hungUp, pool, history>>
  PROVE  IInv'
<1>1. TypeInv'
  BY DEF IInv, TypeInv, PoolTypes, HistoryTypes, WorkersHaveDescriptors, pool, history
<1>2. ASSUME NEW fd \in Fds, NEW c \in Conns, Refers(fd, c) PROVE Refers(fd, c)'
  BY <1>2, ReferencesStay DEF history
<1>3. ReferenceInv'
  <2>1. \A e \in batch' : e.fd # Listen => e.conn \in Conns /\ Refers(e.fd, e.conn)'
    BY <1>2, ListenIsApart DEF IInv, ReferenceInv, TypeInv, LoopInv, LoopTypeOK, Event
  <2>2. \A e \in batch' : e.kind = "hangup" => sock'[e.conn] # "up"
    BY DEF IInv, ReferenceInv, TypeInv, LoopInv, AcceptsAreOfListen, Refers, SocketsGoOn
  <2>3. ASSUME NEW v \in Workers
        PROVE  /\ wk'[v].pc \in {"lock", "answer", "close"} => Refers(wk[v].fd, wk[v].conn)'
               /\ wk'[v].pc = "close" => wk'[v].conn \in asked' \/ sock'[wk'[v].conn] # "up"
    BY <1>2 DEF IInv, ReferenceInv, TypeInv, WorkersHaveDescriptors, Refers, SocketsGoOn, pool, history
  <2>4. QED
    BY <2>1, <2>2, <2>3 DEF IInv, ReferenceInv, pool, history
<1>4. ClosedForACause' /\ IdentityInv'
  BY DEF IInv, ClosedForACause, IdentityInv, pool, history
<1>5. QED
  BY <1>1, <1>3, <1>4 DEF IInv

LEMMA SendKillsStep ==
  ASSUME IInv, NEW w \in Workers, SendKills(w)
  PROVE  IInv'
<1>1. alive' = FALSE /\ UNCHANGED <<fdTable, sock, sent, taken, backlog, ready, loopvars, pool, history>>
  BY DEF SendKills
<1>2. KernelInv' /\ LoopInv' /\ SocketsGoOn
  BY <1>1 DEF IInv, TypeInv, KernelInv, KernelTypeOK, OnePlace, ReadyInUse, ReadIsSent,
              LoopInv, LoopTypeOK, AcceptsAreOfListen, loopvars, SocketsGoOn
<1>3. QED
  BY <1>1, <1>2, QuietStep DEF loopvars

LEMMA EnvironmentStep == IInv /\ Environment => IInv'
<1> SUFFICES ASSUME IInv, Environment PROVE IInv'
  OBVIOUS
<1>1. CASE Signal /\ UNCHANGED <<pool, history>>
  <2>1. KernelInv' /\ LoopInv'
    BY <1>1, SignalKeepsInv DEF IInv, TypeInv
  <2>2. UNCHANGED kvars /\ UNCHANGED <<batch, hungUp>> /\ (pc = "add" <=> pc' = "add")
    BY <1>1 DEF Signal
  <2>3. QED
    BY <1>1, <2>1, <2>2, QuietStep, KernelSame DEF kvars, IInv, TypeInv
<1>2. ASSUME NEW c \in Conns, Peer(c), UNCHANGED <<loopvars, pool, history>> PROVE IInv'
  <2>1. KernelInv'
    BY <1>2, PeerKeepsKernel DEF IInv, TypeInv
  <2>2. LoopInv'
    BY <1>2 DEF IInv, TypeInv, LoopInv, LoopTypeOK, AcceptsAreOfListen, loopvars
  <2>3. fdTable' = fdTable /\ SocketsGoOn
    BY <1>2 DEF Peer, Connect, PeerSends, PeerCloses, PeerResets, SocketsGoOn, IInv, TypeInv, KernelInv, KernelTypeOK
  <2>4. QED
    BY <1>2, <2>1, <2>2, <2>3, QuietStep DEF loopvars
<1>3. QED
  BY <1>1, <1>2 DEF Environment

LEMMA InvStep == IInv /\ [Next]_vars => IInv'
<1> SUFFICES ASSUME IInv, [Next]_vars PROVE IInv'
  OBVIOUS
<1>1. CASE Main
  <2>1. ASSUME NEW e \in batch, MainHangup(e) PROVE IInv'
    BY <2>1, HangupStep
  <2>2. ASSUME NEW e \in batch, Process(e) PROVE IInv'
    BY <2>2, ProcessStep
  <2>3. QED
    BY <1>1, <2>1, <2>2, LoopOnlyStep, AcceptStep, AddClientStep DEF Main
<1>2. CASE Environment
  BY <1>2, EnvironmentStep
<1>3. ASSUME NEW w \in Workers, Work(w) PROVE IInv'
  BY <1>3, TakeStep, ReceiveStep, LockStep, AnswerStep, CloseFdStep, DelClientStep, SendToAllStep,
     SendKillsStep DEF Work
<1>4. CASE UNCHANGED vars
  <2>1. KernelInv' /\ SocketsGoOn
    BY <1>4, KernelSame DEF vars, IInv, TypeInv
  <2>2. LoopInv'
    BY <1>4 DEF vars, IInv, TypeInv, LoopInv, LoopTypeOK, AcceptsAreOfListen, loopvars
  <2>3. QED
    BY <1>4, <2>1, <2>2, QuietStep DEF vars, kvars, loopvars
<1>5. QED
  BY <1>1, <1>2, <1>3, <1>4 DEF Next

LEMMA Invariance == Spec => []IInv
BY InitInv, InvStep, PTL DEF Spec

-----------------------------------------------------------------------------
(* The theorems *)

(* Every state of the server is of the shape the code's data has: main_mtx *)
(* is owned by the worker that runs a handler, a worker at work has a      *)
(* descriptor, the epoll events at hand are one per descriptor.            *)
THEOREM TypeCorrect == Spec => []TypeOK
<1>1. IInv => TypeOK
  BY DEF IInv, TypeInv, KernelInv, LoopInv, PoolTypes, HistoryTypes, TypeOK
<1>2. QED
  BY <1>1, Invariance, PTL

(* work() and main_loop close a connection whose peer is still there only  *)
(* if its own handler asked for it, or if it was accepted onto a number    *)
(* that an earlier connection had had.                                     *)
THEOREM ClosesHaveACause == Spec => []ClosedForACause
<1>1. IInv => ClosedForACause
  BY DEF IInv
<1>2. QED
  BY <1>1, Invariance, PTL

(* clients[fd] holds the identity of another connection only after         *)
(* main_loop's close, between a worker's close and its del_client, or      *)
(* after a handler was run on input read before the descriptor passed on.  *)
THEOREM IdentityLeaksAreThese == Spec => []IdentityLeaksAreKnown
<1>1. IInv => IdentityLeaksAreKnown
  BY DEF IInv, IdentityInv, IdentityLeaksAreKnown
<1>2. QED
  BY <1>1, Invariance, PTL

LEMMA BacklogStep == IInv /\ BacklogNeverForgotten /\ [Next]_vars => BacklogNeverForgotten'
<1> SUFFICES ASSUME IInv, BacklogNeverForgotten, [Next]_vars PROVE BacklogNeverForgotten'
  OBVIOUS
<1>1. CASE Loop
  BY <1>1, LoopRemembersBacklog DEF IInv, TypeInv
<1>2. CASE Accept \/ AddClient
  BY <1>2 DEF Accept, Accepted, AddClient, BacklogNeverForgotten
<1>3. ASSUME NEW e \in batch, Process(e) PROVE BacklogNeverForgotten'
  <2>1. e.fd # Listen
    BY <1>3 DEF Process, Readable, IInv, TypeInv, LoopInv, AcceptsAreOfListen
  <2>2. QED
    BY <1>3, <2>1 DEF Process, Readable, Advance, kvars, BacklogNeverForgotten, Pending
<1>4. ASSUME NEW w \in Workers, Work(w) PROVE BacklogNeverForgotten'
  <2>1. CASE CloseFd(w)
    <3>1. wk[w].fd \in Fds
      BY <2>1 DEF CloseFd, IInv, TypeInv, WorkersHaveDescriptors
    <3>2. QED
      BY <2>1, <3>1, ListenIsApart DEF CloseFd, Close, loopvars, BacklogNeverForgotten, Pending
  <2>2. CASE ~CloseFd(w)
    <3>1. UNCHANGED <<backlog, ready, loopvars>>
      BY <1>4, <2>2 DEF Work, Take, Receive, Lock, Answer, DelClient, SendToAll, SendKills, kvars
    <3>2. QED
      BY <3>1 DEF loopvars, BacklogNeverForgotten, Pending
  <2>3. QED
    BY <2>1, <2>2
<1>5. CASE Signal
  BY <1>5 DEF Signal, BacklogNeverForgotten
<1>6. ASSUME NEW c \in Conns, Peer(c), UNCHANGED loopvars PROVE BacklogNeverForgotten'
  BY <1>6, PeerRemembersBacklog DEF IInv, TypeInv
<1>7. CASE UNCHANGED vars
  BY <1>7 DEF vars, kvars, loopvars, BacklogNeverForgotten, Pending
<1>8. QED
  BY <1>1, <1>2, <1>3, <1>4, <1>5, <1>6, <1>7 DEF Next, Main, MainHangup, Loop, Environment

(* With workers that close descriptors and read beside the event loop, no  *)
(* connection is left waiting behind an edge of the listening socket that  *)
(* main_loop has used up.                                                  *)
THEOREM BacklogIsRemembered == Spec => []BacklogNeverForgotten
<1>1. Init => BacklogNeverForgotten
  BY DEF Init, KernelInit, BacklogNeverForgotten
<1>2. QED
  BY <1>1, BacklogStep, Invariance, PTL DEF Spec
=============================================================================
