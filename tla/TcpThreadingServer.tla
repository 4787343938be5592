------------------------- MODULE TcpThreadingServer -------------------------
(***************************************************************************)
(* mongols::tcp_threading_server: the event loop hands every readable      *)
(* descriptor to a pool of workers, which read, run the user's handler     *)
(* under main_mtx and write the answer.  A task is a bare descriptor       *)
(* number; nothing ties it to the connection it was submitted for.         *)
(*                                                                         *)
(* The pool is the queue that ThreadPool.tla is shown to implement.  What  *)
(* a worker does under main_mtx is one action, and so is what it does      *)
(* between two system calls: descriptors change hands in between.          *)
(***************************************************************************)
EXTENDS EventLoop

CONSTANTS
  Workers,
  Absent,   \* clients has no entry for the descriptor
  Fresh,    \* the entry is (0, 0), as add_client makes it
  Nobody    \* main_mtx is free

Identity == Conns \cup {Fresh}

ASSUME MarksAssumption ==
  Fresh \notin Conns /\ Absent \notin Identity /\ Nobody \notin Workers

VARIABLES
  tasks,       \* the pool's queue
  wk,          \* the workers
  lock,        \* the owner of main_mtx
  clients,     \* tcp_server::clients
  adding,      \* the descriptor the event loop is about to add_client
  secondhand,  \* history: connections accepted onto a used descriptor number
  used,        \* history: descriptor numbers that have been used
  fullRead,    \* history: connections whose last recv filled the buffer
  asked,       \* history: connections whose handler asked for them to be closed
  orphaned,    \* history: healthy connections that were closed unasked
  crossed      \* history: connections whose input was handled after their descriptor had gone

history == <<secondhand, used, fullRead, asked, orphaned, crossed>>
pool == <<tasks, wk, lock, clients, adding>>
vars == <<kvars, loopvars, pool, history>>

Task == [kind : {"work", "send_to_all"}, fd : Fds]

WorkerPc == {"idle", "recv", "lock", "answer", "close", "del", "cast"}

(* fd: the task's descriptor; conn, which is history: whose bytes recv     *)
(* returned.                                                               *)
Worker == [pc : WorkerPc, fd : Watched, conn : Conns \cup {NoConn}]

Idle == [pc |-> "idle", fd |-> Listen, conn |-> NoConn]

TypeOK ==
  /\ KernelTypeOK
  /\ LoopTypeOK
  /\ tasks \in Seq(Task)
  /\ wk \in [Workers -> Worker]
  /\ \A w \in Workers : wk[w].pc = "idle" <=> wk[w] = Idle
  /\ lock \in Workers \cup {Nobody}
  /\ \A w \in Workers : lock = w <=> wk[w].pc = "answer"
  /\ clients \in [Fds -> Identity \cup {Absent}]
  /\ adding \in Watched
  /\ adding # Listen <=> pc = "add"
  /\ used \in SUBSET Fds
  /\ \A s \in {secondhand, fullRead, asked, orphaned, crossed} : s \in SUBSET Conns

Init ==
  /\ KernelInit
  /\ LoopInit
  /\ tasks = <<>>
  /\ wk = [w \in Workers |-> Idle]
  /\ lock = Nobody
  /\ clients = [fd \in Fds |-> Absent]
  /\ adding = Listen
  /\ secondhand = {} /\ used = {} /\ fullRead = {} /\ asked = {}
  /\ orphaned = {} /\ crossed = {}

-----------------------------------------------------------------------------
(* The event loop's thread *)

(* process(): the pool gets the descriptor number and nothing else. *)
Process(e) ==
  /\ Readable(e)
  /\ tasks' = Append(tasks, [kind |-> "work", fd |-> e.fd])
  /\ Advance(batch \ {e})
  /\ UNCHANGED <<kvars, done, hungUp, acceptBroke, wk, lock, clients, adding, history>>

Accept ==
  /\ Accepted("add")
  /\ adding' = Lowest
  /\ secondhand' = IF Lowest \in used THEN secondhand \cup {Head(backlog)} ELSE secondhand
  /\ used' = used \cup {Lowest}
  /\ UNCHANGED <<tasks, wk, lock, clients, fullRead, asked, orphaned, crossed>>

(* add_client inserts, and so keeps an entry that is still there. *)
AddClient ==
  /\ pc = "add" /\ lock = Nobody
  /\ clients' = [clients EXCEPT ![adding] = IF @ = Absent THEN Fresh ELSE @]
  /\ adding' = Listen
  /\ pc' = "accept"
  /\ UNCHANGED <<kvars, batch, done, hungUp, acceptBroke, tasks, wk, lock, history>>

(* The connection a close takes away from a peer that has not hung up, by  *)
(* request of nobody who served it.                                        *)
OrphanedBy(fd) == {c \in Conns \ asked : fdTable[fd] = c /\ sock[c] = "up"}

MainHangup(e) ==
  /\ Hangup(e)
  /\ orphaned' = orphaned \cup OrphanedBy(e.fd)
  /\ UNCHANGED <<pool, secondhand, used, fullRead, asked, crossed>>

-----------------------------------------------------------------------------
(* A worker: the tasks work(fd) and send_to_all_client(fd) *)

Become(w, state) == wk' = [wk EXCEPT ![w] = state]

Take(w) ==
  /\ wk[w].pc = "idle" /\ tasks # <<>>
  /\ tasks' = Tail(tasks)
  /\ Become(w, [Idle EXCEPT !.pc = IF Head(tasks).kind = "work" THEN "recv" ELSE "cast",
                            !.fd = Head(tasks).fd])
  /\ UNCHANGED <<kvars, loopvars, lock, clients, adding, history>>

AfterNoInputCloses(result) == "close"   \* mutant: EAGAIN is taken for end of file

(* EAGAIN: return false.  Another error: nothing at all. *)
AfterNoInput(result) == IF result = "eof" THEN "close" ELSE "idle"

RecvRoom == BufUnits

(* recv, outside main_mtx, on whatever the descriptor refers to by now.    *)
Receive(w) ==
  /\ wk[w].pc = "recv"
  /\ LET fd == wk[w].fd
         c == fdTable[fd]
         result == RecvResult(c)
         n == IF result = "data" THEN Received(c, RecvRoom) ELSE 0
         next == IF result = "data" THEN "lock" ELSE AfterNoInput(result)
     IN  /\ AfterRecv(c, RecvRoom)
         /\ fullRead' = IF n = BufUnits THEN fullRead \cup {c} ELSE fullRead \ {c}
         /\ Become(w, IF next = "idle" THEN Idle
                      ELSE [pc |-> next, fd |-> fd, conn |-> c])
  /\ UNCHANGED <<fdTable, sent, backlog, ready, alive, loopvars, tasks, lock, clients, adding,
                 secondhand, used, asked, orphaned, crossed>>

Lock(w) ==
  /\ wk[w].pc = "lock" /\ lock = Nobody
  /\ lock' = w
  /\ Become(w, [wk[w] EXCEPT !.pc = "answer"])
  /\ UNCHANGED <<kvars, loopvars, tasks, clients, adding, history>>

Handled(w, login) ==
  [clients EXCEPT ![wk[w].fd] =
     IF login THEN wk[w].conn ELSE IF @ = Absent THEN Fresh ELSE @]

UnlockLate(close) == IF close THEN lock ELSE Nobody   \* mutant: the lock outlives the goto

(* `goto ev_error` leaves the scope of the lock_guard. *)
Unlock(close) == Nobody

(* Under main_mtx: clients[fd], the handler, send, and perhaps a broadcast *)
(* queued behind the other tasks.  The test n < 0 of an unsigned n never   *)
(* fires.                                                                  *)
Answer(w) ==
  /\ wk[w].pc = "answer" /\ Survives({wk[w].fd})
  /\ LET fd == wk[w].fd
         c == wk[w].conn
     IN  \E login, close, cast \in BOOLEAN :
           /\ clients' = Handled(w, login)
           /\ AfterSend({fd})
           /\ tasks' = IF cast THEN Append(tasks, [kind |-> "send_to_all", fd |-> fd])
                       ELSE tasks
           /\ Become(w, IF close THEN [wk[w] EXCEPT !.pc = "close"] ELSE Idle)
           /\ lock' = Unlock(close)
           /\ asked' = IF close THEN asked \cup {c} ELSE asked
           /\ crossed' = IF fdTable[fd] = c THEN crossed ELSE crossed \cup {c}
  /\ UNCHANGED <<fdTable, sent, taken, backlog, ready, alive, loopvars, adding,
                 secondhand, used, fullRead, orphaned>>

CloseFd(w) ==
  /\ wk[w].pc = "close"
  /\ Close(wk[w].fd)
  /\ orphaned' = orphaned \cup OrphanedBy(wk[w].fd)
  /\ Become(w, [wk[w] EXCEPT !.pc = "del"])
  /\ UNCHANGED <<sent, taken, backlog, alive, loopvars, tasks, lock, clients, adding,
                 secondhand, used, fullRead, asked, crossed>>

NotErased(fd) == clients   \* mutant: erase() is forgotten
Erased(fd) == [clients EXCEPT ![fd] = Absent]

DelClient(w) ==
  /\ wk[w].pc = "del" /\ lock = Nobody
  /\ clients' = Erased(wk[w].fd)
  /\ Become(w, Idle)
  /\ UNCHANGED <<kvars, loopvars, tasks, lock, adding, history>>

(* Everybody in the registry but the originator's descriptor. *)
Audience(fd) == {f \in Fds \ {fd} : clients[f] # Absent}

SendToAll(w) ==
  /\ wk[w].pc = "cast" /\ lock = Nobody
  /\ Survives(Audience(wk[w].fd))
  /\ AfterSend(Audience(wk[w].fd))
  /\ Become(w, Idle)
  /\ UNCHANGED <<fdTable, sent, taken, backlog, ready, alive, loopvars,
                 tasks, lock, clients, adding, history>>

(* send() raises SIGPIPE, and nothing handles it. *)
SendKills(w) ==
  /\ \/ wk[w].pc = "answer" /\ ~Survives({wk[w].fd})
     \/ wk[w].pc = "cast" /\ lock = Nobody /\ ~Survives(Audience(wk[w].fd))
  /\ alive' = FALSE
  /\ UNCHANGED <<fdTable, sock, sent, taken, backlog, ready, loopvars, pool, history>>

-----------------------------------------------------------------------------
Main ==
  /\ alive
  /\ \/ (CheckDone \/ EpollWait \/ StopAccepting \/ \E e \in batch : StartAccepting(e))
        /\ UNCHANGED <<pool, history>>
     \/ Accept \/ AddClient
     \/ \E e \in batch : MainHangup(e) \/ Process(e)

Work(w) ==
  /\ alive
  /\ \/ Take(w) \/ Receive(w) \/ Lock(w) \/ Answer(w) \/ CloseFd(w)
     \/ DelClient(w) \/ SendToAll(w) \/ SendKills(w)

Environment ==
  /\ alive
  /\ \/ Signal /\ UNCHANGED <<pool, history>>
     \/ (\E c \in Conns : Peer(c)) /\ UNCHANGED <<loopvars, pool, history>>

Next == Main \/ Environment \/ \E w \in Workers : Work(w)

Spec == Init /\ [][Next]_vars

(* Every thread is scheduled, handlers return, and main_mtx is handed to a *)
(* thread for which it stays free.  Peers and signals are never forced.    *)
FairSpec == Spec /\ WF_vars(Main) /\ \A w \in Workers : WF_vars(Work(w))

-----------------------------------------------------------------------------
(* Properties *)

(* Two workers may read one descriptor, and the second finds nothing; that *)
(* must not end the connection.  The server closes a connection whose peer *)
(* is still there, and whose handler did not ask for it, only if its       *)
(* descriptor had had an earlier owner: a task or an event for that owner  *)
(* can then meet the new one (tcp_server.cpp:162, 164,                     *)
(* tcp_threading_server.cpp:123).                                          *)
ClosedForACause == orphaned \subseteq secondhand

(* The handler is given the identity of another connection only in three   *)
(* ways: main_loop closed that one without del_client, a worker has closed *)
(* it and not yet reached del_client, or its input was handled when its    *)
(* descriptor had already passed on.                                       *)
IdentityLeaksAreKnown ==
  \A fd \in Fds :
    clients[fd] \in Conns /\ fdTable[fd] \in Conns =>
      \/ clients[fd] = fdTable[fd]
      \/ clients[fd] \in hungUp \cup crossed
      \/ \E w \in Workers : wk[w].pc = "del" /\ wk[w].fd = fd

(* Every worker that takes up a task comes back for the next one: main_mtx *)
(* is released on every path out of work(), and del_client, which takes it *)
(* again, is reached without it.                                           *)
WorkersComeBack == \A w \in Workers : wk[w].pc # "idle" ~> (wk[w].pc = "idle" \/ ~alive)

(* What a peer sent is read, by whichever worker, unless the buffer was    *)
(* full when its bytes were passed over.                                   *)
InputIsRead ==
  \A c \in Conns :
    (c \in Open /\ Unread(c) > 0)
      ~> (c \notin Open \/ Unread(c) = 0 \/ c \in fullRead \/ done \/ ~alive)
=============================================================================
