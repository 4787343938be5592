----------------------------- MODULE TcpServer -----------------------------
(***************************************************************************)
(* mongols::tcp_server: one thread runs the event loop, reads, calls the   *)
(* user's handler and writes the answer.                                   *)
(*                                                                         *)
(* Between two actions of the server the peers may act: the kernel's state *)
(* can change between epoll_wait and recv, and between recv and send.      *)
(***************************************************************************)
EXTENDS EventLoop

CONSTANTS
  Absent,   \* clients has no entry for the descriptor
  Fresh     \* the entry is (0, 0), as add_client makes it

Identity == Conns \cup {Fresh}   \* a pair (gid, uid), named after the connection it was given to

ASSUME MarksAssumption == Fresh \notin Conns /\ Absent \notin Identity

VARIABLES
  cur,       \* the event work() is serving
  clients,   \* tcp_server::clients
  fullRead   \* history: connections whose last recv filled the buffer

svars == <<cur, clients, fullRead>>
vars == <<kvars, loopvars, svars>>

NoEvent == [fd |-> Listen, conn |-> NoConn, kind |-> "accept"]

TypeOK ==
  /\ KernelTypeOK
  /\ LoopTypeOK
  /\ cur \in Event
  /\ cur = NoEvent <=> pc # "answer"
  /\ clients \in [Fds -> Identity \cup {Absent}]
  /\ fullRead \in SUBSET Conns

Init ==
  /\ KernelInit
  /\ LoopInit
  /\ cur = NoEvent
  /\ clients = [fd \in Fds |-> Absent]
  /\ fullRead = {}

-----------------------------------------------------------------------------
(* add_client inserts, and so keeps an entry that is already there. *)
AddClient(fd) ==
  clients' = [clients EXCEPT ![fd] = IF @ = Absent THEN Fresh ELSE @]

AcceptOnce ==   \* mutant: if (!done) instead of while (!done)
  /\ Accepted(IF batch = {} THEN "loop" ELSE "dispatch")
  /\ AddClient(Lowest)
  /\ UNCHANGED <<cur, fullRead>>

Accept ==
  /\ Accepted("accept")
  /\ AddClient(Lowest)
  /\ UNCHANGED <<cur, fullRead>>

(* clients[fd], which makes an entry if there is none, and the handler,    *)
(* which may overwrite it.                                                 *)
Handled(fd, login) ==
  [clients EXCEPT ![fd] = IF login THEN cur.conn ELSE IF @ = Absent THEN Fresh ELSE @]

DelClientSkipped(entries, fd) == entries   \* mutant: close without del_client
DelClient(entries, fd) == [entries EXCEPT ![fd] = Absent]

RecvRoom == BufUnits

(* work(fd), called by process(): recv returns data, for there is no other *)
(* reader and the event said so (EventsAreCurrent); the branches for       *)
(* EAGAIN and end of file are reached in tcp_threading_server only.  The   *)
(* owner of the bytes is remembered until the answer is sent.              *)
Receive(e) ==
  /\ Readable(e)
  /\ AfterRecv(fdTable[e.fd], RecvRoom)
  /\ fullRead' = IF Received(e.conn, RecvRoom) = BufUnits
                 THEN fullRead \cup {e.conn} ELSE fullRead \ {e.conn}
  /\ cur' = e
  /\ batch' = batch \ {e}
  /\ pc' = "answer"
  /\ UNCHANGED <<fdTable, sent, backlog, ready, alive, done, hungUp, acceptBroke, clients>>

(* The handler has run; it may have written the identity it was handed,    *)
(* and asked for the connection to be closed.                              *)
Answer ==
  /\ pc = "answer" /\ Survives({cur.fd})
  /\ \E login, close \in BOOLEAN :
       IF close
       THEN /\ Close(cur.fd)
            /\ clients' = DelClient(Handled(cur.fd, login), cur.fd)
       ELSE /\ AfterSend({cur.fd})
            /\ clients' = Handled(cur.fd, login)
            /\ UNCHANGED <<fdTable, ready>>
  /\ cur' = NoEvent
  /\ Advance(batch)
  /\ UNCHANGED <<sent, taken, backlog, alive, done, hungUp, acceptBroke, fullRead>>

(* send() raises SIGPIPE, and nothing handles it. *)
AnswerKills ==
  /\ pc = "answer" /\ ~Survives({cur.fd})
  /\ alive' = FALSE
  /\ UNCHANGED <<fdTable, sock, sent, taken, backlog, ready, loopvars, svars>>

-----------------------------------------------------------------------------
Server ==
  /\ alive
  /\ \/ Loop /\ UNCHANGED svars
     \/ Accept \/ Answer \/ AnswerKills
     \/ \E e \in batch : Receive(e)

Environment ==
  /\ alive
  /\ \/ Signal /\ UNCHANGED svars
     \/ (\E c \in Conns : Peer(c)) /\ UNCHANGED <<loopvars, svars>>

Next == Server \/ Environment

Spec == Init /\ [][Next]_vars

(* The one thread keeps running, and handlers return.  Peers and signals   *)
(* are never forced to act.                                                *)
FairSpec == Spec /\ WF_vars(Server)

-----------------------------------------------------------------------------
(* Properties *)

(* Descriptors are reused within a batch: a handler closes one and the     *)
(* accept loop gets the same number.  Still every event handled is about   *)
(* the connection epoll_wait reported, its bytes are still there, and      *)
(* every answer goes to the connection whose bytes were read (main_loop,   *)
(* work).                                                                  *)
EventsAreCurrent ==
  /\ \A e \in batch : e.kind # "accept" => fdTable[e.fd] = e.conn
  /\ \A e \in batch : e.kind = "in" => RecvResult(e.conn) = "data"
  /\ pc = "answer" => fdTable[cur.fd] = cur.conn

(* The identity found under a descriptor is that of the connection it now  *)
(* refers to, or of one that main_loop closed without del_client; every    *)
(* close in work() forgets the identity with the descriptor.               *)
IdentityInheritedOnlyAfterHangup ==
  \A fd \in Fds :
    clients[fd] \in Conns => clients[fd] = fdTable[fd] \/ clients[fd] \in hungUp

(* A peer that closes or resets has its descriptor released, although the  *)
(* only trace of it is one edge that may arrive in the middle of a batch.  *)
HangupsAreReaped ==
  \A c \in Conns :
    (c \in Open /\ HungUp(c)) ~> (c \notin Open \/ done \/ ~alive)

(* What a peer sent is read, unless the buffer was full when its bytes     *)
(* were passed over (tcp_server.cpp:126).                                  *)
InputIsRead ==
  \A c \in Conns :
    (c \in Open /\ Unread(c) > 0)
      ~> (c \notin Open \/ Unread(c) = 0 \/ c \in fullRead \/ done \/ ~alive)

(* No connection is forgotten, neither its end nor its input.              *)
PeersAreServed == HangupsAreReaped /\ InputIsRead

(* `done` ends run() at the next event at the latest; the only state that  *)
(* ignores it is an epoll_wait entered just after the test of `done`.      *)
StopHonoured ==
  (done /\ (pc # "wait" \/ Harvest # {})) ~> (pc = "stopped" \/ ~alive)
=============================================================================
