----------------------------- MODULE EventLoop -----------------------------
(***************************************************************************)
(* tcp_server::run, epoll::loop and tcp_server::main_loop: the thread that *)
(* waits for events, closes what has hung up and accepts what has come in. *)
(* tcp_server and tcp_threading_server share it; what they do with a       *)
(* readable descriptor (process) and with the registry (add_client) is     *)
(* their own, in TcpServer.tla and TcpThreadingServer.tla.                 *)
(***************************************************************************)
EXTENDS EpollKernel

VARIABLES
  pc,           \* where the thread is
  batch,        \* the events of epoll::evs still to be handled
  done,         \* tcp_server::done
  hungUp,       \* history: connections main_loop itself has closed
  acceptBroke   \* history: the last accept loop left connections waiting

loopvars == <<pc, batch, done, hungUp, acceptBroke>>

LoopPc == {"loop", "wait", "dispatch", "accept", "add", "answer", "stopped"}

LoopTypeOK ==
  /\ pc \in LoopPc
  /\ batch \in SUBSET Event
  /\ \A e, f \in batch : e.fd = f.fd => e = f
  /\ pc = "dispatch" => batch # {}
  /\ pc \in {"loop", "wait", "stopped"} => batch = {}
  /\ done \in BOOLEAN
  /\ hungUp \in SUBSET Conns
  /\ acceptBroke \in BOOLEAN

LoopInit ==
  /\ pc = "loop"
  /\ batch = {}
  /\ done = FALSE
  /\ hungUp = {}
  /\ acceptBroke = FALSE

-----------------------------------------------------------------------------
(* run() and epoll::loop *)

CheckDoneNever ==   \* mutant: while (true)
  /\ pc = "loop"
  /\ pc' = "wait"
  /\ UNCHANGED <<kvars, batch, done, hungUp, acceptBroke>>

CheckDone ==
  /\ pc = "loop"
  /\ pc' = IF done THEN "stopped" ELSE "wait"
  /\ UNCHANGED <<kvars, batch, done, hungUp, acceptBroke>>

EpollWait ==
  /\ pc = "wait" /\ ready # {}
  /\ batch' = Harvest
  /\ ready' = {}
  /\ pc' = IF Harvest = {} THEN "wait" ELSE "dispatch"
  /\ UNCHANGED <<fdTable, sock, sent, taken, backlog, alive, done, hungUp, acceptBroke>>

AdvanceDropsRest(rest) ==   \* mutant: the loop over evs handles one event only
  /\ batch' = {}
  /\ pc' = "loop"

(* After one event: the next one of this batch, or a new round. *)
Advance(rest) ==
  /\ batch' = rest
  /\ pc' = IF rest = {} THEN "loop" ELSE "dispatch"

(* SIGTERM and the like.  epoll_wait returns EINTR if it has begun to      *)
(* sleep and this thread takes the signal; a signal between the test of    *)
(* `done` and the sleep, or one that another thread takes, wakes nobody.   *)
Signal ==
  /\ ~done
  /\ done' = TRUE
  /\ pc' \in IF pc = "wait" THEN {"wait", "loop"} ELSE {pc}
  /\ UNCHANGED <<kvars, batch, hungUp, acceptBroke>>

-----------------------------------------------------------------------------
(* main_loop *)

HangupRepeats(e) ==   \* mutant: the loop does not advance past the event
  /\ pc = "dispatch" /\ e \in batch /\ e.kind = "hangup"
  /\ Close(e.fd)
  /\ UNCHANGED <<sent, taken, backlog, alive, loopvars>>

(* ERR, HUP or RDHUP: the socket is closed, its entry in clients stays.    *)
Hangup(e) ==
  /\ pc = "dispatch" /\ e \in batch /\ e.kind = "hangup"
  /\ Close(e.fd)
  /\ hungUp' = hungUp \cup ({fdTable[e.fd]} \ {NoConn})
  /\ Advance(batch \ {e})
  /\ UNCHANGED <<sent, taken, backlog, alive, done, acceptBroke>>

StartAccepting(e) ==
  /\ pc = "dispatch" /\ e \in batch /\ e.kind = "accept"
  /\ batch' = batch \ {e}
  /\ pc' = "accept"
  /\ UNCHANGED <<kvars, done, hungUp, acceptBroke>>

(* accept, setnonblocking and epoll.add; the thread moves on to `to`. *)
Accepted(to) ==
  /\ pc = "accept" /\ ~done /\ FreeFds # {}
  /\ AcceptOnto(Lowest)
  /\ pc' = to
  /\ UNCHANGED <<batch, done, hungUp, acceptBroke>>

(* The loop ends with EAGAIN, with EMFILE, with the failure that throws a  *)
(* connection away, or because a signal has set `done`.                    *)
StopAccepting ==
  /\ pc = "accept"
  /\ \/ (done \/ backlog = <<>> \/ FreeFds = {}) /\ UNCHANGED kvars
     \/ ~done /\ AcceptDrops
  /\ acceptBroke' = (backlog' # <<>>)
  /\ Advance(batch)
  /\ UNCHANGED <<done, hungUp>>

(* A readable descriptor goes to process(). *)
Readable(e) == pc = "dispatch" /\ e \in batch /\ e.kind = "in"

Loop ==
  \/ CheckDone \/ EpollWait \/ StopAccepting
  \/ \E e \in batch : Hangup(e) \/ StartAccepting(e)

-----------------------------------------------------------------------------
(* State predicates both servers' properties use *)

(* An edge on the descriptor has not been used up. *)
Pending(fd) == fd \in ready \/ \E e \in batch : e.fd = fd

(* The listening socket is edge-triggered: connections wait without an     *)
(* edge only after accept() failed with more of them waiting, or when the  *)
(* server is being stopped (main_loop's accept loop).                      *)
BacklogNeverForgotten ==
  backlog # <<>> => Pending(Listen) \/ pc \in {"accept", "add"} \/ acceptBroke \/ done
=============================================================================
