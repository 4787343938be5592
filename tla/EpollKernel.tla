---------------------------- MODULE EpollKernel ----------------------------
(***************************************************************************)
(* The kernel as src/ uses it: a listening socket and the accepted ones,   *)
(* the descriptor table, and one epoll instance whose registrations are    *)
(* edge-triggered (EPOLLET).  External to src/: modelled from the calls in *)
(* tcp_server.cpp, tcp_threading_server.cpp and epoll.cpp.                 *)
(*                                                                         *)
(* Bytes are counted in units: a unit is what a peer writes at once, and   *)
(* one recv returns at most BufUnits of them (buffer_size).                *)
(***************************************************************************)
EXTENDS Naturals, Sequences, FiniteSets

CONSTANTS
  Conns,     \* the connections that clients may open, each once
  NoConn,
  NumFds,    \* descriptors left to accept() under RLIMIT_NOFILE
  MaxSent,   \* bound: units a peer sends on a connection
  BufUnits   \* buffer_size

ASSUME NoConnAssumption == NoConn \notin Conns
ASSUME SizesAssumption == NumFds \in Nat /\ MaxSent \in Nat /\ BufUnits \in Nat \ {0}

Fds == 1 .. NumFds
Listen == 0            \* listenfd; never closed while the loop runs
Watched == Fds \cup {Listen}

VARIABLES
  fdTable,   \* the connection each descriptor refers to
  sock,      \* the server's end of each connection
  sent,      \* units the peer has sent
  taken,     \* units recv has returned
  backlog,   \* established connections that accept() has not returned
  ready,     \* the epoll ready list
  alive      \* the process has not been killed by SIGPIPE

kvars == <<fdTable, sock, sent, taken, backlog, ready, alive>>

(* "up": established.  "fin": the peer has closed its half.  "rst": reset, *)
(* ECONNRESET still to be reported.  "dead": reset, and a further send     *)
(* raises SIGPIPE.  "gone": the server has closed it.                      *)
SockState == {"idle", "up", "fin", "rst", "dead", "gone"}

Open == {c \in Conns : \E fd \in Fds : fdTable[fd] = c}
FdOf(c) == {fd \in Fds : fdTable[fd] = c}
Unread(c) == sent[c] - taken[c]

KernelTypeOK ==
  /\ fdTable \in [Fds -> Conns \cup {NoConn}]
  /\ sock \in [Conns -> SockState]
  /\ sent \in [Conns -> 0 .. MaxSent]
  /\ taken \in [Conns -> 0 .. MaxSent]
  /\ backlog \in Seq(Conns)
  /\ ready \in SUBSET Watched
  /\ alive \in BOOLEAN

KernelInit ==
  /\ fdTable = [fd \in Fds |-> NoConn]
  /\ sock = [c \in Conns |-> "idle"]
  /\ sent = [c \in Conns |-> 0]
  /\ taken = [c \in Conns |-> 0]
  /\ backlog = <<>>
  /\ ready = {}
  /\ alive = TRUE

-----------------------------------------------------------------------------
(* epoll: an event on a watched descriptor puts it on the ready list;      *)
(* epoll_wait takes it off, reports what is true of it at that moment, and *)
(* does not put it back, whatever is left unread.  The order in which      *)
(* epoll_wait reports descriptors is left open.                            *)

(* EPOLLERR, EPOLLHUP and EPOLLRDHUP all make main_loop close the socket.  *)
HungUp(c) == sock[c] \in {"fin", "rst", "dead"}

EventOf(fd) ==
  IF fd = Listen
  THEN [fd |-> fd, conn |-> NoConn, kind |-> IF backlog = <<>> THEN "none" ELSE "accept"]
  ELSE [fd |-> fd, conn |-> fdTable[fd],
        kind |-> IF HungUp(fdTable[fd]) THEN "hangup"
                 ELSE IF Unread(fdTable[fd]) > 0 THEN "in" ELSE "none"]

(* `conn` is history: the connection the event was about.                  *)
Event == [fd : Watched, conn : Conns \cup {NoConn}, kind : {"accept", "hangup", "in"}]

(* Everything that is ready, which is what epoll_wait reports: more than   *)
(* ev_size (64) descriptors at once are not modelled.                      *)
Harvest == {e \in {EventOf(fd) : fd \in ready} : e.kind # "none"}

-----------------------------------------------------------------------------
(* System calls, as changes to the variables above *)

(* close(fd); EBADF leaves everything as it is. *)
Close(fd) ==
  /\ fdTable' = [fdTable EXCEPT ![fd] = NoConn]
  /\ sock' = [c \in Conns |-> IF fdTable[fd] = c THEN "gone" ELSE sock[c]]
  /\ ready' = ready \ {fd}

(* accept() returns the oldest connection on the lowest free descriptor,   *)
(* and epoll_ctl(ADD) queues it at once if it already has something to     *)
(* report.                                                                 *)
FreeFds == {fd \in Fds : fdTable[fd] = NoConn}
Lowest == CHOOSE fd \in FreeFds : \A f \in FreeFds : fd <= f

AcceptOnto(fd) ==
  /\ backlog # <<>>
  /\ LET c == Head(backlog) IN
       /\ fdTable' = [fdTable EXCEPT ![fd] = c]
       /\ ready' = IF HungUp(c) \/ Unread(c) > 0 THEN ready \cup {fd} ELSE ready
  /\ backlog' = Tail(backlog)
  /\ UNCHANGED <<sock, sent, taken, alive>>

(* accept() reads its address length from a variable nobody initialised:   *)
(* a negative one makes it fail after it has taken the connection, which   *)
(* is thrown away.                                                         *)
AcceptDrops ==
  /\ backlog # <<>> /\ FreeFds # {}
  /\ sock' = [sock EXCEPT ![Head(backlog)] = "gone"]
  /\ backlog' = Tail(backlog)
  /\ UNCHANGED <<fdTable, sent, taken, ready, alive>>

(* What one recv with room for n units returns on a connection. *)
Min2(a, b) == IF a < b THEN a ELSE b
Received(c, n) == Min2(Unread(c), n)
RecvResult(c) ==
  IF c = NoConn THEN "EBADF"
  ELSE IF Unread(c) > 0 THEN "data"
  ELSE IF sock[c] = "up" THEN "EAGAIN"
  ELSE IF sock[c] = "rst" THEN "ECONNRESET"
  ELSE "eof"

AfterRecv(c, n) ==
  /\ taken' = [d \in Conns |-> IF d = c THEN taken[d] + Received(d, n) ELSE taken[d]]
  /\ sock' = [d \in Conns |-> IF d = c /\ RecvResult(d) = "ECONNRESET" THEN "dead" ELSE sock[d]]

(* send() to each of a set of descriptors: the first one after a reset     *)
(* reports ECONNRESET, the next one kills the process, which neither       *)
(* ignores SIGPIPE nor passes MSG_NOSIGNAL.                                *)
SentTo(fds) == {fdTable[fd] : fd \in fds} \ {NoConn}
Survives(fds) == \A c \in SentTo(fds) : sock[c] # "dead"
AfterSend(fds) ==
  sock' = [c \in Conns |-> IF c \in SentTo(fds) /\ sock[c] = "rst" THEN "dead" ELSE sock[c]]

-----------------------------------------------------------------------------
(* The peers *)

Connect(c) ==
  /\ sock[c] = "idle"
  /\ sock' = [sock EXCEPT ![c] = "up"]
  /\ backlog' = Append(backlog, c)
  /\ ready' = ready \cup {Listen}
  /\ UNCHANGED <<fdTable, sent, taken, alive>>

PeerSends(c) ==
  /\ sock[c] = "up" /\ sent[c] < MaxSent
  /\ sent' = [sent EXCEPT ![c] = @ + 1]
  /\ ready' = ready \cup FdOf(c)
  /\ UNCHANGED <<fdTable, sock, taken, backlog, alive>>

PeerCloses(c) ==
  /\ sock[c] = "up"
  /\ sock' = [sock EXCEPT ![c] = "fin"]
  /\ ready' = ready \cup FdOf(c)
  /\ UNCHANGED <<fdTable, sent, taken, backlog, alive>>

(* A reset after the peer's FIN leaves EPIPE behind instead of ECONNRESET. *)
PeerResets(c) ==
  /\ sock[c] \in {"up", "fin"}
  /\ sock' = [sock EXCEPT ![c] = IF @ = "up" THEN "rst" ELSE "dead"]
  /\ ready' = ready \cup FdOf(c)
  /\ UNCHANGED <<fdTable, sent, taken, backlog, alive>>

Peer(c) == Connect(c) \/ PeerSends(c) \/ PeerCloses(c) \/ PeerResets(c)
=============================================================================
