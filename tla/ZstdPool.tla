------------------------------ MODULE ZstdPool ------------------------------
(***************************************************************************)
(* zstd's thread pool (zstd/common/pool.c, built with ZSTD_MULTITHREAD):   *)
(* a ring of jobs behind one mutex, a condition variable for the threads   *)
(* that pop and one for the callers that push.  Every section guarded by   *)
(* queueMutex is one action; a thread in cond_wait goes back to the head   *)
(* of its loop ("lock", "add") when it is signalled, or for no reason.     *)
(*                                                                         *)
(* The owner creates, resizes and frees the pool.  It and the other        *)
(* callers add jobs; nobody is inside POOL_add when the pool is freed.     *)
(***************************************************************************)
EXTENDS Naturals, Sequences, FiniteSets

CONSTANTS
  Threads,      \* threads the pool may ever start
  numThreads,   \* how many POOL_create is asked for
  Owner, Callers,
  Jobs,
  QueueSizes,   \* what POOL_create may be passed for the queue
  NoJob

ASSUME ThreadsAssumption ==
  IsFiniteSet(Threads) /\ numThreads \in 1 .. Cardinality(Threads) /\ Threads \cap Callers = {}
ASSUME OwnerAssumption == Owner \in Callers
ASSUME QueueAssumption == QueueSizes \subseteq Nat /\ NoJob \notin Jobs

VARIABLES
  queueSize,   \* of the ring, which has one slot more than was asked for
  queue, queueHead, queueTail, queueEmpty,
  numThreadsBusy, threadLimit, shutdown,
  pc,        \* where each thread and each caller is
  job,       \* the job a thread runs, or a caller hands in
  finished   \* history: jobs that have returned

ring == <<queueSize, queue, queueHead, queueTail, queueEmpty>>
vars == <<ring, numThreadsBusy, threadLimit, shutdown, pc, job, finished>>

ThreadPc == {"unborn", "lock", "wait", "signal", "run", "relock", "exited"}
CallerPc == {"create", "out", "add", "addWait", "shutdown", "broadcast", "join", "freed"}

Slots == 0 .. queueSize - 1

Started == {t \in Threads : pc[t] # "unborn"}      \* threads[0 .. threadCapacity - 1]
Poppers == {t \in Threads : pc[t] = "wait"}        \* on queuePopCond
Pushers == {c \in Callers : pc[c] = "addWait"}     \* on queuePushCond

TypeOK ==
  /\ queueSize \in {n + 1 : n \in QueueSizes}
  /\ queue \in [Slots -> Jobs \cup {NoJob}]
  /\ queueHead \in Slots /\ queueTail \in Slots
  /\ queueEmpty \in BOOLEAN /\ shutdown \in BOOLEAN
  /\ numThreadsBusy \in 0 .. Cardinality(Threads)
  /\ threadLimit \in 0 .. Cardinality(Threads)
  /\ pc \in [Threads \cup Callers -> ThreadPc \cup CallerPc]
  /\ \A t \in Threads : pc[t] \in ThreadPc
  /\ \A c \in Callers : pc[c] \in CallerPc
  /\ job \in [Threads \cup Callers -> Jobs \cup {NoJob}]
  /\ \A t \in Threads : job[t] # NoJob <=> pc[t] \in {"signal", "run"}
  /\ \A c \in Callers : job[c] # NoJob <=> pc[c] \in {"add", "addWait"}
  /\ finished \in SUBSET Jobs

Init ==
  /\ queueSize \in {n + 1 : n \in QueueSizes}
  /\ queue = [i \in Slots |-> NoJob]
  /\ queueHead = 0 /\ queueTail = 0 /\ queueEmpty = TRUE
  /\ numThreadsBusy = 0 /\ threadLimit = 0 /\ shutdown = FALSE
  /\ pc = [x \in Threads \cup Callers |->
             IF x = Owner THEN "create" ELSE IF x \in Callers THEN "out" ELSE "unborn"]
  /\ job = [x \in Threads \cup Callers |-> NoJob]
  /\ finished = {}

-----------------------------------------------------------------------------
(* Condition variables *)

SignalNobody(at, sleepers, to) == {at}   \* mutant: no signal at all

(* cond_signal: one of the sleepers, if there is one, is sent to `to`. *)
Signal(at, sleepers, to) ==
  IF sleepers = {} THEN {at} ELSE {[at EXCEPT ![x] = to] : x \in sleepers}

Broadcast(at, sleepers, to) == [x \in DOMAIN at |-> IF x \in sleepers THEN to ELSE at[x]]

SpuriousWakeup ==
  /\ \/ \E t \in Poppers : pc' = [pc EXCEPT ![t] = "lock"]
     \/ \E c \in Pushers : pc' = [pc EXCEPT ![c] = "add"]
  /\ UNCHANGED <<ring, numThreadsBusy, threadLimit, shutdown, job, finished>>

-----------------------------------------------------------------------------
(* POOL_thread *)

(* Nothing to pop, or too many threads busy. *)
MustWait == queueEmpty \/ numThreadsBusy >= threadLimit

Wait(t) ==
  /\ pc[t] = "lock" /\ MustWait
  /\ pc' = [pc EXCEPT ![t] = IF shutdown THEN "exited" ELSE "wait"]
  /\ UNCHANGED <<ring, numThreadsBusy, threadLimit, shutdown, job, finished>>

Pop(t) ==
  /\ pc[t] = "lock" /\ ~MustWait
  /\ job' = [job EXCEPT ![t] = queue[queueHead]]
  /\ queueHead' = (queueHead + 1) % queueSize
  /\ queueEmpty' = (queueHead' = queueTail)
  /\ numThreadsBusy' = numThreadsBusy + 1
  /\ pc' = [pc EXCEPT ![t] = "signal"]
  /\ UNCHANGED <<queueSize, queue, queueTail, threadLimit, shutdown, finished>>

(* The signal to a pusher comes after the unlock. *)
SignalPusher(t) ==
  /\ pc[t] = "signal"
  /\ pc' \in Signal([pc EXCEPT ![t] = "run"], Pushers, "add")
  /\ UNCHANGED <<ring, numThreadsBusy, threadLimit, shutdown, job, finished>>

JobReturns(t) ==
  /\ pc[t] = "run"
  /\ pc' = [pc EXCEPT ![t] = "relock"]
  /\ job' = [job EXCEPT ![t] = NoJob]
  /\ finished' = finished \cup {job[t]}
  /\ UNCHANGED <<ring, numThreadsBusy, threadLimit, shutdown>>

SignalsNever == FALSE   \* mutant: a pusher is told of a free slot only

(* With no queue proper a pusher waits for a thread, not for a slot. *)
SignalsWhenDone == queueSize = 1

Release(t) ==
  /\ pc[t] = "relock"
  /\ numThreadsBusy' = numThreadsBusy - 1
  /\ LET at == [pc EXCEPT ![t] = "lock"]
     IN pc' \in IF SignalsWhenDone THEN Signal(at, Pushers, "add") ELSE {at}
  /\ UNCHANGED <<ring, threadLimit, shutdown, job, finished>>

-----------------------------------------------------------------------------
(* POOL_add, POOL_tryAdd *)

isQueueFullNever == FALSE   \* mutant: a job is always taken

isQueueFull ==
  IF queueSize > 1 THEN queueHead = (queueTail + 1) % queueSize
  ELSE numThreadsBusy = threadLimit \/ ~queueEmpty

(* POOL_add_internal by caller c, who leaves the pool; after a shutdown it *)
(* drops the job.                                                          *)
Insert(c, j) ==
  /\ job' = [job EXCEPT ![c] = NoJob]
  /\ IF shutdown
     THEN pc' = [pc EXCEPT ![c] = "out"] /\ UNCHANGED ring
     ELSE /\ queueEmpty' = FALSE
          /\ queue' = [queue EXCEPT ![queueTail] = j]
          /\ queueTail' = (queueTail + 1) % queueSize
          /\ pc' \in Signal([pc EXCEPT ![c] = "out"], Poppers, "lock")
          /\ UNCHANGED <<queueSize, queueHead>>

(* The jobs in the ring, oldest first. *)
Length ==
  IF queueEmpty THEN 0
  ELSE IF queueTail > queueHead THEN queueTail - queueHead ELSE queueTail + queueSize - queueHead
Contents == [i \in 1 .. Length |-> queue[(queueHead + i - 1) % queueSize]]

(* The pool exists, and callers hand in a job once. *)
Open == pc[Owner] \in {"out", "add", "addWait"}
New(j) ==
  /\ j \notin finished
  /\ \A x \in Threads \cup Callers : job[x] # j
  /\ \A i \in DOMAIN Contents : Contents[i] # j

CallAdd(c, j) ==
  /\ Open /\ pc[c] = "out" /\ New(j)
  /\ pc' = [pc EXCEPT ![c] = "add"]
  /\ job' = [job EXCEPT ![c] = j]
  /\ UNCHANGED <<ring, numThreadsBusy, threadLimit, shutdown, finished>>

Add(c) ==
  /\ pc[c] = "add"
  /\ IF isQueueFull /\ ~shutdown
     THEN pc' = [pc EXCEPT ![c] = "addWait"] /\ UNCHANGED <<ring, job>>
     ELSE Insert(c, job[c])
  /\ UNCHANGED <<numThreadsBusy, threadLimit, shutdown, finished>>

(* Refused at once if the queue is full: nothing changes then. *)
TryAdd(c, j) ==
  /\ Open /\ pc[c] = "out" /\ New(j)
  /\ ~isQueueFull
  /\ Insert(c, j)
  /\ UNCHANGED <<numThreadsBusy, threadLimit, shutdown, finished>>

-----------------------------------------------------------------------------
(* POOL_create, POOL_resize, POOL_free *)

CreateThread(t) ==
  /\ pc[Owner] = "create" /\ Cardinality(Started) < numThreads
  /\ pc[t] = "unborn"
  /\ pc' = [pc EXCEPT ![t] = "lock"]
  /\ UNCHANGED <<ring, numThreadsBusy, threadLimit, shutdown, job, finished>>

Created ==
  /\ pc[Owner] = "create" /\ Cardinality(Started) = numThreads
  /\ threadLimit' = numThreads
  /\ pc' = [pc EXCEPT ![Owner] = "out"]
  /\ UNCHANGED <<ring, numThreadsBusy, shutdown, job, finished>>

(* No memory, or no further thread: what there is is freed. *)
CreateFails ==
  /\ pc[Owner] = "create" /\ Cardinality(Started) < numThreads
  /\ pc' = [pc EXCEPT ![Owner] = "shutdown"]
  /\ UNCHANGED <<ring, numThreadsBusy, threadLimit, shutdown, job, finished>>

Shrink(n) ==
  /\ n <= Cardinality(Started)
  /\ threadLimit' = n
  /\ pc' = Broadcast(pc, Poppers, "lock")

(* The threads that could be started stay; the limit follows if all could. *)
Grow(n) ==
  /\ n > Cardinality(Started)
  /\ \E new \in SUBSET (Threads \ Started) :
       /\ Cardinality(Started) + Cardinality(new) <= n
       /\ threadLimit' = IF Cardinality(Started) + Cardinality(new) = n THEN n ELSE threadLimit
       /\ pc' = Broadcast(pc, Poppers \cup new, "lock")

Resize(n) ==
  /\ pc[Owner] = "out"
  /\ Shrink(n) \/ Grow(n)
  /\ UNCHANGED <<ring, numThreadsBusy, shutdown, job, finished>>

Free ==
  /\ \A c \in Callers : pc[c] = "out"
  /\ pc' = [pc EXCEPT ![Owner] = "shutdown"]
  /\ UNCHANGED <<ring, numThreadsBusy, threadLimit, shutdown, job, finished>>

ShutDown ==
  /\ pc[Owner] = "shutdown"
  /\ shutdown' = TRUE
  /\ pc' = [pc EXCEPT ![Owner] = "broadcast"]
  /\ UNCHANGED <<ring, numThreadsBusy, threadLimit, job, finished>>

BroadcastAll ==
  /\ pc[Owner] = "broadcast"
  /\ pc' = Broadcast(Broadcast([pc EXCEPT ![Owner] = "join"], Pushers, "add"), Poppers, "lock")
  /\ UNCHANGED <<ring, numThreadsBusy, threadLimit, shutdown, job, finished>>

Join ==
  /\ pc[Owner] = "join"
  /\ \A t \in Started : pc[t] = "exited"
  /\ pc' = [pc EXCEPT ![Owner] = "freed"]
  /\ UNCHANGED <<ring, numThreadsBusy, threadLimit, shutdown, job, finished>>

-----------------------------------------------------------------------------
ThreadLoop(t) == Wait(t) \/ Pop(t) \/ SignalPusher(t) \/ Release(t)

Create == Created \/ CreateFails \/ \E t \in Threads : CreateThread(t)

Freeing == ShutDown \/ BroadcastAll \/ Join

Next ==
  \/ Create \/ Freeing \/ SpuriousWakeup
  \/ \E t \in Threads : ThreadLoop(t) \/ JobReturns(t)
  \/ \E c \in Callers : Add(c) \/ \E j \in Jobs : CallAdd(c, j) \/ TryAdd(c, j)
  \/ Free \/ \E n \in 1 .. Cardinality(Threads) : Resize(n)

Spec == Init /\ [][Next]_vars

(* Threads that can run are scheduled and jobs return.  No one has to call *)
(* the pool, and spurious wake-ups are never forced.                       *)
Fairness ==
  /\ \A t \in Threads : WF_vars(ThreadLoop(t) \/ JobReturns(t))
  /\ \A c \in Callers : WF_vars(Add(c))
  /\ WF_vars(Freeing)

FairSpec == Spec /\ Fairness

-----------------------------------------------------------------------------
(* Properties *)

TQ == INSTANCE TaskQueue WITH
        Task <- Jobs,
        pending <- Contents,
        running <- {job[t] : t \in Threads} \ {NoJob}

(* The ring and its flags behave as a queue: jobs start in the order in    *)
(* which they were added, and none is lost, repeated or overwritten, while *)
(* the pool is resized or freed.                                           *)
ImplementsTaskQueue == TQ!Spec

(* A sleeping thread is not needed: as many are awake as could start a job *)
(* now.  POOL_add_internal signals one thread for each job and POOL_resize *)
(* wakes them all; a thread that turns back because too many were busy     *)
(* relies on one of those to come back itself.                             *)
Awake == {t \in Threads : pc[t] = "lock"}
NoLostWakeup ==
  Poppers # {} =>
    \/ Length <= Cardinality(Awake)
    \/ threadLimit <= numThreadsBusy + Cardinality(Awake)

(* Callers that wait for room get it, whatever the number of threads was   *)
(* set to meanwhile, and POOL_free returns when every job that was added   *)
(* has run: POOL_thread lets some threads go while there are jobs, "but    *)
(* enough threads will remain active to finish the queue".                 *)
CallsComeBack ==
  /\ \A c \in Callers : pc[c] = "add" ~> pc[c] = "out"
  /\ pc[Owner] = "shutdown" ~> (pc[Owner] = "freed" /\ Length = 0 /\ numThreadsBusy = 0)
=============================================================================
