----------------------------- MODULE ThreadPool -----------------------------
(***************************************************************************)
(* mongols::thread_pool over mongols::safe_queue, driven the way           *)
(* tcp_threading_server drives it: one owner thread constructs the pool,   *)
(* submits one task per readable descriptor, and in the destructors        *)
(* submits one exit task per worker, drains the queue itself and joins.    *)
(*                                                                         *)
(* Every section guarded by safe_queue::mtx is one action.  A worker that  *)
(* finds the queue empty in wait_and_pop releases the mutex and sleeps on  *)
(* the condition variable ("wait"); notify_one, or a spurious wake-up,     *)
(* sends it back to the head of wait_and_pop ("pop"), where the predicate  *)
(* is evaluated again.                                                     *)
(***************************************************************************)
EXTENDS Naturals, Sequences, FiniteSets

CONSTANTS
  Workers,        \* the threads thread_pool's constructor tries to start
  Owner,          \* the thread that runs the event loop and the destructors
  Jobs,           \* work(fd) tasks that the event loop may submit, each once
  MaxInterrupts,  \* bound: how often EINTR cuts short the destructor's sleep
  NoTask          \* "holds no task"

ASSUME WorkersAssumption == IsFiniteSet(Workers) /\ Owner \notin Workers
ASSUME InterruptsAssumption == MaxInterrupts \in Nat

Threads == Workers \cup {Owner}

(* A handler may ask for its answer to be broadcast; the worker that runs  *)
(* it then submits a second task for the same job.  Exit tasks are equal   *)
(* closures in the code and are numbered here to tell them apart.          *)
WorkTask == [kind : {"work"}, id : Jobs]
CastTask == [kind : {"send_to_all"}, id : Jobs]
ExitTask == [kind : {"exit"}, id : 0 .. Cardinality(Workers) + MaxInterrupts - 1]
Task == WorkTask \cup CastTask \cup ExitTask

ASSUME NoTaskAssumption == NoTask \notin Task

Work(j) == [kind |-> "work", id |-> j]
Cast(j) == [kind |-> "send_to_all", id |-> j]
Exit(n) == [kind |-> "exit", id |-> n]

WorkerPc == {"unborn", "check", "pop", "wait", "run", "ret", "exited"}
OwnerPc == {"construct", "serve", "exits", "drain", "run", "ret", "join", "destroyed"}

VARIABLES
  q,          \* safe_queue::q
  done,       \* thread_pool::done
  pc,         \* where each thread is
  held,       \* the local variable `task` of each thread
  exitIndex,  \* i, the loop variable of ~tcp_threading_server
  exitsSent,  \* history: exit tasks submitted, which exceeds i after EINTR
  submitted,  \* history: jobs process() has submitted
  finished,   \* history: tasks that have returned
  stolen      \* history: exit tasks run by the owner instead of a worker

vars == <<q, done, pc, held, exitIndex, exitsSent, submitted, finished, stolen>>

Popping == {w \in Workers : pc[w] = "pop"}
Waiting == {w \in Workers : pc[w] = "wait"}
Started == {w \in Workers : pc[w] # "unborn"}
Live == {w \in Workers : pc[w] \notin {"unborn", "exited"}}

TypeOK ==
  /\ q \in Seq(Task)
  /\ done \in BOOLEAN
  /\ pc \in [Threads -> WorkerPc \cup OwnerPc]
  /\ \A w \in Workers : pc[w] \in WorkerPc
  /\ pc[Owner] \in OwnerPc
  /\ held \in [Threads -> Task \cup {NoTask}]
  /\ \A t \in Threads : held[t] # NoTask <=> pc[t] \in {"run", "ret"}
  /\ exitIndex \in 0 .. Cardinality(Workers)
  /\ exitsSent \in 0 .. Cardinality(Workers) + MaxInterrupts
  /\ submitted \in SUBSET Jobs
  /\ finished \in SUBSET Task
  /\ stolen \in SUBSET ExitTask

Init ==
  /\ q = <<>>
  /\ done = FALSE
  /\ pc = [t \in Threads |-> IF t = Owner THEN "construct" ELSE "unborn"]
  /\ held = [t \in Threads |-> NoTask]
  /\ exitIndex = 0
  /\ exitsSent = 0
  /\ submitted = {}
  /\ finished = {}
  /\ stolen = {}

-----------------------------------------------------------------------------
(* safe_queue *)

NotifyNobody(at) == {at}   \* mutant: push does not notify

NotifyOnFirst(at) ==   \* mutant: push notifies only when the queue was empty
  IF Waiting = {} \/ q # <<>> THEN {at} ELSE {[at EXCEPT ![w] = "pop"] : w \in Waiting}

(* cv.notify_one() under the mutex: one sleeper, any of them, goes back to *)
(* the head of wait_and_pop; with no sleeper the notification is lost.     *)
NotifyOne(at) ==
  IF Waiting = {} THEN {at} ELSE {[at EXCEPT ![w] = "pop"] : w \in Waiting}

(* safe_queue::push, reached through thread_pool::submit, by a thread that *)
(* moves to program point `to`.                                            *)
Push(t, task, to) ==
  /\ q' = Append(q, task)
  /\ pc' \in NotifyOne([pc EXCEPT ![t] = to])

TakeFrontKeeps(t) ==   \* mutant: front() without pop()
  /\ q # <<>>
  /\ held' = [held EXCEPT ![t] = Head(q)]
  /\ pc' = [pc EXCEPT ![t] = "run"]
  /\ UNCHANGED q

(* The part that wait_and_pop and try_pop share. *)
TakeFront(t) ==
  /\ q # <<>>
  /\ held' = [held EXCEPT ![t] = Head(q)]
  /\ q' = Tail(q)
  /\ pc' = [pc EXCEPT ![t] = "run"]

-----------------------------------------------------------------------------
(* thread_pool: construction *)

SpawnWorker(w) ==
  /\ pc[Owner] = "construct"
  /\ pc[w] = "unborn"
  /\ pc' = [pc EXCEPT ![w] = "check"]
  /\ UNCHANGED <<q, done, held, exitIndex, exitsSent, submitted, finished, stolen>>

Constructed ==
  /\ pc[Owner] = "construct"
  /\ Started = Workers
  /\ pc' = [pc EXCEPT ![Owner] = "serve"]
  /\ UNCHANGED <<q, done, held, exitIndex, exitsSent, submitted, finished, stolen>>

(* std::thread throws: the exception is swallowed, done is set, and the    *)
(* pool is left with the workers started so far.                           *)
SpawnFails ==
  /\ pc[Owner] = "construct"
  /\ Started # Workers
  /\ done' = TRUE
  /\ pc' = [pc EXCEPT ![Owner] = "serve"]
  /\ UNCHANGED <<q, held, exitIndex, exitsSent, submitted, finished, stolen>>

-----------------------------------------------------------------------------
(* thread_pool::work, the loop of a worker *)

CheckDone(w) ==
  /\ pc[w] = "check"
  /\ pc' = [pc EXCEPT ![w] = IF done THEN "exited" ELSE "pop"]
  /\ UNCHANGED <<q, done, held, exitIndex, exitsSent, submitted, finished, stolen>>

WaitAndPop(w) ==
  /\ pc[w] = "pop"
  /\ \/ TakeFront(w)
     \/ /\ q = <<>>
        /\ pc' = [pc EXCEPT ![w] = "wait"]
        /\ UNCHANGED <<q, held>>
  /\ UNCHANGED <<done, exitIndex, exitsSent, submitted, finished, stolen>>

SpuriousWakeup(w) ==
  /\ pc[w] = "wait"
  /\ pc' = [pc EXCEPT ![w] = "pop"]
  /\ UNCHANGED <<q, done, held, exitIndex, exitsSent, submitted, finished, stolen>>

(* work(fd) submits the broadcast from inside the task; any thread that    *)
(* runs tasks may do so, the owner included.                               *)
RunSubmitsCast(t) ==
  /\ pc[t] = "run"
  /\ held[t].kind = "work"
  /\ Push(t, Cast(held[t].id), "ret")
  /\ UNCHANGED <<done, held, exitIndex, exitsSent, submitted, finished, stolen>>

ReturnsFalse(task) == FALSE   \* mutant: work(-1) returns like the others

(* What the task returns: TRUE only from work(-1). *)
Returns(task) == task.kind = "exit"

(* The task returns.  A worker leaves its loop on TRUE; the owner, inside  *)
(* ~thread_pool, ignores the value and drains on.                          *)
RunReturns(t) ==
  /\ pc[t] \in {"run", "ret"}
  /\ finished' = finished \cup {held[t]}
  /\ held' = [held EXCEPT ![t] = NoTask]
  /\ pc' = [pc EXCEPT ![t] = IF t = Owner THEN "drain"
                             ELSE IF Returns(held[t]) THEN "exited" ELSE "check"]
  /\ UNCHANGED <<q, done, exitIndex, exitsSent, submitted, stolen>>

-----------------------------------------------------------------------------
(* The owner: tcp_server::run's event loop, then the two destructors *)

(* process(): submit drops the task without a word when no worker exists. *)
SubmitJob(j) ==
  /\ pc[Owner] = "serve"
  /\ j \notin submitted
  /\ submitted' = submitted \cup {j}
  /\ IF Started # {} THEN Push(Owner, Work(j), "serve") ELSE UNCHANGED <<q, pc>>
  /\ UNCHANGED <<done, held, exitIndex, exitsSent, finished, stolen>>

(* run() has returned and ~tcp_threading_server begins. *)
StopServing ==
  /\ pc[Owner] = "serve"
  /\ pc' = [pc EXCEPT ![Owner] = "exits"]
  /\ UNCHANGED <<q, done, held, exitIndex, exitsSent, submitted, finished, stolen>>

(* The test of the exit loop: i < size(). *)
ExitsMissing == exitIndex < Cardinality(Started)

(* One round of the exit loop: i advances unless nanosleep is interrupted, *)
(* in which case the round is repeated with one more exit task queued.     *)
SubmitExit ==
  /\ pc[Owner] = "exits"
  /\ ExitsMissing
  /\ Push(Owner, Exit(exitsSent), "exits")
  /\ exitsSent' = exitsSent + 1
  /\ \/ exitIndex' = exitIndex + 1
     \/ exitsSent - exitIndex < MaxInterrupts /\ exitIndex' = exitIndex
  /\ UNCHANGED <<done, held, submitted, finished, stolen>>

(* ~thread_pool begins. *)
SetDone ==
  /\ pc[Owner] = "exits"
  /\ ~ExitsMissing
  /\ done' = TRUE
  /\ pc' = [pc EXCEPT ![Owner] = "drain"]
  /\ UNCHANGED <<q, held, exitIndex, exitsSent, submitted, finished, stolen>>

TryPopNothing ==   \* mutant: the destructor does not drain the queue
  /\ pc[Owner] = "drain"
  /\ pc' = [pc EXCEPT ![Owner] = "join"]
  /\ UNCHANGED <<q, done, held, exitIndex, exitsSent, submitted, finished, stolen>>

(* while (q.try_pop(task)) task(); *)
TryPop ==
  /\ pc[Owner] = "drain"
  /\ \/ /\ TakeFront(Owner)
        /\ stolen' = stolen \cup ({Head(q)} \cap ExitTask)
     \/ /\ q = <<>>
        /\ pc' = [pc EXCEPT ![Owner] = "join"]
        /\ UNCHANGED <<q, held, stolen>>
  /\ UNCHANGED <<done, exitIndex, exitsSent, submitted, finished>>

(* ~join_thread joins every started worker. *)
Join ==
  /\ pc[Owner] = "join"
  /\ Live = {}
  /\ pc' = [pc EXCEPT ![Owner] = "destroyed"]
  /\ UNCHANGED <<q, done, held, exitIndex, exitsSent, submitted, finished, stolen>>

-----------------------------------------------------------------------------
RunStep(t) == RunSubmitsCast(t) \/ RunReturns(t)

WorkerStep(w) == CheckDone(w) \/ WaitAndPop(w) \/ RunStep(w)

Construct == Constructed \/ SpawnFails \/ \E w \in Workers : SpawnWorker(w)

Destruct == SubmitExit \/ SetDone \/ TryPop \/ RunStep(Owner) \/ Join

Next ==
  \/ Construct
  \/ \E w \in Workers : WorkerStep(w) \/ SpuriousWakeup(w)
  \/ \E j \in Jobs : SubmitJob(j)
  \/ StopServing
  \/ Destruct

Spec == Init /\ [][Next]_vars

(* Threads that can run are scheduled, and tasks return.  New jobs, the    *)
(* end of the event loop and spurious wake-ups are never forced.           *)
Fairness ==
  /\ WF_vars(Construct)
  /\ \A w \in Workers : WF_vars(WorkerStep(w))
  /\ WF_vars(Destruct)

FairSpec == Spec /\ Fairness

-----------------------------------------------------------------------------
(* Properties *)

InQueue(task) == \E i \in DOMAIN q : q[i] = task

(* push notifies one sleeper per task (safe_queue.hpp:25-29): while some   *)
(* worker sleeps, every queued task has an awake worker of its own that is *)
(* about to look at the queue.  A notification given only when the queue   *)
(* was empty, or none at all, leaves a task and a sleeper side by side.    *)
NoLostWakeup == Waiting # {} => Len(q) <= Cardinality(Popping)

(* What the pool throws away when it is destroyed are broadcasts that a    *)
(* still running worker submitted after the drain saw the queue empty: no  *)
(* request accepted by process() and no exit task is ever dropped.         *)
OnlyBroadcastsDropped ==
  pc[Owner] \in {"join", "destroyed"} =>
    \A i \in DOMAIN q : q[i].kind = "send_to_all"

(* The pool implements the queue its callers rely on: first in, first      *)
(* started, each task once, whichever thread starts it.                    *)
TQ == INSTANCE TaskQueue WITH
        pending  <- q,
        running  <- {held[t] : t \in Threads} \ {NoTask},
        finished <- finished

ImplementsTaskQueue == TQ!Spec

(* The destructors come to an end unless the drain stole an exit task from *)
(* a worker (tcp_threading_server.cpp:35-53, thread_pool.hpp:62-68).       *)
ShutdownEnds == pc[Owner] = "exits" ~> (pc[Owner] = "destroyed" \/ stolen # {})

(* A queued request is answered: by a worker while the pool is healthy,    *)
(* and at the latest by the drain, even in a pool whose construction       *)
(* failed half way and whose workers have all left.                        *)
QueuedJobsRun ==
  \A j \in Jobs :
    (InQueue(Work(j)) /\ (~done \/ pc[Owner] # "serve")) ~> Work(j) \in finished
=============================================================================
