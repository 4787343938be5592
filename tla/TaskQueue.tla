----------------------------- MODULE TaskQueue -----------------------------
(***************************************************************************)
(* What mongols::thread_pool promises to the code that calls submit():     *)
(* tasks start in the order in which they were submitted and none starts   *)
(* twice.  Nothing here speaks of threads, locks, condition variables or   *)
(* of the way the pool is shut down; ThreadPool.tla implements this.       *)
(***************************************************************************)
EXTENDS Sequences

CONSTANT Task       \* every task that can ever be submitted

VARIABLES pending,  \* submitted tasks that have not started, oldest first
          running,  \* tasks that have started and not returned
          finished  \* tasks that have returned

vars == <<pending, running, finished>>

Elements(s) == {s[i] : i \in DOMAIN s}

Known == Elements(pending) \cup running \cup finished

Init == pending = <<>> /\ running = {} /\ finished = {}

(* A task enters once: the same task is never handed in a second time. *)
Submit(t) ==
  /\ t \notin Known
  /\ pending' = Append(pending, t)
  /\ UNCHANGED <<running, finished>>

(* The oldest task starts. *)
Start ==
  /\ pending # <<>>
  /\ running' = running \cup {Head(pending)}
  /\ pending' = Tail(pending)
  /\ UNCHANGED finished

Finish(t) ==
  /\ t \in running
  /\ running' = running \ {t}
  /\ finished' = finished \cup {t}
  /\ UNCHANGED pending

Next == Start \/ \E t \in Task : Submit(t) \/ Finish(t)

Spec == Init /\ [][Next]_vars
=============================================================================
