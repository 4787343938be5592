-------------------------- MODULE ThreadPoolProofs --------------------------
(***************************************************************************)
(* Theorems about ThreadPool for every set of workers, every set of jobs   *)
(* and every number of interrupted sleeps.                                 *)
(***************************************************************************)
EXTENDS ThreadPool, FiniteSetTheorems, SequenceTheorems, TLAPS

PcValue == WorkerPc \cup OwnerPc

(* i and the number of exit tasks differ by the rounds EINTR repeated.     *)
ExitCount == exitIndex <= exitsSent /\ exitsSent <= exitIndex + MaxInterrupts

TypeInv == TypeOK /\ ExitCount

-----------------------------------------------------------------------------
(* Facts about the constants and the operators of safe_queue *)

LEMMA WorkersFinite ==
  /\ IsFiniteSet(Workers)
  /\ Cardinality(Workers) \in Nat
  /\ \A S \in SUBSET Workers : IsFiniteSet(S) /\ Cardinality(S) \in 0 .. Cardinality(Workers)
<1>1. IsFiniteSet(Workers) /\ Cardinality(Workers) \in Nat
  BY WorkersAssumption, FS_CardinalityType
<1>2. ASSUME NEW S \in SUBSET Workers
      PROVE  IsFiniteSet(S) /\ Cardinality(S) \in 0 .. Cardinality(Workers)
  <2>1. IsFiniteSet(S) /\ Cardinality(S) <= Cardinality(Workers)
    BY <1>1, FS_Subset
  <2>2. Cardinality(S) \in Nat
    BY <2>1, FS_CardinalityType
  <2>3. QED
    BY <1>1, <2>1, <2>2
<1>3. QED
  BY <1>1, <1>2

(* notify_one wakes at most one thread, a sleeping worker, and moves no    *)
(* other thread.                                                           *)
LEMMA NotifyOneFacts ==
  ASSUME NEW at \in [Threads -> PcValue],
         NEW next \in NotifyOne(at)
  PROVE  /\ next \in [Threads -> PcValue]
         /\ \/ Waiting = {} /\ next = at
            \/ \E w \in Waiting : next = [at EXCEPT ![w] = "pop"]
<1>1. CASE Waiting = {}
  BY <1>1 DEF NotifyOne
<1>2. CASE Waiting # {}
  <2>1. PICK w \in Waiting : next = [at EXCEPT ![w] = "pop"]
    BY <1>2 DEF NotifyOne
  <2>2. w \in Threads /\ "pop" \in PcValue
    BY DEF Waiting, Threads, PcValue, WorkerPc
  <2>3. QED
    BY <2>1, <2>2
<1>3. QED
  BY <1>1, <1>2

(* push appends its task, moves the caller, and wakes at most one sleeper. *)
LEMMA PushFacts ==
  ASSUME TypeOK, NEW t \in Threads, NEW task \in Task, NEW to \in PcValue,
         pc[t] # "wait", Push(t, task, to)
  PROVE  /\ q' \in Seq(Task)
         /\ pc' \in [Threads -> PcValue]
         /\ pc'[t] = to
         /\ \A u \in Threads \ {t} :
              \/ pc'[u] = pc[u]
              \/ u \in Waiting /\ pc'[u] = "pop"
<1> DEFINE at == [pc EXCEPT ![t] = to]
<1>1. pc \in [Threads -> PcValue]
  BY DEF TypeOK, PcValue
<1>2. at \in [Threads -> PcValue]
  BY <1>1
<1>3. pc' \in NotifyOne(at)
  BY DEF Push
<1>4. /\ pc' \in [Threads -> PcValue]
      /\ \/ Waiting = {} /\ pc' = at
         \/ \E w \in Waiting : pc' = [at EXCEPT ![w] = "pop"]
  <2> HIDE DEF at
  <2> QED
    BY <1>2, <1>3, NotifyOneFacts
<1>5. t \notin Waiting
  BY DEF Waiting
<1>6. q' \in Seq(Task)
  BY AppendProperties DEF Push, TypeOK
<1>7. ASSUME Waiting = {}, pc' = at
      PROVE  pc'[t] = to /\ \A u \in Threads \ {t} : pc'[u] = pc[u]
  BY <1>1, <1>7
<1>8. ASSUME NEW w \in Waiting, pc' = [at EXCEPT ![w] = "pop"]
      PROVE  /\ pc'[t] = to
             /\ \A u \in Threads \ {t} : pc'[u] = pc[u] \/ (u \in Waiting /\ pc'[u] = "pop")
  BY <1>1, <1>5, <1>8
<1>9. QED
  BY <1>4, <1>6, <1>7, <1>8

(* The held task, if any, is a task. *)
LEMMA TakeFrontFacts ==
  ASSUME TypeOK, NEW t \in Threads, TakeFront(t)
  PROVE  /\ Head(q) \in Task
         /\ q' \in Seq(Task)
         /\ held' = [held EXCEPT ![t] = Head(q)]
         /\ pc' = [pc EXCEPT ![t] = "run"]
BY HeadTailProperties DEF TypeOK, TakeFront

-----------------------------------------------------------------------------
(* Type correctness *)

(* A push by a thread that neither takes up nor gives up a task keeps the  *)
(* program points and the held tasks in their types.                       *)
LEMMA PushKeepsTypes ==
  ASSUME TypeOK, NEW t \in Threads, NEW task \in Task, NEW to,
         t \in Workers => to \in WorkerPc,
         t = Owner => to \in OwnerPc,
         to \in {"run", "ret"} <=> pc[t] \in {"run", "ret"},
         pc[t] # "wait", Push(t, task, to), held' = held, done' = done
  PROVE  /\ q' \in Seq(Task)
         /\ done' \in BOOLEAN
         /\ pc' \in [Threads -> WorkerPc \cup OwnerPc]
         /\ \A w \in Workers : pc'[w] \in WorkerPc
         /\ pc'[Owner] \in OwnerPc
         /\ held' \in [Threads -> Task \cup {NoTask}]
         /\ \A u \in Threads : held'[u] # NoTask <=> pc'[u] \in {"run", "ret"}
<1>1. to \in PcValue
  BY DEF PcValue, Threads
<1>2. /\ q' \in Seq(Task)
      /\ pc' \in [Threads -> PcValue]
      /\ pc'[t] = to
      /\ \A u \in Threads \ {t} :
           \/ pc'[u] = pc[u]
           \/ u \in Waiting /\ pc'[u] = "pop"
  BY <1>1, PushFacts
<1>3. \A w \in Workers : pc'[w] \in WorkerPc
  BY <1>2 DEF TypeOK, Threads, WorkerPc
<1>4. pc'[Owner] \in OwnerPc
  BY <1>2, WorkersAssumption DEF TypeOK, Threads, Waiting
<1>5. ASSUME NEW u \in Threads
      PROVE  held'[u] # NoTask <=> pc'[u] \in {"run", "ret"}
  <2>1. CASE u = t
    BY <1>2, <2>1 DEF TypeOK
  <2>2. CASE u # t
    BY <1>2, <2>2 DEF TypeOK, Waiting
  <2>3. QED
    BY <2>1, <2>2
<1>6. QED
  BY <1>2, <1>3, <1>4, <1>5 DEF TypeOK, PcValue

LEMMA TypeInit == Init => TypeInv
<1> SUFFICES ASSUME Init PROVE TypeInv
  OBVIOUS
<1>1. pc[Owner] = "construct" /\ \A w \in Workers : pc[w] = "unborn"
  BY WorkersAssumption DEF Init, Threads
<1>2. pc \in [Threads -> WorkerPc \cup OwnerPc]
  BY DEF Init, Threads, WorkerPc, OwnerPc
<1>3. \A t \in Threads : held[t] = NoTask /\ pc[t] \notin {"run", "ret"}
  BY <1>1 DEF Init, Threads
<1>4. held \in [Threads -> Task \cup {NoTask}] /\ q \in Seq(Task)
  BY DEF Init
<1>5. Cardinality(Workers) \in Nat /\ MaxInterrupts \in Nat
  BY WorkersFinite, InterruptsAssumption
<1>6. /\ exitIndex \in 0 .. Cardinality(Workers)
      /\ exitsSent \in 0 .. Cardinality(Workers) + MaxInterrupts
      /\ ExitCount
  BY <1>5 DEF Init, ExitCount
<1>7. /\ done \in BOOLEAN
      /\ submitted \in SUBSET Jobs
      /\ finished \in SUBSET Task
      /\ stolen \in SUBSET ExitTask
  BY DEF Init
<1>8. pc[Owner] \in OwnerPc /\ \A w \in Workers : pc[w] \in WorkerPc
  BY <1>1 DEF WorkerPc, OwnerPc
<1>9. QED
  BY <1>2, <1>3, <1>4, <1>6, <1>7, <1>8 DEF TypeInv, TypeOK

(* Taking the front task makes a thread a running one that holds a task.   *)
LEMMA TakeFrontKeepsTypes ==
  ASSUME TypeInv, NEW t \in Threads, TakeFront(t),
         UNCHANGED <<done, exitIndex, exitsSent, submitted, finished>>,
         stolen' \in SUBSET ExitTask
  PROVE  TypeInv'
<1>1. /\ Head(q) \in Task
      /\ q' \in Seq(Task)
      /\ held' = [held EXCEPT ![t] = Head(q)]
      /\ pc' = [pc EXCEPT ![t] = "run"]
  BY TakeFrontFacts DEF TypeInv
<1>2. \A u \in Threads : held'[u] # NoTask <=> pc'[u] \in {"run", "ret"}
  BY <1>1, NoTaskAssumption DEF TypeInv, TypeOK
<1>3. QED
  BY <1>1, <1>2, WorkersAssumption
     DEF TypeInv, TypeOK, ExitCount, Threads, WorkerPc, OwnerPc

(* A thread that neither runs nor starts to run a task moves on its own.   *)
LEMMA MoveKeepsTypes ==
  ASSUME TypeInv, NEW t \in Threads, NEW to, pc' = [pc EXCEPT ![t] = to],
         t \in Workers => to \in WorkerPc,
         t = Owner => to \in OwnerPc,
         to \notin {"run", "ret"}, pc[t] \notin {"run", "ret"},
         done' \in {done, TRUE},
         UNCHANGED <<q, held, exitIndex, exitsSent, submitted, finished, stolen>>
  PROVE  TypeInv'
<1>1. \A u \in Threads : held'[u] # NoTask <=> pc'[u] \in {"run", "ret"}
  BY DEF TypeInv, TypeOK
<1>2. QED
  BY <1>1, WorkersAssumption DEF TypeInv, TypeOK, ExitCount, Threads

(* EINTR makes the exit tasks outnumber the workers, by no more than the   *)
(* interrupted rounds.                                                     *)
LEMMA ExitIsTask == TypeInv /\ SubmitExit => Exit(exitsSent) \in Task
<1> SUFFICES ASSUME TypeInv, SubmitExit PROVE Exit(exitsSent) \in Task
  OBVIOUS
<1>1. Cardinality(Started) \in 0 .. Cardinality(Workers)
  BY WorkersFinite DEF Started
<1>2. /\ exitIndex \in Nat /\ exitsSent \in Nat
      /\ exitIndex < Cardinality(Workers)
  BY <1>1, WorkersFinite, InterruptsAssumption DEF SubmitExit, ExitsMissing, TypeInv, TypeOK
<1>3. QED
  BY <1>2, WorkersFinite, InterruptsAssumption DEF Exit, Task, ExitTask, TypeInv, ExitCount

LEMMA TypeStep == TypeInv /\ [Next]_vars => TypeInv'
<1> SUFFICES ASSUME TypeInv, [Next]_vars PROVE TypeInv'
  OBVIOUS
<1> USE WorkersAssumption, InterruptsAssumption, NoTaskAssumption
<1>1. ASSUME NEW w \in Workers, SpawnWorker(w) PROVE TypeInv'
  BY <1>1, MoveKeepsTypes DEF SpawnWorker, Threads, WorkerPc
<1>2. CASE Constructed
  BY <1>2, MoveKeepsTypes DEF Constructed, Threads, OwnerPc
<1>3. CASE SpawnFails
  BY <1>3, MoveKeepsTypes DEF SpawnFails, Threads, OwnerPc
<1>4. ASSUME NEW w \in Workers, CheckDone(w) PROVE TypeInv'
  <2>1. ASSUME NEW to \in {"exited", "pop"}, pc' = [pc EXCEPT ![w] = to] PROVE TypeInv'
    <3>1. w \in Threads /\ w # Owner /\ to \in WorkerPc /\ to \notin {"run", "ret"}
      BY DEF Threads, WorkerPc
    <3>2. /\ pc[w] = "check"
          /\ UNCHANGED <<q, done, held, exitIndex, exitsSent, submitted, finished, stolen>>
      BY <1>4 DEF CheckDone
    <3>3. QED
      BY <2>1, <3>1, <3>2, MoveKeepsTypes
  <2>2. QED
    BY <1>4, <2>1 DEF CheckDone
<1>5. ASSUME NEW w \in Workers, WaitAndPop(w) PROVE TypeInv'
  <2>1. CASE TakeFront(w)
    BY <1>5, <2>1, TakeFrontKeepsTypes DEF WaitAndPop, Threads, TypeInv, TypeOK
  <2>2. CASE pc' = [pc EXCEPT ![w] = "wait"] /\ UNCHANGED <<q, held>>
    BY <1>5, <2>2, MoveKeepsTypes DEF WaitAndPop, Threads, WorkerPc
  <2>3. QED
    BY <1>5, <2>1, <2>2 DEF WaitAndPop
<1>6. ASSUME NEW w \in Workers, SpuriousWakeup(w) PROVE TypeInv'
  BY <1>6, MoveKeepsTypes DEF SpuriousWakeup, Threads, WorkerPc
<1>7. ASSUME NEW t \in Threads, RunSubmitsCast(t) PROVE TypeInv'
  <2>1. held[t] \in Task /\ held[t].kind = "work"
    BY <1>7 DEF RunSubmitsCast, TypeInv, TypeOK
  <2>2. Cast(held[t].id) \in Task
    BY <2>1 DEF Task, WorkTask, CastTask, ExitTask, Cast
  <2>3. "ret" \in WorkerPc /\ "ret" \in OwnerPc
    BY DEF WorkerPc, OwnerPc
  <2>4. /\ pc[t] = "run"
        /\ Push(t, Cast(held[t].id), "ret")
        /\ UNCHANGED <<done, held, exitIndex, exitsSent, submitted, finished, stolen>>
    BY <1>7 DEF RunSubmitsCast
  <2>5. /\ q' \in Seq(Task)
        /\ done' \in BOOLEAN
        /\ pc' \in [Threads -> WorkerPc \cup OwnerPc]
        /\ \A w \in Workers : pc'[w] \in WorkerPc
        /\ pc'[Owner] \in OwnerPc
        /\ held' \in [Threads -> Task \cup {NoTask}]
        /\ \A u \in Threads : held'[u] # NoTask <=> pc'[u] \in {"run", "ret"}
    BY <2>2, <2>3, <2>4, PushKeepsTypes DEF TypeInv
  <2>6. QED
    BY <2>4, <2>5 DEF TypeInv, TypeOK, ExitCount
<1>8. ASSUME NEW t \in Threads, RunReturns(t) PROVE TypeInv'
  <2>1. /\ held[t] \in Task
        /\ pc'[t] \in {"drain", "exited", "check"}
        /\ held'[t] = NoTask
        /\ \A u \in Threads \ {t} : pc'[u] = pc[u] /\ held'[u] = held[u]
    BY <1>8 DEF RunReturns, TypeInv, TypeOK
  <2>2. \A u \in Threads : held'[u] # NoTask <=> pc'[u] \in {"run", "ret"}
    BY <2>1 DEF TypeInv, TypeOK
  <2>3. /\ pc' \in [Threads -> WorkerPc \cup OwnerPc]
        /\ \A w \in Workers : pc'[w] \in WorkerPc
        /\ pc'[Owner] \in OwnerPc
    BY <1>8 DEF RunReturns, TypeInv, TypeOK, Threads, WorkerPc, OwnerPc
  <2>4. /\ held' \in [Threads -> Task \cup {NoTask}]
        /\ finished' \in SUBSET Task
    BY <1>8, <2>1 DEF RunReturns, TypeInv, TypeOK
  <2>5. QED
    BY <1>8, <2>2, <2>3, <2>4 DEF RunReturns, TypeInv, TypeOK, ExitCount
<1>9. ASSUME NEW j \in Jobs, SubmitJob(j) PROVE TypeInv'
  <2>1. Work(j) \in Task /\ Owner \in Threads /\ "serve" \in OwnerPc
    BY DEF Work, Task, WorkTask, Threads, OwnerPc
  <2>2. CASE Push(Owner, Work(j), "serve")
    <3>1. /\ q' \in Seq(Task)
          /\ done' \in BOOLEAN
          /\ pc' \in [Threads -> WorkerPc \cup OwnerPc]
          /\ \A w \in Workers : pc'[w] \in WorkerPc
          /\ pc'[Owner] \in OwnerPc
          /\ held' \in [Threads -> Task \cup {NoTask}]
          /\ \A u \in Threads : held'[u] # NoTask <=> pc'[u] \in {"run", "ret"}
      BY <1>9, <2>1, <2>2, PushKeepsTypes DEF SubmitJob, TypeInv
    <3>2. QED
      BY <1>9, <3>1 DEF SubmitJob, TypeInv, TypeOK, ExitCount
  <2>3. CASE UNCHANGED <<q, pc>>
    BY <1>9, <2>3 DEF SubmitJob, TypeInv, TypeOK, ExitCount
  <2>4. QED
    BY <1>9, <2>2, <2>3 DEF SubmitJob
<1>10. CASE StopServing
  BY <1>10, MoveKeepsTypes DEF StopServing, Threads, OwnerPc
<1>11. CASE SubmitExit
  <2>1. Owner \in Threads /\ "exits" \in OwnerPc
    BY DEF Threads, OwnerPc
  <2>2. Cardinality(Started) \in 0 .. Cardinality(Workers)
    BY WorkersFinite DEF Started
  <2>3. /\ exitIndex \in Nat /\ exitsSent \in Nat
        /\ exitIndex < Cardinality(Workers)
    BY <1>11, <2>2, WorkersFinite DEF SubmitExit, ExitsMissing, TypeInv, TypeOK
  <2>4. Exit(exitsSent) \in Task
    BY <1>11, ExitIsTask
  <2>5. /\ pc[Owner] = "exits"
        /\ Push(Owner, Exit(exitsSent), "exits")
        /\ UNCHANGED <<done, held, submitted, finished, stolen>>
    BY <1>11 DEF SubmitExit
  <2>6. /\ q' \in Seq(Task)
        /\ done' \in BOOLEAN
        /\ pc' \in [Threads -> WorkerPc \cup OwnerPc]
        /\ \A w \in Workers : pc'[w] \in WorkerPc
        /\ pc'[Owner] \in OwnerPc
        /\ held' \in [Threads -> Task \cup {NoTask}]
        /\ \A u \in Threads : held'[u] # NoTask <=> pc'[u] \in {"run", "ret"}
    BY <2>1, <2>4, <2>5, PushKeepsTypes DEF TypeInv
  <2>7. /\ exitIndex' \in 0 .. Cardinality(Workers)
        /\ exitsSent' \in 0 .. Cardinality(Workers) + MaxInterrupts
        /\ ExitCount'
    BY <1>11, <2>3, WorkersFinite DEF SubmitExit, ExitsMissing, TypeInv, ExitCount
  <2>8. QED
    BY <2>5, <2>6, <2>7 DEF TypeInv, TypeOK
<1>12. CASE SetDone
  BY <1>12, MoveKeepsTypes DEF SetDone, Threads, OwnerPc
<1>13. CASE TryPop
  <2>1. CASE TakeFront(Owner) /\ stolen' = stolen \cup ({Head(q)} \cap ExitTask)
    BY <1>13, <2>1, TakeFrontKeepsTypes DEF TryPop, Threads, TypeInv, TypeOK
  <2>2. CASE pc' = [pc EXCEPT ![Owner] = "join"] /\ UNCHANGED <<q, held, stolen>>
    BY <1>13, <2>2, MoveKeepsTypes DEF TryPop, Threads, OwnerPc
  <2>3. QED
    BY <1>13, <2>1, <2>2 DEF TryPop
<1>14. CASE Join
  BY <1>14, MoveKeepsTypes DEF Join, Threads, OwnerPc
<1>15. CASE UNCHANGED vars
  BY <1>15 DEF vars, TypeInv, TypeOK, ExitCount
<1>16. QED
  BY <1>1, <1>2, <1>3, <1>4, <1>5, <1>6, <1>7, <1>8, <1>9, <1>10, <1>11, <1>12,
     <1>13, <1>14, <1>15
     DEF Next, Construct, Destruct, WorkerStep, RunStep, Threads

(* Every reachable state is well typed: a thread holds a task exactly      *)
(* while it runs one, and the destructor's loop variable stays within the  *)
(* pool's size however often EINTR repeats a round.                        *)
THEOREM TypeCorrect == Spec => []TypeOK
<1>1. Spec => []TypeInv
  BY TypeInit, TypeStep, PTL DEF Spec
<1>2. TypeInv => TypeOK
  BY DEF TypeInv
<1>3. QED
  BY <1>1, <1>2, PTL

-----------------------------------------------------------------------------
(* No lost wake-up *)

LEMMA PoppingFinite ==
  /\ IsFiniteSet(Popping) /\ Cardinality(Popping) \in Nat
  /\ IsFiniteSet(Popping') /\ Cardinality(Popping') \in Nat
<1>1. Popping \in SUBSET Workers /\ Popping' \in SUBSET Workers
  BY DEF Popping
<1>2. QED
  BY <1>1, WorkersFinite

(* A step that adds no task and no sleeper and takes nobody away from the  *)
(* head of wait_and_pop cannot lose a wake-up.                             *)
LEMMA QuietStep ==
  ASSUME TypeOK, NoLostWakeup, q' = q,
         Waiting' \subseteq Waiting, Popping \subseteq Popping'
  PROVE  NoLostWakeup'
<1>1. Cardinality(Popping) <= Cardinality(Popping')
  BY PoppingFinite, FS_Subset
<1>2. Len(q) \in Nat
  BY LenProperties DEF TypeOK
<1>3. QED
  BY <1>1, <1>2, PoppingFinite DEF NoLostWakeup

(* push: the task it adds is matched by the sleeper it wakes, if any.      *)
LEMMA PushWakesOne ==
  ASSUME TypeOK, NoLostWakeup, NEW t \in Threads, NEW task \in Task, NEW to \in PcValue,
         to \notin {"pop", "wait"}, pc[t] \notin {"pop", "wait"}, Push(t, task, to)
  PROVE  NoLostWakeup'
<1> DEFINE at == [pc EXCEPT ![t] = to]
<1>1. pc \in [Threads -> PcValue] /\ at \in [Threads -> PcValue]
  BY DEF TypeOK, PcValue
<1>2. pc' \in NotifyOne(at)
  BY DEF Push
<1>3. \/ Waiting = {} /\ pc' = at
      \/ \E w \in Waiting : pc' = [at EXCEPT ![w] = "pop"]
  <2> HIDE DEF at
  <2> QED
    BY <1>1, <1>2, NotifyOneFacts
<1>4. CASE Waiting = {} /\ pc' = at
  <2>1. Waiting' = {}
    BY <1>1, <1>4 DEF Waiting, Threads
  <2>2. QED
    BY <2>1 DEF NoLostWakeup
<1>5. ASSUME NEW w \in Waiting, pc' = [at EXCEPT ![w] = "pop"]
      PROVE  NoLostWakeup'
  <2>1. w \in Workers /\ w \in Threads /\ pc[w] = "wait" /\ w # t
    BY DEF Waiting, Threads
  <2>2. /\ pc'[w] = "pop"
        /\ pc'[t] = to
        /\ \A u \in Threads \ {w, t} : pc'[u] = pc[u]
    BY <1>1, <1>5, <2>1
  <2>3. Popping' = Popping \cup {w} /\ w \notin Popping
    BY <2>1, <2>2 DEF Popping, Threads
  <2>4. Cardinality(Popping') = Cardinality(Popping) + 1
    BY <2>3, PoppingFinite, FS_AddElement
  <2>5. Len(q') = Len(q) + 1 /\ Len(q) \in Nat
    BY AppendProperties, LenProperties DEF Push, TypeOK
  <2>6. QED
    BY <2>1, <2>4, <2>5, PoppingFinite DEF NoLostWakeup
<1>6. QED
  BY <1>3, <1>4, <1>5

LEMMA WakeupStep == TypeInv /\ NoLostWakeup /\ [Next]_vars => NoLostWakeup'
<1> SUFFICES ASSUME TypeInv, NoLostWakeup, [Next]_vars PROVE NoLostWakeup'
  OBVIOUS
<1> TypeOK
  BY DEF TypeInv
<1>0. /\ pc \in [Threads -> PcValue]
      /\ Len(q) \in Nat
      /\ \A w \in Workers : w \in Threads /\ w # Owner
      /\ Owner \in Threads
      /\ pc[Owner] \notin {"pop", "wait"}
  BY WorkersAssumption, LenProperties DEF TypeOK, PcValue, Threads, OwnerPc
<1>1. ASSUME NEW t \in Threads, NEW to, pc' = [pc EXCEPT ![t] = to], q' = q,
             to # "wait", pc[t] # "pop"
      PROVE  NoLostWakeup'
  <2>1. Waiting' \subseteq Waiting /\ Popping \subseteq Popping'
    BY <1>0, <1>1 DEF Waiting, Popping
  <2>2. QED
    BY <1>1, <2>1, QuietStep
<1>2. ASSUME NEW w \in Workers, WaitAndPop(w) PROVE NoLostWakeup'
  <2>1. CASE TakeFront(w)
    <3>1. /\ Len(q') = Len(q) - 1
          /\ pc' = [pc EXCEPT ![w] = "run"]
      BY <2>1, HeadTailProperties, EmptySeq, LenProperties DEF TakeFront, TypeOK
    <3>2. Popping' = Popping \ {w} /\ w \in Popping /\ Waiting' = Waiting
      BY <1>0, <1>2, <3>1 DEF Popping, Waiting, WaitAndPop
    <3>3. Cardinality(Popping') = Cardinality(Popping) - 1
      BY <3>2, PoppingFinite, FS_RemoveElement
    <3>4. QED
      BY <1>0, <3>1, <3>2, <3>3, PoppingFinite DEF NoLostWakeup
  <2>2. CASE q = <<>> /\ UNCHANGED <<q, held>>
    <3>1. Len(q') = 0
      BY <2>2
    <3>2. QED
      BY <3>1, PoppingFinite DEF NoLostWakeup
  <2>3. QED
    BY <1>2, <2>1, <2>2 DEF WaitAndPop
<1>3. ASSUME NEW w \in Workers, SpawnWorker(w) \/ CheckDone(w) \/ SpuriousWakeup(w)
      PROVE  NoLostWakeup'
  BY <1>0, <1>1, <1>3 DEF SpawnWorker, CheckDone, SpuriousWakeup
<1>4. CASE Constructed \/ SpawnFails \/ StopServing \/ SetDone \/ Join
  BY <1>0, <1>1, <1>4 DEF Constructed, SpawnFails, StopServing, SetDone, Join
<1>5. ASSUME NEW t \in Threads, RunSubmitsCast(t) PROVE NoLostWakeup'
  <2>1. /\ pc[t] = "run"
        /\ Push(t, Cast(held[t].id), "ret")
        /\ held[t] \in Task /\ held[t].kind = "work"
    BY <1>5 DEF RunSubmitsCast, TypeOK
  <2>2. Cast(held[t].id) \in Task /\ "ret" \in PcValue
    BY <2>1 DEF Task, WorkTask, CastTask, ExitTask, Cast, PcValue, WorkerPc
  <2>3. QED
    BY <2>1, <2>2, PushWakesOne
<1>6. ASSUME NEW t \in Threads, RunReturns(t) PROVE NoLostWakeup'
  BY <1>0, <1>1, <1>6 DEF RunReturns
<1>7. ASSUME NEW j \in Jobs, SubmitJob(j) PROVE NoLostWakeup'
  <2>1. Work(j) \in Task /\ "serve" \in PcValue
    BY DEF Work, Task, WorkTask, PcValue, OwnerPc
  <2>2. CASE Push(Owner, Work(j), "serve")
    BY <1>0, <2>1, <2>2, PushWakesOne
  <2>3. CASE UNCHANGED <<q, pc>>
    BY <2>3, QuietStep DEF Waiting, Popping
  <2>4. QED
    BY <1>7, <2>2, <2>3 DEF SubmitJob
<1>8. CASE SubmitExit
  <2>1. Push(Owner, Exit(exitsSent), "exits") /\ "exits" \in PcValue
    BY <1>8 DEF SubmitExit, PcValue, OwnerPc
  <2>2. Exit(exitsSent) \in Task
    BY <1>8, ExitIsTask
  <2>3. QED
    BY <1>0, <2>1, <2>2, PushWakesOne
<1>9. CASE TryPop
  <2>1. CASE TakeFront(Owner)
    <3>1. /\ Len(q') = Len(q) - 1
          /\ pc' = [pc EXCEPT ![Owner] = "run"]
      BY <2>1, HeadTailProperties, EmptySeq, LenProperties DEF TakeFront, TypeOK
    <3>2. Popping' = Popping /\ Waiting' = Waiting
      BY <1>0, <3>1 DEF Popping, Waiting
    <3>3. QED
      BY <1>0, <3>1, <3>2, PoppingFinite DEF NoLostWakeup
  <2>2. CASE pc' = [pc EXCEPT ![Owner] = "join"] /\ UNCHANGED <<q, held, stolen>>
    BY <1>0, <1>1, <2>2
  <2>3. QED
    BY <1>9, <2>1, <2>2 DEF TryPop
<1>10. CASE UNCHANGED vars
  BY <1>10, QuietStep DEF vars, Waiting, Popping
<1>11. QED
  BY <1>2, <1>3, <1>4, <1>5, <1>6, <1>7, <1>8, <1>9, <1>10
     DEF Next, Construct, Destruct, WorkerStep, RunStep, Threads

(* push notifies once per task, and that is enough: in no reachable state  *)
(* does a queued task lie beside a sleeping worker without an awake worker *)
(* of its own on the way to it.                                            *)
THEOREM NoWakeupIsLost == Spec => []NoLostWakeup
<1>1. Init => NoLostWakeup
  <2>1. Init => Waiting = {}
    BY WorkersAssumption DEF Init, Waiting, Threads
  <2>2. QED
    BY <2>1 DEF NoLostWakeup
<1>2. Init => TypeInv
  BY TypeInit
<1>3. TypeInv /\ NoLostWakeup /\ [Next]_vars => TypeInv' /\ NoLostWakeup'
  BY TypeStep, WakeupStep
<1>4. QED
  BY <1>1, <1>2, <1>3, PTL DEF Spec

-----------------------------------------------------------------------------
(* What the destructor drops *)

CastsOnly == \A i \in DOMAIN q : q[i].kind = "send_to_all"

LEMMA TakeFrontKeepsCasts ==
  ASSUME TypeOK, CastsOnly, NEW t, TakeFront(t)
  PROVE  CastsOnly'
<1>1. /\ q \in Seq(Task) /\ q # <<>> /\ q' = Tail(q)
  BY DEF TakeFront, TypeOK
<1>2. /\ q' \in Seq(Task) /\ Len(q') = Len(q) - 1
      /\ \A i \in 1 .. Len(q') : q'[i] = q[i + 1]
  BY <1>1, HeadTailProperties
<1>3. DOMAIN q = 1 .. Len(q) /\ DOMAIN q' = 1 .. Len(q') /\ Len(q) \in Nat
  BY <1>1, <1>2, LenProperties
<1>4. \A i \in 1 .. Len(q') : i + 1 \in 1 .. Len(q)
  BY <1>2, <1>3
<1>5. QED
  BY <1>2, <1>3, <1>4 DEF CastsOnly

LEMMA PushKeepsCasts ==
  ASSUME TypeOK, CastsOnly, NEW t, NEW task \in Task, NEW to,
         task.kind = "send_to_all", Push(t, task, to)
  PROVE  CastsOnly'
<1>1. q \in Seq(Task) /\ q' = Append(q, task)
  BY DEF Push, TypeOK
<1>2. /\ q' \in Seq(Task) /\ Len(q') = Len(q) + 1
      /\ \A i \in 1 .. Len(q) : q'[i] = q[i]
      /\ q'[Len(q) + 1] = task
  BY <1>1, AppendProperties
<1>3. DOMAIN q = 1 .. Len(q) /\ DOMAIN q' = 1 .. Len(q') /\ Len(q) \in Nat
  BY <1>1, <1>2, LenProperties
<1>4. QED
  BY <1>2, <1>3 DEF CastsOnly

LEMMA DroppedStep == TypeInv /\ OnlyBroadcastsDropped /\ [Next]_vars => OnlyBroadcastsDropped'
<1> SUFFICES ASSUME TypeInv, OnlyBroadcastsDropped, [Next]_vars,
                    pc'[Owner] \in {"join", "destroyed"}
             PROVE  CastsOnly'
  BY DEF OnlyBroadcastsDropped, CastsOnly
<1> TypeOK
  BY DEF TypeInv
<1>0. /\ pc \in [Threads -> PcValue]
      /\ Owner \in Threads
      /\ \A w \in Workers : w \in Threads /\ w # Owner
      /\ pc[Owner] # "wait"
      /\ pc[Owner] \in {"join", "destroyed"} => CastsOnly
  BY WorkersAssumption DEF TypeOK, PcValue, Threads, OwnerPc, OnlyBroadcastsDropped, CastsOnly
<1>1. CASE UNCHANGED q /\ pc[Owner] \in {"join", "destroyed"}
  BY <1>0, <1>1 DEF CastsOnly
<1>2. ASSUME NEW t \in Threads, RunSubmitsCast(t) PROVE CastsOnly'
  <2>1. /\ pc[t] = "run"
        /\ Push(t, Cast(held[t].id), "ret")
        /\ held[t] \in Task /\ held[t].kind = "work"
    BY <1>2 DEF RunSubmitsCast, TypeOK
  <2>2. /\ Cast(held[t].id) \in Task /\ "ret" \in PcValue
        /\ Cast(held[t].id).kind = "send_to_all"
    BY <2>1 DEF Task, WorkTask, CastTask, ExitTask, Cast, PcValue, WorkerPc
  <2>3. pc[Owner] \in {"join", "destroyed"}
    BY <1>0, <2>1, <2>2, PushFacts DEF Waiting
  <2>4. QED
    BY <1>0, <2>1, <2>2, <2>3, PushKeepsCasts
<1>3. ASSUME NEW w \in Workers, WaitAndPop(w) PROVE CastsOnly'
  <2>1. pc[Owner] \in {"join", "destroyed"}
    BY <1>0, <1>3 DEF WaitAndPop, TakeFront
  <2>2. QED
    BY <1>0, <1>1, <1>3, <2>1, TakeFrontKeepsCasts DEF WaitAndPop
<1>4. ASSUME NEW t \in Threads, RunReturns(t) PROVE CastsOnly'
  BY <1>0, <1>1, <1>4 DEF RunReturns
<1>5. ASSUME NEW w \in Workers, SpawnWorker(w) \/ CheckDone(w) \/ SpuriousWakeup(w)
      PROVE  CastsOnly'
  BY <1>0, <1>1, <1>5 DEF SpawnWorker, CheckDone, SpuriousWakeup
<1>6. CASE Constructed \/ SpawnFails \/ StopServing \/ SetDone
  BY <1>0, <1>6 DEF Constructed, SpawnFails, StopServing, SetDone
<1>7. ASSUME NEW j \in Jobs, SubmitJob(j) PROVE CastsOnly'
  <2>1. Work(j) \in Task /\ "serve" \in PcValue
    BY DEF Work, Task, WorkTask, PcValue, OwnerPc
  <2>2. pc'[Owner] = "serve"
    BY <1>0, <1>7, <2>1, PushFacts DEF SubmitJob
  <2>3. QED
    BY <2>2
<1>8. CASE SubmitExit
  <2>1. Exit(exitsSent) \in Task /\ "exits" \in PcValue
    BY <1>8, ExitIsTask DEF PcValue, OwnerPc
  <2>2. pc'[Owner] = "exits"
    BY <1>0, <1>8, <2>1, PushFacts DEF SubmitExit
  <2>3. QED
    BY <2>2
<1>9. CASE TryPop
  BY <1>0, <1>9 DEF TryPop, TakeFront, CastsOnly
<1>10. CASE Join
  BY <1>0, <1>1, <1>10 DEF Join
<1>11. CASE UNCHANGED vars
  BY <1>1, <1>11 DEF vars
<1>12. QED
  BY <1>2, <1>3, <1>4, <1>5, <1>6, <1>7, <1>8, <1>9, <1>10, <1>11
     DEF Next, Construct, Destruct, WorkerStep, RunStep, Threads

(* Destroying the pool throws away no request and no exit task: only       *)
(* broadcasts that a worker submitted behind the drain's back.             *)
THEOREM DestructorDropsOnlyBroadcasts == Spec => []OnlyBroadcastsDropped
<1>1. Init => OnlyBroadcastsDropped
  BY WorkersAssumption DEF Init, OnlyBroadcastsDropped, Threads
<1>2. TypeInv /\ OnlyBroadcastsDropped /\ [Next]_vars
        => TypeInv' /\ OnlyBroadcastsDropped'
  BY TypeStep, DroppedStep
<1>3. QED
  BY <1>1, <1>2, TypeInit, PTL DEF Spec

-----------------------------------------------------------------------------
(* The pool implements the queue its callers rely on.  That needs to know  *)
(* that no task is in two places, and that one which is about to be        *)
(* submitted has not been before.                                          *)

InPool(task) == InQueue(task) \/ task \in finished \/ \E t \in Threads : held[t] = task

Apart ==
  /\ \A i, k \in DOMAIN q : q[i] = q[k] => i = k
  /\ \A i \in DOMAIN q : q[i] \notin finished
  /\ \A t \in Threads : held[t] # NoTask =>
       /\ ~InQueue(held[t]) /\ held[t] \notin finished
       /\ \A u \in Threads : held[u] = held[t] => u = t

(* Where a task in the pool comes from: a job, a round of the exit loop,   *)
(* or the run of a job which has submitted its broadcast.                  *)
Origins ==
  \A task \in Task : InPool(task) =>
    /\ task.kind = "work" => task.id \in submitted
    /\ task.kind = "exit" => task.id < exitsSent
    /\ task.kind = "send_to_all" =>
         \/ Work(task.id) \in finished
         \/ \E u \in Threads : held[u] = Work(task.id) /\ pc[u] = "ret"

TaskInv == Apart /\ Origins

LEMMA PushKeepsTasks ==
  ASSUME TypeOK, TaskInv, NEW t \in Threads, NEW task \in Task, NEW to \in PcValue,
         ~InPool(task), pc[t] # "wait", Push(t, task, to), UNCHANGED <<held, finished>>,
         submitted \subseteq submitted', exitsSent \in Nat, exitsSent' \in Nat, exitsSent <= exitsSent',
         pc[t] = "ret" => to = "ret",
         task.kind = "work" => task.id \in submitted',
         task.kind = "exit" => task.id < exitsSent',
         task.kind = "send_to_all" => held[t] = Work(task.id) /\ to = "ret"
  PROVE  TaskInv'
<1>1. /\ q \in Seq(Task) /\ q' = Append(q, task)
      /\ DOMAIN q = 1 .. Len(q) /\ DOMAIN q' = 1 .. Len(q) + 1 /\ Len(q) \in Nat
      /\ \A i \in 1 .. Len(q) : q'[i] = q[i]
      /\ q'[Len(q) + 1] = task
  BY AppendProperties DEF Push, TypeOK
<1>2. \A x \in Task : InQueue(x)' <=> InQueue(x) \/ x = task
  BY <1>1 DEF InQueue
<1>3. \A u \in Threads : held[u] # task
  BY DEF InPool
<1>4. Apart'
  <2>1. \A i \in DOMAIN q' : q'[i] = task \/ (i \in DOMAIN q /\ q'[i] = q[i])
    BY <1>1
  <2>2. ASSUME NEW i \in DOMAIN q', NEW k \in DOMAIN q', q'[i] = q'[k] PROVE i = k
    BY <1>1, <2>2 DEF TaskInv, Apart, InPool, InQueue
  <2>3. \A i \in DOMAIN q' : q'[i] \notin finished'
    BY <2>1 DEF TaskInv, Apart, InPool
  <2>4. \A u \in Threads : held[u] # NoTask => held[u] \in Task
    BY DEF TypeOK
  <2>5. QED
    BY <1>2, <1>3, <2>2, <2>3, <2>4 DEF TaskInv, Apart
<1>5. \A u \in Threads : pc[u] = "ret" => pc'[u] = "ret"
  BY PushFacts DEF Waiting
<1>6. pc'[t] = to
  BY PushFacts
<1>7. Origins'
  <2>1. ASSUME NEW x \in Task, InPool(x)'
        PROVE  /\ x.kind = "work" => x.id \in submitted'
               /\ x.kind = "exit" => x.id < exitsSent'
               /\ x.kind = "send_to_all" =>
                    \/ Work(x.id) \in finished
                    \/ \E u \in Threads : held[u] = Work(x.id) /\ pc'[u] = "ret"
    <3>1. CASE x = task
      BY <1>6, <3>1
    <3>2. CASE x # task
      <4>1. InPool(x)
        BY <1>2, <2>1, <3>2 DEF InPool
      <4>2. x.kind = "exit" => x.id \in Nat
        BY WorkersFinite, InterruptsAssumption DEF Task, WorkTask, CastTask, ExitTask
      <4>3. QED
        BY <1>5, <4>1, <4>2 DEF TaskInv, Origins
    <3>3. QED
      BY <3>1, <3>2
  <2>2. QED
    BY <2>1 DEF Origins
<1>8. QED
  BY <1>4, <1>7 DEF TaskInv

(* The front task moves from the queue to the thread that takes it.        *)
LEMMA TakeFrontKeepsTasks ==
  ASSUME TypeOK, TaskInv, NEW t \in Threads, TakeFront(t), held[t] = NoTask,
         UNCHANGED <<finished, submitted, exitsSent>>
  PROVE  TaskInv'
<1>1. /\ q \in Seq(Task) /\ q # <<>> /\ q' = Tail(q) /\ Head(q) \in Task /\ Head(q) = q[1]
      /\ DOMAIN q = 1 .. Len(q) /\ DOMAIN q' = 1 .. Len(q) - 1 /\ Len(q) \in Nat \ {0}
      /\ \A i \in DOMAIN q' : q'[i] = q[i + 1] /\ i + 1 \in DOMAIN q /\ i + 1 # 1
      /\ 1 \in DOMAIN q
  BY HeadTailProperties DEF TakeFront, TypeOK
<1>2. \A u \in Threads : held'[u] = IF u = t THEN Head(q) ELSE held[u]
  BY DEF TakeFront, TypeOK
<1>3. \A x \in Task : InQueue(x)' <=> InQueue(x) /\ x # Head(q)
  <2>1. ASSUME NEW i \in DOMAIN q, q[i] # Head(q) PROVE i - 1 \in DOMAIN q' /\ q'[i - 1] = q[i]
    BY <1>1, <2>1
  <2>2. \A i \in DOMAIN q' : q'[i] # Head(q)
    BY <1>1 DEF TaskInv, Apart
  <2>3. QED
    BY <1>1, <2>1, <2>2 DEF InQueue
<1>4. InQueue(Head(q))
  BY <1>1 DEF InQueue
<1>5. Apart'
  <2>1. ASSUME NEW i \in DOMAIN q', NEW k \in DOMAIN q', q'[i] = q'[k] PROVE i = k
    <3>1. i + 1 = k + 1
      BY <1>1, <2>1 DEF TaskInv, Apart
    <3>2. QED
      BY <1>1, <3>1
  <2>2. \A i \in DOMAIN q' : q'[i] \notin finished
    BY <1>1 DEF TaskInv, Apart
  <2>3. \A u \in Threads : held[u] # NoTask => held[u] \in Task /\ held[u] # Head(q)
    BY <1>4 DEF TypeOK, TaskInv, Apart
  <2>4. Head(q) \notin finished
    BY <1>1 DEF TaskInv, Apart
  <2>5. ASSUME NEW u \in Threads, held'[u] # NoTask
        PROVE  /\ (\A i \in DOMAIN q' : q'[i] # held'[u]) /\ held'[u] \notin finished
               /\ \A v \in Threads : held'[v] = held'[u] => v = u
    <3>1. CASE u = t
      BY <1>1, <1>2, <1>3, <2>3, <2>4, <3>1, NoTaskAssumption DEF InQueue
    <3>2. CASE u # t
      BY <1>2, <1>3, <2>3, <2>5, <3>2 DEF TaskInv, Apart, InQueue
    <3>3. QED
      BY <3>1, <3>2
  <2>6. QED
    BY <2>1, <2>2, <2>5 DEF Apart, InQueue
<1>6. Origins'
  <2>1. \A x \in Task : InPool(x)' => InPool(x)
    BY <1>2, <1>3, <1>4 DEF InPool
  <2>2. \A u \in Threads : pc[u] = "ret" => held'[u] = held[u] /\ pc'[u] = "ret"
    BY <1>2 DEF TakeFront, TypeOK
  <2>3. QED
    BY <2>1, <2>2 DEF TaskInv, Origins
<1>7. QED
  BY <1>5, <1>6 DEF TaskInv

LEMMA ReturnKeepsTasks ==
  ASSUME TypeOK, TaskInv, NEW t \in Threads, RunReturns(t)
  PROVE  TaskInv'
<1>1. /\ held[t] \in Task
      /\ finished' = finished \cup {held[t]}
      /\ \A u \in Threads : held'[u] = IF u = t THEN NoTask ELSE held[u]
      /\ UNCHANGED <<q, submitted, exitsSent>>
      /\ \A u \in Threads \ {t} : pc'[u] = pc[u]
  BY DEF RunReturns, TypeOK
<1>2. Apart'
  <2>1. held[t] # NoTask
    BY <1>1, NoTaskAssumption
  <2>2. \A i \in DOMAIN q : q[i] # held[t]
    BY <2>1 DEF TaskInv, Apart, InQueue
  <2>3. ASSUME NEW u \in Threads, held'[u] # NoTask
        PROVE  /\ u # t /\ held'[u] = held[u] /\ held[u] # held[t]
    BY <1>1, <2>1, <2>3 DEF TaskInv, Apart
  <2>4. QED
    BY <1>1, <2>2, <2>3 DEF TaskInv, Apart, InQueue
<1>3. \A x \in Task : InPool(x)' => InPool(x)
  BY <1>1, NoTaskAssumption DEF InPool, InQueue
<1>4. Origins'
  BY <1>1, <1>3 DEF TaskInv, Origins
<1>5. QED
  BY <1>2, <1>4 DEF TaskInv

LEMMA QuietKeepsTasks ==
  ASSUME TypeOK, TaskInv, UNCHANGED <<q, held, finished>>, submitted \subseteq submitted', exitsSent' = exitsSent,
         \A u \in Threads : pc[u] = "ret" => pc'[u] = "ret"
  PROVE  TaskInv'
<1>1. Apart'
  BY DEF TaskInv, Apart, InQueue
<1>2. \A x : InPool(x)' <=> InPool(x)
  BY DEF InPool, InQueue
<1>3. Origins'
  BY <1>2 DEF TaskInv, Origins
<1>4. QED
  BY <1>1, <1>3 DEF TaskInv

(* The new task of each push. *)
LEMMA PushedIsNew ==
  ASSUME TypeInv, TaskInv
  PROVE  /\ \A j \in Jobs : j \notin submitted => Work(j) \in Task /\ ~InPool(Work(j))
         /\ SubmitExit => Exit(exitsSent) \in Task /\ ~InPool(Exit(exitsSent))
         /\ \A t \in Threads : RunSubmitsCast(t) =>
              /\ held[t].id \in Jobs /\ held[t] = Work(held[t].id)
              /\ Cast(held[t].id) \in Task /\ ~InPool(Cast(held[t].id))
<1>1. \A j \in Jobs : Work(j) \in Task /\ Work(j).kind = "work" /\ Work(j).id = j
  BY DEF Work, Task, WorkTask
<1>2. \A j \in Jobs : j \notin submitted => ~InPool(Work(j))
  BY <1>1 DEF TaskInv, Origins
<1>3. ASSUME SubmitExit PROVE Exit(exitsSent) \in Task /\ ~InPool(Exit(exitsSent))
  <2>1. Exit(exitsSent) \in Task
    BY <1>3, ExitIsTask
  <2>2. exitsSent \in Nat /\ ~(exitsSent < exitsSent)
    BY WorkersFinite, InterruptsAssumption DEF TypeInv, TypeOK
  <2>3. Exit(exitsSent).kind = "exit" /\ Exit(exitsSent).id = exitsSent
    BY DEF Exit
  <2>4. QED
    BY <2>1, <2>2, <2>3 DEF TaskInv, Origins
<1>4. ASSUME NEW t \in Threads, RunSubmitsCast(t)
      PROVE  /\ held[t].id \in Jobs /\ held[t] = Work(held[t].id)
             /\ Cast(held[t].id) \in Task /\ ~InPool(Cast(held[t].id))
  <2>1. pc[t] = "run" /\ held[t] \in Task /\ held[t].kind = "work" /\ held[t] # NoTask
    BY <1>4 DEF RunSubmitsCast, TypeInv, TypeOK
  <2>2. held[t] \in WorkTask
    BY <2>1 DEF Task, CastTask, ExitTask
  <2>3. held[t].id \in Jobs /\ held[t] = Work(held[t].id)
    BY <2>2 DEF WorkTask, Work
  <2>4. Cast(held[t].id) \in Task /\ Cast(held[t].id).kind = "send_to_all" /\ Cast(held[t].id).id = held[t].id
    BY <2>3 DEF Cast, Task, CastTask
  <2>5. ~(Work(held[t].id) \in finished \/ \E u \in Threads : held[u] = Work(held[t].id) /\ pc[u] = "ret")
    BY <2>1, <2>3 DEF TaskInv, Apart
  <2>6. QED
    BY <2>3, <2>4, <2>5 DEF TaskInv, Origins
<1>5. QED
  BY <1>1, <1>2, <1>3, <1>4

(* What a step does to the tasks. *)
Enqueues == \E task \in Task : ~InPool(task) /\ q' = Append(q, task) /\ UNCHANGED <<held, finished>>
Takes == \E t \in Threads : TakeFront(t) /\ held[t] = NoTask /\ finished' = finished
Returning == \E t \in Threads : RunReturns(t)
Quiet == UNCHANGED <<q, held, finished>>

LEMMA TaskStep ==
  TypeInv /\ TaskInv /\ [Next]_vars => TaskInv' /\ (Enqueues \/ Takes \/ Returning \/ Quiet)
<1> SUFFICES ASSUME TypeInv, TaskInv, [Next]_vars
             PROVE  TaskInv' /\ (Enqueues \/ Takes \/ Returning \/ Quiet)
  OBVIOUS
<1> DEFINE Goal == TaskInv' /\ (Enqueues \/ Takes \/ Returning \/ Quiet)
<1>1. /\ TypeOK /\ Owner \in Threads /\ pc[Owner] # "wait"
      /\ \A w \in Workers : w \in Threads /\ w # Owner
      /\ \A t \in Threads : held[t] = NoTask <=> pc[t] \notin {"run", "ret"}
      /\ {"serve", "exits", "ret"} \subseteq PcValue
      /\ exitsSent \in Nat
  BY WorkersAssumption, WorkersFinite, InterruptsAssumption
     DEF TypeInv, TypeOK, Threads, OwnerPc, WorkerPc, PcValue
<1>2. ASSUME NEW t \in Threads, RunSubmitsCast(t) PROVE Goal
  <2>1. /\ held[t] = Work(held[t].id) /\ held[t].id \in Jobs /\ Cast(held[t].id) \in Task
        /\ ~InPool(Cast(held[t].id))
    BY <1>2, PushedIsNew
  <2>2. /\ pc[t] = "run" /\ Push(t, Cast(held[t].id), "ret")
        /\ UNCHANGED <<held, exitsSent, submitted, finished>>
    BY <1>2 DEF RunSubmitsCast
  <2>3. Cast(held[t].id).kind = "send_to_all" /\ Cast(held[t].id).id = held[t].id
    BY DEF Cast
  <2>4. TaskInv'
    BY <1>1, <2>1, <2>2, <2>3, PushKeepsTasks
  <2>5. QED
    BY <2>1, <2>2, <2>4 DEF Enqueues, Push
<1>3. ASSUME NEW j \in Jobs, SubmitJob(j) PROVE Goal
  <2>1. CASE Started # {}
    <3>1. /\ pc[Owner] = "serve" /\ j \notin submitted /\ submitted' = submitted \cup {j}
          /\ Push(Owner, Work(j), "serve") /\ UNCHANGED <<held, exitsSent, finished>>
      BY <1>3, <2>1 DEF SubmitJob
    <3>2. Work(j) \in Task /\ ~InPool(Work(j)) /\ Work(j).kind = "work" /\ Work(j).id = j
      BY <3>1, PushedIsNew DEF Work
    <3>3. TaskInv'
      BY <1>1, <3>1, <3>2, PushKeepsTasks
    <3>4. QED
      BY <3>1, <3>2, <3>3 DEF Enqueues, Push
  <2>2. CASE Started = {}
    BY <1>1, <1>3, <2>2, QuietKeepsTasks DEF SubmitJob, Quiet
  <2>3. QED
    BY <2>1, <2>2
<1>4. CASE SubmitExit
  <2>1. /\ pc[Owner] = "exits" /\ exitsSent' = exitsSent + 1
        /\ Push(Owner, Exit(exitsSent), "exits") /\ UNCHANGED <<held, submitted, finished>>
    BY <1>4 DEF SubmitExit
  <2>2. /\ Exit(exitsSent) \in Task /\ ~InPool(Exit(exitsSent))
        /\ Exit(exitsSent).kind = "exit" /\ Exit(exitsSent).id = exitsSent
    BY <1>4, PushedIsNew DEF Exit
  <2>3. TaskInv'
    BY <1>1, <2>1, <2>2, PushKeepsTasks
  <2>4. QED
    BY <2>1, <2>2, <2>3 DEF Enqueues, Push
<1>5. ASSUME NEW t \in Threads, TakeFront(t), pc[t] \in {"pop", "drain"},
             UNCHANGED <<finished, submitted, exitsSent>>
      PROVE  Goal
  BY <1>1, <1>5, TakeFrontKeepsTasks DEF Takes
<1>6. ASSUME NEW t \in Threads, NEW to, pc[t] # "ret", pc' = [pc EXCEPT ![t] = to],
             UNCHANGED <<q, held, finished, submitted, exitsSent>>
      PROVE  Goal
  BY <1>1, <1>6, QuietKeepsTasks DEF Quiet, TypeOK
<1>7. ASSUME NEW t \in Threads, RunReturns(t) PROVE Goal
  BY <1>1, <1>7, ReturnKeepsTasks DEF Returning
<1>8. ASSUME NEW w \in Workers, SpawnWorker(w) \/ CheckDone(w) \/ WaitAndPop(w) \/ SpuriousWakeup(w)
      PROVE  Goal
  <2>1. w \in Threads
    BY <1>1
  <2>2. CASE WaitAndPop(w)
    BY <1>5, <1>6, <2>1, <2>2 DEF WaitAndPop
  <2>3. CASE SpawnWorker(w) \/ CheckDone(w) \/ SpuriousWakeup(w)
    BY <1>6, <2>1, <2>3 DEF SpawnWorker, CheckDone, SpuriousWakeup
  <2>4. QED
    BY <1>8, <2>2, <2>3
<1>9. CASE Constructed \/ SpawnFails \/ StopServing \/ SetDone \/ Join
  BY <1>1, <1>6, <1>9 DEF Constructed, SpawnFails, StopServing, SetDone, Join
<1>10. CASE TryPop
  BY <1>1, <1>5, <1>6, <1>10 DEF TryPop
<1>11. CASE UNCHANGED vars
  BY <1>1, <1>11, QuietKeepsTasks DEF vars, Quiet
<1>12. QED
  BY <1>1, <1>2, <1>3, <1>4, <1>7, <1>8, <1>9, <1>10, <1>11
     DEF Next, Construct, Destruct, WorkerStep, RunStep

Running == {held[t] : t \in Threads} \ {NoTask}

LEMMA RunningFacts ==
  ASSUME TypeInv, TaskInv
  PROVE  /\ Enqueues \/ Quiet => Running' = Running
         /\ Takes => Running' = Running \cup {Head(q)}
         /\ \A t \in Threads : RunReturns(t) => held[t] \in Running /\ Running' = Running \ {held[t]}
<1>1. Enqueues \/ Quiet => Running' = Running
  BY DEF Enqueues, Quiet, Running
<1>2. ASSUME NEW t \in Threads, TakeFront(t), held[t] = NoTask PROVE Running' = Running \cup {Head(q)}
  <2>1. \A u \in Threads : held'[u] = IF u = t THEN Head(q) ELSE held[u]
    BY <1>2 DEF TakeFront, TypeInv, TypeOK
  <2>2. Head(q) # NoTask
    BY <1>2, TakeFrontFacts, NoTaskAssumption DEF TypeInv
  <2>3. QED
    BY <1>2, <2>1, <2>2 DEF Running
<1>3. ASSUME NEW t \in Threads, RunReturns(t)
      PROVE  held[t] \in Running /\ Running' = Running \ {held[t]}
  <2>1. /\ held[t] # NoTask
        /\ \A u \in Threads : held'[u] = IF u = t THEN NoTask ELSE held[u]
    BY <1>3 DEF RunReturns, TypeInv, TypeOK
  <2>2. \A u \in Threads : held[u] = held[t] => u = t
    BY <2>1 DEF TaskInv, Apart
  <2>3. QED
    BY <2>1, <2>2 DEF Running
<1>4. QED
  BY <1>1, <1>2, <1>3 DEF Takes

LEMMA QueueInit == Init => TaskInv /\ TQ!Init
<1> SUFFICES ASSUME Init PROVE TaskInv /\ TQ!Init
  OBVIOUS
<1>1. q = <<>> /\ finished = {} /\ \A t \in Threads : held[t] = NoTask
  BY DEF Init
<1>2. TaskInv
  BY <1>1, NoTaskAssumption DEF TaskInv, Apart, Origins, InPool, InQueue
<1>3. TQ!Init
  BY <1>1 DEF TQ!Init
<1>4. QED
  BY <1>2, <1>3

LEMMA QueueStep == TypeInv /\ TaskInv /\ [Next]_vars => [TQ!Next]_(TQ!vars)
<1> SUFFICES ASSUME TypeInv, TaskInv, [Next]_vars PROVE TQ!Next \/ UNCHANGED TQ!vars
  OBVIOUS
<1>1. CASE Enqueues
  <2>1. PICK task \in Task : ~InPool(task) /\ q' = Append(q, task) /\ UNCHANGED <<held, finished>>
    BY <1>1 DEF Enqueues
  <2>2. task \notin TQ!Known
    BY <2>1, NoTaskAssumption DEF TQ!Known, TQ!Elements, InPool, InQueue
  <2>3. TQ!Submit(task)
    BY <2>1, <2>2 DEF TQ!Submit
  <2>4. QED
    BY <2>3 DEF TQ!Next
<1>2. CASE Takes
  <2>1. q # <<>> /\ q' = Tail(q) /\ finished' = finished /\ Running' = Running \cup {Head(q)}
    BY <1>2, RunningFacts DEF Takes, TakeFront
  <2>2. QED
    BY <2>1 DEF TQ!Start, TQ!Next, Running
<1>3. CASE Returning
  <2>1. PICK t \in Threads : RunReturns(t)
    BY <1>3 DEF Returning
  <2>2. /\ held[t] \in Running /\ Running' = Running \ {held[t]}
        /\ held[t] \in Task /\ finished' = finished \cup {held[t]} /\ q' = q
    BY <2>1, RunningFacts DEF RunReturns, TypeInv, TypeOK
  <2>3. PICK task \in Task : task = held[t]
    BY <2>2
  <2>4. TQ!Finish(task)
    BY <2>2, <2>3 DEF TQ!Finish, Running
  <2>5. QED
    BY <2>4 DEF TQ!Next
<1>4. CASE Quiet
  BY <1>4 DEF Quiet, TQ!vars
<1>5. QED
  BY <1>1, <1>2, <1>3, <1>4, TaskStep

(* However workers, the event loop, broadcasts from inside a task and the  *)
(* destructors' drain interleave, and however many rounds EINTR repeats:   *)
(* every task that submit() takes starts once, in the order of submission, *)
(* and returns once.                                                       *)
THEOREM PoolIsATaskQueue == Spec => ImplementsTaskQueue
<1>1. Init => TypeInv /\ TaskInv /\ TQ!Init
  BY TypeInit, QueueInit
<1>2. TypeInv /\ TaskInv /\ [Next]_vars => TypeInv' /\ TaskInv' /\ [TQ!Next]_(TQ!vars)
  BY TypeStep, TaskStep, QueueStep
<1>3. QED
  BY <1>1, <1>2, PTL DEF Spec, ImplementsTaskQueue, TQ!Spec
=============================================================================
