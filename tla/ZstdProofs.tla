----------------------------- MODULE ZstdProofs -----------------------------
(***************************************************************************)
(* Theorems about zstd's pool, for every number of threads and callers and *)
(* every size of the queue, and about the dictionary trainer on top of it: *)
(* it uses the pool as it may be used, and ends up with the best try, for  *)
(* all rounds of tries.                                                    *)
(***************************************************************************)
EXTENDS CoverTrain, Integers, FiniteSetTheorems, SequenceTheorems, TLAPS

Participants == Threads \cup Callers

RingTypes ==
  /\ queueSize \in Nat \ {0}
  /\ queue \in [Slots -> Jobs \cup {NoJob}]
  /\ queueHead \in Slots /\ queueTail \in Slots
  /\ queueEmpty \in BOOLEAN

(* Head and tail meet in an empty ring, and in a full one only if it has   *)
(* the single slot of a pool without a queue.  No slot between them has    *)
(* been left unfilled.                                                     *)
RingInv ==
  /\ RingTypes
  /\ queueEmpty => queueHead = queueTail
  /\ ~queueEmpty /\ queueHead = queueTail => queueSize = 1
  /\ Contents \in Seq(Jobs)

-----------------------------------------------------------------------------
(* The ring *)

LEMMA ModSmall == ASSUME NEW n \in Nat \ {0}, NEW x \in 0 .. n - 1 PROVE x % n = x
BY SMT

LEMMA ModOnce == ASSUME NEW n \in Nat \ {0}, NEW x \in n .. 2 * n - 1 PROVE x % n = x - n
BY SMT

(* The slot that is d places behind a. *)
LEMMA Around ==
  ASSUME NEW n \in Nat \ {0}, NEW a \in 0 .. n - 1, NEW d \in 0 .. n
  PROVE  (a + d) % n = IF a + d < n THEN a + d ELSE a + d - n
BY ModSmall, ModOnce

LEMMA NextSlot ==
  ASSUME NEW n \in Nat \ {0}, NEW a \in 0 .. n - 1
  PROVE  (a + 1) % n = IF a + 1 < n THEN a + 1 ELSE 0
<1>1. CASE a + 1 < n
  <2>1. a + 1 \in 0 .. n - 1
    BY <1>1
  <2>2. QED
    BY <1>1, <2>1, ModSmall
<1>2. CASE a + 1 = n
  <2>1. n % n = n - n
    BY ModOnce
  <2>2. QED
    BY <1>2, <2>1
<1>3. QED
  BY <1>1, <1>2

Slot(i) == (queueHead + i - 1) % queueSize

LEMMA SlotIs ==
  ASSUME RingTypes, NEW i \in 1 .. queueSize
  PROVE  /\ Slot(i) = IF queueHead + i - 1 < queueSize THEN queueHead + i - 1
                      ELSE queueHead + i - 1 - queueSize
         /\ Slot(i) \in Slots
<1>1. queueSize \in Nat \ {0} /\ queueHead \in 0 .. queueSize - 1 /\ i - 1 \in 0 .. queueSize
  BY DEF RingTypes, Slots
<1>2. (queueHead + (i - 1)) % queueSize =
         IF queueHead + (i - 1) < queueSize THEN queueHead + (i - 1) ELSE queueHead + (i - 1) - queueSize
  BY <1>1, Around
<1>3. queueHead + (i - 1) = queueHead + i - 1
  BY <1>1
<1>4. QED
  BY <1>1, <1>2, <1>3 DEF Slot, Slots

LEMMA LengthIs == RingInv => Length \in 0 .. queueSize /\ (queueEmpty <=> Length = 0)
BY DEF RingInv, RingTypes, Slots, Length

LEMMA ContentsAre ==
  RingInv => /\ Len(Contents) = Length
             /\ \A i \in 1 .. Length : Contents[i] = queue[Slot(i)] /\ Contents[i] \in Jobs
<1> SUFFICES ASSUME RingInv
             PROVE  /\ Len(Contents) = Length
                    /\ \A i \in 1 .. Length : Contents[i] = queue[Slot(i)] /\ Contents[i] \in Jobs
  OBVIOUS
<1>1. Contents \in Seq(Jobs) /\ Length \in Nat
  BY LengthIs DEF RingInv, RingTypes
<1>2. DOMAIN Contents = 1 .. Length /\ DOMAIN Contents = 1 .. Len(Contents) /\ Len(Contents) \in Nat
  BY <1>1, LenProperties DEF Contents
<1>3. QED
  BY <1>1, <1>2, ElementOfSeq DEF Contents, Slot

LEMMA SameRing == RingInv /\ UNCHANGED ring => RingInv' /\ Contents' = Contents /\ Length' = Length
BY DEF RingInv, RingTypes, Slots, Contents, Length, ring

(* Room for a job, whatever made isQueueFull say so. *)
Room == IF queueSize > 1 THEN queueHead # (queueTail + 1) % queueSize ELSE queueEmpty

LEMMA NotFullIsRoom == ~isQueueFull => Room
BY DEF isQueueFull, Room

LEMMA InsertFillsRing ==
  ASSUME RingInv, Room, NEW j \in Jobs,
         queueEmpty' = FALSE, queue' = [queue EXCEPT ![queueTail] = j],
         queueTail' = (queueTail + 1) % queueSize, UNCHANGED <<queueSize, queueHead>>
  PROVE  /\ RingInv' /\ Length' = Length + 1 /\ Contents' = Append(Contents, j)
<1>1. queueTail' = IF queueTail + 1 < queueSize THEN queueTail + 1 ELSE 0
  BY NextSlot DEF RingInv, RingTypes, Slots
<1>2. RingTypes'
  <2>1. queueSize' = queueSize /\ queueSize \in Nat \ {0} /\ Slots' = Slots /\ queueHead' \in Slots
    BY DEF RingInv, RingTypes, Slots
  <2>2. queueTail' \in Slots
    BY <1>1, <2>1 DEF RingInv, RingTypes, Slots
  <2>3. queue' \in [Slots -> Jobs \cup {NoJob}]
    BY DEF RingInv, RingTypes
  <2>4. QED
    BY <2>1, <2>2, <2>3 DEF RingTypes
<1>3. Length' = Length + 1
  BY <1>1 DEF RingInv, RingTypes, Slots, Length, Room
<1>4. Length \in 0 .. queueSize - 1
  BY <1>1 DEF RingInv, RingTypes, Slots, Length, Room
<1>5. ASSUME NEW i \in 1 .. Length + 1
      PROVE  Slot(i)' = Slot(i) /\ queue'[Slot(i)] = IF i = Length + 1 THEN j ELSE queue[Slot(i)]
  <2>1. i \in 1 .. queueSize
    BY <1>4 DEF RingInv, RingTypes
  <2>2. Slot(i) = (IF queueHead + i - 1 < queueSize THEN queueHead + i - 1 ELSE queueHead + i - 1 - queueSize)
        /\ Slot(i) \in Slots
    BY <2>1, SlotIs DEF RingInv
  <2>3. Slot(i) = queueTail <=> i = Length + 1
    BY <1>4, <2>1, <2>2 DEF RingInv, RingTypes, Slots, Length, Room
  <2>4. QED
    BY <2>2, <2>3 DEF Slot, RingInv, RingTypes
<1>6. /\ Contents \in Seq(Jobs) /\ Len(Contents) = Length
      /\ Append(Contents, j) \in Seq(Jobs) /\ Len(Append(Contents, j)) = Length + 1
      /\ \A i \in 1 .. Length : Append(Contents, j)[i] = Contents[i] /\ Contents[i] = queue[Slot(i)]
      /\ Append(Contents, j)[Length + 1] = j
  BY ContentsAre, AppendProperties DEF RingInv
<1>7. Contents' = [i \in 1 .. Length + 1 |-> queue'[Slot(i)]]
  BY <1>3, <1>5 DEF Contents, Slot
<1>8. Append(Contents, j) = [i \in 1 .. Length + 1 |-> queue'[Slot(i)]]
  <2>1. \A i \in 1 .. Length + 1 : Append(Contents, j)[i] = queue'[Slot(i)]
    BY <1>4, <1>5, <1>6
  <2>2. Append(Contents, j) \in [1 .. Length + 1 -> Jobs]
    BY <1>6, LenProperties
  <2> HIDE DEF Slot
  <2>3. QED
    BY <2>1, <2>2
<1>9. QED
  BY <1>1, <1>2, <1>3, <1>6, <1>7, <1>8 DEF RingInv, RingTypes, Slots, Room

LEMMA PopEmptiesRing ==
  ASSUME RingInv, ~queueEmpty,
         queueHead' = (queueHead + 1) % queueSize, queueEmpty' = (queueHead' = queueTail),
         UNCHANGED <<queueSize, queue, queueTail>>
  PROVE  /\ RingInv' /\ Length' = Length - 1 /\ Length > 0 /\ Contents # <<>>
         /\ Contents' = Tail(Contents) /\ queue[queueHead] = Head(Contents) /\ queue[queueHead] \in Jobs
<1>1. queueHead' = IF queueHead + 1 < queueSize THEN queueHead + 1 ELSE 0
  BY NextSlot DEF RingInv, RingTypes, Slots
<1>2. RingTypes'
  BY <1>1 DEF RingInv, RingTypes, Slots
<1>3. Length' = Length - 1 /\ Length \in 1 .. queueSize
  BY <1>1 DEF RingInv, RingTypes, Slots, Length
<1>4. ASSUME NEW i \in 1 .. Length - 1 PROVE Slot(i)' = Slot(i + 1)
  <2>1. i + 1 \in 1 .. queueSize /\ i \in 1 .. queueSize
    BY <1>3 DEF RingInv, RingTypes
  <2>2. Slot(i + 1) = IF queueHead + (i + 1) - 1 < queueSize THEN queueHead + (i + 1) - 1
                      ELSE queueHead + (i + 1) - 1 - queueSize
    BY <2>1, SlotIs DEF RingInv
  <2>3. Slot(i)' = IF queueHead' + i - 1 < queueSize THEN queueHead' + i - 1 ELSE queueHead' + i - 1 - queueSize
    <3>1. queueSize \in Nat \ {0} /\ queueHead' \in 0 .. queueSize - 1 /\ i - 1 \in 0 .. queueSize
      BY <1>2, <2>1 DEF RingTypes, Slots
    <3>2. (queueHead' + (i - 1)) % queueSize =
             IF queueHead' + (i - 1) < queueSize THEN queueHead' + (i - 1) ELSE queueHead' + (i - 1) - queueSize
      BY <3>1, Around
    <3>3. queueHead' + (i - 1) = queueHead' + i - 1
      BY <3>1
    <3>4. QED
      BY <3>2, <3>3 DEF Slot
  <2>4. QED
    BY <1>1, <2>1, <2>2, <2>3 DEF RingInv, RingTypes, Slots
<1>5. /\ Contents \in Seq(Jobs) /\ Len(Contents) = Length /\ Contents # <<>>
      /\ Tail(Contents) \in Seq(Jobs) /\ Len(Tail(Contents)) = Length - 1
      /\ \A i \in 1 .. Length - 1 : Tail(Contents)[i] = Contents[i + 1]
      /\ \A i \in 1 .. Length : Contents[i] = queue[Slot(i)]
      /\ Head(Contents) = Contents[1] /\ Contents[1] \in Jobs
  BY <1>3, ContentsAre, HeadTailProperties, EmptySeq DEF RingInv
<1>6. Slot(1) = queueHead
  BY <1>3, SlotIs DEF RingInv, RingTypes, Slots
<1>7. \A i \in 1 .. Length - 1 : Tail(Contents)[i] = queue[Slot(i + 1)]
  BY <1>3, <1>5
<1>8. Contents' = [i \in 1 .. Length - 1 |-> queue[Slot(i + 1)]]
  BY <1>3, <1>4 DEF Contents, Slot
<1>9. Tail(Contents) = [i \in 1 .. Length - 1 |-> queue[Slot(i + 1)]]
  <2>1. Tail(Contents) \in [1 .. Length - 1 -> Jobs]
    BY <1>5, LenProperties
  <2> HIDE DEF Slot
  <2>2. QED
    BY <1>7, <2>1
<1>10. Contents' = Tail(Contents) /\ Contents' \in Seq(Jobs)
  BY <1>5, <1>8, <1>9
<1>11. queue[queueHead] = Head(Contents)
  BY <1>3, <1>5, <1>6
<1>12. queueEmpty' => queueHead' = queueTail'
  OBVIOUS
<1>13. RingInv'
  BY <1>2, <1>10, <1>12 DEF RingInv
<1>14. QED
  BY <1>3, <1>5, <1>10, <1>11, <1>13

-----------------------------------------------------------------------------
(* Threads and callers *)

PcValue == ThreadPc \cup CallerPc

Busy == {t \in Threads : pc[t] \in {"signal", "run", "relock"}}

PcTypes ==
  /\ pc \in [Participants -> PcValue]
  /\ \A t \in Threads : pc[t] \in ThreadPc
  /\ \A c \in Callers : pc[c] \in CallerPc
  /\ job \in [Participants -> Jobs \cup {NoJob}]
  /\ \A t \in Threads : job[t] # NoJob <=> pc[t] \in {"signal", "run"}
  /\ \A c \in Callers : job[c] # NoJob <=> pc[c] \in {"add", "addWait"}

(* numThreadsBusy counts the threads between Pop and Release.  While the   *)
(* pool is being made there are no jobs, and nobody who could bring one.   *)
CountInv ==
  /\ queueSize \in {n + 1 : n \in QueueSizes}
  /\ numThreadsBusy = Cardinality(Busy)
  /\ threadLimit \in 0 .. Cardinality(Threads)
  /\ shutdown \in BOOLEAN
  /\ finished \in SUBSET Jobs
  /\ pc[Owner] = "create" => queueEmpty /\ \A c \in Callers \ {Owner} : pc[c] = "out"

TypeInv == RingInv /\ PcTypes /\ CountInv

LEMMA Finite ==
  /\ Cardinality(Threads) \in Nat
  /\ \A S \in SUBSET Threads : IsFiniteSet(S) /\ Cardinality(S) \in 0 .. Cardinality(Threads)
<1>1. IsFiniteSet(Threads) /\ Cardinality(Threads) \in Nat
  BY ThreadsAssumption, FS_CardinalityType
<1>2. ASSUME NEW S \in SUBSET Threads
      PROVE  IsFiniteSet(S) /\ Cardinality(S) \in 0 .. Cardinality(Threads)
  <2>1. IsFiniteSet(S) /\ Cardinality(S) <= Cardinality(Threads)
    BY <1>1, FS_Subset
  <2>2. Cardinality(S) \in Nat
    BY <2>1, FS_CardinalityType
  <2>3. QED
    BY <1>1, <2>1, <2>2
<1>3. QED
  BY <1>1, <1>2

(* x goes on to `to`, and may wake one sleeper, who goes back to look.     *)
Moves(x, to) ==
  \/ pc' = [pc EXCEPT ![x] = to]
  \/ \E y \in Poppers \ {x} : pc' = [[pc EXCEPT ![x] = to] EXCEPT ![y] = "lock"]
  \/ \E y \in Pushers \ {x} : pc' = [[pc EXCEPT ![x] = to] EXCEPT ![y] = "add"]

LEMMA SignalMoves ==
  ASSUME NEW x, NEW to, x \notin Poppers, x \notin Pushers
  PROVE  /\ pc' \in Signal([pc EXCEPT ![x] = to], Poppers, "lock") => Moves(x, to)
         /\ pc' \in Signal([pc EXCEPT ![x] = to], Pushers, "add") => Moves(x, to)
BY DEF Signal, Moves

LEMMA MovesFacts ==
  ASSUME PcTypes, NEW x \in Participants, NEW to \in PcValue, Moves(x, to)
  PROVE  /\ pc' \in [Participants -> PcValue]
         /\ pc'[x] = to
         /\ \A y \in Participants \ {x} :
              \/ pc'[y] = pc[y]
              \/ y \in Poppers /\ pc'[y] = "lock"
              \/ y \in Pushers /\ pc'[y] = "add"
<1>1. /\ pc \in [Participants -> PcValue]
      /\ Poppers \subseteq Participants /\ Pushers \subseteq Participants
      /\ "lock" \in PcValue /\ "add" \in PcValue
  BY DEF PcTypes, Poppers, Pushers, Participants, PcValue, ThreadPc, CallerPc
<1>2. CASE pc' = [pc EXCEPT ![x] = to]
  BY <1>1, <1>2
<1>3. ASSUME NEW y \in Poppers \ {x}, pc' = [[pc EXCEPT ![x] = to] EXCEPT ![y] = "lock"]
      PROVE  /\ pc' \in [Participants -> PcValue]
             /\ pc'[x] = to /\ pc'[y] = "lock"
             /\ \A z \in Participants \ {x, y} : pc'[z] = pc[z]
  BY <1>1, <1>3
<1>4. ASSUME NEW y \in Pushers \ {x}, pc' = [[pc EXCEPT ![x] = to] EXCEPT ![y] = "add"]
      PROVE  /\ pc' \in [Participants -> PcValue]
             /\ pc'[x] = to /\ pc'[y] = "add"
             /\ \A z \in Participants \ {x, y} : pc'[z] = pc[z]
  BY <1>1, <1>4
<1>5. QED
  BY <1>2, <1>3, <1>4 DEF Moves

JobSet(x, value) == job' = [job EXCEPT ![x] = value] \/ (job' = job /\ value = job[x])

InPlace(x, to, value) ==
  /\ x \in Threads => to \in ThreadPc /\ (value # NoJob <=> to \in {"signal", "run"})
  /\ x \in Callers => to \in CallerPc /\ (value # NoJob <=> to \in {"add", "addWait"})

LEMMA JobSetFacts ==
  ASSUME PcTypes, NEW x \in Participants, NEW value \in Jobs \cup {NoJob}, JobSet(x, value)
  PROVE  /\ job' \in [Participants -> Jobs \cup {NoJob}]
         /\ \A y \in Participants : job'[y] = IF y = x THEN value ELSE job[y]
BY DEF PcTypes, JobSet

LEMMA MovesKeepTypes ==
  ASSUME PcTypes, NEW x \in Participants, NEW to \in PcValue, NEW value \in Jobs \cup {NoJob},
         Moves(x, to), JobSet(x, value), InPlace(x, to, value)
  PROVE  PcTypes'
<1>1. \A y \in Participants : y \in Threads <=> y \notin Callers
  BY ThreadsAssumption DEF Participants
<1>2. ASSUME NEW y \in Participants
      PROVE  /\ y \in Threads => pc'[y] \in ThreadPc /\ (job'[y] # NoJob <=> pc'[y] \in {"signal", "run"})
             /\ y \in Callers => pc'[y] \in CallerPc /\ (job'[y] # NoJob <=> pc'[y] \in {"add", "addWait"})
  <2>1. CASE y = x
    BY <2>1, MovesFacts, JobSetFacts DEF InPlace
  <2>2. CASE y # x
    <3>1. /\ job'[y] = job[y]
          /\ \/ pc'[y] = pc[y]
             \/ y \in Poppers /\ pc'[y] = "lock"
             \/ y \in Pushers /\ pc'[y] = "add"
      BY <2>2, MovesFacts, JobSetFacts
    <3>2. QED
      BY <1>1, <3>1 DEF PcTypes, Poppers, Pushers, ThreadPc, CallerPc
  <2>3. QED
    BY <2>1, <2>2
<1>3. QED
  BY <1>2, MovesFacts, JobSetFacts DEF PcTypes, Participants

(* How the number of busy threads follows the threads.                     *)
LEMMA MovesCount ==
  ASSUME PcTypes, NEW x \in Participants, NEW to \in PcValue, Moves(x, to)
  PROVE  Cardinality(Busy') =
           IF x \in Threads /\ to \in {"signal", "run", "relock"}
           THEN IF x \in Busy THEN Cardinality(Busy) ELSE Cardinality(Busy) + 1
           ELSE IF x \in Busy THEN Cardinality(Busy) - 1 ELSE Cardinality(Busy)
<1>1. \A y \in Participants \ {x} : y \in Busy' <=> y \in Busy
  BY MovesFacts, ThreadsAssumption DEF Busy, Poppers, Pushers, Participants
<1>2. pc'[x] = to
  BY MovesFacts
<1>3. IsFiniteSet(Busy) /\ Cardinality(Busy) \in Nat
  BY Finite DEF Busy
<1>4. CASE x \in Threads /\ to \in {"signal", "run", "relock"}
  <2>1. Busy' = Busy \cup {x}
    BY <1>1, <1>2, <1>4 DEF Busy, Participants
  <2>2. QED
    BY <1>3, <1>4, <2>1, FS_AddElement
<1>5. CASE ~(x \in Threads /\ to \in {"signal", "run", "relock"})
  <2>1. Busy' = Busy \ {x}
    BY <1>1, <1>2, <1>5 DEF Busy, Participants
  <2>2. QED
    BY <1>3, <1>5, <2>1, FS_RemoveElement
<1>6. QED
  BY <1>4, <1>5

(* A step of x keeps the types if x's new place is in order; nobody is     *)
(* sent back to the making of the pool, and no caller moves meanwhile.     *)
LEMMA MoveStep ==
  ASSUME TypeInv, NEW x \in Participants, NEW to \in PcValue, NEW value \in Jobs \cup {NoJob},
         Moves(x, to), JobSet(x, value), InPlace(x, to, value), to # "create",
         x \in Callers /\ pc[Owner] = "create" => x = Owner,
         pc[Owner] = "create" /\ x # Owner => queueEmpty',
         RingInv', queueSize' = queueSize, numThreadsBusy' = Cardinality(Busy'),
         threadLimit' \in 0 .. Cardinality(Threads), shutdown' \in BOOLEAN, finished' \in SUBSET Jobs
  PROVE  TypeInv'
<1>1. PcTypes'
  BY MovesKeepTypes DEF TypeInv
<1>2. Owner \in Participants /\ Owner \notin Threads /\ \A c \in Callers : c \in Participants /\ c \notin Threads
  BY OwnerAssumption, ThreadsAssumption DEF Participants
<1>3. ASSUME pc'[Owner] = "create" PROVE pc[Owner] = "create" /\ x # Owner
  BY <1>2, <1>3, MovesFacts DEF Poppers, TypeInv
<1>4. ASSUME pc'[Owner] = "create", NEW c \in Callers \ {Owner} PROVE pc'[c] = "out"
  BY <1>2, <1>3, <1>4, MovesFacts DEF Poppers, Pushers, TypeInv, CountInv
<1>5. CountInv'
  BY <1>3, <1>4 DEF TypeInv, CountInv
<1>6. QED
  BY <1>1, <1>5 DEF TypeInv

(* Poppers and perhaps more are sent to the head of their loops at once.   *)
LEMMA WakeStep ==
  ASSUME TypeInv, NEW new, Poppers \cup new \subseteq Threads, \A t \in new : pc[t] = "unborn",
         pc' = Broadcast(pc, Poppers \cup new, "lock"), UNCHANGED <<ring, numThreadsBusy, shutdown, job, finished>>,
         threadLimit' \in 0 .. Cardinality(Threads)
  PROVE  TypeInv' /\ Poppers' = {} /\ Busy' = Busy
<1>1. DOMAIN pc = Participants /\ \A c \in Callers : c \in Participants /\ c \notin Threads
  BY ThreadsAssumption DEF TypeInv, PcTypes, Participants
<1>2. pc' = [y \in Participants |-> IF y \in Poppers \cup new THEN "lock" ELSE pc[y]]
  BY <1>1 DEF Broadcast
<1>3. PcTypes'
  BY <1>1, <1>2 DEF TypeInv, PcTypes, Poppers, Participants, PcValue, ThreadPc
<1>4. Poppers' = {} /\ Busy' = Busy
  BY <1>2 DEF Poppers, Busy, Participants
<1>5. \A c \in Callers : pc'[c] = pc[c]
  BY <1>1, <1>2
<1>6. CountInv'
  BY <1>4, <1>5, OwnerAssumption DEF TypeInv, CountInv, ring
<1>7. QED
  BY <1>3, <1>4, <1>6, SameRing DEF TypeInv

LEMMA TypeInit == Init => TypeInv
<1> SUFFICES ASSUME Init PROVE TypeInv
  OBVIOUS
<1>1. queueSize \in Nat \ {0} /\ queueSize \in {n + 1 : n \in QueueSizes}
  BY QueueAssumption DEF Init
<1>2. RingTypes
  BY <1>1 DEF Init, RingTypes, Slots
<1>3. Contents = <<>>
  BY DEF Init, Contents, Length
<1>4. RingInv
  BY <1>2, <1>3 DEF Init, RingInv
<1>5. PcTypes
  BY ThreadsAssumption, OwnerAssumption DEF Init, PcTypes, Participants, PcValue, ThreadPc, CallerPc
<1>6. Busy = {}
  BY ThreadsAssumption, OwnerAssumption DEF Init, Busy, Participants
<1>7. CountInv
  BY <1>1, <1>6, FS_EmptySet, Finite, OwnerAssumption, ThreadsAssumption DEF Init, CountInv
<1>8. QED
  BY <1>4, <1>5, <1>7 DEF TypeInv

(* The thread's own steps. *)
LEMMA ThreadKeepsTypes ==
  ASSUME TypeInv, NEW t \in Threads, ThreadLoop(t) \/ JobReturns(t)
  PROVE  TypeInv'
<1>1. /\ t \in Participants /\ t \notin Callers /\ t # Owner /\ Owner \in Participants
      /\ t \notin Pushers
      /\ pc[Owner] = "create" => queueEmpty
      /\ numThreadsBusy \in Nat /\ (t \in Busy => numThreadsBusy > 0)
  <2>1. IsFiniteSet(Busy) /\ Cardinality(Busy) \in Nat
    BY Finite DEF Busy
  <2>2. t \in Busy => Cardinality(Busy) > 0
    BY <2>1, FS_EmptySet
  <2>3. QED
    BY <2>1, <2>2, OwnerAssumption, ThreadsAssumption DEF Participants, Pushers, TypeInv, CountInv
<1>2. /\ ThreadPc \subseteq PcValue /\ RingInv /\ PcTypes
      /\ job[t] \in Jobs \cup {NoJob}
      /\ (job[t] # NoJob <=> pc[t] \in {"signal", "run"})
      /\ numThreadsBusy = Cardinality(Busy)
  BY <1>1 DEF PcValue, TypeInv, PcTypes, CountInv
<1>3. ASSUME NEW to \in PcValue, NEW value \in Jobs \cup {NoJob}, Moves(t, to), JobSet(t, value), to # "create",
             InPlace(t, to, value), UNCHANGED <<ring, threadLimit, shutdown>>, finished' \in SUBSET Jobs,
             numThreadsBusy' = Cardinality(Busy')
      PROVE  TypeInv'
  BY <1>1, <1>3, MoveStep, SameRing DEF ring, TypeInv, CountInv
<1>4. CASE Wait(t)
  <2> DEFINE to == IF shutdown THEN "exited" ELSE "wait"
  <2>1. /\ pc[t] = "lock" /\ Moves(t, to) /\ JobSet(t, job[t]) /\ to \in {"exited", "wait"}
        /\ UNCHANGED <<ring, numThreadsBusy, threadLimit, shutdown, finished>>
    BY <1>4 DEF Wait, Moves, JobSet
  <2>2. to \in PcValue /\ InPlace(t, to, job[t])
    BY <1>1, <1>2, <2>1 DEF InPlace, ThreadPc
  <2>3. Cardinality(Busy') = Cardinality(Busy)
    BY <1>1, <1>2, <2>1, <2>2, MovesCount DEF Busy
  <2> HIDE DEF to
  <2>4. QED
    BY <1>2, <1>3, <2>1, <2>2, <2>3 DEF TypeInv, CountInv
<1>5. CASE Pop(t)
  <2>1. /\ pc[t] = "lock" /\ ~queueEmpty /\ numThreadsBusy' = numThreadsBusy + 1
        /\ Moves(t, "signal") /\ JobSet(t, queue[queueHead])
        /\ queueHead' = (queueHead + 1) % queueSize /\ queueEmpty' = (queueHead' = queueTail)
        /\ UNCHANGED <<queueSize, queue, queueTail, threadLimit, shutdown, finished>>
    BY <1>5 DEF Pop, MustWait, Moves, JobSet
  <2>2. queue[queueHead] \in Jobs /\ RingInv'
    BY <1>2, <2>1, PopEmptiesRing
  <2>3. "signal" \in PcValue /\ InPlace(t, "signal", queue[queueHead])
    BY <1>1, <1>2, <2>2, QueueAssumption DEF InPlace, ThreadPc
  <2>4. Cardinality(Busy') = Cardinality(Busy) + 1
    BY <1>1, <1>2, <2>1, <2>3, MovesCount DEF Busy
  <2>5. QED
    BY <1>1, <1>2, <2>1, <2>2, <2>3, <2>4, MoveStep DEF TypeInv, CountInv
<1>6. CASE SignalPusher(t)
  <2>1. /\ pc[t] = "signal" /\ Moves(t, "run") /\ JobSet(t, job[t])
        /\ UNCHANGED <<ring, numThreadsBusy, threadLimit, shutdown, finished>>
    BY <1>1, <1>6, SignalMoves DEF SignalPusher, JobSet, Poppers
  <2>2. "run" \in PcValue /\ InPlace(t, "run", job[t])
    BY <1>1, <1>2, <2>1 DEF InPlace, ThreadPc
  <2>3. Cardinality(Busy') = Cardinality(Busy)
    BY <1>1, <1>2, <2>1, <2>2, MovesCount DEF Busy
  <2>4. QED
    BY <1>2, <1>3, <2>1, <2>2, <2>3 DEF TypeInv, CountInv
<1>7. CASE JobReturns(t)
  <2>1. /\ pc[t] = "run" /\ Moves(t, "relock") /\ JobSet(t, NoJob) /\ finished' = finished \cup {job[t]}
        /\ UNCHANGED <<ring, numThreadsBusy, threadLimit, shutdown>>
    BY <1>7 DEF JobReturns, Moves, JobSet
  <2>2. "relock" \in PcValue /\ InPlace(t, "relock", NoJob)
    BY <1>1, <1>2 DEF InPlace, ThreadPc
  <2>3. Cardinality(Busy') = Cardinality(Busy)
    BY <1>1, <1>2, <2>1, <2>2, MovesCount DEF Busy
  <2>4. QED
    BY <1>2, <1>3, <2>1, <2>2, <2>3 DEF TypeInv, CountInv
<1>8. CASE Release(t)
  <2>1. /\ pc[t] = "relock" /\ Moves(t, "lock") /\ JobSet(t, job[t]) /\ numThreadsBusy' = numThreadsBusy - 1
        /\ UNCHANGED <<ring, threadLimit, shutdown, finished>>
    BY <1>1, <1>8, SignalMoves DEF Release, JobSet, Poppers, Moves
  <2>2. "lock" \in PcValue /\ InPlace(t, "lock", job[t])
    BY <1>1, <1>2, <2>1 DEF InPlace, ThreadPc
  <2>3. Cardinality(Busy') = Cardinality(Busy) - 1
    BY <1>1, <1>2, <2>1, <2>2, MovesCount DEF Busy
  <2>4. QED
    BY <1>2, <1>3, <2>1, <2>2, <2>3 DEF TypeInv, CountInv
<1>9. QED
  BY <1>4, <1>5, <1>6, <1>7, <1>8 DEF ThreadLoop

(* What Insert does: the job enters the ring, or is dropped.               *)
LEMMA InsertFacts ==
  ASSUME TypeInv, NEW c \in Callers, NEW j \in Jobs, pc[c] \in {"add", "out"}, Room \/ shutdown, Insert(c, j)
  PROVE  /\ Moves(c, "out") /\ JobSet(c, NoJob) /\ RingInv' /\ queueSize' = queueSize
         /\ \/ shutdown /\ UNCHANGED ring
            \/ ~shutdown /\ Length' = Length + 1 /\ Contents' = Append(Contents, j)
<1>1. JobSet(c, NoJob)
  BY DEF Insert, JobSet
<1>2. CASE shutdown
  BY <1>1, <1>2, SameRing DEF Insert, Moves, TypeInv, ring
<1>3. CASE ~shutdown
  <2>1. /\ queueEmpty' = FALSE
        /\ queue' = [queue EXCEPT ![queueTail] = j]
        /\ queueTail' = (queueTail + 1) % queueSize
        /\ pc' \in Signal([pc EXCEPT ![c] = "out"], Poppers, "lock")
        /\ UNCHANGED <<queueSize, queueHead>>
    BY <1>3 DEF Insert
  <2>2. c \notin Poppers /\ c \notin Pushers
    BY DEF Poppers, Pushers
  <2>3. Moves(c, "out")
    BY <2>1, <2>2, SignalMoves
  <2>4. RingInv' /\ Length' = Length + 1 /\ Contents' = Append(Contents, j)
    BY <1>3, <2>1, InsertFillsRing DEF TypeInv
  <2>5. QED
    BY <1>1, <1>3, <2>1, <2>3, <2>4
<1>4. QED
  BY <1>2, <1>3

LEMMA CallerKeepsTypes ==
  ASSUME TypeInv, NEW c \in Callers, Add(c) \/ \E j \in Jobs : CallAdd(c, j) \/ TryAdd(c, j)
  PROVE  TypeInv'
<1>1. /\ c \in Participants /\ c \notin Threads /\ c \notin Busy /\ Owner \in Participants
      /\ CallerPc \subseteq PcValue /\ {"add", "addWait", "out"} \subseteq CallerPc
      /\ job[c] \in Jobs \cup {NoJob} /\ (job[c] # NoJob <=> pc[c] \in {"add", "addWait"})
      /\ RingInv /\ PcTypes /\ NoJob \notin Jobs
  BY OwnerAssumption, ThreadsAssumption, QueueAssumption
     DEF Participants, Busy, PcValue, CallerPc, TypeInv, PcTypes
<1>2. (pc[c] = "out" /\ Open) \/ pc[c] = "add" => pc[Owner] # "create" \/ c = Owner
  BY DEF Open, TypeInv, CountInv
<1>3. pc[c] = "add" /\ c = Owner => pc[Owner] # "create"
  OBVIOUS
<1>4. (pc[c] = "out" /\ Open) \/ pc[c] = "add" => pc[Owner] # "create"
  BY <1>2, <1>3 DEF Open
<1>5. ASSUME NEW to \in {"add", "addWait", "out"}, NEW value \in Jobs \cup {NoJob}, Moves(c, to), JobSet(c, value),
             value # NoJob <=> to # "out", pc[Owner] # "create", RingInv', queueSize' = queueSize,
             UNCHANGED <<numThreadsBusy, threadLimit, shutdown, finished>>
      PROVE  TypeInv'
  <2>1. to \in PcValue /\ InPlace(c, to, value) /\ to # "create"
    BY <1>1, <1>5 DEF InPlace
  <2>2. numThreadsBusy' = Cardinality(Busy')
    BY <1>1, <1>5, <2>1, MovesCount DEF TypeInv, CountInv
  <2>3. QED
    BY <1>1, <1>5, <2>1, <2>2, MoveStep DEF TypeInv, CountInv
<1>6. CASE Add(c)
  <2>1. pc[c] = "add" /\ job[c] \in Jobs /\ UNCHANGED <<numThreadsBusy, threadLimit, shutdown, finished>>
    BY <1>1, <1>6 DEF Add
  <2>2. CASE isQueueFull /\ ~shutdown
    <3>1. Moves(c, "addWait") /\ JobSet(c, job[c]) /\ UNCHANGED ring
      BY <1>6, <2>2 DEF Add, Moves, JobSet
    <3>2. RingInv' /\ queueSize' = queueSize
      BY <1>1, <3>1, SameRing DEF ring
    <3>3. QED
      BY <1>1, <1>4, <1>5, <2>1, <3>1, <3>2
  <2>3. CASE ~(isQueueFull /\ ~shutdown)
    <3>1. Insert(c, job[c]) /\ (Room \/ shutdown)
      BY <1>6, <2>3, NotFullIsRoom DEF Add
    <3>2. Moves(c, "out") /\ JobSet(c, NoJob) /\ RingInv' /\ queueSize' = queueSize
      BY <2>1, <3>1, InsertFacts
    <3>3. QED
      BY <1>4, <1>5, <2>1, <3>2
  <2>4. QED
    BY <2>2, <2>3
<1>7. ASSUME NEW j \in Jobs, CallAdd(c, j) PROVE TypeInv'
  <2>1. /\ pc[c] = "out" /\ Open /\ Moves(c, "add") /\ JobSet(c, j)
        /\ UNCHANGED <<ring, numThreadsBusy, threadLimit, shutdown, finished>>
    BY <1>7 DEF CallAdd, Moves, JobSet
  <2>2. RingInv' /\ queueSize' = queueSize
    BY <1>1, <2>1, SameRing DEF ring
  <2>3. QED
    BY <1>1, <1>4, <1>5, <2>1, <2>2
<1>8. ASSUME NEW j \in Jobs, TryAdd(c, j) PROVE TypeInv'
  <2>1. /\ pc[c] = "out" /\ Open /\ Insert(c, j) /\ Room
        /\ UNCHANGED <<numThreadsBusy, threadLimit, shutdown, finished>>
    BY <1>8, NotFullIsRoom DEF TryAdd
  <2>2. Moves(c, "out") /\ JobSet(c, NoJob) /\ RingInv' /\ queueSize' = queueSize
    BY <2>1, InsertFacts
  <2>3. QED
    BY <1>4, <1>5, <2>1, <2>2
<1>9. QED
  BY <1>6, <1>7, <1>8

(* The steps that make, resize and free the pool. *)
LEMMA OwnerKeepsTypes ==
  ASSUME TypeInv, Create \/ Freeing \/ SpuriousWakeup \/ Free \/ \E n \in 1 .. Cardinality(Threads) : Resize(n)
  PROVE  TypeInv'
<1>1. /\ Owner \in Callers /\ Owner \in Participants /\ Owner \notin Threads
      /\ \A t \in Threads : t \in Participants /\ t \notin Callers
      /\ \A c \in Callers : c \in Participants /\ c \notin Threads
      /\ CallerPc \subseteq PcValue /\ ThreadPc \subseteq PcValue
      /\ RingInv /\ PcTypes /\ Cardinality(Threads) \in Nat
  BY OwnerAssumption, ThreadsAssumption, Finite DEF Participants, PcValue, TypeInv
<1>2. ASSUME NEW x \in Participants, NEW to \in PcValue, to # "create", Moves(x, to), InPlace(x, to, job[x]),
             x \notin Busy, to \notin {"signal", "run", "relock"}, x \in Threads \/ x = Owner \/ pc[Owner] # "create",
             UNCHANGED <<ring, numThreadsBusy, job, finished>>,
             threadLimit' \in 0 .. Cardinality(Threads), shutdown' \in BOOLEAN
      PROVE  TypeInv'
  <2>1. RingInv' /\ queueSize' = queueSize /\ queueEmpty' = queueEmpty
    BY <1>1, <1>2, SameRing DEF ring
  <2>2. JobSet(x, job[x]) /\ job[x] \in Jobs \cup {NoJob}
    BY <1>1, <1>2 DEF JobSet, PcTypes
  <2>3. numThreadsBusy' = Cardinality(Busy')
    BY <1>1, <1>2, MovesCount DEF TypeInv, CountInv
  <2>4. x \in Callers /\ pc[Owner] = "create" => x = Owner
    BY <1>1, <1>2
  <2>5. pc[Owner] = "create" => queueEmpty'
    BY <2>1 DEF TypeInv, CountInv
  <2>6. QED
    BY <1>2, <2>1, <2>2, <2>3, <2>4, <2>5, MoveStep DEF TypeInv, CountInv
<1>3. ASSUME NEW to \in CallerPc \ {"create", "add", "addWait"}, pc[Owner] \notin {"add", "addWait"},
             pc' = [pc EXCEPT ![Owner] = to],
             UNCHANGED <<ring, numThreadsBusy, job, finished>>,
             threadLimit' \in 0 .. Cardinality(Threads), shutdown' \in BOOLEAN
      PROVE  TypeInv'
  BY <1>1, <1>2, <1>3 DEF Moves, InPlace, Busy, CallerPc, PcTypes
<1>4. ASSUME NEW t \in Threads, CreateThread(t) PROVE TypeInv'
  <2>1. pc[t] = "unborn" /\ Moves(t, "lock") /\ UNCHANGED <<ring, numThreadsBusy, threadLimit, shutdown, job, finished>>
    BY <1>4 DEF CreateThread, Moves
  <2>2. InPlace(t, "lock", job[t]) /\ t \notin Busy /\ "lock" \in PcValue
    BY <1>1, <2>1 DEF InPlace, Busy, ThreadPc, PcTypes
  <2>3. QED
    BY <1>1, <1>2, <2>1, <2>2 DEF TypeInv, CountInv
<1>5. CASE Created \/ CreateFails \/ Free \/ ShutDown \/ Join
  <2>1. numThreads \in 0 .. Cardinality(Threads)
    BY <1>1, ThreadsAssumption
  <2>2. PICK to \in {"out", "shutdown", "broadcast", "freed"} : pc' = [pc EXCEPT ![Owner] = to]
    BY <1>5 DEF Created, CreateFails, Free, ShutDown, Join
  <2>3. pc[Owner] \notin {"add", "addWait"} /\ UNCHANGED <<ring, numThreadsBusy, job, finished>>
    BY <1>1, <1>5 DEF Created, CreateFails, Free, ShutDown, Join
  <2>4. threadLimit' \in 0 .. Cardinality(Threads) /\ shutdown' \in BOOLEAN
    BY <1>5, <2>1 DEF Created, CreateFails, Free, ShutDown, Join, TypeInv, CountInv
  <2>5. QED
    BY <1>3, <2>2, <2>3, <2>4 DEF CallerPc
<1>6. ASSUME NEW n \in 1 .. Cardinality(Threads), Resize(n) PROVE TypeInv'
  <2>1. UNCHANGED <<ring, numThreadsBusy, shutdown, job, finished>> /\ Poppers \subseteq Threads
    BY <1>6 DEF Resize, Poppers
  <2>2. CASE Shrink(n)
    <3>1. threadLimit' = n /\ n \in 0 .. Cardinality(Threads) /\ pc' = Broadcast(pc, Poppers, "lock")
      BY <1>1, <2>2 DEF Shrink
    <3>2. PICK new \in SUBSET Threads : new = {}
      OBVIOUS
    <3>3. Poppers \cup new = Poppers /\ \A t \in new : pc[t] = "unborn"
      BY <3>2
    <3>4. QED
      BY <2>1, <3>1, <3>3, WakeStep
  <2>3. CASE Grow(n)
    <3>1. PICK new \in SUBSET (Threads \ Started) :
            /\ threadLimit' = IF Cardinality(Started) + Cardinality(new) = n THEN n ELSE threadLimit
            /\ pc' = Broadcast(pc, Poppers \cup new, "lock")
      BY <2>3 DEF Grow
    <3>2. threadLimit' \in 0 .. Cardinality(Threads)
      BY <1>1, <3>1 DEF TypeInv, CountInv
    <3>3. \A t \in new : pc[t] = "unborn"
      BY DEF Started
    <3>4. QED
      BY <2>1, <3>1, <3>2, <3>3, WakeStep
  <2>4. QED
    BY <1>6, <2>2, <2>3 DEF Resize
<1>7. CASE BroadcastAll
  <2>1. pc' = [y \in Participants |-> IF y \in Poppers THEN "lock" ELSE IF y \in Pushers THEN "add"
                                      ELSE IF y = Owner THEN "join" ELSE pc[y]]
    BY <1>1, <1>7 DEF BroadcastAll, Broadcast, PcTypes, Poppers, Pushers
  <2>2. pc[Owner] = "broadcast" /\ UNCHANGED <<ring, numThreadsBusy, threadLimit, shutdown, job, finished>>
    BY <1>7 DEF BroadcastAll
  <2>3. PcTypes'
    BY <1>1, <2>1, <2>2 DEF PcTypes, Poppers, Pushers, PcValue, ThreadPc, CallerPc, Participants
  <2>4. Busy' = Busy
    BY <1>1, <2>1 DEF Busy, Poppers, Pushers
  <2>5. pc'[Owner] # "create"
    BY <1>1, <2>1, <2>2 DEF Poppers, Pushers
  <2>6. CountInv'
    BY <2>2, <2>4, <2>5 DEF TypeInv, CountInv, ring
  <2>7. QED
    BY <2>2, <2>3, <2>6, SameRing DEF TypeInv
<1>8. CASE SpuriousWakeup
  <2>1. UNCHANGED <<ring, numThreadsBusy, threadLimit, shutdown, job, finished>>
    BY <1>8 DEF SpuriousWakeup
  <2>2. ASSUME NEW t \in Poppers, pc' = [pc EXCEPT ![t] = "lock"] PROVE TypeInv'
    <3>1. t \in Threads /\ t \notin Busy /\ Moves(t, "lock") /\ "lock" \in PcValue /\ InPlace(t, "lock", job[t])
      BY <1>1, <2>2 DEF Poppers, Busy, Moves, InPlace, ThreadPc, PcTypes
    <3>2. QED
      BY <1>1, <1>2, <2>1, <3>1 DEF TypeInv, CountInv
  <2>3. ASSUME NEW c \in Pushers, pc' = [pc EXCEPT ![c] = "add"] PROVE TypeInv'
    <3>1. /\ c \in Callers /\ c \notin Busy /\ Moves(c, "add") /\ "add" \in PcValue /\ InPlace(c, "add", job[c])
          /\ pc[c] = "addWait"
      BY <1>1, <2>3 DEF Pushers, Busy, Moves, InPlace, CallerPc, PcTypes
    <3>2. c = Owner \/ pc[Owner] # "create"
      BY <3>1 DEF TypeInv, CountInv
    <3>3. QED
      BY <1>1, <1>2, <2>1, <3>1, <3>2 DEF TypeInv, CountInv
  <2>4. QED
    BY <1>8, <2>2, <2>3 DEF SpuriousWakeup
<1>9. QED
  BY <1>4, <1>5, <1>6, <1>7, <1>8 DEF Create, Freeing

LEMMA TypeStep == TypeInv /\ [Next]_vars => TypeInv'
<1> SUFFICES ASSUME TypeInv, [Next]_vars PROVE TypeInv'
  OBVIOUS
<1>1. CASE UNCHANGED vars
  <2>1. RingInv' /\ UNCHANGED <<ring, numThreadsBusy, threadLimit, shutdown, pc, job, finished>>
    BY <1>1, SameRing DEF vars, TypeInv
  <2>2. PcTypes' /\ CountInv'
    BY <2>1 DEF TypeInv, PcTypes, CountInv, Busy, ring
  <2>3. QED
    BY <2>1, <2>2 DEF TypeInv
<1>2. QED
  BY <1>1, ThreadKeepsTypes, CallerKeepsTypes, OwnerKeepsTypes DEF Next

(* numThreadsBusy counts the threads that run a job, a thread holds a job  *)
(* exactly while it runs one, and the ring's indices stay within it.       *)
THEOREM TypeCorrect == Spec => []TypeOK
<1>1. TypeInv => TypeOK
  <2>1. Busy \in SUBSET Threads
    BY DEF Busy
  <2>2. TypeInv => numThreadsBusy \in 0 .. Cardinality(Threads)
    BY <2>1, Finite DEF TypeInv, CountInv
  <2>3. QED
    BY <2>2 DEF TypeInv, TypeOK, RingInv, RingTypes, PcTypes, CountInv, Participants, PcValue
<1>2. QED
  BY <1>1, TypeInit, TypeStep, PTL DEF Spec

-----------------------------------------------------------------------------
(* No lost wake-up *)

LEMMA AwakeFinite ==
  /\ IsFiniteSet(Awake) /\ Cardinality(Awake) \in Nat
  /\ IsFiniteSet(Awake') /\ Cardinality(Awake') \in Nat
<1>1. Awake \in SUBSET Threads /\ Awake' \in SUBSET Threads
  BY DEF Awake
<1>2. QED
  BY <1>1, Finite

LEMMA NumbersAreNumbers ==
  TypeInv => Length \in Nat /\ numThreadsBusy \in Nat /\ threadLimit \in Nat
<1>1. IsFiniteSet(Busy) /\ Cardinality(Busy) \in Nat
  BY Finite DEF Busy
<1>2. QED
  BY <1>1, LengthIs DEF TypeInv, CountInv, RingInv, RingTypes

(* Nobody goes to sleep and nobody who is awake is used up. *)
LEMMA QuietStep ==
  ASSUME TypeInv, NoLostWakeup, Awake \subseteq Awake', Poppers' \subseteq Poppers,
         Length' = Length, UNCHANGED <<numThreadsBusy, threadLimit>>
  PROVE  NoLostWakeup'
<1>1. Cardinality(Awake) <= Cardinality(Awake')
  BY AwakeFinite, FS_Subset
<1>2. QED
  BY <1>1, AwakeFinite, NumbersAreNumbers DEF NoLostWakeup

LEMMA QuietMove ==
  ASSUME TypeInv, NoLostWakeup, NEW x \in Participants, NEW to \in PcValue, Moves(x, to),
         x \notin Awake, to # "wait", UNCHANGED <<ring, numThreadsBusy, threadLimit>>
  PROVE  NoLostWakeup'
<1>1. Threads \subseteq Participants
  BY DEF Participants
<1>2. Awake \subseteq Awake' /\ Poppers' \subseteq Poppers
  BY <1>1, MovesFacts, ThreadsAssumption DEF TypeInv, Awake, Poppers, Pushers
<1>3. QED
  BY <1>2, SameRing, QuietStep DEF TypeInv

LEMMA WakeupInsert ==
  ASSUME TypeInv, NoLostWakeup, NEW c \in Callers, NEW j \in Jobs, pc[c] \in {"add", "out"}, Room \/ shutdown,
         Insert(c, j), UNCHANGED <<numThreadsBusy, threadLimit>>
  PROVE  NoLostWakeup'
<1>1. /\ c \in Participants /\ c \notin Threads /\ c \notin Awake /\ c \notin Poppers /\ "out" \in PcValue
      /\ Threads \subseteq Participants
  BY ThreadsAssumption DEF Participants, Awake, Poppers, PcValue, CallerPc
<1>2. CASE UNCHANGED ring
  <2>1. Moves(c, "out")
    BY InsertFacts
  <2>2. QED
    BY <1>1, <1>2, <2>1, QuietMove
<1>3. CASE ~shutdown /\ Length' = Length + 1
  <2>1. pc' \in Signal([pc EXCEPT ![c] = "out"], Poppers, "lock")
    BY <1>3 DEF Insert
  <2>2. CASE Poppers = {}
    <3>1. pc' = [pc EXCEPT ![c] = "out"]
      BY <2>1, <2>2 DEF Signal
    <3>2. Poppers' = {}
      BY <1>1, <2>2, <3>1 DEF Poppers, TypeInv, PcTypes
    <3>3. QED
      BY <3>2 DEF NoLostWakeup
  <2>3. CASE Poppers # {}
    <3>1. PICK y \in Poppers : pc' = [[pc EXCEPT ![c] = "out"] EXCEPT ![y] = "lock"]
      BY <2>1, <2>3 DEF Signal
    <3>2. y \in Threads /\ y # c /\ y \notin Awake
      BY <1>1 DEF Poppers, Awake
    <3>3. Awake' = Awake \cup {y}
      BY <1>1, <3>1, <3>2 DEF Awake, TypeInv, PcTypes
    <3>4. Cardinality(Awake') = Cardinality(Awake) + 1
      BY <3>2, <3>3, AwakeFinite, FS_AddElement
    <3>5. QED
      BY <1>3, <2>3, <3>4, AwakeFinite, NumbersAreNumbers DEF NoLostWakeup
  <2>4. QED
    BY <2>2, <2>3
<1>4. QED
  BY <1>2, <1>3, InsertFacts

LEMMA WakeupThread ==
  ASSUME TypeInv, NoLostWakeup, NEW t \in Threads, ThreadLoop(t) \/ JobReturns(t)
  PROVE  NoLostWakeup'
<1>1. /\ t \in Participants /\ t \notin Pushers /\ Threads \subseteq Participants
      /\ {"run", "relock"} \subseteq PcValue
      /\ pc \in [Participants -> PcValue]
  BY ThreadsAssumption DEF Participants, Pushers, PcValue, ThreadPc, TypeInv, PcTypes
<1>2. CASE Wait(t)
  <2>1. MustWait /\ UNCHANGED <<ring, numThreadsBusy, threadLimit>>
    BY <1>2 DEF Wait
  <2>2. Length' = Length /\ (queueEmpty => Length = 0)
    BY <2>1, SameRing, LengthIs DEF TypeInv
  <2>3. QED
    BY <2>1, <2>2, AwakeFinite, NumbersAreNumbers DEF MustWait, NoLostWakeup
<1>3. CASE Pop(t)
  <2>1. /\ pc[t] = "lock" /\ ~queueEmpty /\ numThreadsBusy' = numThreadsBusy + 1
        /\ queueHead' = (queueHead + 1) % queueSize /\ queueEmpty' = (queueHead' = queueTail)
        /\ pc' = [pc EXCEPT ![t] = "signal"]
        /\ UNCHANGED <<queueSize, queue, queueTail, threadLimit>>
    BY <1>3 DEF Pop, MustWait
  <2>2. Length' = Length - 1
    BY <2>1, PopEmptiesRing DEF TypeInv
  <2>3. Awake' = Awake \ {t} /\ t \in Awake /\ Poppers' = Poppers
    BY <1>1, <2>1 DEF Awake, Poppers
  <2>4. Cardinality(Awake') = Cardinality(Awake) - 1
    BY <2>3, AwakeFinite, FS_RemoveElement
  <2>5. QED
    BY <2>1, <2>2, <2>3, <2>4, AwakeFinite, NumbersAreNumbers DEF NoLostWakeup
<1>4. CASE SignalPusher(t)
  <2>1. pc[t] = "signal" /\ Moves(t, "run") /\ UNCHANGED <<ring, numThreadsBusy, threadLimit>>
    BY <1>1, <1>4, SignalMoves DEF SignalPusher, Poppers
  <2>2. QED
    BY <1>1, <2>1, QuietMove DEF Awake
<1>5. CASE JobReturns(t)
  <2>1. pc[t] = "run" /\ Moves(t, "relock") /\ UNCHANGED <<ring, numThreadsBusy, threadLimit>>
    BY <1>5 DEF JobReturns, Moves
  <2>2. QED
    BY <1>1, <2>1, QuietMove DEF Awake
<1>6. CASE Release(t)
  <2>1. /\ pc[t] = "relock" /\ numThreadsBusy' = numThreadsBusy - 1 /\ UNCHANGED <<ring, threadLimit>>
        /\ Moves(t, "lock") /\ t \in Busy /\ "lock" \in PcValue
    BY <1>1, <1>6, SignalMoves DEF Release, Poppers, Moves, Busy, PcValue, ThreadPc
  <2>2. Awake \cup {t} \subseteq Awake' /\ t \notin Awake /\ Poppers' \subseteq Poppers
    BY <1>1, <2>1, MovesFacts, ThreadsAssumption DEF TypeInv, Awake, Poppers, Pushers
  <2>3. Cardinality(Awake) + 1 <= Cardinality(Awake')
    <3>1. Cardinality(Awake \cup {t}) = Cardinality(Awake) + 1
      BY <2>2, AwakeFinite, FS_AddElement
    <3>2. Cardinality(Awake \cup {t}) <= Cardinality(Awake')
      BY <2>2, AwakeFinite, FS_Subset
    <3>3. QED
      BY <3>1, <3>2
  <2>4. Length' = Length
    BY <2>1, SameRing DEF TypeInv
  <2>5. QED
    BY <2>1, <2>2, <2>3, <2>4, AwakeFinite, NumbersAreNumbers DEF NoLostWakeup
<1>7. QED
  BY <1>2, <1>3, <1>4, <1>5, <1>6 DEF ThreadLoop

LEMMA WakeupCaller ==
  ASSUME TypeInv, NoLostWakeup, NEW c \in Callers, Add(c) \/ \E j \in Jobs : CallAdd(c, j) \/ TryAdd(c, j)
  PROVE  NoLostWakeup'
<1>1. /\ c \in Participants /\ c \notin Awake /\ {"add", "addWait"} \subseteq PcValue
      /\ pc[c] = "add" => job[c] \in Jobs
  BY ThreadsAssumption DEF Participants, Awake, PcValue, CallerPc, TypeInv, PcTypes
<1>2. CASE Add(c)
  <2>1. pc[c] = "add" /\ UNCHANGED <<numThreadsBusy, threadLimit>>
    BY <1>2 DEF Add
  <2>2. CASE isQueueFull /\ ~shutdown
    BY <1>1, <1>2, <2>1, <2>2, QuietMove DEF Add, Moves
  <2>3. CASE ~(isQueueFull /\ ~shutdown)
    <3>1. Insert(c, job[c]) /\ (Room \/ shutdown)
      BY <1>2, <2>3, NotFullIsRoom DEF Add
    <3>2. QED
      BY <1>1, <2>1, <3>1, WakeupInsert
  <2>4. QED
    BY <2>2, <2>3
<1>3. ASSUME NEW j \in Jobs, CallAdd(c, j) PROVE NoLostWakeup'
  BY <1>1, <1>3, QuietMove DEF CallAdd, Moves
<1>4. ASSUME NEW j \in Jobs, TryAdd(c, j) PROVE NoLostWakeup'
  BY <1>4, WakeupInsert, NotFullIsRoom DEF TryAdd
<1>5. QED
  BY <1>2, <1>3, <1>4

LEMMA WakeupOwner ==
  ASSUME TypeInv, NoLostWakeup,
         Create \/ Freeing \/ SpuriousWakeup \/ Free \/ \E n \in 1 .. Cardinality(Threads) : Resize(n)
  PROVE  NoLostWakeup'
<1>1. /\ Owner \in Participants /\ Owner \notin Threads
      /\ \A t \in Threads : t \in Participants
      /\ \A c \in Callers : c \in Participants /\ c \notin Threads
      /\ pc \in [Participants -> PcValue]
      /\ {"lock", "add", "shutdown", "broadcast", "freed"} \subseteq PcValue
  BY OwnerAssumption, ThreadsAssumption DEF Participants, PcValue, ThreadPc, CallerPc, TypeInv, PcTypes
<1>2. ASSUME NEW t \in Threads, CreateThread(t) PROVE NoLostWakeup'
  BY <1>1, <1>2, QuietMove DEF CreateThread, Moves, Awake
<1>3. CASE Created
  <2>1. queueEmpty /\ UNCHANGED ring
    BY <1>3 DEF Created, TypeInv, CountInv
  <2>2. Length' = 0
    BY <2>1, SameRing, LengthIs DEF TypeInv
  <2>3. QED
    BY <2>2, AwakeFinite DEF NoLostWakeup
<1>4. CASE CreateFails \/ Free \/ ShutDown \/ Join
  <2>1. PICK to \in {"shutdown", "broadcast", "freed"} : pc' = [pc EXCEPT ![Owner] = to]
    BY <1>4 DEF CreateFails, Free, ShutDown, Join
  <2>2. UNCHANGED <<ring, numThreadsBusy, threadLimit>>
    BY <1>4 DEF CreateFails, Free, ShutDown, Join
  <2>3. QED
    BY <1>1, <2>1, <2>2, QuietMove DEF Moves, Awake
<1>5. ASSUME NEW n \in 1 .. Cardinality(Threads), Resize(n) PROVE NoLostWakeup'
  <2>1. PICK new : pc' = Broadcast(pc, Poppers \cup new, "lock")
    <3>1. Poppers \cup {} = Poppers
      OBVIOUS
    <3>2. QED
      BY <1>5, <3>1 DEF Resize, Shrink, Grow
  <2>2. \A t \in Threads : pc'[t] # "wait"
    BY <1>1, <2>1 DEF Broadcast, Poppers
  <2>3. QED
    BY <2>2 DEF NoLostWakeup, Poppers
<1>6. CASE BroadcastAll
  <2>1. \A t \in Threads : pc'[t] # "wait"
    BY <1>1, <1>6 DEF BroadcastAll, Broadcast, Poppers
  <2>2. QED
    BY <2>1 DEF NoLostWakeup, Poppers
<1>7. CASE SpuriousWakeup
  <2>1. UNCHANGED <<ring, numThreadsBusy, threadLimit>>
    BY <1>7 DEF SpuriousWakeup
  <2>2. ASSUME NEW t \in Poppers, pc' = [pc EXCEPT ![t] = "lock"] PROVE NoLostWakeup'
    BY <1>1, <2>1, <2>2, QuietMove DEF Poppers, Awake, Moves
  <2>3. ASSUME NEW c \in Pushers, pc' = [pc EXCEPT ![c] = "add"] PROVE NoLostWakeup'
    BY <1>1, <2>1, <2>3, QuietMove DEF Pushers, Awake, Moves
  <2>4. QED
    BY <1>7, <2>2, <2>3 DEF SpuriousWakeup
<1>8. QED
  BY <1>2, <1>3, <1>4, <1>5, <1>6, <1>7 DEF Create, Freeing

LEMMA WakeupStep == TypeInv /\ NoLostWakeup /\ [Next]_vars => NoLostWakeup'
<1> SUFFICES ASSUME TypeInv, NoLostWakeup, [Next]_vars PROVE NoLostWakeup'
  OBVIOUS
<1>1. CASE UNCHANGED vars
  <2>1. Length' = Length /\ UNCHANGED <<numThreadsBusy, threadLimit, pc>>
    BY <1>1, SameRing DEF vars, TypeInv
  <2>2. QED
    BY <2>1, QuietStep DEF Awake, Poppers
<1>2. QED
  BY <1>1, WakeupThread, WakeupCaller, WakeupOwner DEF Next

(* However jobs are added, threads held back by the limit, woken for no    *)
(* reason, and the pool resized: whenever a thread of POOL_thread sleeps,  *)
(* as many are awake as could start a job now.                             *)
THEOREM NoWakeupIsLost == Spec => []NoLostWakeup
<1>1. Init => NoLostWakeup
  BY ThreadsAssumption DEF Init, NoLostWakeup, Poppers
<1>2. TypeInv /\ NoLostWakeup /\ [Next]_vars => TypeInv' /\ NoLostWakeup'
  BY TypeStep, WakeupStep
<1>3. QED
  BY <1>1, <1>2, TypeInit, PTL DEF Spec

-----------------------------------------------------------------------------
(* The ring is a queue *)

InRing(j) == \E i \in DOMAIN Contents : Contents[i] = j

(* A job is in one place at a time: in the ring once, with one thread or   *)
(* caller, or finished.                                                    *)
Apart ==
  /\ \A i, n \in DOMAIN Contents : Contents[i] = Contents[n] => i = n
  /\ \A i \in DOMAIN Contents : Contents[i] \notin finished
  /\ \A x \in Participants : job[x] # NoJob =>
       /\ ~InRing(job[x]) /\ job[x] \notin finished
       /\ \A y \in Participants : job[y] = job[x] => y = x

(* What a step does to the jobs.                                           *)
Gives(x, j) == job' = [job EXCEPT ![x] = j]

HandsIn(c, j) == New(j) /\ job[c] = NoJob /\ Gives(c, j) /\ UNCHANGED <<Contents, finished>>
Fills(c, j) ==
  /\ New(j) \/ job[c] = j
  /\ Contents' = Append(Contents, j) /\ Gives(c, NoJob) /\ UNCHANGED finished
Drops(c) == shutdown /\ Gives(c, NoJob) /\ UNCHANGED <<Contents, finished>>
Starts(t) ==
  /\ Contents # <<>> /\ job[t] = NoJob
  /\ Gives(t, Head(Contents)) /\ Contents' = Tail(Contents) /\ UNCHANGED finished
Returns(t) ==
  /\ job[t] # NoJob
  /\ finished' = finished \cup {job[t]} /\ Gives(t, NoJob) /\ UNCHANGED Contents
Rests == UNCHANGED <<Contents, job, finished>>

LEMMA InsertFillsOrDrops ==
  ASSUME TypeInv, NEW c \in Callers, NEW j \in Jobs, pc[c] \in {"add", "out"}, Room \/ shutdown, Insert(c, j),
         New(j) \/ job[c] = j, UNCHANGED finished
  PROVE  Fills(c, j) \/ Drops(c)
<1>1. Gives(c, NoJob)
  BY DEF Insert, Gives
<1>2. CASE shutdown /\ UNCHANGED ring
  BY <1>1, <1>2, SameRing DEF TypeInv, Drops
<1>3. CASE Contents' = Append(Contents, j)
  BY <1>1, <1>3 DEF Fills
<1>4. QED
  BY <1>2, <1>3, InsertFacts

LEMMA RingRests == ASSUME TypeInv, UNCHANGED <<ring, job, finished>> PROVE Rests
BY SameRing DEF TypeInv, Rests

LEMMA HoldersOfJobs ==
  TypeInv => /\ \A c \in Callers : (job[c] # NoJob <=> pc[c] \in {"add", "addWait"}) /\ job[c] \in Jobs \cup {NoJob}
             /\ \A t \in Threads : (job[t] # NoJob <=> pc[t] \in {"signal", "run"}) /\ job[t] \in Jobs \cup {NoJob}
BY DEF TypeInv, PcTypes, Participants

LEMMA LoopMovesJobs ==
  ASSUME TypeInv, NEW t \in Threads, ThreadLoop(t)
  PROVE  Rests \/ Starts(t)
<1>1. CASE Wait(t) \/ SignalPusher(t) \/ Release(t)
  BY <1>1, RingRests DEF Wait, SignalPusher, Release
<1>2. CASE Pop(t)
  <2>1. /\ pc[t] = "lock" /\ ~queueEmpty /\ job' = [job EXCEPT ![t] = queue[queueHead]]
        /\ queueHead' = (queueHead + 1) % queueSize /\ queueEmpty' = (queueHead' = queueTail)
        /\ UNCHANGED <<queueSize, queue, queueTail, finished>>
    BY <1>2 DEF Pop, MustWait
  <2>2. Contents # <<>> /\ Contents' = Tail(Contents) /\ queue[queueHead] = Head(Contents)
    BY <2>1, PopEmptiesRing DEF TypeInv
  <2>3. job[t] = NoJob
    BY <2>1, HoldersOfJobs
  <2>4. QED
    BY <2>1, <2>2, <2>3 DEF Starts, Gives
<1>3. QED
  BY <1>1, <1>2 DEF ThreadLoop

LEMMA ReturnMovesJobs == ASSUME TypeInv, NEW t \in Threads, JobReturns(t) PROVE Returns(t)
<1>1. Contents' = Contents
  BY SameRing DEF JobReturns, TypeInv
<1>2. QED
  BY <1>1, HoldersOfJobs DEF JobReturns, Returns, Gives

LEMMA AddMovesJobs ==
  ASSUME TypeInv, NEW c \in Callers, Add(c)
  PROVE  Rests \/ Drops(c) \/ (job[c] \in Jobs /\ Fills(c, job[c]))
<1>1. pc[c] = "add" /\ UNCHANGED finished
  BY DEF Add
<1>2. PICK j \in Jobs : j = job[c]
  BY <1>1, HoldersOfJobs
<1>3. CASE isQueueFull /\ ~shutdown
  BY <1>3, RingRests DEF Add
<1>4. CASE ~(isQueueFull /\ ~shutdown)
  <2>1. Insert(c, j) /\ (Room \/ shutdown)
    BY <1>2, <1>4, NotFullIsRoom DEF Add
  <2>2. Fills(c, j) \/ Drops(c)
    BY <1>1, <1>2, <2>1, InsertFillsOrDrops
  <2>3. QED
    BY <1>2, <2>2
<1>5. QED
  BY <1>3, <1>4

LEMMA CallMovesJobs ==
  ASSUME TypeInv, NEW c \in Callers, NEW j \in Jobs
  PROVE  /\ CallAdd(c, j) => HandsIn(c, j)
         /\ TryAdd(c, j) => Fills(c, j) \/ Drops(c)
<1>1. ASSUME CallAdd(c, j) PROVE HandsIn(c, j)
  <2>1. Contents' = Contents
    BY <1>1, SameRing DEF CallAdd, TypeInv
  <2>2. QED
    BY <1>1, <2>1, HoldersOfJobs DEF CallAdd, HandsIn, Gives
<1>2. ASSUME TryAdd(c, j) PROVE Fills(c, j) \/ Drops(c)
  BY <1>2, InsertFillsOrDrops, NotFullIsRoom DEF TryAdd
<1>3. QED
  BY <1>1, <1>2

LEMMA OwnerMovesNoJobs ==
  ASSUME TypeInv, Create \/ Freeing \/ SpuriousWakeup \/ Free \/ \E n \in 1 .. Cardinality(Threads) : Resize(n)
  PROVE  Rests
BY RingRests DEF Create, CreateThread, Created, CreateFails, Freeing, ShutDown, BroadcastAll, Join,
                 SpuriousWakeup, Free, Resize

LEMMA JobsMove ==
  ASSUME TypeInv, [Next]_vars
  PROVE  \/ Rests
         \/ \E t \in Threads : Starts(t) \/ Returns(t)
         \/ \E c \in Callers : Drops(c) \/ \E j \in Jobs : HandsIn(c, j) \/ Fills(c, j)
<1>1. CASE UNCHANGED vars
  BY <1>1, RingRests DEF vars
<1>2. ASSUME NEW c \in Callers, Add(c) PROVE Rests \/ Drops(c) \/ \E j \in Jobs : Fills(c, j)
  BY <1>2, AddMovesJobs
<1>3. QED
  BY <1>1, <1>2, LoopMovesJobs, ReturnMovesJobs, CallMovesJobs, OwnerMovesNoJobs DEF Next

LEMMA NewIsNew ==
  ASSUME NEW j, New(j)
  PROVE  ~InRing(j) /\ j \notin finished /\ \A x \in Participants : job[x] # j
BY DEF New, InRing, Participants

LEMMA GivesFacts ==
  ASSUME TypeInv, NEW x \in Participants, NEW j, Gives(x, j)
  PROVE  \A y \in Participants : job'[y] = IF y = x THEN j ELSE job[y]
BY DEF TypeInv, PcTypes, Gives

LEMMA FillsKeepsApart ==
  ASSUME TypeInv, Apart, NEW c \in Callers, NEW j \in Jobs, Fills(c, j)
  PROVE  Apart' /\ ~InRing(j) /\ j \notin finished /\ \A t \in Threads : job[t] # j
<1>1. /\ Contents \in Seq(Jobs) /\ Contents' = Append(Contents, j)
      /\ DOMAIN Contents = 1 .. Len(Contents) /\ DOMAIN Contents' = 1 .. Len(Contents) + 1 /\ Len(Contents) \in Nat
      /\ \A i \in 1 .. Len(Contents) : Contents'[i] = Contents[i]
      /\ Contents'[Len(Contents) + 1] = j
  BY AppendProperties DEF Fills, TypeInv, RingInv
<1>2. /\ c \in Participants /\ c \notin Threads /\ Threads \subseteq Participants /\ j # NoJob
      /\ finished' = finished
  BY ThreadsAssumption, QueueAssumption DEF Participants, Fills
<1>3. \A y \in Participants : job'[y] = IF y = c THEN NoJob ELSE job[y]
  BY <1>2, GivesFacts DEF Fills
<1>4. ~InRing(j) /\ j \notin finished /\ \A y \in Participants \ {c} : job[y] # j
  BY <1>2, NewIsNew DEF Fills, Apart
<1>5. \A i \in DOMAIN Contents' : (Contents'[i] = j /\ i = Len(Contents) + 1)
                                  \/ (i \in DOMAIN Contents /\ Contents'[i] = Contents[i] /\ Contents[i] # j)
  BY <1>1, <1>4 DEF InRing
<1>6. \A i, n \in DOMAIN Contents' : Contents'[i] = Contents'[n] => i = n
  BY <1>5 DEF Apart
<1>7. \A i \in DOMAIN Contents' : Contents'[i] \notin finished'
  BY <1>2, <1>4, <1>5 DEF Apart
<1>8. ASSUME NEW x \in Participants, job'[x] # NoJob
      PROVE  /\ \A i \in DOMAIN Contents' : Contents'[i] # job'[x]
             /\ job'[x] \notin finished' /\ \A y \in Participants : job'[y] = job'[x] => y = x
  <2>1. x # c /\ job'[x] = job[x] /\ job[x] # j /\ job[x] # NoJob
    BY <1>3, <1>4, <1>8
  <2>2. \A i \in DOMAIN Contents' : Contents'[i] # job[x]
    BY <1>5, <2>1 DEF Apart, InRing
  <2>3. job[x] \notin finished /\ \A y \in Participants : job[y] = job[x] => y = x
    BY <2>1 DEF Apart
  <2>4. \A y \in Participants : job'[y] = job[x] => y = x
    BY <1>3, <2>1, <2>3
  <2>5. QED
    BY <1>2, <2>1, <2>2, <2>3, <2>4
<1>9. QED
  BY <1>2, <1>4, <1>6, <1>7, <1>8 DEF Apart, InRing

LEMMA StartsKeepsApart ==
  ASSUME TypeInv, Apart, NEW t \in Threads, Starts(t)
  PROVE  Apart' /\ Head(Contents) # NoJob
<1>1. /\ Contents \in Seq(Jobs) /\ Contents # <<>> /\ Contents' = Tail(Contents)
      /\ Head(Contents) \in Jobs /\ Head(Contents) = Contents[1]
      /\ DOMAIN Contents = 1 .. Len(Contents) /\ DOMAIN Contents' = 1 .. Len(Contents) - 1
      /\ Len(Contents) \in Nat \ {0}
      /\ \A i \in DOMAIN Contents' : Contents'[i] = Contents[i + 1] /\ i + 1 \in DOMAIN Contents /\ i + 1 # 1
      /\ 1 \in DOMAIN Contents
  BY HeadTailProperties DEF Starts, TypeInv, RingInv
<1> DEFINE h == Head(Contents)
<1>2. /\ t \in Participants /\ h # NoJob /\ finished' = finished
  BY <1>1, QueueAssumption DEF Participants, Starts
<1>3. \A y \in Participants : job'[y] = IF y = t THEN h ELSE job[y]
  BY <1>2, GivesFacts DEF Starts
<1>4. InRing(h)
  BY <1>1 DEF InRing
<1>5. h \notin finished /\ \A y \in Participants : job[y] # h
  BY <1>1, <1>2, <1>4 DEF Apart
<1> HIDE DEF h
<1>6. \A i \in DOMAIN Contents' : InRing(Contents'[i])
  BY <1>1 DEF InRing
<1>7. \A i \in DOMAIN Contents' : Contents'[i] # h
  BY <1>1 DEF Apart, h
<1>8. ASSUME NEW i \in DOMAIN Contents', NEW n \in DOMAIN Contents', Contents'[i] = Contents'[n] PROVE i = n
  <2>1. i + 1 = n + 1
    BY <1>1, <1>8 DEF Apart
  <2>2. QED
    BY <1>1, <2>1
<1>9. \A i \in DOMAIN Contents' : Contents'[i] \notin finished'
  BY <1>1, <1>2 DEF Apart
<1>10. ASSUME NEW x \in Participants, job'[x] # NoJob
       PROVE  /\ \A i \in DOMAIN Contents' : Contents'[i] # job'[x]
              /\ job'[x] \notin finished' /\ \A y \in Participants : job'[y] = job'[x] => y = x
  <2>1. CASE x = t
    BY <1>2, <1>3, <1>5, <1>7, <2>1
  <2>2. CASE x # t
    <3>1. job'[x] = job[x] /\ job[x] # NoJob
      BY <1>3, <1>10, <2>2
    <3>2. ~InRing(job[x]) /\ job[x] \notin finished /\ \A y \in Participants : job[y] = job[x] => y = x
      BY <3>1 DEF Apart
    <3>3. \A y \in Participants : job'[y] = job[x] => y = x
      BY <1>3, <1>5, <2>2, <3>2
    <3>4. \A i \in DOMAIN Contents' : Contents'[i] # job[x]
      BY <1>6, <3>2
    <3>5. QED
      BY <1>2, <3>1, <3>2, <3>3, <3>4
  <2>3. QED
    BY <2>1, <2>2
<1>11. QED
  BY <1>2, <1>8, <1>9, <1>10 DEF Apart, InRing, h

(* The ring stays as it is.                                                *)
LEMMA OthersKeepApart ==
  ASSUME TypeInv, Apart,
         \/ Rests
         \/ \E t \in Threads : Returns(t)
         \/ \E c \in Callers : Drops(c) \/ \E j \in Jobs : HandsIn(c, j)
  PROVE  Apart'
<1>1. Contents' = Contents /\ \A x : InRing(x)' <=> InRing(x)
  BY DEF Rests, Returns, Drops, HandsIn, InRing
<1>2. CASE Rests
  BY <1>1, <1>2 DEF Rests, Apart
<1>3. ASSUME NEW t \in Threads, Returns(t) PROVE Apart'
  <2>1. t \in Participants /\ job[t] # NoJob /\ finished' = finished \cup {job[t]}
    BY <1>3 DEF Participants, Returns
  <2>2. \A y \in Participants : job'[y] = IF y = t THEN NoJob ELSE job[y]
    BY <1>3, <2>1, GivesFacts DEF Returns
  <2>3. ~InRing(job[t]) /\ \A y \in Participants : job[y] = job[t] => y = t
    BY <2>1 DEF Apart
  <2>4. \A i \in DOMAIN Contents : Contents[i] # job[t]
    BY <2>3 DEF InRing
  <2>5. ASSUME NEW x \in Participants, job'[x] # NoJob
        PROVE  /\ \A i \in DOMAIN Contents' : Contents'[i] # job'[x]
               /\ job'[x] \notin finished' /\ \A y \in Participants : job'[y] = job'[x] => y = x
    BY <1>1, <2>1, <2>2, <2>3, <2>5 DEF Apart, InRing
  <2>6. QED
    BY <1>1, <2>1, <2>4, <2>5 DEF Apart, InRing
<1>4. ASSUME NEW c \in Callers, Drops(c) PROVE Apart'
  <2>1. c \in Participants /\ finished' = finished
    BY <1>4 DEF Participants, Drops
  <2>2. \A y \in Participants : job'[y] = IF y = c THEN NoJob ELSE job[y]
    BY <1>4, <2>1, GivesFacts DEF Drops
  <2>3. QED
    BY <1>1, <2>1, <2>2 DEF Apart
<1>5. ASSUME NEW c \in Callers, NEW j \in Jobs, HandsIn(c, j) PROVE Apart'
  <2>1. c \in Participants /\ finished' = finished
    BY <1>5 DEF Participants, HandsIn
  <2>2. \A y \in Participants : job'[y] = IF y = c THEN j ELSE job[y]
    BY <1>5, <2>1, GivesFacts DEF HandsIn
  <2>3. ~InRing(j) /\ j \notin finished /\ \A x \in Participants : job[x] # j
    BY <1>5, NewIsNew DEF HandsIn
  <2>4. QED
    BY <1>1, <2>1, <2>2, <2>3 DEF Apart
<1>6. QED
  BY <1>2, <1>3, <1>4, <1>5

LEMMA ApartStep == TypeInv /\ Apart /\ [Next]_vars => Apart'
BY JobsMove, FillsKeepsApart, StartsKeepsApart, OthersKeepApart

Running == {job[t] : t \in Threads} \ {NoJob}

LEMMA QueueInit == Init => Apart /\ TQ!Init
<1> SUFFICES ASSUME Init PROVE Apart /\ TQ!Init
  OBVIOUS
<1>1. Contents = <<>> /\ finished = {}
  BY DEF Init, Contents, Length
<1>2. \A x \in Participants : job[x] = NoJob
  BY DEF Init, Participants
<1>3. Apart
  BY <1>1, <1>2 DEF Apart
<1>4. QED
  BY <1>1, <1>2, <1>3 DEF TQ!Init, Participants

LEMMA QueueStep == TypeInv /\ Apart /\ [Next]_vars => [TQ!Next]_(TQ!vars)
<1> SUFFICES ASSUME TypeInv, Apart, [Next]_vars PROVE TQ!Next \/ UNCHANGED TQ!vars
  OBVIOUS
<1>1. Threads \subseteq Participants /\ \A c \in Callers : c \in Participants /\ c \notin Threads
  BY ThreadsAssumption DEF Participants
<1>2. CASE Rests
  BY <1>2 DEF Rests, TQ!vars
<1>3. ASSUME NEW c \in Callers, NEW j, Gives(c, j) PROVE Running' = Running
  BY <1>1, <1>3, GivesFacts DEF Running
<1>4. ASSUME NEW c \in Callers, Drops(c) \/ \E j \in Jobs : HandsIn(c, j) PROVE UNCHANGED TQ!vars
  BY <1>3, <1>4 DEF Drops, HandsIn, Running, TQ!vars
<1>5. ASSUME NEW c \in Callers, NEW j \in Jobs, Fills(c, j) PROVE TQ!Next
  <2>1. Running' = Running /\ Contents' = Append(Contents, j) /\ finished' = finished
    BY <1>3, <1>5 DEF Fills
  <2>2. ~InRing(j) /\ j \notin finished /\ \A t \in Threads : job[t] # j
    BY <1>5, FillsKeepsApart
  <2>3. TQ!Submit(j)
    BY <2>1, <2>2 DEF TQ!Submit, TQ!Known, TQ!Elements, InRing, Running
  <2>4. QED
    BY <2>3 DEF TQ!Next
<1>6. ASSUME NEW t \in Threads, Starts(t) PROVE TQ!Next
  <2>1. Contents # <<>> /\ Contents' = Tail(Contents) /\ finished' = finished /\ job[t] = NoJob
    BY <1>6 DEF Starts
  <2>2. \A u \in Threads : job'[u] = IF u = t THEN Head(Contents) ELSE job[u]
    BY <1>1, <1>6, GivesFacts DEF Starts
  <2>3. Head(Contents) # NoJob
    BY <1>6, StartsKeepsApart
  <2>4. Running' = Running \cup {Head(Contents)}
    BY <2>1, <2>2, <2>3 DEF Running
  <2>5. TQ!Start
    BY <2>1, <2>4 DEF TQ!Start, Running
  <2>6. QED
    BY <2>5 DEF TQ!Next
<1>7. ASSUME NEW t \in Threads, Returns(t) PROVE TQ!Next
  <2>1. job[t] # NoJob /\ Contents' = Contents /\ finished' = finished \cup {job[t]} /\ job[t] \in Jobs
    BY <1>1, <1>7 DEF Returns, TypeInv, PcTypes
  <2>2. \A u \in Threads : job'[u] = IF u = t THEN NoJob ELSE job[u]
    BY <1>1, <1>7, GivesFacts DEF Returns
  <2>3. \A u \in Threads : job[u] = job[t] => u = t
    BY <1>1, <2>1 DEF Apart
  <2>4. job[t] \in Running /\ Running' = Running \ {job[t]}
    BY <2>1, <2>2, <2>3 DEF Running
  <2>5. PICK j \in Jobs : j = job[t]
    BY <2>1
  <2>6. TQ!Finish(j)
    BY <2>1, <2>4, <2>5 DEF TQ!Finish, Running
  <2>7. QED
    BY <2>6 DEF TQ!Next
<1>8. QED
  BY <1>2, <1>4, <1>5, <1>6, <1>7, JobsMove

(* Jobs that POOL_add and POOL_tryAdd take start in the order in which     *)
(* they entered the ring and each returns once, for every size of the      *)
(* queue, however the pool is resized or freed meanwhile.                  *)
THEOREM PoolIsATaskQueue == Spec => ImplementsTaskQueue
<1>1. Init => TypeInv /\ Apart /\ TQ!Init
  BY TypeInit, QueueInit
<1>2. TypeInv /\ Apart /\ [Next]_vars => TypeInv' /\ Apart' /\ [TQ!Next]_(TQ!vars)
  BY TypeStep, ApartStep, QueueStep
<1>3. QED
  BY <1>1, <1>2, PTL DEF Spec, ImplementsTaskQueue, TQ!Spec

(***************************************************************************)
(* The trainer                                                             *)
(***************************************************************************)
allvars == <<vars, tvars>>

Tries == {x.try : x \in tried}     \* those that have been compared
Live == handed \ Tries

(* Every try handed in is in the pool or has returned, and is compared     *)
(* once, on the way through the thread that runs it; liveJobs counts those *)
(* that have not been compared.                                            *)
Places ==
  /\ \A i \in DOMAIN Contents : Contents[i] \in Live
  /\ \A c \in Callers : job[c] # NoJob => job[c] \in Live
  /\ \A t \in Threads : job[t] # NoJob => job[t] \in handed
  /\ \A t \in Threads : stage[t] = "trying" <=> job[t] \notin Tries
  /\ \A j \in handed : j \in finished \/ InRing(j) \/ \E x \in Participants : job[x] = j

Accounts ==
  /\ handed \subseteq Jobs /\ IsFiniteSet(handed)
  /\ finished \subseteq Tries /\ Tries \subseteq handed
  /\ best.liveJobs = Cardinality(Live)
  /\ Places

AtRest == {"pool", "absent", "context", "result", "free", "freeing", "done"}

BestRecord == [exists : BOOLEAN, liveJobs : Nat, compressedSize : 0 .. Error, dictSize : Nat,
               try : Jobs \cup {NoTry}]

TrainTypes ==
  /\ main \in AtRest \cup {"loop", "wait", "asleep", "destroy", "destroyAsleep"}
  /\ round \in [d : 1 .. Len(Rounds) + 1, context : BOOLEAN]
  /\ main \in {"pool", "absent", "context", "loop", "wait", "asleep"} => round.d <= Len(Rounds)
  /\ k \in Nat
  /\ best \in BestRecord
  /\ stage \in [Threads -> {"trying", "broadcast", "returned"}]
  /\ tried \in SUBSET [try : Jobs, size : 0 .. Error]

(* COVER_best_t and COVER_ctx_t outlive the tries that use them.           *)
Lifetimes ==
  /\ main \in AtRest => Live = {}
  /\ Live # {} => best.exists /\ round.context /\ \A j \in Live : \E i \in DOMAIN Round : Round[i] = j
  /\ main \in {"loop", "wait", "asleep"} => round.context /\ best.exists
  /\ main \in {"context", "result", "destroy", "destroyAsleep"} => best.exists

(* The best of those compared so far, unless finish has run out of memory. *)
BestSoFar ==
  /\ main = "result" => holder = Nobody
  /\ holder = Nobody => \A x \in tried : best.compressedSize <= x.size
  /\ best.try # NoTry => [try |-> best.try, size |-> best.compressedSize] \in tried

(* Nothing is dropped: the owner hands in no job after the shutdown.       *)
NoLateCalls == shutdown => pc[Owner] \in {"broadcast", "join", "freed"}

PoolInv == TypeInv /\ Apart /\ NoLateCalls
TrainInv == TrainTypes /\ Accounts /\ Lifetimes /\ BestSoFar

-----------------------------------------------------------------------------
(* The trainer as a user of the pool *)

LEMMA TryOfRound ==
  ASSUME TrainTypes, main = "loop", k < Len(Round)
  PROVE  Round[k + 1] \in Jobs /\ k + 1 \in DOMAIN Round
<1>1. round.d \in 1 .. Len(Rounds) /\ k \in Nat
  BY DEF TrainTypes
<1>2. Round \in Seq(Jobs)
  BY <1>1, ElementOfSeq, TriesAssumption DEF Round
<1>3. k + 1 \in 1 .. Len(Round)
  BY <1>1, <1>2, LenProperties
<1>4. QED
  BY <1>2, <1>3, ElementOfSeq, LenProperties

LEMMA StepOfPool == TrainTypes /\ [TrainNext]_allvars => [Next]_vars
<1> SUFFICES ASSUME TrainTypes, [TrainNext]_allvars PROVE [Next]_vars
  OBVIOUS
<1>1. CASE HandIn
  <2>1. PICK j \in Jobs : j = Round[k + 1]
    BY <1>1, TryOfRound DEF HandIn
  <2>2. CallAdd(Owner, j)
    BY <1>1, <2>1 DEF HandIn
  <2>3. QED
    BY <2>2, OwnerAssumption DEF Next
<1>2. CASE OwnerInPool
  BY <1>2, OwnerAssumption DEF OwnerInPool, Next
<1>3. CASE FreePool
  BY <1>3 DEF FreePool, Next
<1>4. ASSUME NEW t \in Threads, ThreadStep(t) PROVE [Next]_vars
  <2>1. CASE TryReturns(t)
    BY <2>1 DEF TryReturns, Next
  <2>2. CASE ThreadLoop(t)
    BY <2>2 DEF Next
  <2>3. CASE BestFinish(t) \/ BestBroadcast(t)
    BY <2>3 DEF BestFinish, BestBroadcast
  <2>4. QED
    BY <1>4, <2>1, <2>2, <2>3 DEF ThreadStep
<1>5. CASE PoolMade \/ OpenContext \/ Skip \/ EndOfLoop \/ BestWait \/ Result \/ BestDestroy \/ Return
  BY <1>5 DEF PoolMade, OpenContext, Skip, EndOfLoop, BestWait, Result, BestDestroy, Return
<1>6. CASE SpuriousBestWakeup \/ SpuriousWakeup
  BY <1>6 DEF SpuriousBestWakeup, Next
<1>7. CASE UNCHANGED allvars
  BY <1>7 DEF allvars
<1>8. QED
  BY <1>1, <1>2, <1>3, <1>4, <1>5, <1>6, <1>7 DEF TrainNext, OwnerStep

LEMMA LateCallsStep == TypeInv /\ NoLateCalls /\ [Next]_vars => NoLateCalls'
<1> SUFFICES ASSUME TypeInv, NoLateCalls, [Next]_vars PROVE NoLateCalls'
  OBVIOUS
<1>1. /\ Owner \in Participants /\ Owner \notin Threads /\ Owner \notin Poppers
      /\ Threads \subseteq Participants /\ Callers \subseteq Participants
      /\ {"run", "relock", "lock", "exited", "wait", "signal", "add", "addWait", "out"} \subseteq PcValue
      /\ pc \in [Participants -> PcValue] /\ PcTypes
  BY OwnerAssumption, ThreadsAssumption DEF Participants, Poppers, PcValue, ThreadPc, CallerPc, TypeInv, PcTypes
<1>2. ASSUME NEW x \in Participants \ {Owner}, NEW to \in PcValue, Moves(x, to), shutdown' = shutdown
      PROVE  NoLateCalls'
  BY <1>1, <1>2, MovesFacts DEF NoLateCalls, Pushers
<1>3. ASSUME pc'[Owner] = pc[Owner], shutdown' = shutdown PROVE NoLateCalls'
  BY <1>3 DEF NoLateCalls
<1>4. ASSUME pc[Owner] \in {"add", "out", "addWait"}, shutdown' = shutdown PROVE NoLateCalls'
  BY <1>4 DEF NoLateCalls
<1>5. ASSUME NEW t \in Threads, ThreadLoop(t) \/ JobReturns(t) PROVE NoLateCalls'
  <2>1. t \in Participants \ {Owner} /\ t \notin Pushers
    BY <1>1, ThreadsAssumption DEF Pushers
  <2>2. shutdown' = shutdown /\ \E to \in PcValue : Moves(t, to)
    BY <1>1, <1>5, <2>1, SignalMoves
       DEF ThreadLoop, Wait, Pop, SignalPusher, Release, JobReturns, Moves, Poppers
  <2>3. QED
    BY <1>2, <2>1, <2>2
<1>6. ASSUME NEW c \in Callers, Add(c) \/ \E j \in Jobs : CallAdd(c, j) \/ TryAdd(c, j) PROVE NoLateCalls'
  <2>1. shutdown' = shutdown /\ pc[c] \in {"add", "out"}
    BY <1>6 DEF Add, CallAdd, TryAdd
  <2>2. c = Owner \/ \E to \in PcValue : Moves(c, to)
    <3>1. c \notin Poppers /\ c \notin Pushers
      BY <2>1, ThreadsAssumption DEF Poppers, Pushers
    <3>2. QED
      BY <1>1, <1>6, <3>1, SignalMoves DEF Add, CallAdd, TryAdd, Insert, Moves
  <2>3. QED
    BY <1>1, <1>2, <1>4, <2>1, <2>2
<1>7. CASE Create \/ \E n \in 1 .. Cardinality(Threads) : Resize(n)
  <2>1. CASE Created \/ CreateFails
    BY <1>1, <2>1 DEF Created, CreateFails, NoLateCalls
  <2>2. ASSUME NEW t \in Threads, CreateThread(t) PROVE NoLateCalls'
    BY <1>1, <1>3, <2>2 DEF CreateThread
  <2>3. ASSUME NEW n, Resize(n) PROVE NoLateCalls'
    BY <1>4, <2>3 DEF Resize
  <2>4. QED
    BY <1>7, <2>1, <2>2, <2>3 DEF Create
<1>8. CASE Freeing \/ Free
  <2>1. Free => pc[Owner] = "out"
    BY OwnerAssumption DEF Free
  <2>2. CASE BroadcastAll
    BY <1>1, <2>2 DEF BroadcastAll, Broadcast, Pushers, NoLateCalls
  <2>3. QED
    BY <1>1, <1>4, <1>8, <2>1, <2>2 DEF Freeing, Free, ShutDown, Join, NoLateCalls
<1>9. CASE SpuriousWakeup
  BY <1>1, <1>3, <1>9 DEF SpuriousWakeup, Poppers, Pushers, NoLateCalls
<1>10. CASE UNCHANGED vars
  BY <1>3, <1>10 DEF vars
<1>11. QED
  BY <1>5, <1>6, <1>7, <1>8, <1>9, <1>10 DEF Next

LEMMA PoolStep == TrainTypes /\ PoolInv /\ [TrainNext]_allvars => PoolInv'
BY StepOfPool, TypeStep, ApartStep, LateCallsStep DEF PoolInv

-----------------------------------------------------------------------------
(* The accounts *)

LEMMA LiveFinite == Accounts => IsFiniteSet(Live) /\ Cardinality(Live) \in Nat
BY FS_Subset, FS_CardinalityType DEF Accounts, Live

LEMMA NobodyLiveIs == Accounts => (NobodyLive <=> Live = {})
BY LiveFinite, FS_EmptySet DEF Accounts, NobodyLive

(* The pool moves the jobs it has.                                         *)
LEMMA PoolKeepsPlaces ==
  ASSUME PoolInv, Accounts, UNCHANGED <<handed, tried, stage>>,
         \/ Rests
         \/ \E t \in Threads : Starts(t)
         \/ \E c \in Callers : (Drops(c) /\ job[c] = NoJob) \/ (job[c] \in Jobs /\ Fills(c, job[c]))
  PROVE  Places'
<1>1. /\ Threads \subseteq Participants /\ \A c \in Callers : c \in Participants /\ c \notin Threads
      /\ Live' = Live /\ Tries' = Tries /\ NoJob \notin Jobs /\ Tries \subseteq Jobs
  BY ThreadsAssumption, QueueAssumption DEF Participants, Live, Tries, Accounts
<1>2. CASE Rests
  BY <1>1, <1>2 DEF Rests, Accounts, Places, InRing
<1>3. ASSUME NEW c \in Callers, Drops(c), job[c] = NoJob PROVE Places'
  <2>1. \A y \in Participants : job'[y] = job[y]
    BY <1>1, <1>3, GivesFacts DEF Drops, PoolInv
  <2>2. Contents' = Contents /\ finished' = finished
    BY <1>3 DEF Drops
  <2>3. QED
    BY <1>1, <2>1, <2>2 DEF Accounts, Places, InRing
<1>4. ASSUME NEW t \in Threads, Starts(t) PROVE Places'
  <2>1. /\ Contents \in Seq(Jobs) /\ Contents' = Tail(Contents) /\ Head(Contents) = Contents[1]
        /\ \A i \in DOMAIN Contents' : Contents'[i] = Contents[i + 1] /\ i + 1 \in DOMAIN Contents
        /\ 1 \in DOMAIN Contents /\ finished' = finished /\ job[t] = NoJob
        /\ \A i \in DOMAIN Contents : i = 1 \/ (i - 1 \in DOMAIN Contents' /\ Contents'[i - 1] = Contents[i])
    <3>1. /\ Contents \in Seq(Jobs) /\ Contents # <<>> /\ Contents' = Tail(Contents)
          /\ DOMAIN Contents = 1 .. Len(Contents) /\ DOMAIN Contents' = 1 .. Len(Contents) - 1
          /\ Len(Contents) \in Nat \ {0}
          /\ \A i \in 1 .. Len(Contents) - 1 : Contents'[i] = Contents[i + 1]
          /\ Head(Contents) = Contents[1]
      BY <1>4, HeadTailProperties DEF Starts, PoolInv, TypeInv, RingInv
    <3>2. \A i \in DOMAIN Contents : i = 1 \/ (i - 1 \in DOMAIN Contents' /\ Contents'[i - 1] = Contents[i])
      BY <3>1
    <3>3. QED
      BY <1>4, <3>1, <3>2 DEF Starts
  <2>2. PICK h : h = Contents[1]
    OBVIOUS
  <2>3. \A y \in Participants : job'[y] = IF y = t THEN h ELSE job[y]
    BY <1>1, <1>4, <2>1, <2>2, GivesFacts DEF Starts, PoolInv
  <2>4. h \in Live /\ t \in Participants
    BY <1>1, <2>1, <2>2 DEF Accounts, Places
  <2>5. \A i \in DOMAIN Contents' : Contents'[i] \in Live'
    BY <1>1, <2>1 DEF Accounts, Places
  <2>6. \A c \in Callers : job'[c] # NoJob => job'[c] \in Live'
    BY <1>1, <2>3 DEF Accounts, Places
  <2>7. \A u \in Threads : job'[u] # NoJob => job'[u] \in handed'
    BY <1>1, <2>3, <2>4 DEF Accounts, Places, Live
  <2>8. ASSUME NEW u \in Threads PROVE stage'[u] = "trying" <=> job'[u] \notin Tries'
    BY <1>1, <2>1, <2>3, <2>4 DEF Accounts, Places, Live
  <2>9. ASSUME NEW j \in handed'
        PROVE  \/ j \in finished' \/ (\E i \in DOMAIN Contents' : Contents'[i] = j)
               \/ \E x \in Participants : job'[x] = j
    <3>1. CASE j \in finished
      BY <2>1, <3>1
    <3>2. CASE InRing(j)
      <4>1. PICK i \in DOMAIN Contents : Contents[i] = j
        BY <3>2 DEF InRing
      <4>2. QED
        BY <2>1, <2>2, <2>3, <2>4, <4>1
    <3>3. ASSUME NEW x \in Participants, job[x] = j PROVE job'[x] = j
      <4>1. j # NoJob
        BY <2>9, <1>1 DEF Accounts
      <4>2. QED
        BY <2>1, <2>3, <3>3, <4>1
    <3>4. QED
      BY <2>9, <3>1, <3>2, <3>3 DEF Accounts, Places
  <2>10. QED
    BY <2>5, <2>6, <2>7, <2>8, <2>9 DEF Places, InRing
<1>5. ASSUME NEW c \in Callers, job[c] \in Jobs, Fills(c, job[c]) PROVE Places'
  <2>1. PICK j \in Jobs : j = job[c]
    BY <1>5
  <2>2. /\ Contents \in Seq(Jobs) /\ Contents' = Append(Contents, j) /\ finished' = finished
        /\ \A i \in DOMAIN Contents : i \in DOMAIN Contents' /\ Contents'[i] = Contents[i]
        /\ \A i \in DOMAIN Contents' : Contents'[i] = j \/ (i \in DOMAIN Contents /\ Contents'[i] = Contents[i])
        /\ \E i \in DOMAIN Contents' : Contents'[i] = j
    <3>1. /\ Contents \in Seq(Jobs) /\ Contents' = Append(Contents, j) /\ finished' = finished
          /\ DOMAIN Contents = 1 .. Len(Contents) /\ DOMAIN Contents' = 1 .. Len(Contents) + 1
          /\ Len(Contents) \in Nat
          /\ \A i \in 1 .. Len(Contents) : Contents'[i] = Contents[i]
          /\ Contents'[Len(Contents) + 1] = j
      BY <1>5, <2>1, AppendProperties DEF Fills, PoolInv, TypeInv, RingInv
    <3>2. QED
      BY <3>1
  <2>3. \A y \in Participants : job'[y] = IF y = c THEN NoJob ELSE job[y]
    BY <1>1, <1>5, GivesFacts DEF Fills, PoolInv
  <2>4. j \in Live /\ j # NoJob /\ job[c] = j
    BY <1>1, <2>1 DEF Accounts, Places
  <2>5. \A i \in DOMAIN Contents' : Contents'[i] \in Live'
    BY <1>1, <2>2, <2>4 DEF Accounts, Places
  <2>6. \A d \in Callers : job'[d] # NoJob => job'[d] \in Live'
    BY <1>1, <2>3 DEF Accounts, Places
  <2>7. \A u \in Threads : job'[u] = job[u]
    BY <1>1, <2>3
  <2>8. \A i \in handed' : i \in finished' \/ (\E y \in DOMAIN Contents' : Contents'[y] = i)
                           \/ \E x \in Participants : job'[x] = i
    BY <1>1, <2>2, <2>3, <2>4 DEF Accounts, Places, InRing
  <2>9. QED
    BY <1>1, <2>5, <2>6, <2>7, <2>8 DEF Accounts, Places, InRing
<1>6. QED
  BY <1>2, <1>3, <1>4, <1>5

(* A try that is handed in has not been handed in before.                  *)
LEMMA HandInKeepsAccounts ==
  ASSUME PoolInv, TrainTypes, Accounts, HandIn
  PROVE  /\ Accounts'
         /\ \E i \in DOMAIN Round : Live' = Live \cup {Round[i]}
<1>1. PICK j \in Jobs : j = Round[k + 1] /\ k + 1 \in DOMAIN Round
  BY TryOfRound DEF HandIn
<1>2. /\ HandsIn(Owner, j) /\ New(j) /\ handed' = handed \cup {j} /\ tried' = tried /\ stage' = stage
      /\ best' = [best EXCEPT !.liveJobs = @ + 1]
  BY <1>1, CallMovesJobs, OwnerAssumption DEF HandIn, CallAdd, PoolInv
<1>3. /\ Owner \in Participants /\ Threads \subseteq Participants /\ Owner \notin Threads /\ j # NoJob
      /\ \A c \in Callers : c \in Participants
  BY OwnerAssumption, ThreadsAssumption, QueueAssumption DEF Participants
<1>4. \A y \in Participants : job'[y] = IF y = Owner THEN j ELSE job[y]
  BY <1>2, <1>3, GivesFacts DEF HandsIn, PoolInv
<1>5. j \notin handed /\ \A x \in Participants : job[x] # j
  BY <1>2, NewIsNew DEF Accounts, Places
<1>6. /\ Tries' = Tries /\ Live' = Live \cup {j} /\ j \notin Live
      /\ Contents' = Contents /\ finished' = finished
  BY <1>2, <1>5 DEF Accounts, Tries, Live, HandsIn
<1>7. Cardinality(Live') = Cardinality(Live) + 1
  BY <1>6, LiveFinite, FS_AddElement
<1>8. best'.liveJobs = Cardinality(Live')
  BY <1>2, <1>7, LiveFinite DEF Accounts, TrainTypes, BestRecord
<1>9. handed' \subseteq Jobs /\ IsFiniteSet(handed')
  BY <1>2, FS_AddElement DEF Accounts
<1>10. Places'
  <2>1. \A i \in DOMAIN Contents' : Contents'[i] \in Live'
    BY <1>6 DEF Accounts, Places
  <2>2. \A c \in Callers : job'[c] # NoJob => job'[c] \in Live'
    BY <1>3, <1>4, <1>6 DEF Accounts, Places
  <2>3. \A t \in Threads : job'[t] = job[t]
    BY <1>3, <1>4
  <2>4. ASSUME NEW i \in handed', i # j
        PROVE  \/ i \in finished \/ (\E y \in DOMAIN Contents : Contents[y] = i)
               \/ \E x \in Participants : job'[x] = i
    <3>1. i \in finished \/ InRing(i) \/ \E x \in Participants : job[x] = i
      BY <1>2, <2>4 DEF Accounts, Places
    <3>2. job[Owner] = NoJob /\ i # NoJob
      BY <1>2, <1>9, <2>4, QueueAssumption DEF HandsIn
    <3>3. QED
      BY <1>3, <1>4, <3>1, <3>2 DEF InRing
  <2>5. \A i \in handed' : i \in finished' \/ (\E y \in DOMAIN Contents' : Contents'[y] = i)
                           \/ \E x \in Participants : job'[x] = i
    BY <1>3, <1>4, <1>6, <2>4
  <2>6. \A t \in Threads : job'[t] # NoJob => job'[t] \in handed'
    BY <1>2, <2>3 DEF Accounts, Places
  <2>7. \A t \in Threads : stage'[t] = "trying" <=> job'[t] \notin Tries'
    BY <1>2, <1>6, <2>3 DEF Accounts, Places
  <2>8. QED
    BY <2>1, <2>2, <2>5, <2>6, <2>7 DEF Places, InRing
<1>11. QED
  BY <1>1, <1>2, <1>6, <1>8, <1>9, <1>10 DEF Accounts

(* A try that is compared has not been compared before.                    *)
LEMMA FinishKeepsAccounts ==
  ASSUME PoolInv, TrainTypes, Accounts, NEW t \in Threads, BestFinish(t)
  PROVE  Accounts' /\ job[t] \in Live /\ Live' = Live \ {job[t]}
<1>1. PICK j, size :
        /\ j = job[t] /\ tried' = tried \cup {[try |-> j, size |-> size]}
        /\ best'.liveJobs = best.liveJobs - 1
        /\ stage[t] = "trying" /\ stage'[t] # "trying"
        /\ \A u \in Threads \ {t} : stage'[u] = stage[u]
        /\ pc[t] = "run" /\ handed' = handed
        /\ UNCHANGED vars
  <2>1. /\ pc[t] = "run" /\ stage[t] = "trying" /\ handed' = handed /\ UNCHANGED vars
        /\ best \in BestRecord
        /\ stage \in [Threads -> {"trying", "broadcast", "returned"}]
    BY DEF BestFinish, TrainTypes
  <2>2. PICK size \in Sizes(job[t]) :
          /\ tried' = tried \cup {[try |-> job[t], size |-> size]}
          /\ best'.liveJobs = best.liveJobs - 1
          /\ stage' = [stage EXCEPT ![t] = "broadcast"] \/ stage' = [stage EXCEPT ![t] = "returned"]
    BY <2>1 DEF BestFinish, BestRecord
  <2>3. QED
    BY <2>1, <2>2
<1>2. t \in Participants /\ j # NoJob /\ \A c \in Callers : c \in Participants /\ c # t
  BY <1>1, HoldersOfJobs, ThreadsAssumption DEF Participants, PoolInv
<1>3. j \in Live /\ j \in Jobs
  BY <1>1, <1>2 DEF Accounts, Places, Live
<1>4. Tries' = Tries \cup {j} /\ Live' = Live \ {j}
  <2>1. PICK new : new = [try |-> j, size |-> size]
    OBVIOUS
  <2>2. tried' = tried \cup {new} /\ new.try = j
    BY <1>1, <2>1
  <2>3. Tries' = Tries \cup {j}
    BY <2>2 DEF Tries
  <2>4. QED
    BY <1>1, <2>3 DEF Live
<1>5. Cardinality(Live') = Cardinality(Live) - 1
  BY <1>3, <1>4, LiveFinite, FS_RemoveElement
<1>6. best'.liveJobs = Cardinality(Live')
  BY <1>1, <1>5, LiveFinite DEF Accounts
<1>7. job' = job /\ finished' = finished /\ Contents' = Contents
  BY <1>1, RingRests DEF vars, Rests, PoolInv
<1>8. /\ \A i \in DOMAIN Contents : Contents[i] # j
      /\ \A x \in Participants : job[x] = j => x = t
  BY <1>1, <1>2 DEF PoolInv, Apart, InRing
<1>9. Places'
  <2>1. \A i \in DOMAIN Contents' : Contents'[i] \in Live'
    BY <1>4, <1>7, <1>8 DEF Accounts, Places
  <2>2. \A c \in Callers : job'[c] # NoJob => job'[c] \in Live'
    BY <1>2, <1>4, <1>7, <1>8 DEF Accounts, Places
  <2>3. ASSUME NEW u \in Threads PROVE stage'[u] = "trying" <=> job'[u] \notin Tries'
    BY <1>1, <1>4, <1>7, <1>8, <2>3 DEF Accounts, Places, Participants
  <2>4. QED
    BY <1>1, <1>7, <2>1, <2>2, <2>3 DEF Accounts, Places, InRing
<1>10. QED
  BY <1>1, <1>3, <1>4, <1>6, <1>7, <1>9 DEF Accounts, Live

LEMMA ReturnKeepsAccounts ==
  ASSUME PoolInv, TrainTypes, Accounts, NEW t \in Threads, TryReturns(t)
  PROVE  Accounts' /\ Live' = Live
<1>1. /\ Returns(t) /\ stage[t] = "returned" /\ UNCHANGED <<best, handed, tried>>
      /\ \A u \in Threads : stage'[u] = IF u = t THEN "trying" ELSE stage[u]
  BY ReturnMovesJobs DEF TryReturns, PoolInv, TrainTypes
<1>2. t \in Participants /\ Threads \subseteq Participants /\ \A c \in Callers : c \in Participants /\ c # t
  BY ThreadsAssumption DEF Participants
<1>3. \A y \in Participants : job'[y] = IF y = t THEN NoJob ELSE job[y]
  BY <1>1, <1>2, GivesFacts DEF Returns, PoolInv
<1>4. job[t] \in Tries /\ finished' = finished \cup {job[t]} /\ Contents' = Contents
  BY <1>1 DEF Returns, Accounts, Places
<1>5. Tries' = Tries /\ Live' = Live /\ NoJob \notin Tries
  BY <1>1, QueueAssumption DEF Tries, Live, Accounts
<1>6. Places'
  <2>1. \A c \in Callers : job'[c] = job[c]
    BY <1>2, <1>3
  <2>2. ASSUME NEW u \in Threads PROVE stage'[u] = "trying" <=> job'[u] \notin Tries'
    BY <1>1, <1>2, <1>3, <1>5 DEF Accounts, Places
  <2>3. \A u \in Threads : job'[u] # NoJob => job'[u] \in handed'
    BY <1>1, <1>2, <1>3 DEF Accounts, Places
  <2>4. \A j \in handed' : j \in finished' \/ (\E i \in DOMAIN Contents' : Contents'[i] = j)
                           \/ \E x \in Participants : job'[x] = j
    BY <1>1, <1>2, <1>3, <1>4 DEF Accounts, Places, InRing
  <2>5. \A i \in DOMAIN Contents' : Contents'[i] \in Live'
    BY <1>4, <1>5 DEF Accounts, Places
  <2>6. \A c \in Callers : job'[c] # NoJob => job'[c] \in Live'
    BY <1>5, <2>1 DEF Accounts, Places
  <2>7. QED
    BY <2>2, <2>3, <2>4, <2>5, <2>6 DEF Places, InRing
<1>7. QED
  BY <1>1, <1>4, <1>5, <1>6 DEF Accounts

(* What a step does to the accounts.                                       *)
LEMMA OthersKeepAccounts ==
  ASSUME PoolInv, Accounts, UNCHANGED <<handed, tried, stage>>, best'.liveJobs = best.liveJobs,
         \/ UNCHANGED vars
         \/ \E t \in Threads : ThreadLoop(t)
         \/ Create \/ Freeing \/ SpuriousWakeup \/ Free \/ Add(Owner)
  PROVE  Accounts' /\ Live' = Live
<1>1. Live' = Live /\ Tries' = Tries
  BY DEF Live, Tries
<1>2. CASE Add(Owner)
  <2>1. ~Drops(Owner)
    BY <1>2 DEF Drops, Add, PoolInv, NoLateCalls
  <2>2. Rests \/ (job[Owner] \in Jobs /\ Fills(Owner, job[Owner]))
    BY <1>2, <2>1, AddMovesJobs, OwnerAssumption DEF PoolInv
  <2>3. Places'
    BY <2>2, PoolKeepsPlaces, OwnerAssumption
  <2>4. finished' = finished
    BY <1>2 DEF Add
  <2>5. QED
    BY <1>1, <2>3, <2>4 DEF Accounts
<1>3. CASE Rests
  BY <1>1, <1>3, PoolKeepsPlaces DEF Accounts, Rests
<1>4. ASSUME NEW t \in Threads, Starts(t) PROVE Accounts'
  BY <1>1, <1>4, PoolKeepsPlaces DEF Accounts, Starts
<1>5. UNCHANGED vars => Rests
  BY RingRests DEF vars, PoolInv
<1>6. QED
  BY <1>1, <1>2, <1>3, <1>4, <1>5, LoopMovesJobs, OwnerMovesNoJobs DEF PoolInv

LEMMA AccountsStep ==
  ASSUME PoolInv, TrainTypes, Accounts, [TrainNext]_allvars
  PROVE  /\ Accounts'
         /\ \/ Live' \subseteq Live /\ (Live' = Live \/ \E t \in Threads : BestFinish(t))
            \/ HandIn /\ \E i \in DOMAIN Round : Live' = Live \cup {Round[i]}
<1> DEFINE Goal ==
      /\ Accounts'
      /\ \/ Live' \subseteq Live /\ (Live' = Live \/ \E t \in Threads : BestFinish(t))
         \/ HandIn /\ \E i \in DOMAIN Round : Live' = Live \cup {Round[i]}
<1>1. CASE HandIn
  BY <1>1, HandInKeepsAccounts
<1>2. CASE OwnerInPool
  BY <1>2, OthersKeepAccounts DEF OwnerInPool, tvars
<1>3. CASE FreePool
  BY <1>3, OthersKeepAccounts DEF FreePool
<1>4. ASSUME NEW t \in Threads, ThreadStep(t) PROVE Goal
  <2>1. CASE BestFinish(t)
    BY <2>1, FinishKeepsAccounts
  <2>2. CASE TryReturns(t)
    BY <2>2, ReturnKeepsAccounts
  <2>3. CASE ThreadLoop(t) /\ UNCHANGED tvars
    BY <2>3, OthersKeepAccounts DEF tvars
  <2>4. CASE BestBroadcast(t)
    <3>1. /\ UNCHANGED <<vars, best, handed, tried>> /\ stage[t] = "broadcast"
          /\ \A u \in Threads : stage'[u] = IF u = t THEN "returned" ELSE stage[u]
      BY <2>4 DEF BestBroadcast, TrainTypes
    <3>2. Rests /\ Tries' = Tries /\ Live' = Live
      BY <3>1, RingRests DEF vars, PoolInv, Tries, Live
    <3>3. \A u \in Threads : stage'[u] = "trying" <=> stage[u] = "trying"
      BY <3>1
    <3>4. Places'
      BY <3>1, <3>2, <3>3 DEF Rests, Accounts, Places, InRing
    <3>5. QED
      BY <3>1, <3>2, <3>4 DEF Accounts, Rests
  <2>5. QED
    BY <1>4, <2>1, <2>2, <2>3, <2>4 DEF ThreadStep
<1>5. CASE PoolMade \/ OpenContext \/ Skip \/ EndOfLoop \/ BestWait \/ Result \/ BestDestroy \/ Return
  <2>1. UNCHANGED <<vars, handed, tried, stage>> /\ best'.liveJobs = best.liveJobs
    BY <1>5 DEF PoolMade, OpenContext, Skip, EndOfLoop, BestWait, Result, BestDestroy, Return, TrainTypes, BestRecord
  <2>2. QED
    BY <2>1, OthersKeepAccounts
<1>6. CASE SpuriousBestWakeup \/ (SpuriousWakeup /\ UNCHANGED tvars)
  BY <1>6, OthersKeepAccounts DEF SpuriousBestWakeup, tvars
<1>7. CASE UNCHANGED allvars
  BY <1>7, OthersKeepAccounts DEF allvars, tvars
<1>8. QED
  BY <1>1, <1>2, <1>3, <1>4, <1>5, <1>6, <1>7 DEF TrainNext, OwnerStep

-----------------------------------------------------------------------------
(* The owner and the best try *)

LEMMA TypesStep ==
  ASSUME PoolInv, TrainTypes, Accounts, [TrainNext]_allvars
  PROVE  TrainTypes'
<1>1. Len(Rounds) \in Nat \ {0}
  BY TriesAssumption, EmptySeq, LenProperties
<1>2. Error = 1000
  BY DEF Error
<1>3. CASE HandIn
  <2>1. /\ UNCHANGED <<main, round, stage, tried>> /\ k' = k + 1
        /\ best' = [best EXCEPT !.liveJobs = best.liveJobs + 1]
    BY <1>3 DEF HandIn
  <2>2. best.liveJobs + 1 \in Nat /\ k' \in Nat /\ best \in BestRecord
    BY <2>1 DEF TrainTypes, BestRecord
  <2>3. best' \in BestRecord
    BY <2>1, <2>2 DEF BestRecord
  <2>4. QED
    BY <2>1, <2>2, <2>3 DEF TrainTypes
<1>4. CASE OwnerInPool \/ UNCHANGED allvars \/ (SpuriousWakeup /\ UNCHANGED tvars)
  BY <1>4 DEF OwnerInPool, allvars, tvars, TrainTypes, AtRest
<1>5. ASSUME NEW t \in Threads, ThreadStep(t) PROVE TrainTypes'
  <2>1. CASE BestFinish(t)
    <3>1. job[t] \in Jobs /\ job[t] \in Live /\ IsFiniteSet(Live) /\ Cardinality(Live) \in Nat
      BY <2>1, FinishKeepsAccounts, LiveFinite DEF Accounts, Live
    <3>2. best.liveJobs - 1 \in Nat
      BY <3>1, FS_EmptySet DEF Accounts
    <3>3. Sizes(job[t]) \subseteq 0 .. Error /\ DictSize[job[t]] \in Nat
      BY <1>2, <3>1, TriesAssumption DEF Sizes
    <3>4. /\ UNCHANGED <<main, round, k>>
          /\ \E size \in Sizes(job[t]) :
               /\ tried' = tried \cup {[try |-> job[t], size |-> size]}
               /\ \/ best' = [best EXCEPT !.liveJobs = @ - 1]
                  \/ best' = [[best EXCEPT !.liveJobs = @ - 1]
                                EXCEPT !.compressedSize = size, !.dictSize = DictSize[job[t]], !.try = job[t]]
                  \/ best' = [[best EXCEPT !.liveJobs = @ - 1]
                                EXCEPT !.compressedSize = Error, !.dictSize = 0, !.try = NoTry]
               /\ \E at \in {"broadcast", "returned"} : stage' = [stage EXCEPT ![t] = at]
      BY <2>1 DEF BestFinish
    <3>5. best' \in BestRecord
      <4>1. PICK n, size : n = best.liveJobs - 1 /\ n \in Nat /\ size \in 0 .. Error
                           /\ \/ best' = [best EXCEPT !.liveJobs = n]
                              \/ best' = [[best EXCEPT !.liveJobs = n] EXCEPT !.compressedSize = size,
                                            !.dictSize = DictSize[job[t]], !.try = job[t]]
                              \/ best' = [[best EXCEPT !.liveJobs = n] EXCEPT !.compressedSize = Error,
                                            !.dictSize = 0, !.try = NoTry]
        BY <3>2, <3>3, <3>4
      <4>2. Error \in 0 .. Error
        BY <1>2
      <4>3. best \in BestRecord
        BY DEF TrainTypes
      <4>4. PICK done \in BestRecord : done = [best EXCEPT !.liveJobs = n]
        BY <4>1, <4>3 DEF BestRecord
      <4>5. \/ best' = done
            \/ best' = [done EXCEPT !.compressedSize = size, !.dictSize = DictSize[job[t]], !.try = job[t]]
            \/ best' = [done EXCEPT !.compressedSize = Error, !.dictSize = 0, !.try = NoTry]
        BY <4>1, <4>4
      <4>6. job[t] \in Jobs \cup {NoTry} /\ NoTry \in Jobs \cup {NoTry} /\ 0 \in Nat
        BY <3>1
      <4>7. QED
        BY <3>3, <4>1, <4>2, <4>4, <4>5, <4>6 DEF BestRecord
    <3>6. tried' \in SUBSET [try : Jobs, size : 0 .. Error] /\ stage' \in [Threads -> {"trying", "broadcast", "returned"}]
      BY <3>1, <3>3, <3>4 DEF TrainTypes
    <3>7. QED
      BY <3>4, <3>5, <3>6 DEF TrainTypes
  <2>2. CASE BestBroadcast(t)
    BY <2>2 DEF BestBroadcast, Goto, Woken, TrainTypes, AtRest
  <2>3. CASE TryReturns(t)
    BY <2>3 DEF TryReturns, TrainTypes, AtRest
  <2>4. CASE ThreadLoop(t) /\ UNCHANGED tvars
    BY <2>4 DEF tvars, TrainTypes, AtRest
  <2>5. QED
    BY <1>5, <2>1, <2>2, <2>3, <2>4 DEF ThreadStep
<1>6. CASE SpuriousBestWakeup
  BY <1>6 DEF SpuriousBestWakeup, Goto, Woken, TrainTypes, AtRest
<1>7. CASE BestWait
  <2>1. /\ round.d \in 1 .. Len(Rounds) /\ main = "wait" /\ UNCHANGED <<k, best, stage, tried>>
        /\ \/ round' = [d |-> round.d + 1, context |-> FALSE]
              /\ main' = IF round.d = Len(Rounds) THEN "result" ELSE "context"
           \/ main' = "asleep" /\ round' = round
    BY <1>7 DEF BestWait, Goto, TrainTypes
  <2>2. round' \in [d : 1 .. Len(Rounds) + 1, context : BOOLEAN]
    <3>1. round.d + 1 \in 1 .. Len(Rounds) + 1
      BY <1>1, <2>1
    <3>2. PICK d \in 1 .. Len(Rounds) + 1 : d = round.d + 1
      BY <3>1
    <3>3. round' = round \/ round' = [d |-> d, context |-> FALSE]
      BY <2>1, <3>2
    <3>4. round \in [d : 1 .. Len(Rounds) + 1, context : BOOLEAN]
      BY DEF TrainTypes
    <3>5. [d |-> d, context |-> FALSE] \in [d : 1 .. Len(Rounds) + 1, context : BOOLEAN]
      BY Zenon
    <3>6. QED
      BY <3>3, <3>4, <3>5
  <2>3. main' \in {"context", "asleep"} => round'.d <= Len(Rounds)
    BY <1>1, <2>1
  <2>4. QED
    BY <2>1, <2>2, <2>3 DEF TrainTypes, AtRest
<1>8. CASE BestDestroy \/ FreePool \/ PoolMade \/ OpenContext
  <2>1. best' \in BestRecord
    <3>1. best' = best \/ \E e \in BOOLEAN : best' = [best EXCEPT !.exists = e]
      BY <1>8 DEF BestDestroy, FreePool, PoolMade, OpenContext
    <3>2. best \in BestRecord
      BY DEF TrainTypes
    <3>3. QED
      BY <3>1, <3>2 DEF BestRecord
  <2>2. round' \in [d : 1 .. Len(Rounds) + 1, context : BOOLEAN] /\ round'.d = round.d
    BY <1>8 DEF BestDestroy, FreePool, PoolMade, OpenContext, TrainTypes
  <2>3. QED
    BY <1>8, <2>1, <2>2 DEF BestDestroy, FreePool, PoolMade, OpenContext, Goto, TrainTypes, AtRest
<1>9. CASE Skip \/ EndOfLoop \/ Result \/ Return
  BY <1>9 DEF Skip, EndOfLoop, Result, Return, Goto, TrainTypes, AtRest
<1>10. QED
  BY <1>3, <1>4, <1>5, <1>6, <1>7, <1>8, <1>9 DEF TrainNext, OwnerStep

LEMMA LifetimesStep ==
  ASSUME PoolInv, TrainTypes, Accounts, Lifetimes, [TrainNext]_allvars
  PROVE  Lifetimes'
<1> DEFINE InRound(j) == \E i \in DOMAIN Round : Round[i] = j
<1>1. CASE HandIn
  <2>1. /\ main = "loop" /\ UNCHANGED <<main, round>> /\ best' = [best EXCEPT !.liveJobs = @ + 1]
        /\ best \in BestRecord
    BY <1>1 DEF HandIn, TrainTypes
  <2>2. best'.exists = best.exists /\ best.exists /\ round.context /\ Round' = Round
    BY <2>1 DEF Lifetimes, BestRecord, Round
  <2>3. PICK i \in DOMAIN Round : Live' = Live \cup {Round[i]}
    BY <1>1, HandInKeepsAccounts
  <2>4. \A j \in Live' : InRound(j)
    BY <2>3 DEF Lifetimes
  <2>5. QED
    BY <2>1, <2>2, <2>4 DEF Lifetimes, AtRest
<1>2. ASSUME Live' \subseteq Live, UNCHANGED round, best'.exists = best.exists,
             main' = main \/ main' = Woken(main)
      PROVE  Lifetimes'
  <2>1. Round' = Round
    BY <1>2 DEF Round
  <2>2. \/ main' = main
        \/ main = "asleep" /\ main' = "wait"
        \/ main = "destroyAsleep" /\ main' = "destroy"
    BY <1>2 DEF Woken
  <2>3. QED
    BY <1>2, <2>1, <2>2 DEF Lifetimes, AtRest
<1>3. CASE Live' \subseteq Live /\ ~HandIn
  <2>1. CASE OwnerInPool \/ UNCHANGED allvars \/ (SpuriousWakeup /\ UNCHANGED tvars)
    BY <1>2, <1>3, <2>1 DEF OwnerInPool, allvars, tvars
  <2>2. ASSUME NEW t \in Threads, ThreadStep(t) PROVE Lifetimes'
    <3>1. CASE BestFinish(t)
      <4>1. UNCHANGED <<main, round>> /\ best'.exists = best.exists
        <5>1. best \in BestRecord
          BY DEF TrainTypes
        <5>2. QED
          BY <3>1, <5>1 DEF BestFinish, BestRecord
      <4>2. QED
        BY <1>2, <1>3, <4>1
    <3>2. CASE BestBroadcast(t)
      BY <1>2, <1>3, <3>2 DEF BestBroadcast, Goto
    <3>3. CASE TryReturns(t) \/ (ThreadLoop(t) /\ UNCHANGED tvars)
      BY <1>2, <1>3, <3>3 DEF TryReturns, tvars
    <3>4. QED
      BY <2>2, <3>1, <3>2, <3>3 DEF ThreadStep
  <2>3. CASE SpuriousBestWakeup
    BY <1>2, <1>3, <2>3 DEF SpuriousBestWakeup, Goto
  <2>4. CASE PoolMade
    BY <1>3, <2>4 DEF PoolMade, Goto, Lifetimes, AtRest, TrainTypes, BestRecord
  <2>5. CASE OpenContext
    BY <1>3, <2>5 DEF OpenContext, Goto, Lifetimes, AtRest, TrainTypes
  <2>6. CASE Skip \/ EndOfLoop
    BY <1>3, <2>6 DEF Skip, EndOfLoop, Goto, Lifetimes, AtRest, Round
  <2>7. CASE BestWait
    <3>1. NobodyLive => Live' = {}
      BY <1>3, NobodyLiveIs
    <3>2. CASE NobodyLive
      BY <2>7, <3>1, <3>2 DEF BestWait, Goto, Lifetimes, AtRest
    <3>3. CASE ~NobodyLive
      BY <1>3, <2>7, <3>3 DEF BestWait, Goto, Lifetimes, AtRest, Round
    <3>4. QED
      BY <3>2, <3>3
  <2>8. CASE Result
    BY <1>3, <2>8 DEF Result, Goto, Lifetimes, AtRest
  <2>9. CASE BestDestroy
    <3>1. NobodyLive => Live' = {}
      BY <1>3, NobodyLiveIs
    <3>2. CASE NobodyLive
      BY <2>9, <3>1, <3>2 DEF BestDestroy, Goto, Lifetimes, AtRest
    <3>3. CASE ~NobodyLive
      BY <1>3, <2>9, <3>3 DEF BestDestroy, Goto, Lifetimes, AtRest, Round
    <3>4. QED
      BY <3>2, <3>3
  <2>10. CASE FreePool \/ Return
    BY <1>3, <2>10 DEF FreePool, Return, Goto, Lifetimes, AtRest
  <2>11. QED
    BY <1>3, <2>1, <2>2, <2>3, <2>4, <2>5, <2>6, <2>7, <2>8, <2>9, <2>10 DEF TrainNext, OwnerStep
<1>4. QED
  BY <1>1, <1>3, AccountsStep

LEMMA BestStep ==
  ASSUME PoolInv, TrainTypes, Accounts, Lifetimes, BestSoFar, [TrainNext]_allvars
  PROVE  BestSoFar'
<1>1. best \in BestRecord
  BY DEF TrainTypes
<1>2. ASSUME UNCHANGED <<holder, tried>>, main' = "result" => main = "result" \/ holder = Nobody,
             best'.compressedSize = best.compressedSize, best'.try = best.try
      PROVE  BestSoFar'
  BY <1>2 DEF BestSoFar
<1>3. CASE OwnerInPool \/ UNCHANGED allvars \/ (SpuriousWakeup /\ UNCHANGED tvars)
  BY <1>2, <1>3 DEF OwnerInPool, allvars, tvars
<1>4. CASE OwnerStep \/ SpuriousBestWakeup
  <2>1. UNCHANGED <<holder, tried>> /\ best'.compressedSize = best.compressedSize /\ best'.try = best.try
    BY <1>1, <1>4 DEF OwnerStep, PoolMade, OpenContext, HandIn, Skip, EndOfLoop, BestWait, Result, BestDestroy,
                      FreePool, Return, SpuriousBestWakeup, BestRecord
  <2>2. main' = "result" => main = "result" \/ holder = Nobody
    BY <1>4 DEF OwnerStep, PoolMade, OpenContext, HandIn, Skip, EndOfLoop, BestWait, Result, BestDestroy,
                FreePool, Return, SpuriousBestWakeup, Goto, Woken
  <2>3. QED
    BY <1>2, <2>1, <2>2
<1>5. ASSUME NEW t \in Threads, ThreadStep(t) PROVE BestSoFar'
  <2>1. CASE TryReturns(t) \/ (ThreadLoop(t) /\ UNCHANGED tvars)
    BY <1>2, <2>1 DEF TryReturns, tvars
  <2>2. CASE BestBroadcast(t)
    BY <1>2, <2>2 DEF BestBroadcast, Goto, Woken
  <2>3. CASE BestFinish(t)
    <3>1. main # "result" /\ main' = main
      BY <2>3, FinishKeepsAccounts DEF Lifetimes, AtRest, BestFinish
    <3>2. job[t] \in Jobs
      BY <2>3, FinishKeepsAccounts DEF Accounts, Live
    <3>3. PICK size \in Sizes(job[t]) :
            /\ holder = Nobody /\ tried' = tried \cup {[try |-> job[t], size |-> size]}
            /\ \/ /\ ~Better(size) /\ holder' = holder
                  /\ best' = [best EXCEPT !.liveJobs = best.liveJobs - 1]
               \/ /\ Better(size) /\ holder' = holder
                  /\ best' = [[best EXCEPT !.liveJobs = best.liveJobs - 1]
                                EXCEPT !.compressedSize = size, !.dictSize = DictSize[job[t]], !.try = job[t]]
               \/ /\ holder' = t
                  /\ best' = [[best EXCEPT !.liveJobs = best.liveJobs - 1]
                                EXCEPT !.compressedSize = Error, !.dictSize = 0, !.try = NoTry]
      BY <2>3 DEF BestFinish
    <3>4. PICK new : new = [try |-> job[t], size |-> size]
      OBVIOUS
    <3>5. tried' = tried \cup {new} /\ new.size = size
      BY <3>3, <3>4
    <3>6. size \in Nat /\ best.compressedSize \in Nat /\ \A x \in tried : best.compressedSize <= x.size /\ x.size \in Nat
      <4>1. Sizes(job[t]) \subseteq Nat
        <5>1. Error \in Nat /\ Compressed[job[t]] \in Nat
          <6>1. Error \in Nat
            BY DEF Error
          <6>2. Compressed[job[t]] \in 0 .. Error - 1
            BY <3>2, TriesAssumption
          <6>3. QED
            BY <6>1, <6>2
        <5>2. QED
          BY <5>1 DEF Sizes
      <4>2. best.compressedSize \in Nat /\ \A x \in tried : x.size \in Nat
        <5>1. Error \in Nat /\ tried \in SUBSET [try : Jobs, size : 0 .. Error]
          BY DEF TrainTypes, Error
        <5>2. \A x \in tried : x.size \in 0 .. Error
          BY <5>1
        <5>3. best.compressedSize \in 0 .. Error
          BY <1>1 DEF BestRecord
        <5>4. QED
          BY <5>1, <5>2, <5>3
      <4>3. QED
        BY <3>3, <4>1, <4>2 DEF BestSoFar
    <3>7. CASE ~Better(size) /\ holder' = holder /\ best' = [best EXCEPT !.liveJobs = best.liveJobs - 1]
      <4>1. best'.compressedSize = best.compressedSize /\ best'.try = best.try
        BY <1>1, <3>7 DEF BestRecord
      <4>2. QED
        BY <3>1, <3>5, <3>6, <3>7, <4>1 DEF BestSoFar, Better
    <3>8. CASE /\ Better(size) /\ holder' = holder
               /\ best' = [[best EXCEPT !.liveJobs = best.liveJobs - 1]
                             EXCEPT !.compressedSize = size, !.dictSize = DictSize[job[t]], !.try = job[t]]
      <4>1. best'.compressedSize = size /\ best'.try = job[t]
        BY <1>1, <3>8 DEF BestRecord
      <4>2. \A x \in tried : size <= x.size
        BY <3>6, <3>8 DEF Better
      <4>3. QED
        BY <3>1, <3>4, <3>5, <3>6, <4>1, <4>2 DEF BestSoFar
    <3>9. CASE /\ holder' = t
               /\ best' = [[best EXCEPT !.liveJobs = best.liveJobs - 1]
                             EXCEPT !.compressedSize = Error, !.dictSize = 0, !.try = NoTry]
      <4>1. best'.try = NoTry
        BY <1>1, <3>9 DEF BestRecord
      <4>2. QED
        BY <3>1, <3>9, <4>1, NobodyAssumption DEF BestSoFar
    <3>10. QED
      BY <3>3, <3>7, <3>8, <3>9
  <2>4. QED
    BY <1>5, <2>1, <2>2, <2>3 DEF ThreadStep
<1>6. QED
  BY <1>3, <1>4, <1>5 DEF TrainNext

LEMMA TrainInvInit == TrainInit => PoolInv /\ TrainInv
<1> SUFFICES ASSUME TrainInit PROVE PoolInv /\ TrainInv
  OBVIOUS
<1>1. Init /\ handed = {} /\ tried = {} /\ finished = {} /\ Contents = <<>> /\ \A x \in Participants : job[x] = NoJob
  BY DEF TrainInit, Init, Contents, Length, Participants
<1>2. PoolInv
  BY <1>1, TypeInit, QueueInit DEF PoolInv, NoLateCalls, Init
<1>3. Tries = {} /\ Live = {}
  BY <1>1 DEF Tries, Live
<1>4. Len(Rounds) \in Nat \ {0}
  BY TriesAssumption, EmptySeq, LenProperties
<1>5. TrainTypes
  BY <1>1, <1>4 DEF TrainInit, TrainTypes, AtRest, BestRecord, Error
<1>6. Accounts
  <2>1. best.liveJobs = 0 /\ IsFiniteSet({}) /\ Cardinality({}) = 0
    BY FS_EmptySet DEF TrainInit
  <2>2. Places
    BY <1>1, <1>3 DEF TrainInit, Places, Participants
  <2>3. QED
    BY <1>1, <1>3, <2>1, <2>2 DEF Accounts
<1>7. Lifetimes
  BY <1>3 DEF TrainInit, Lifetimes
<1>8. BestSoFar
  BY <1>1 DEF TrainInit, BestSoFar
<1>9. QED
  BY <1>2, <1>5, <1>6, <1>7, <1>8 DEF TrainInv

LEMMA TrainInvStep == PoolInv /\ TrainInv /\ [TrainNext]_allvars => PoolInv' /\ TrainInv'
BY PoolStep, TypesStep, AccountsStep, LifetimesStep, BestStep DEF TrainInv

(* The trainer calls the pool as it may be called, so what is proved of    *)
(* the pool holds of it: no wake-up is lost, and its tries are run in the  *)
(* order in which they were handed in.                                     *)
THEOREM TrainerUsesThePool == TrainSpec => Spec /\ []NoLostWakeup /\ ImplementsTaskQueue
<1>1. TrainInit => Init
  BY DEF TrainInit
<1>2. PoolInv /\ TrainInv /\ [TrainNext]_allvars => [Next]_vars
  BY StepOfPool DEF TrainInv
<1>3. TrainSpec => Spec
  BY <1>1, <1>2, TrainInvInit, TrainInvStep, PTL DEF TrainSpec, Spec, allvars
<1>4. QED
  BY <1>3, NoWakeupIsLost, PoolIsATaskQueue, PTL

(* Whichever threads run the tries and in whichever order they finish, the *)
(* owner's context and COVER_best_t outlive them, also when it gives up    *)
(* half way; and what ZDICT_optimizeTrainFromBuffer_cover returns is the   *)
(* smallest result of all the tries of all the rounds.                     *)
THEOREM TheBestIsReturned == TrainSpec => []BestOfAll
<1>1. TrainInv => BestOfAll
  BY DEF TrainInv, Lifetimes, BestSoFar, BestOfAll, Live, Tries
<1>2. QED
  BY <1>1, TrainInvInit, TrainInvStep, PTL DEF TrainSpec, allvars
=============================================================================
