------------------------------- MODULE ZstdMt -------------------------------
(***************************************************************************)
(* ZSTDMT_CCtx (zstd/compress/zstdmt_compress.c): a caller's stream is cut *)
(* into jobs that a pool of workers compresses at the same time; their     *)
(* output is flushed in order as one frame.                                *)
(*                                                                         *)
(* Sizes count chunks of 4*ZSTD_BLOCKSIZE_MAX, the step in which a worker  *)
(* reports; chunk i of a frame's input is the number i, and what it is     *)
(* compressed to is one block.  Of the pool (POOL_create(n, 0), module     *)
(* ZstdPool) there is left that it takes a job when a thread is free and   *)
(* none is waiting, and that a thread is busy a little longer than its     *)
(* job.                                                                    *)
(***************************************************************************)
EXTENDS Integers, Sequences, FiniteSets, SequencesExt

CONSTANTS
  Workers,
  targetSectionSize,
  targetPrefixSize,
  Instances,          \* bounds, one of which a behaviour keeps to
  None

Orders == {"continue", "flush", "end"}

(* Of an instance: what params.nbWorkers may be, how much input a frame    *)
(* may have, how much a call may offer, which orders it may give and how   *)
(* many blocks it may have room for, how often ZSTDMT_initCStream is       *)
(* called, what the caller does besides bringing frames to their end, and  *)
(* whether workers may run out of memory.                                  *)
ASSUME InstancesAssumption ==
  \A i \in Instances :
    /\ i.workers \subseteq 1 .. Cardinality(Workers) /\ i.workers # {}
    /\ i.chunks \in Nat /\ i.offers \subseteq Nat /\ i.rooms \subseteq Nat \ {0} /\ i.orders \subseteq Orders
    /\ i.frames \in Nat /\ i.memoryFails \in BOOLEAN
    /\ i.habits \subseteq {"emptyFrame", "restart", "restartReady", "resize"}
ASSUME WorkersAssumption == IsFiniteSet(Workers)
ASSUME SizesAssumption ==
  /\ targetPrefixSize \in Nat \ {0} /\ targetSectionSize \in Nat
  /\ targetPrefixSize <= targetSectionSize
  /\ targetSectionSize >= 2   \* ZSTDMT_JOBSIZE_MIN is two chunks

VARIABLES
  mt,        \* doneJobID, nextJobID, jobReady, frameEnded, allJobsCompleted, nbWorkers
  jobs,      \* the job table from doneJobID on, the prepared job included
  ring, pos, \* roundBuff: which chunk is where, and where the next section goes
  inBuff,    \* the section being filled, and the prefix of its job
  serial,    \* nextJobID, and the chunks that went into the checksum
  queue,     \* the job waiting in the pool: frame and jobID
  worker,    \* where each worker is, and in which job
  main,      \* where the caller is, in which call, and within which bounds
  waiting,   \* the job, by its jobID, whose condition the caller sleeps on
  fed,       \* how much of the frame's input has been taken
  output,    \* the frame so far
  frames     \* history: how many frames were begun

vars == <<mt, jobs, ring, pos, inBuff, serial, queue, worker, main, waiting, fed, output, frames>>
shared == <<jobs, serial, queue, worker>>
buffers == <<ring, pos, inBuff>>

-----------------------------------------------------------------------------
(* The frame *)

Header == <<"header">>
Block(i) == <<"block", i>>
LastBlock == <<"last">>
Sum(s) == <<"checksum", s>>

Frame(n) == <<Header>> \o [i \in 1 .. n |-> Block(i)] \o <<LastBlock, Sum([i \in 1 .. n |-> i])>>

-----------------------------------------------------------------------------
(* Ranges of the round buffer *)

NullRange == [start |-> 0, size |-> 0]
Positions(r) == r.start .. r.start + r.size - 1
isOverlapped(r, s) == Positions(r) \cap Positions(s) # {}

Larger(a, b) == IF a > b THEN a ELSE b
Smaller(a, b) == IF a < b THEN a ELSE b

(* Three sections of slack, and one for each worker. *)
Capacity(n) == targetSectionSize * (n + 3)

(* ZSTDMT_createJobsTable: the next power of two but one after n + 2. *)
TableSize(n) == CHOOSE s \in {2 ^ k : k \in 2 .. n + 2} : s > n + 2 /\ (s = 4 \/ s <= 2 * (n + 2))
expandJobsTable(m, n) == [m EXCEPT !.nbJobs = IF n + 2 > @ THEN TableSize(n) ELSE @]

-----------------------------------------------------------------------------
(* Jobs *)

Complete(j) == j.consumed >= j.src.size

(* The chunk at place i of a job's source, which is in the round buffer or *)
(* in the caller's memory.                                                 *)
Chunk(j, i) == IF j.user THEN j.from + i - 1 ELSE ring[j.src.start + i - 1]

First == jobs[1]
FirstPosted == mt.doneJobID < mt.nextJobID
Posted == SubSeq(jobs, 1, mt.nextJobID - mt.doneJobID)

Idle == [at |-> "idle", frame |-> 0, jobID |-> 0]
NoSection == [has |-> FALSE, start |-> 0, filled |-> 0, prefix |-> NullRange]
Out(b) == [bound |-> b, at |-> "out", order |-> "continue", op |-> "continue", room |-> 0, block |-> FALSE, left |-> 0,
           job |-> 0, nbJobs |-> 0, failed |-> FALSE, said |-> "done"]
bound == main.bound

Init ==
  /\ \E b \in Instances, n \in 1 .. Cardinality(Workers) :
       /\ n \in b.workers
       /\ main = Out(b)
       /\ mt = [doneJobID |-> 0, nextJobID |-> 0, jobReady |-> FALSE, frameEnded |-> FALSE,
             allJobsCompleted |-> TRUE, nbWorkers |-> n, nbJobs |-> TableSize(n)]
  /\ jobs = <<>>
  /\ ring = <<>> /\ pos = 0
  /\ inBuff = NoSection
  /\ serial = [nextJobID |-> 0, hashed |-> <<>>]
  /\ queue = None
  /\ worker = [w \in Workers |-> Idle]
  /\ waiting = None
  /\ fed = 0 /\ output = <<>> /\ frames = 0

-----------------------------------------------------------------------------
(* The pool, as its callers see it *)

Busy == {w \in Workers : worker[w].at # "idle"}
PoolFull == Cardinality(Busy) = mt.nbWorkers \/ queue # None

Post(id) == queue' = [frame |-> frames, jobID |-> id]

(* Which of the idle threads makes no difference. *)
Take(w) ==
  /\ queue # None /\ Cardinality(Busy) < mt.nbWorkers
  /\ w = CHOOSE v \in Workers : worker[v].at = "idle"
  /\ worker' = [worker EXCEPT ![w] = [at |-> "serial", frame |-> queue.frame, jobID |-> queue.jobID]]
  /\ queue' = None
  /\ UNCHANGED <<mt, jobs, buffers, serial, main, waiting, fed, output, frames>>

-----------------------------------------------------------------------------
(* ZSTDMT_compressionJob *)

Goto(w, to) == worker' = [worker EXCEPT ![w].at = to]
Place(w) == worker[w].jobID - mt.doneJobID + 1
Job(w) == jobs[Place(w)]
SetJob(w, j) == jobs' = [jobs EXCEPT ![Place(w)] = j]
Wake(w) == waiting' = IF waiting = worker[w].jobID THEN None ELSE waiting
MainRests == UNCHANGED <<mt, buffers, queue, main, fed, output, frames>>

(* An error code in cSize is written without the lock and not signalled. *)
Fails(w) ==
  /\ bound.memoryFails /\ worker[w].at \in {"serial", "chunks"}
  /\ SetJob(w, [Job(w) EXCEPT !.error = TRUE])
  /\ Goto(w, "failed")
  /\ MainRests /\ UNCHANGED <<serial, waiting>>

SerialNotInTurn(next, id) == TRUE   \* mutant: jobs are hashed as they come
SerialTurn(next, id) == next >= id

(* ZSTDMT_serialState_update; a job that failed may have skipped this one. *)
SerialUpdate(w) ==
  /\ worker[w].at = "serial"
  /\ SerialTurn(serial.nextJobID, Job(w).jobID)
  /\ LET j == Job(w)
     IN serial' = [nextJobID |-> serial.nextJobID + 1,
                   hashed |-> IF serial.nextJobID = j.jobID
                              THEN serial.hashed \o [i \in 1 .. j.src.size |-> Chunk(j, i)]
                              ELSE serial.hashed]
  /\ Goto(w, "chunks")
  /\ MainRests /\ UNCHANGED <<jobs, waiting>>

FrameHeader(j) == IF j.jobID = 0 THEN <<Header>> ELSE <<>>

CompressChunk(w) ==
  LET j == Job(w)
      i == j.consumed + 1
  IN
  /\ worker[w].at = "chunks" /\ i < j.src.size
  /\ SetJob(w, [j EXCEPT !.out = (IF i = 1 THEN FrameHeader(j) ELSE @) \o <<Block(Chunk(j, i))>>,
                         !.consumed = i])
  /\ Wake(w)
  /\ MainRests /\ UNCHANGED <<serial, worker>>

(* ZSTD_compressEnd: a job that is the whole frame has its own checksum. *)
FrameEnd(j) ==
  IF ~j.lastJob THEN <<>>
  ELSE IF j.jobID = 0 THEN <<LastBlock, Sum([i \in 1 .. j.src.size |-> Chunk(j, i)])>> ELSE <<LastBlock>>

(* Not signalled, and not yet counted as consumed. *)
CompressLast(w) ==
  LET j == Job(w)
      i == j.consumed + 1
  IN
  /\ worker[w].at = "chunks" /\ i >= j.src.size
  /\ SetJob(w, [j EXCEPT !.out = (IF i = 1 THEN FrameHeader(j) ELSE @)
                                   \o (IF j.src.size = 0 THEN <<>> ELSE <<Block(Chunk(j, i))>>)
                                   \o FrameEnd(j)])
  /\ Goto(w, "report")
  /\ MainRests /\ UNCHANGED <<serial, waiting>>

EnsureNothing(next, id) == next   \* mutant: a job that fails early does not give up its turn
EnsureFinished(next, id) == Larger(next, id + 1)

(* Only a job that failed may not have had its turn.                       *)
GiveUpTurn(w) ==
  /\ worker[w].at = "failed"
  /\ serial' = [serial EXCEPT !.nextJobID = EnsureFinished(@, Job(w).jobID)]
  /\ Goto(w, "report")
  /\ MainRests /\ UNCHANGED <<jobs, waiting>>

Report(w) ==
  /\ worker[w].at = "report"
  /\ SetJob(w, [Job(w) EXCEPT !.consumed = Job(w).src.size])
  /\ Wake(w)
  /\ Goto(w, "leave")
  /\ MainRests /\ UNCHANGED serial

(* Back in POOL_thread, which still counts it as busy. *)
Leave(w) ==
  /\ worker[w].at = "leave"
  /\ worker' = [worker EXCEPT ![w] = Idle]
  /\ MainRests /\ UNCHANGED <<jobs, serial, waiting>>

-----------------------------------------------------------------------------
(* ZSTDMT_tryGetInputRange *)

(* ZSTDMT_getInputDataInUse: of the first job not complete, where its data *)
(* begin.                                                                  *)
Open == {i \in DOMAIN Posted : ~Complete(Posted[i])}
Latest(S) == CHOOSE x \in S : \A y \in S : x >= y   \* mutant: looks at the last such job
Earliest(S) == CHOOSE x \in S : \A y \in S : x <= y
InUse ==
  LET j == Posted[Earliest(Open)]
  IN IF Open = {} THEN NullRange ELSE IF j.prefix.size = 0 THEN j.src ELSE j.prefix

Unwrapped(ok) == [ok |-> ok, ring |-> ring, pos |-> pos, prefix |-> inBuff.prefix]

(* With too little room left before the end it goes on at the beginning,   *)
(* behind a copy of the prefix.  The copy stays if the section is in use.  *)
Wrapped ==
  LET size == inBuff.prefix.size
      copy == [start |-> 0, size |-> size]
  IN IF Cardinality(DOMAIN ring) - pos >= targetSectionSize THEN Unwrapped(TRUE)
     ELSE IF isOverlapped(copy, InUse) THEN Unwrapped(FALSE)
     ELSE [ok |-> TRUE, pos |-> size, prefix |-> copy,
           ring |-> [i \in DOMAIN ring |-> IF i < size THEN ring[inBuff.prefix.start + i] ELSE ring[i]]]

GotRange(r) == r.ok /\ ~isOverlapped([start |-> r.pos, size |-> targetSectionSize], InUse)

-----------------------------------------------------------------------------
(* ZSTDMT_createCompressionJob, on the buffers r as they are then *)

TableFull == mt.nextJobID > mt.doneJobID + mt.nbJobs - 1

PrefixSize(size) == Smaller(size, targetPrefixSize)

EmptyLast(b) == b.filled = 0 /\ mt.nextJobID > 0

NewJob(b, p, op) ==
  [frame |-> frames, jobID |-> mt.nextJobID, user |-> FALSE,
   src |-> [start |-> p, size |-> b.filled], prefix |-> b.prefix, from |-> fed' - b.filled + 1,
   consumed |-> 0, error |-> FALSE, dstFlushed |-> 0, out |-> IF EmptyLast(b) THEN <<LastBlock>> ELSE <<>>,
   lastJob |-> op = "end", frameChecksumNeeded |-> op = "end" /\ mt.nextJobID > 0]

Advance(m) == [m EXCEPT !.nextJobID = @ + 1, !.jobReady = FALSE]

(* The section b at p becomes a job, and the pool may take it.  An empty   *)
(* last section needs no worker (ZSTDMT_writeLastEmptyBlock).              *)
Prepare(b, p, op) ==
  /\ jobs' = Append(jobs, NewJob(b, p, op))
  /\ pos' = p + b.filled
  /\ inBuff' = [NoSection EXCEPT !.prefix =
                  IF op = "end" THEN NullRange
                  ELSE [start |-> p + b.filled - PrefixSize(b.filled), size |-> PrefixSize(b.filled)]]
  /\ LET m == [mt EXCEPT !.frameEnded = @ \/ op = "end"]
     IN IF EmptyLast(b) THEN mt' = Advance(m) /\ UNCHANGED queue
        ELSE IF PoolFull THEN mt' = [m EXCEPT !.jobReady = TRUE] /\ UNCHANGED queue
        ELSE mt' = Advance(m) /\ Post(mt.nextJobID)

PostReady == IF PoolFull THEN UNCHANGED <<mt, queue>> ELSE mt' = Advance(mt) /\ Post(mt.nextJobID)

Create(b, p, op) ==
  IF TableFull THEN UNCHANGED <<mt, jobs, queue>> /\ pos' = p /\ inBuff' = b
  ELSE IF mt.jobReady THEN PostReady /\ pos' = p /\ inBuff' = b /\ UNCHANGED jobs
  ELSE Prepare(b, p, op)

Needed(b, op) ==
  \/ mt.jobReady
  \/ b.filled >= targetSectionSize
  \/ op # "continue" /\ b.filled > 0
  \/ op = "end" /\ ~mt.frameEnded

CreateIfNeeded(b, p, op) ==
  IF Needed(b, op) THEN Create(b, p, op) ELSE UNCHANGED <<mt, jobs, queue>> /\ pos' = p /\ inBuff' = b

-----------------------------------------------------------------------------
(* ZSTDMT_initCStream_internal *)

(* Fewer or more threads; then a frame that was not finished is waited for *)
(* and thrown away.  jobReady stays as it is.                              *)
InitCStream(n) ==
  /\ main.at = "out" /\ frames < bound.frames
  /\ main.said \in {"more", "flushed"} => "restart" \in bound.habits
  /\ mt.jobReady => "restartReady" \in bound.habits
  /\ ~mt.allJobsCompleted /\ n # mt.nbWorkers => "resize" \in bound.habits
  /\ mt' = IF n = mt.nbWorkers THEN mt ELSE [expandJobsTable(mt, n) EXCEPT !.nbWorkers = n]
  /\ jobs' = IF n # mt.nbWorkers /\ n + 2 > mt.nbJobs THEN <<>> ELSE jobs
  /\ main' = [main EXCEPT !.at = IF mt.allJobsCompleted THEN "reset" ELSE "restart"]
  /\ UNCHANGED <<serial, queue, worker, buffers, waiting, fed, output, frames>>

Reset ==
  /\ main.at = "reset"
  /\ mt' = [mt EXCEPT !.doneJobID = 0, !.nextJobID = 0, !.frameEnded = FALSE, !.allJobsCompleted = FALSE]
  /\ ring' = IF Cardinality(DOMAIN ring) < Capacity(mt.nbWorkers)
             THEN [i \in 0 .. Capacity(mt.nbWorkers) - 1 |-> 0] ELSE ring
  /\ pos' = 0 /\ inBuff' = NoSection
  /\ serial' = [nextJobID |-> 0, hashed |-> <<>>]
  /\ main' = [Out(bound) EXCEPT !.said = "flushed"]
  /\ fed' = 0 /\ output' = <<>> /\ frames' = frames + 1
  /\ UNCHANGED <<jobs, queue, worker, waiting>>

(* ZSTDMT_waitForAllJobsCompleted, and then ZSTDMT_releaseAllJobResources. *)
Draining == main.at \in {"drain", "restart"} /\ waiting = None

WaitForJob ==
  /\ Draining /\ FirstPosted
  /\ IF Complete(First)
     THEN mt' = [mt EXCEPT !.doneJobID = @ + 1] /\ jobs' = Tail(jobs) /\ UNCHANGED waiting
     ELSE waiting' = mt.doneJobID /\ UNCHANGED <<mt, jobs>>
  /\ UNCHANGED <<serial, queue, worker, buffers, main, fed, output, frames>>

ReleaseAll ==
  /\ Draining /\ ~FirstPosted
  /\ jobs' = <<>>
  /\ inBuff' = [NoSection EXCEPT !.prefix = inBuff.prefix]
  /\ mt' = [mt EXCEPT !.allJobsCompleted = TRUE]
  /\ main' = IF main.at = "restart" THEN [main EXCEPT !.at = "reset"]
             ELSE [main EXCEPT !.at = "out", !.said = "error"]
  /\ UNCHANGED <<serial, queue, worker, ring, pos, waiting, fed, output, frames>>

-----------------------------------------------------------------------------
(* ZSTDMT_compressStream_generic, ZSTDMT_flushStream, ZSTDMT_endStream *)

InFrame == main.said \in {"more", "flushed"}

(* An end order, once given, is repeated, with the input it had left,      *)
(* until it is done.                                                       *)
MayOrder(op, n) == main.order = "end" => op = "end" /\ n = main.left

(* ZSTDMT_flushProduced blocks if the call took no input. *)
ToFlush(order, op, room, progress, left) ==
  main' = [main EXCEPT !.at = "flush", !.order = order, !.op = op, !.room = room, !.block = ~progress, !.left = left]

Shortcut(op, n, room) ==
  mt.nextJobID = 0 /\ inBuff.filled = 0 /\ ~mt.jobReady /\ op = "end" /\ room >= Len(Frame(n))

Section(r) ==
  IF GotRange(r) THEN [has |-> TRUE, start |-> r.pos, filled |-> 0, prefix |-> r.prefix]
  ELSE [inBuff EXCEPT !.prefix = r.prefix]

(* With n chunks of input.  An end order with input left becomes a flush.  *)
CompressStream(op, n, room) ==
  /\ main.at = "out" /\ InFrame /\ MayOrder(op, n)
  /\ fed + n <= bound.chunks
  /\ "emptyFrame" \notin bound.habits => ~(op = "end" /\ fed + n = 0)
  /\ ~Shortcut(op, n, room)
  /\ \E fills \in {~mt.jobReady /\ n > 0} :
     \E r \in {IF fills /\ ~inBuff.has THEN Wrapped ELSE Unwrapped(FALSE)} :
     \E b \in {Section(r)} :
     \E load \in {IF fills /\ b.has THEN Smaller(n, targetSectionSize - b.filled) ELSE 0} :
     LET goes == IF fills /\ load < n /\ op = "end" THEN "flush" ELSE op
         at == b.start + b.filled
     IN /\ ring' = [i \in DOMAIN ring |-> IF i \in at .. at + load - 1 THEN fed + 1 + i - at ELSE r.ring[i]]
        /\ fed' = fed + load
        /\ CreateIfNeeded([b EXCEPT !.filled = @ + load], r.pos, goes)
        /\ ToFlush(op, goes, room, load > 0, n - load)
  /\ UNCHANGED <<serial, worker, waiting, output, frames>>

FlushStream(op, room) ==
  /\ main.at = "out" /\ InFrame /\ MayOrder(op, 0) /\ op # "continue"
  /\ "emptyFrame" \notin bound.habits => ~(op = "end" /\ fed = 0)
  /\ fed' = fed
  /\ CreateIfNeeded(inBuff, pos, op)
  /\ ToFlush(op, op, room, FALSE, 0)
  /\ UNCHANGED <<ring, serial, worker, waiting, output, frames>>

-----------------------------------------------------------------------------
(* ZSTDMT_flushProduced *)

MustWait == main.block /\ FirstPosted /\ First.dstFlushed = Len(First.out) /\ ~First.error /\ ~Complete(First)

Flushing == main.at = "flush" /\ waiting = None

FlushWait ==
  /\ Flushing /\ MustWait
  /\ waiting' = mt.doneJobID
  /\ UNCHANGED <<mt, shared, buffers, main, fed, output, frames>>

FlushFails ==
  /\ Flushing /\ FirstPosted /\ First.error
  /\ main' = [main EXCEPT !.at = "drain"]
  /\ UNCHANGED <<mt, shared, buffers, waiting, fed, output, frames>>

(* The call returns: is everything out, in state m with jobs js?           *)
Say(m, js) ==
  LET empty == js = <<>> /\ inBuff.filled = 0
      done == IF main.op = "end" THEN m.frameEnded ELSE TRUE
  IN /\ mt' = IF empty THEN [m EXCEPT !.allJobsCompleted = m.frameEnded] ELSE m
     /\ jobs' = js
     /\ main' = [main EXCEPT !.at = "out", !.block = FALSE, !.room = 0,
                   !.said = IF ~empty \/ ~done \/ main.left > 0 THEN "more"
                            ELSE IF main.op = "end" THEN "done" ELSE "flushed"]

(* The checksum of all jobs goes behind the last one.                      *)
Produced(j) == IF Complete(j) /\ j.frameChecksumNeeded THEN j.out \o <<Sum(serial.hashed)>> ELSE j.out

Flush ==
  /\ Flushing /\ FirstPosted /\ ~MustWait /\ ~First.error
  /\ \E out \in {Produced(First)} :
     \E n \in {Smaller(Len(out) - First.dstFlushed, main.room)} :
     \E j \in {[First EXCEPT !.out = out, !.dstFlushed = @ + n, !.frameChecksumNeeded = @ /\ ~Complete(First)]} :
     LET over == out # <<>> /\ Complete(j) /\ j.dstFlushed = Len(out)
     IN /\ output' = output \o SubSeq(out, j.dstFlushed - n + 1, j.dstFlushed)
        /\ IF over THEN Say([mt EXCEPT !.doneJobID = @ + 1], Tail(jobs)) ELSE Say(mt, [jobs EXCEPT ![1] = j])
  /\ UNCHANGED <<buffers, serial, queue, worker, waiting, fed, frames>>

FlushNothing ==
  /\ Flushing /\ ~FirstPosted
  /\ Say(mt, jobs)
  /\ UNCHANGED <<buffers, serial, queue, worker, waiting, fed, output, frames>>

-----------------------------------------------------------------------------
(* ZSTDMT_compress_advanced_internal: all input at once, room for all *)

NbJobs(n) ==
  LET multiplier == n \div (4 * targetSectionSize * mt.nbWorkers) + 1
  IN IF multiplier > 1 THEN multiplier * mt.nbWorkers ELSE Smaller(n \div targetSectionSize + 1, mt.nbWorkers)

CompressAdvanced(n, room) ==
  /\ main.at = "out" /\ InFrame /\ MayOrder("end", n)
  /\ fed + n <= bound.chunks
  /\ Shortcut("end", n, room)
  /\ fed' = fed + n
  /\ IF NbJobs(n) = 1 \/ mt.nbWorkers = 1
     THEN /\ output' = Frame(n)
          /\ mt' = [mt EXCEPT !.frameEnded = TRUE, !.allJobsCompleted = TRUE]
          /\ main' = [main EXCEPT !.said = "done"]
          /\ UNCHANGED serial
     ELSE /\ serial' = [nextJobID |-> 0, hashed |-> <<>>]
          /\ main' = [main EXCEPT !.at = "post", !.order = "end", !.nbJobs = NbJobs(n)]
          /\ mt' = expandJobsTable(mt, NbJobs(n))
          /\ UNCHANGED output
  /\ UNCHANGED <<jobs, queue, worker, buffers, waiting, frames>>

(* avgJobSize bytes for each job: as many chunks as there are before its   *)
(* end, and not before its beginning.                                      *)
Before(u) == (u * fed) \div main.nbJobs

(* POOL_add blocks while the pool is full. *)
PostNext ==
  /\ main.at = "post" /\ ~PoolFull
  /\ LET u == main.job
         last == u = main.nbJobs - 1
     IN /\ jobs' = Append(jobs, [frame |-> frames, jobID |-> u, user |-> TRUE,
                                 src |-> [start |-> 0, size |-> Before(u + 1) - Before(u)],
                                 prefix |-> NullRange, from |-> Before(u) + 1,
                                 consumed |-> 0, error |-> FALSE, dstFlushed |-> 0, out |-> <<>>,
                                 lastJob |-> last, frameChecksumNeeded |-> FALSE])
        /\ Post(u)
        /\ main' = [main EXCEPT !.job = IF last THEN 0 ELSE u + 1, !.at = IF last THEN "collect" ELSE "post"]
  /\ UNCHANGED <<mt, serial, worker, buffers, waiting, fed, output, frames>>

Collected == jobs[main.job + 1]

CollectWait ==
  /\ main.at = "collect" /\ waiting = None /\ ~Complete(Collected)
  /\ waiting' = main.job
  /\ UNCHANGED <<mt, shared, buffers, main, fed, output, frames>>

Collect ==
  LET failed == main.failed \/ Collected.error
      last == main.job = main.nbJobs - 1
  IN
  /\ main.at = "collect" /\ waiting = None /\ Complete(Collected)
  /\ output' = IF failed THEN output
               ELSE output \o Collected.out \o (IF last THEN <<Sum(serial.hashed)>> ELSE <<>>)
  /\ IF ~last
     THEN main' = [main EXCEPT !.job = @ + 1, !.failed = failed] /\ UNCHANGED <<mt, jobs>>
     ELSE /\ main' = [main EXCEPT !.at = "out", !.job = 0, !.nbJobs = 0, !.failed = FALSE,
                                   !.said = IF failed THEN "error" ELSE "done"]
          /\ jobs' = <<>>
          /\ mt' = IF failed THEN mt ELSE [mt EXCEPT !.frameEnded = TRUE, !.allJobsCompleted = TRUE]
  /\ UNCHANGED <<serial, queue, worker, buffers, waiting, fed, frames>>

-----------------------------------------------------------------------------
SpuriousWakeup ==
  /\ waiting # None /\ waiting' = None
  /\ UNCHANGED <<mt, shared, buffers, main, fed, output, frames>>

Step(w) ==
  Take(w) \/ SerialUpdate(w) \/ CompressChunk(w) \/ CompressLast(w) \/ GiveUpTurn(w) \/ Report(w) \/ Leave(w)

Inside ==
  Reset \/ WaitForJob \/ ReleaseAll \/ FlushWait \/ FlushFails \/ Flush \/ FlushNothing \/ PostNext \/ CollectWait \/ Collect

Call ==
  \/ \E n \in bound.workers : InitCStream(n)
  \/ \E n \in bound.offers \cup {main.left}, room \in bound.rooms : CompressAdvanced(n, room) \/ \E op \in bound.orders : CompressStream(op, n, room)
  \/ \E op \in bound.orders, room \in bound.rooms : FlushStream(op, room)

Next == Inside \/ Call \/ SpuriousWakeup \/ \E w \in Workers : Step(w) \/ Fails(w)

Spec == Init /\ [][Next]_vars

AskAgain ==
  /\ main.order = "end"
  /\ \E room \in bound.rooms :
       \/ main.left = 0 /\ FlushStream("end", room)
       \/ main.left > 0 /\ CompressStream("end", main.left, room)

(* Workers run, calls go on, and a caller who has asked for the end of the *)
(* frame goes on asking, with room for some of it.                         *)
Fairness ==
  /\ WF_vars(\E w \in Workers : Step(w))
  /\ WF_vars(Inside)
  /\ WF_vars(AskAgain)

FairSpec == Spec /\ Fairness

-----------------------------------------------------------------------------
(* Properties *)

TypeOK ==
  /\ mt \in [doneJobID : Nat, nextJobID : Nat, jobReady : BOOLEAN, frameEnded : BOOLEAN,
             allJobsCompleted : BOOLEAN, nbWorkers : bound.workers, nbJobs : Nat \ {0}]
  /\ pos \in 0 .. Cardinality(DOMAIN ring)
  /\ fed \in 0 .. bound.chunks /\ frames \in 0 .. bound.frames

(* A worker works on the job it was given until it has reported it: the    *)
(* caller does not free, reuse or wipe a job that a "worker [is] no longer *)
(* active" on, nor post one that is not prepared.                          *)
Given == {[frame |-> worker[w].frame, jobID |-> worker[w].jobID] :
            w \in {v \in Workers : worker[v].at \notin {"idle", "leave"}}}
JobsStayWithTheirWorkers ==
  \A r \in Given \cup ({queue} \ {None}) :
    \E i \in DOMAIN jobs : jobs[i].frame = r.frame /\ jobs[i].jobID = r.jobID

(* What jobs still have to read, and the prefix of the next one, is not    *)
(* written over: the caller looks only at the first job that is not        *)
(* complete, and goes round the buffer while jobs finish in any order.     *)
Holds(r, from) == \A i \in 1 .. r.size : ring[r.start + i - 1] = from + i - 1
InputIsIntact ==
  InFrame /\ main.at \notin {"restart", "reset"} =>
    /\ \A i \in DOMAIN jobs :
         ~Complete(jobs[i]) /\ ~jobs[i].user =>
           Holds(jobs[i].src, jobs[i].from) /\ Holds(jobs[i].prefix, jobs[i].from - jobs[i].prefix.size)
    /\ Holds([start |-> inBuff.start, size |-> inBuff.filled], fed - inBuff.filled + 1)
    /\ Holds(inBuff.prefix, fed - inBuff.filled - inBuff.prefix.size + 1)

(* The output is one frame of what has been fed, in order and with the     *)
(* checksum of all of it, whichever worker was first and however the       *)
(* caller cut and flushed; and "done" is said of a whole frame only.       *)
FrameIsWhatWasFed ==
  /\ IsPrefix(output, Frame(fed))
  /\ main.said = "done" /\ main.at = "out" /\ frames > 0 => output = Frame(fed)

(* No call waits for ever, and a caller who goes on asking for the end of  *)
(* the frame gets it, or an error.                                         *)
EndIsReached ==
  /\ main.at # "out" ~> main.at = "out"
  /\ main.order = "end" /\ InFrame ~> ~InFrame \/ main.order # "end"
=============================================================================
