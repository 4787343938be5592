----------------------------- MODULE CoverTrain -----------------------------
(***************************************************************************)
(* ZDICT_optimizeTrainFromBuffer_cover (zstd/dictBuilder/cover.c): one     *)
(* thread, the owner of the pool, hands in a try for each k of each d; the *)
(* threads of the pool build a dictionary, and keep it if it compresses    *)
(* the samples better than the best one so far.                            *)
(*                                                                         *)
(* COVER_best_t is a monitor: a mutex, a condition and the number of live  *)
(* jobs.  A thread that holds the mutex from one action to the next has    *)
(* left COVER_best_finish without unlocking it.                            *)
(***************************************************************************)
EXTENDS ZstdPool

CONSTANTS
  Rounds,       \* for each d, in order, the tries: a sequence of sequences of jobs
  Compressed,   \* try -> the size its dictionary makes of the samples
  DictSize,     \* try -> the size of its dictionary
  Nobody,
  NoTry

Error == 1000   \* ERROR(GENERIC), which is (size_t)-1: worse than any size

ASSUME TriesAssumption ==
  /\ Rounds \in Seq(Seq(Jobs)) /\ Rounds # <<>>
  /\ \A j \in Jobs : Compressed[j] \in 0 .. Error - 1 /\ DictSize[j] \in Nat \ {0}
ASSUME NobodyAssumption == Nobody \notin Threads

VARIABLES
  main,      \* where the owner is; "absent" if the pool has another use
  round,     \* which d, and whether its COVER_ctx_t exists
  k,         \* how many tries of this round have been handed in or skipped
  best,      \* COVER_best_t: liveJobs, compressedSize, dictSize, the try they come from
  holder,    \* who holds best's mutex
  stage,     \* within a job, where its thread is
  result,    \* what the owner returns: a try, or an error
  handed, tried,   \* history: the tries handed in, and those that were compared
  failed     \* history: COVER_best_finish found no memory

tvars == <<main, round, k, best, holder, stage, result, handed, tried, failed>>

TrainInit ==
  /\ Init
  /\ main \in {"pool", "absent"}
  /\ main = "pool" => queueSize = 2   \* POOL_create(nbThreads, 1)
  /\ round = [d |-> 1, context |-> FALSE] /\ k = 0
  /\ best = [exists |-> FALSE, liveJobs |-> 0, compressedSize |-> Error, dictSize |-> 0, try |-> NoTry]
  /\ holder = Nobody
  /\ stage = [t \in Threads |-> "trying"]
  /\ result = NoTry
  /\ handed = {} /\ tried = {} /\ failed = FALSE

Goto(to) == main' = to

-----------------------------------------------------------------------------
(* The owner *)

PoolMade ==   \* and COVER_best_init
  /\ main = "pool" /\ pc[Owner] = "out"
  /\ Goto("context")
  /\ best' = [best EXCEPT !.exists = TRUE]
  /\ UNCHANGED <<vars, round, k, holder, stage, result, handed, tried, failed>>

OpenContext ==
  /\ main = "context"
  /\ \/ Goto("loop") /\ round' = [round EXCEPT !.context = TRUE]
     \/ Goto("destroy") /\ UNCHANGED round   \* COVER_ctx_init fails
  /\ k' = 0
  /\ UNCHANGED <<vars, best, holder, stage, result, handed, tried, failed>>

Round == Rounds[round.d]

(* COVER_best_start, then POOL_add, which may block. *)
HandIn ==
  /\ main = "loop" /\ pc[Owner] = "out" /\ k < Len(Round)
  /\ holder = Nobody
  /\ k' = k + 1
  /\ best' = [best EXCEPT !.liveJobs = @ + 1]
  /\ handed' = handed \cup {Round[k + 1]}
  /\ CallAdd(Owner, Round[k + 1])
  /\ UNCHANGED <<main, round, holder, stage, result, tried, failed>>

(* Parameters that COVER_checkParameters refuses; or no memory for them,   *)
(* which ends it all.                                                      *)
Skip ==
  /\ main = "loop" /\ pc[Owner] = "out" /\ k < Len(Round)
  /\ \/ k' = k + 1 /\ UNCHANGED main
     \/ Goto("destroy") /\ UNCHANGED k
  /\ UNCHANGED <<vars, round, best, holder, stage, result, handed, tried, failed>>

EndOfLoop ==
  /\ main = "loop" /\ pc[Owner] = "out" /\ k = Len(Round)
  /\ Goto("wait")
  /\ UNCHANGED <<vars, round, k, best, holder, stage, result, handed, tried, failed>>

NobodyLiveButOne == best.liveJobs <= 1   \* mutant: the wait ends with a try still running
NobodyLive == best.liveJobs = 0

(* COVER_best_wait, and then COVER_ctx_destroy. *)
BestWait ==
  /\ main = "wait" /\ holder = Nobody
  /\ IF NobodyLive
     THEN /\ round' = [d |-> round.d + 1, context |-> FALSE]
          /\ Goto(IF round.d = Len(Rounds) THEN "result" ELSE "context")
     ELSE Goto("asleep") /\ UNCHANGED round
  /\ UNCHANGED <<vars, k, best, holder, stage, result, handed, tried, failed>>

Result ==
  /\ main = "result"
  /\ result' = best.try
  /\ Goto("destroy")
  /\ UNCHANGED <<vars, round, k, best, holder, stage, handed, tried, failed>>

(* COVER_best_destroy, which waits again. *)
BestDestroy ==
  /\ main = "destroy" /\ holder = Nobody
  /\ IF NobodyLive
     THEN Goto("free") /\ best' = [best EXCEPT !.exists = FALSE]
     ELSE Goto("destroyAsleep") /\ UNCHANGED best
  /\ UNCHANGED <<vars, round, k, holder, stage, result, handed, tried, failed>>

FreePool ==
  /\ main = "free"
  /\ Free
  /\ round' = [round EXCEPT !.context = FALSE]
  /\ Goto("freeing")
  /\ UNCHANGED <<k, best, holder, stage, result, handed, tried, failed>>

Return ==
  /\ main \in {"pool", "freeing"} /\ pc[Owner] = "freed"
  /\ Goto("done")
  /\ UNCHANGED <<vars, round, k, best, holder, stage, result, handed, tried, failed>>

NotWoken(at) == at   \* mutant: no broadcast
Woken(at) == IF at = "asleep" THEN "wait" ELSE IF at = "destroyAsleep" THEN "destroy" ELSE at

SpuriousBestWakeup ==
  /\ main \in {"asleep", "destroyAsleep"}
  /\ Goto(Woken(main))
  /\ UNCHANGED <<vars, round, k, best, holder, stage, result, handed, tried, failed>>

-----------------------------------------------------------------------------
(* COVER_tryParameters, in a thread of the pool *)

(* A try fails for want of memory, or measures its dictionary. *)
Sizes(j) == {Compressed[j], Error}

Better(size) == size < best.compressedSize

(* COVER_best_finish under the mutex.  A dictionary that needs more room   *)
(* than the last one makes it allocate, and without memory it returns with *)
(* the mutex locked.                                                       *)
BestFinish(t) ==
  /\ pc[t] = "run" /\ stage[t] = "trying" /\ holder = Nobody
  /\ LET j == job[t]
         done == [best EXCEPT !.liveJobs = @ - 1]
     IN \E size \in Sizes(j) :
          /\ tried' = tried \cup {[try |-> j, size |-> size]}
          /\ \/ /\ best' = IF Better(size)
                           THEN [done EXCEPT !.compressedSize = size, !.dictSize = DictSize[j], !.try = j]
                           ELSE done
                /\ stage' = [stage EXCEPT ![t] = IF done.liveJobs = 0 THEN "broadcast" ELSE "returned"]
                /\ UNCHANGED <<holder, failed>>
             \/ /\ Better(size) /\ best.dictSize < DictSize[j]
                /\ best' = [done EXCEPT !.compressedSize = Error, !.dictSize = 0, !.try = NoTry]
                /\ stage' = [stage EXCEPT ![t] = "returned"]
                /\ holder' = t /\ failed' = TRUE
  /\ UNCHANGED <<vars, main, round, k, result, handed>>

(* cond_broadcast comes after the unlock. *)
BestBroadcast(t) ==
  /\ stage[t] = "broadcast"
  /\ stage' = [stage EXCEPT ![t] = "returned"]
  /\ Goto(Woken(main))
  /\ UNCHANGED <<vars, round, k, best, holder, result, handed, tried, failed>>

TryReturns(t) ==
  /\ stage[t] = "returned"
  /\ JobReturns(t)
  /\ stage' = [stage EXCEPT ![t] = "trying"]
  /\ UNCHANGED <<main, round, k, best, holder, result, handed, tried, failed>>

-----------------------------------------------------------------------------
OwnerStep ==
  PoolMade \/ OpenContext \/ HandIn \/ Skip \/ EndOfLoop \/ BestWait \/ Result \/ BestDestroy
    \/ FreePool \/ Return

OwnerInPool == (Create \/ Add(Owner) \/ Freeing) /\ UNCHANGED tvars

ThreadStep(t) ==
  BestFinish(t) \/ BestBroadcast(t) \/ TryReturns(t) \/ (ThreadLoop(t) /\ UNCHANGED tvars)

TrainNext ==
  \/ OwnerStep \/ OwnerInPool
  \/ SpuriousBestWakeup \/ (SpuriousWakeup /\ UNCHANGED tvars)
  \/ \E t \in Threads : ThreadStep(t)

TrainSpec == TrainInit /\ [][TrainNext]_<<vars, tvars>>

TrainFairness ==
  /\ WF_<<vars, tvars>>(OwnerStep) /\ WF_<<vars, tvars>>(OwnerInPool)
  /\ \A t \in Threads : WF_<<vars, tvars>>(ThreadStep(t))

-----------------------------------------------------------------------------
(* Properties *)

(* A try uses the COVER_ctx_t of its d and the COVER_best_t, both local to *)
(* the owner: they exist until it has been compared, also when the owner   *)
(* gives up half way.  And once the owner has waited for the last round,   *)
(* the best try is the best of all that were handed in, whichever thread   *)
(* ran each of them and in whichever order they finished.                  *)
BestOfAll ==
  /\ \A j \in handed \ {x.try : x \in tried} :
       best.exists /\ round.context /\ \E i \in DOMAIN Round : Round[i] = j
  /\ main = "result" =>
       /\ \A x \in tried : best.compressedSize <= x.size
       /\ best.try # NoTry => [try |-> best.try, size |-> best.compressedSize] \in tried

(* Training ends, unless COVER_best_finish ran out of memory. *)
TrainingEnds == main = "pool" ~> main = "done" \/ failed

(* cover.c:790: a finished try "signals any waiting threads if             *)
(* liveJobs == 0", on error as on success.                                 *)
FinishWakesTheOwner ==
  NobodyLive /\ main \in {"wait", "asleep"} ~> main \notin {"wait", "asleep"}
=============================================================================
