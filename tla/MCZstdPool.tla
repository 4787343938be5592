----------------------------- MODULE MCZstdPool -----------------------------
(***************************************************************************)
(* TLC instances of zstd's thread pool: callers that add, try to add,      *)
(* resize and free as they like, or the dictionary trainer.                *)
(***************************************************************************)
EXTENDS CoverTrain, TLC

MCCompressed == [j \in Jobs |-> IF j = "j2" THEN 5 ELSE IF j = "j1" THEN 7 ELSE 6]
MCDictSize == [j \in Jobs |-> IF j = "j3" THEN 2 ELSE 1]
MCRounds == <<<<"j1", "j2">>, <<"j3">>>>

MCNext ==
  \/ main = "absent" /\ Next /\ UNCHANGED tvars
  \/ main # "absent" /\ TrainNext

MCSpec == TrainInit /\ [][MCNext]_<<vars, tvars>>

MCFairSpec == MCSpec /\ (IF main = "absent" THEN Fairness ELSE TrainFairness)
=============================================================================
