\* Three workers, two requests, one interrupted sleep.  The pool may hang in
\* join, and it stops when it is destroyed: deadlock is not an error here.
SPECIFICATION FairSpec
CONSTANTS
  Workers = {w1, w2, w3}
  Owner = owner
  Jobs = {j1, j2}
  MaxInterrupts = 1
  NoTask = NoTask
CHECK_DEADLOCK FALSE
INVARIANTS
  NoLostWakeup
  OnlyBroadcastsDropped
PROPERTIES
  ShutdownEnds
  QueuedJobsRun
  ImplementsTaskQueue
