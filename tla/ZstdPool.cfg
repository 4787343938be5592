\* Two threads and two callers, three jobs, no queue or room for one; or three
\* tries in two rounds.
SPECIFICATION MCFairSpec
CONSTANTS
  Threads = {t1, t2}
  numThreads = 2
  Owner = o
  Callers = {o, p}
  Jobs = {"j1", "j2", "j3"}
  QueueSizes = {0, 1}
  NoJob = NoJob
  Rounds <- MCRounds
  Compressed <- MCCompressed
  DictSize <- MCDictSize
  Nobody = Nobody
  NoTry = NoTry
CHECK_DEADLOCK FALSE
INVARIANTS
  NoLostWakeup
  BestOfAll
PROPERTIES
  ImplementsTaskQueue
  CallsComeBack
  TrainingEnds
