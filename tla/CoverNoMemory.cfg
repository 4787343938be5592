\* As ZstdPool.cfg: COVER_best_finish may find no memory.
SPECIFICATION MCFairSpec
CONSTANTS
  Threads = {t1, t2}
  numThreads = 2
  Owner = o
  Callers = {o, p}
  Jobs = {"j1", "j2", "j3"}
  QueueSizes = {0, 1}
  NoJob = NoJob
  Rounds <- MCRounds
  Compressed <- MCCompressed
  DictSize <- MCDictSize
  Nobody = Nobody
  NoTry = NoTry
CHECK_DEADLOCK FALSE
PROPERTY
  FinishWakesTheOwner
