\* Two connections share one descriptor, two workers; no symmetry.
SPECIFICATION FairSpec
CONSTANTS
  Conns = {c1, c2}
  Workers = {w1, w2}
  NoConn = NoConn
  Absent = Absent
  Fresh = Fresh
  Nobody = Nobody
  NumFds = 1
  MaxSent = 1
  BufUnits = 2
CHECK_DEADLOCK FALSE
PROPERTIES
  WorkersComeBack
  InputIsRead
