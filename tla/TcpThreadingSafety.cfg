\* Two connections that send two units each, one after the other on the only
\* descriptor, served by two workers.
SPECIFICATION Spec
CONSTANTS
  Conns = {c1, c2}
  Workers = {w1, w2}
  NoConn = NoConn
  Absent = Absent
  Fresh = Fresh
  Nobody = Nobody
  NumFds = 1
  MaxSent = 2
  BufUnits = 2
SYMMETRY Symmetry
CHECK_DEADLOCK FALSE
INVARIANTS
  ClosedForACause
  IdentityLeaksAreKnown
