\* Two connections compete for one descriptor and send three units each to a
\* server whose buffer holds two: recv may find nothing, less than the buffer,
\* the buffer, or more.  No symmetry.
SPECIFICATION FairSpec
CONSTANTS
  Conns = {c1, c2}
  NoConn = NoConn
  Absent = Absent
  Fresh = Fresh
  NumFds = 1
  MaxSent = 3
  BufUnits = 2
CHECK_DEADLOCK FALSE
PROPERTIES
  PeersAreServed
  StopHonoured
