\* Three connections on two descriptors: descriptors are reused and run out.
SPECIFICATION Spec
CONSTANTS
  Conns = {c1, c2, c3}
  NoConn = NoConn
  Absent = Absent
  Fresh = Fresh
  NumFds = 2
  MaxSent = 1
  BufUnits = 2
SYMMETRY Symmetry
CHECK_DEADLOCK FALSE
INVARIANTS
  EventsAreCurrent
  BacklogNeverForgotten
  IdentityInheritedOnlyAfterHangup
