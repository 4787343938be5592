\* One client with two messages and two workers, every way to cut and join
\* them; and two clients that log in and broadcast, two workers.
SPECIFICATION MCSpec
CONSTANTS
  Conns = {c1, c2}
  Workers = {w1, w2}
  Scripts <- MCScripts
  Meaning <- MCMeaning
  Empty = ""
  Junk = "junk"
  Nobody = Nobody
SYMMETRY Symmetry
CHECK_DEADLOCK FALSE
INVARIANTS
  RepliesInStep
  EndsForACause
  
  FiltersKeepTheirMeaning
