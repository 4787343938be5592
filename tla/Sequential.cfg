\* Cache: two entries survive a prune and three may be held; the fourth
\* insertion prunes two at once.  Two servers take two uploads, one of a body
\* that was cut.  Parsers: see MCSequential.
SPECIFICATION MCSpec
CONSTANTS
  Key = {k1, k2, k3, k4, k5}
  Value = {v1, v2}
  Node = {n1, n2, n3, n4}
  maxSize_ = 2
  elasticity_ = 2
  Servers = {s1, s2}
  MaxTime = 1
  MaxUploads = 2
  Kits <- MCKits
  CJSON_NESTING_LIMIT = 2
  INT_MAX = 40
  number_size = 5
  default_buffer_size = 3
CHECK_DEADLOCK FALSE
INVARIANTS
  FramesAreThoseSent
  ParserIsSound
  FieldsAreThoseSent
  FilesAreAccountedFor
  TextsKeepTheirMeaning
PROPERTIES
  ImplementsRecencyCache
  ImplementsJsonTree
