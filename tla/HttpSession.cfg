\* Sessions and the cache: two clients, two seconds in which ids are made.
SPECIFICATION Spec
CONSTANTS
  Clients = {c1, c2}
  enable_session = TRUE
  enable_cache = TRUE
  MaxTime = 1
  CacheKey = CacheKey
  FieldKey = FieldKey
  NoKey = NoKey
  NoCookie = NoCookie
  OtherCookie = OtherCookie
  Nobody = Nobody
SYMMETRY Symmetry
INVARIANTS
  KeysExpire
  SessionsAreOwn
  StoredIsFound
