------------------------------ MODULE HttpProofs ------------------------------
(***************************************************************************)
(* What holds of http_server's parts for every value of the constants: the *)
(* sessions and the cache in redis, however many clients and however long  *)
(* the server runs; the parser, whatever a peer sends; the files of        *)
(* uploads, however many servers share their directory; and the cache in   *)
(* memory that the library offers to handlers, which implements            *)
(* RecencyCache for all sizes.  The parser's definitions are those of P,   *)
(* the module HttpStream; those of the uploads are those of U, the module  *)
(* HttpUpload.                                                             *)
(***************************************************************************)
EXTENDS HttpSession, LruCache, FiniteSetTheorems, SequenceTheorems, TLAPS

CONSTANTS ULLONG_MAX, HTTP_MAX_HEADER_SIZE, Chars
VARIABLES parser, made, before
P == INSTANCE HttpStream

CONSTANTS Servers, Bodies, MaxUploads
VARIABLES files, up, serial, shared, named, left
U == INSTANCE HttpUpload

-----------------------------------------------------------------------------
(* THE SESSIONS AND THE CACHE *)

Stages == {"exists", "hgetall", "hset", "expire"}   \* steps about one key

(* A key is settled when redis has it, or had it within this request.      *)
Known == DOMAIN redis \cup gone

(* A stage's commands are about a key.                                     *)
Keyed == pc \in Stages => StageKey \in Keys

(* While the connection lasts, the commands before the handler have seen   *)
(* to it that every key the request will store under is in redis.          *)
Settled ==
  connected =>
    /\ pc \in {"hgetall", "expire"} => StageKey \in Known
    /\ req.key # NoKey /\ (req.stage = "cache" \/ pc \in {"handler", "save"}) => req.key \in Known
    /\ enable_cache /\ pc \in {"handler", "save"} => CacheKey \in Known

SaveIsEnabled == pc = "save" /\ req.stage = "cache" => enable_cache

LostIsImmortal == pc = "expire" /\ ~connected => StageKey \in immortal

ExpiryInv == Settled /\ SaveIsEnabled /\ LostIsImmortal /\ KeysExpire

-----------------------------------------------------------------------------
(* What the operators of the model do *)

SameRequest(r) ==
  /\ req' \in Request
  /\ req'.client = r.client /\ req'.key = r.key
  /\ req'.loaded = r.loaded /\ req'.cookie = r.cookie

(* After the session comes the cache if it is enabled and redis is there.  *)
LEMMA AfterSessionLeads ==
  ASSUME NEW r \in Request, AfterSession(r)
  PROVE  /\ SameRequest(r)
         /\ \/ pc' = "exists" /\ req'.stage = "cache" /\ enable_cache /\ connected'
            \/ pc' = "handler" /\ req' = r /\ ~(enable_cache /\ connected')
BY DEF AfterSession, Goto, Request, SameRequest

(* The session's commands lead to the cache's or to the handler, the       *)
(* cache's to the handler.                                                 *)
LEMMA AfterStageLeads ==
  ASSUME req \in Request, AfterStage
  PROVE  /\ SameRequest(req)
         /\ \/ /\ pc' = "exists" /\ req.stage = "session" /\ req'.stage = "cache"
               /\ enable_cache /\ connected'
            \/ /\ pc' = "handler" /\ req' = req
               /\ req.stage = "cache" \/ ~(enable_cache /\ connected')
<1>1. CASE req.stage = "session"
  BY <1>1, AfterSessionLeads DEF AfterStage
<1>2. CASE req.stage = "cache"
  BY <1>2 DEF AfterStage, Goto, SameRequest
<1> QED BY <1>1, <1>2 DEF Request

(* The session is written back before the cache.                           *)
LEMMA AfterSaveLeads ==
  ASSUME req \in Request, AfterSave
  PROVE  /\ SameRequest(req)
         /\ \/ pc' = "save" /\ req.stage = "session" /\ req'.stage = "cache" /\ enable_cache
            \/ pc' = "respond" /\ req' = req
BY DEF AfterSave, Goto, Request, SameRequest

Table(r) == DOMAIN r \subseteq Keys /\ r \in [DOMAIN r -> Entry]

(* HSET of the marker (redis::hset) adds at most the key it names.         *)
LEMMA CreatedFacts ==
  ASSUME Table(redis), NEW key \in Keys
  PROVE  /\ Table(Created(key)) /\ DOMAIN Created(key) = DOMAIN redis \cup {key}
         /\ \A k \in DOMAIN redis : Created(key)[k] = redis[k]
BY DEF Table, Created, Entry

(* HMSET under a key (redis::hmset): the storing client is known, and no   *)
(* expiry is touched.                                                      *)
LEMMA StoredFacts ==
  ASSUME Table(redis), NEW key \in Keys, NEW c \in Clients
  PROVE  /\ Table(Stored(key, c)) /\ DOMAIN Stored(key, c) = DOMAIN redis \cup {key}
         /\ Stored(key, c)[key].by = c
         /\ \A k \in DOMAIN redis : Stored(key, c)[k].expires = redis[k].expires
         /\ \A k \in DOMAIN redis \ {key} : Stored(key, c)[k] = redis[k]
<1>1. \A k \in DOMAIN redis : redis[k] \in Entry
  BY DEF Table
<1>2. \A k \in DOMAIN redis \cup {key} : Stored(key, c)[k] \in Entry
  BY <1>1 DEF Stored, Entry
<1> QED BY <1>1, <1>2 DEF Table, Stored, Entry

(* EXPIRE (redis::expire) changes no key's contents and no other key's     *)
(* expiry.                                                                 *)
LEMMA ExpiringFacts ==
  ASSUME Table(redis), NEW key
  PROVE  /\ Table(Expiring(key)) /\ DOMAIN Expiring(key) = DOMAIN redis
         /\ key \in DOMAIN redis => Expiring(key)[key].expires
         /\ \A k \in DOMAIN redis : Expiring(key)[k].by = redis[k].by
         /\ \A k \in DOMAIN redis \ {key} : Expiring(key)[k] = redis[k]
BY DEF Table, Expiring, Entry

(* HMSET in a request's stage (redis::hmset), whatever the values: nothing *)
(* leaves redis and no expiry is touched, at most the stage's key or one   *)
(* named after a field is new, and who is said to have stored something is *)
(* who was before, or the client that stores it.                           *)
LEMMA SentFacts ==
  ASSUME TypeOK, pc = "save", NEW words \in BOOLEAN, redis' \in {redis} \cup Sent(words)
  PROVE  /\ Table(redis') /\ DOMAIN redis \subseteq DOMAIN redis'
         /\ DOMAIN redis' \subseteq DOMAIN redis \cup {StageKey, FieldKey}
         /\ \A k \in DOMAIN redis : redis'[k].expires = redis[k].expires
         /\ req.client \in Clients
         /\ \A k \in DOMAIN redis' :
              \/ k \in DOMAIN redis /\ redis'[k].by = redis[k].by
              \/ k \notin DOMAIN redis /\ redis'[k].by = Nobody
              \/ k = StageKey /\ redis'[k].by = req.client
<1>1. Table(redis) /\ req.client \in Clients /\ StageKey \in Keys \cup {NoKey}
  BY DEF TypeOK, Table, StageKey, Keys, Request
<1>2. CASE redis' = redis
  BY <1>1, <1>2
<1>3. ASSUME NEW key \in Keys, key \in {StageKey, FieldKey}, redis' = Created(key)
      PROVE  /\ Table(redis') /\ DOMAIN redis' = DOMAIN redis \cup {key}
             /\ \A k \in DOMAIN redis : redis'[k] = redis[k]
             /\ \A k \in DOMAIN redis' \ DOMAIN redis : redis'[k].by = Nobody
  <2>1. \A k \in DOMAIN redis' \ DOMAIN redis : redis'[k].by = Nobody
    BY <1>3 DEF Created
  <2> QED BY <1>1, <1>3, <2>1, CreatedFacts
<1>4. CASE StageKey # NoKey /\ redis' = Stored(StageKey, req.client)
  <2>1. /\ Table(redis') /\ DOMAIN redis' = DOMAIN redis \cup {StageKey}
        /\ redis'[StageKey].by = req.client
        /\ \A k \in DOMAIN redis : redis'[k].expires = redis[k].expires
        /\ \A k \in DOMAIN redis \ {StageKey} : redis'[k] = redis[k]
    BY <1>1, <1>4, StoredFacts
  <2> HIDE DEF Table
  <2> QED BY <1>1, <2>1
<1>5. CASE StageKey # NoKey /\ redis' = Created(StageKey)
  <2> HIDE DEF Table
  <2> QED BY <1>1, <1>3, <1>5
<1>6. CASE redis' = Created(FieldKey)
  <2>1. FieldKey \in Keys
    BY DEF Keys
  <2> HIDE DEF Table
  <2> QED BY <1>1, <1>3, <1>6, <2>1
<1> QED BY <1>2, <1>4, <1>5, <1>6 DEF Sent

(* What a handler stores in words under its request's key is there.        *)
LEMMA WordsAreStored ==
  ASSUME TypeOK, StageKey # NoKey, redis' \in Sent(TRUE)
  PROVE  StageKey \in DOMAIN redis' /\ redis'[StageKey].by = req.client
<1>1. redis' = Stored(StageKey, req.client)
  BY DEF Sent
<1> QED BY <1>1 DEF Stored

-----------------------------------------------------------------------------
(* A request that is being served keeps its client and its key.            *)
LEMMA ServedRequest ==
  ASSUME TypeOK, pc # "idle", pc' \in Stages \cup {"handler", "save", "respond"},
         req' \in Request, req'.client = req.client, req'.key = req.key, UNCHANGED jar
  PROVE  /\ pc' # "idle" /\ req'.client \in Clients
         /\ req'.key # NoKey => req'.key = jar'[req'.client]
BY DEF TypeOK, Stages

(* One step of the request, of redis or of a browser keeps TypeOK and      *)
(* Keyed.                                                                  *)
LEMMA TypeStep == TypeOK /\ Keyed /\ [Next]_vars => TypeOK' /\ Keyed'
<1> SUFFICES ASSUME TypeOK, Keyed, [Next]_vars PROVE TypeOK' /\ Keyed'
  OBVIOUS
<1> USE DEF Table
<1>1. ASSUME NEW c \in Clients, Begin(c) PROVE TypeOK' /\ Keyed'
  <2> DEFINE r == [NoRequest EXCEPT !.client = c]
  <2>1. /\ pc' \in {"exists", "handler"} /\ req' \in Request /\ req'.client = c
        /\ req'.key \in {NoKey, jar[c]}
        /\ pc' = "exists" => req'.stage = "cache" \/ req'.key \in Sessions
    <3>1. CASE AfterSession(r)
      <4>1. r \in Request /\ r.client = c /\ r.key = NoKey
        BY DEF NoRequest, Request
      <4> HIDE DEF r
      <4> QED BY <3>1, <4>1, AfterSessionLeads DEF SameRequest
    <3>2. CASE AfterSession([r EXCEPT !.cookie = NewId(now)])
      <4>1. NewId(now) \in Sessions
        BY DEF TypeOK, NewId, Sessions
      <4> DEFINE s == [r EXCEPT !.cookie = NewId(now)]
      <4>2. s \in Request /\ s.client = c /\ s.key = NoKey
        BY <4>1 DEF NoRequest, Request
      <4>3. AfterSession(s)
        BY <3>2
      <4> HIDE DEF s
      <4> QED BY <4>2, <4>3, AfterSessionLeads DEF SameRequest
    <3>3. CASE Goto([r EXCEPT !.key = jar[c]], "exists") /\ jar[c] \in Sessions
      <4> DEFINE s == [r EXCEPT !.key = jar[c]]
      <4>1. s \in Request /\ s.client = c /\ s.key = jar[c]
        BY <3>3 DEF NoRequest, Request
      <4> QED BY <3>3, <4>1 DEF Goto
    <3> QED BY <1>1, <3>1, <3>2, <3>3 DEF Begin, TypeOK
  <2>2. UNCHANGED <<redis, connected, now, jar>>
    BY <1>1 DEF Begin
  <2> QED BY <2>1, <2>2, SettingsAssumption, NobodyAssumption DEF TypeOK, Keyed, StageKey, Keys, Stages
<1>2. CASE Exists
  BY <1>2 DEF Exists, Goto, TypeOK, Keyed, Stages, StageKey
<1>3. CASE HGetAll
  <2> DEFINE r == [req EXCEPT !.loaded = IF req.key \in DOMAIN redis THEN redis[req.key].by ELSE Nobody]
  <2>1. r \in Request /\ r.client = req.client /\ r.key = req.key
    BY DEF TypeOK, Request, Entry
  <2>2. /\ pc' \in Stages \cup {"handler"} /\ req' \in Request /\ req'.client = req.client /\ req'.key = req.key
        /\ pc' \in Stages => req'.stage = "cache"
    BY <1>3, <2>1, AfterSessionLeads, AfterStageLeads DEF HGetAll, TypeOK, SameRequest, Stages
  <2> QED BY <1>3, <2>2, ServedRequest DEF HGetAll, TypeOK, Keyed, StageKey, Keys, Stages
<1>4. CASE HSet
  <2>1. Table(redis')
    BY <1>4, CreatedFacts DEF HSet, TypeOK, Keyed, Stages
  <2> QED BY <1>4, <2>1 DEF HSet, Goto, TypeOK, Keyed, Stages, StageKey
<1>5. CASE Expire
  <2>1. Table(redis')
    BY <1>5, ExpiringFacts DEF Expire, TypeOK
  <2> QED BY <1>5, <2>1, AfterStageLeads, ServedRequest DEF Expire, TypeOK, Keyed, StageKey, Keys, Stages, SameRequest
<1>6. CASE Handler
  <2>1. /\ pc' \in {"save", "respond"} /\ req' \in Request /\ req'.client = req.client /\ req'.key = req.key
    BY <1>6 DEF Handler, Goto, TypeOK, Request
  <2> QED BY <1>6, <2>1, ServedRequest DEF Handler, TypeOK, Keyed, Stages
<1>7. CASE HMSet
  <2>1. Table(redis')
    <3>1. CASE connected
      <4> HIDE DEF Table
      <4> QED BY <1>7, <3>1, SentFacts DEF HMSet
    <3> QED BY <1>7, <3>1 DEF HMSet, TypeOK
  <2> QED BY <1>7, <2>1, AfterSaveLeads, ServedRequest DEF HMSet, TypeOK, Keyed, Stages, SameRequest
<1>8. CASE Respond
  <2>1. req' = NoRequest /\ pc' = "idle" /\ jar' \in [Clients -> Sessions \cup {NoCookie, OtherCookie}]
    BY <1>8 DEF Respond, Goto, TypeOK, Request
  <2> QED BY <1>8, <2>1 DEF Respond, TypeOK, Keyed, Stages, NoRequest, Request
<1>9. CASE Restart
  BY <1>9 DEF Restart, Goto, TypeOK, Keyed, Stages, NoRequest, Request
<1>10. CASE Breaks
  <2>1. UNCHANGED <<now, jar>> /\ connected' = FALSE
    BY <1>10 DEF Breaks
  <2>2. CASE pc = "hset" /\ Goto(req, "expire") /\ redis' \in {redis, Created(StageKey)}
    <3>1. Table(redis')
      BY <2>2, CreatedFacts DEF TypeOK, Keyed, Stages
    <3> QED BY <2>1, <2>2, <3>1 DEF Goto, TypeOK, Keyed, Stages, StageKey
  <2>3. CASE pc = "expire" /\ AfterStage /\ redis' \in {redis, Expiring(StageKey)}
    <3>1. Table(redis')
      BY <2>3, ExpiringFacts DEF TypeOK
    <3> QED BY <2>1, <2>3, <3>1, AfterStageLeads, ServedRequest DEF TypeOK, Keyed, StageKey, Keys, Stages, SameRequest
  <2>4. CASE pc = "save" /\ AfterSave /\ redis' \in {redis} \cup Sent(TRUE) \cup Sent(FALSE)
    <3>1. Table(redis')
      <4> HIDE DEF Table
      <4> QED BY <2>4, SentFacts
    <3> QED BY <2>1, <2>4, <3>1, AfterSaveLeads, ServedRequest DEF TypeOK, Keyed, Stages, SameRequest
  <2> QED BY <1>10, <2>2, <2>3, <2>4 DEF Breaks
<1>11. CASE ExpireLost
  BY <1>11, AfterStageLeads, ServedRequest DEF ExpireLost, TypeOK, Keyed, StageKey, Keys, Stages, SameRequest
<1>12. ASSUME NEW k \in Keys, KeyExpires(k) PROVE TypeOK' /\ Keyed'
  BY <1>12 DEF KeyExpires, Restrict, TypeOK, Keyed, StageKey, Stages
<1>13. ASSUME NEW c \in Clients, CookieExpires(c) PROVE TypeOK' /\ Keyed'
  BY <1>13 DEF CookieExpires, TypeOK, Keyed, StageKey, Stages
<1>14. CASE Tick
  BY <1>14, SettingsAssumption DEF Tick, TypeOK, Keyed, StageKey, Stages
<1>15. CASE UNCHANGED vars
  BY <1>15 DEF vars, TypeOK, Keyed, StageKey, Stages
<1> QED BY <1>1, <1>2, <1>3, <1>4, <1>5, <1>6, <1>7, <1>8, <1>9, <1>10, <1>11, <1>12, <1>13, <1>14, <1>15
        DEF Next, Commands

(* The model's steps keep their types: at each moment a request is at one  *)
(* of work's commands, with the cookie its client sent as its key.         *)
THEOREM TypeCorrect == Spec => [](TypeOK /\ Keyed)
<1>1. Init => TypeOK /\ Keyed
  BY SettingsAssumption, NobodyAssumption
  DEF Init, TypeOK, Keyed, Stages, NoRequest, Request, Entry, Keys, Sessions
<1> QED BY <1>1, TypeStep, PTL DEF Spec

-----------------------------------------------------------------------------
(* The keys that hmset makes have been there within the request, or are    *)
(* named after a field: while the connection lasts, the stage's key was    *)
(* found or made before the handler.                                       *)
LEMMA MadeKeysAreExcused ==
  ASSUME TypeOK, ExpiryInv, connected, pc = "save", pc' # "expire",
         NEW words \in BOOLEAN, redis' \in {redis} \cup Sent(words),
         immortal' = immortal \cup MadeForGood
  PROVE  KeysExpire'
<1>1. ASSUME NEW k \in DOMAIN redis', k \notin DOMAIN redis PROVE k \in MadeForGood
  <2>1. k \in {StageKey, FieldKey} /\ k # NoKey
    BY <1>1, SentFacts, NamesAssumption DEF Table
  <2>2. StageKey # NoKey => StageKey \in Known
    BY DEF ExpiryInv, Settled, SaveIsEnabled, StageKey, TypeOK, Request
  <2> QED BY <1>1, <2>1, <2>2 DEF MadeForGood, Known
<1>2. ASSUME NEW k \in DOMAIN redis PROVE redis'[k].expires = redis[k].expires
  BY SentFacts
<1> QED BY <1>1, <1>2 DEF ExpiryInv, KeysExpire

(* A key loses its expiry, or is made without one, only in HSet, HMSet and *)
(* Breaks; for the other actions it is enough to look at where the request *)
(* goes.                                                                   *)
LEMMA ExpiryStep == TypeOK /\ Keyed /\ ExpiryInv /\ [Next]_vars => ExpiryInv'
<1> SUFFICES ASSUME TypeOK, Keyed, ExpiryInv, [Next]_vars PROVE ExpiryInv'
  OBVIOUS
<1>0. Table(redis) /\ req \in Request /\ connected \in BOOLEAN
  BY DEF TypeOK, Table
<1> USE DEF ExpiryInv, Settled, SaveIsEnabled, LostIsImmortal, KeysExpire, Known
<1>1. ASSUME NEW c \in Clients, Begin(c) PROVE ExpiryInv'
  <2> DEFINE r == [NoRequest EXCEPT !.client = c]
  <2>1. /\ pc' \in {"exists", "handler"}
        /\ pc' = "handler" \/ req'.stage = "cache" => req'.key = NoKey
        /\ pc' = "handler" => ~(enable_cache /\ connected')
    <3>1. CASE AfterSession(r)
      <4>1. r \in Request /\ r.client = c /\ r.key = NoKey
        BY DEF NoRequest, Request
      <4> HIDE DEF r
      <4> QED BY <3>1, <4>1, AfterSessionLeads DEF SameRequest
    <3>2. CASE AfterSession([r EXCEPT !.cookie = NewId(now)])
      <4>1. NewId(now) \in Sessions
        BY DEF TypeOK, NewId, Sessions
      <4> DEFINE s == [r EXCEPT !.cookie = NewId(now)]
      <4>2. s \in Request /\ s.key = NoKey
        BY <4>1 DEF NoRequest, Request
      <4>3. AfterSession(s)
        BY <3>2
      <4> HIDE DEF s
      <4> QED BY <4>2, <4>3, AfterSessionLeads DEF SameRequest
    <3>3. CASE Goto([r EXCEPT !.key = jar[c]], "exists") /\ jar[c] \in Sessions
      <4> DEFINE s == [r EXCEPT !.key = jar[c]]
      <4>1. s.stage = "session"
        BY DEF NoRequest
      <4> QED BY <3>3, <4>1 DEF Goto
    <3> QED BY <1>1, <3>1, <3>2, <3>3 DEF Begin, TypeOK
  <2>2. UNCHANGED <<redis, connected, immortal>> /\ pc = "idle"
    BY <1>1 DEF Begin
  <2> QED BY <2>1, <2>2
<1>2. CASE Exists
  BY <1>2 DEF Exists, Goto, Found, StageKey
<1>3. CASE HGetAll
  <2> DEFINE r == [req EXCEPT !.loaded = IF req.key \in DOMAIN redis THEN redis[req.key].by ELSE Nobody]
  <2>1. r \in Request /\ r.key = req.key /\ r.stage = req.stage
    BY <1>0 DEF TypeOK, Request, Entry
  <2>2. /\ req'.key = req.key
        /\ \/ /\ pc' = "exists" /\ req.stage = "session" /\ req'.stage = "cache"
           \/ /\ pc' = "handler" /\ req'.stage = req.stage
              /\ req.stage = "cache" \/ ~(enable_cache /\ connected')
    <3>1. CASE req.stage = "session"
      <4>1. AfterSession(r)
        BY <1>3, <3>1 DEF HGetAll
      <4> HIDE DEF r
      <4> QED BY <2>1, <3>1, <4>1, AfterSessionLeads DEF SameRequest
    <3>2. CASE req.stage # "session"
      BY <1>0, <1>3, <3>2, AfterStageLeads DEF HGetAll, SameRequest
    <3> QED BY <3>1, <3>2
  <2>3. UNCHANGED <<redis, connected, gone, immortal>> /\ pc = "hgetall"
    BY <1>3 DEF HGetAll
  <2> QED BY <1>0, <2>2, <2>3 DEF StageKey, Request
<1>4. CASE connected /\ HSet
  <2>1. /\ \A k \in DOMAIN redis : redis'[k] = redis[k]
        /\ DOMAIN redis' = DOMAIN redis \cup {StageKey}
    BY <1>0, <1>4, CreatedFacts DEF HSet, Keyed, Stages
  <2> QED BY <1>4, <2>1 DEF HSet, Goto, StageKey
<1>5. CASE Expire
  <2>1. /\ DOMAIN redis' = DOMAIN redis
        /\ StageKey \in DOMAIN redis => redis'[StageKey].expires
        /\ \A k \in DOMAIN redis \ {StageKey} : redis'[k] = redis[k]
    BY <1>0, <1>5, ExpiringFacts DEF Expire
  <2>2. KeysExpire'
    BY <1>5, <2>1 DEF Expire
  <2>3. Settled' /\ SaveIsEnabled' /\ LostIsImmortal'
    BY <1>0, <1>5, <2>1, AfterStageLeads DEF Expire, SameRequest, StageKey, Request
  <2> QED BY <2>2, <2>3
<1>6. CASE Handler
  <2>1. /\ pc' \in {"save", "respond"} /\ req'.key = req.key
        /\ pc' = "save" /\ req'.stage = "cache" => enable_cache
    BY <1>0, <1>6 DEF Handler, Goto, Request
  <2> QED BY <1>6, <2>1 DEF Handler
<1>7. CASE HMSet
  <2>1. pc' \in {"save", "respond"} /\ req'.key = req.key /\ SaveIsEnabled'
    BY <1>0, <1>7, AfterSaveLeads DEF HMSet, SameRequest
  <2>2. CASE connected
    <3>1. PICK words \in BOOLEAN : redis' \in Sent(words) /\ immortal' = immortal \cup MadeForGood
      BY <1>7, <2>2 DEF HMSet
    <3>2. pc = "save" /\ UNCHANGED <<connected, gone>>
      BY <1>7 DEF HMSet
    <3>3. DOMAIN redis \subseteq DOMAIN redis'
      BY <3>1, <3>2, SentFacts
    <3>4. KeysExpire'
      BY <2>1, <2>2, <3>1, <3>2, MadeKeysAreExcused
    <3> QED BY <2>1, <3>2, <3>3, <3>4
  <2>3. CASE ~connected
    BY <1>7, <2>1, <2>3 DEF HMSet
  <2> QED BY <2>2, <2>3
<1>8. CASE Respond
  BY <1>8 DEF Respond, Goto, NoRequest
<1>9. CASE Restart
  BY <1>9 DEF Restart, Goto, NoRequest
<1>10. CASE Breaks
  <2>1. connected' = FALSE /\ Settled' /\ UNCHANGED gone
    BY <1>10 DEF Breaks
  <2>2. CASE pc = "hset" /\ Goto(req, "expire") /\ redis' \in {redis, Created(StageKey)}
    <3>1. /\ \A k \in DOMAIN redis : redis'[k] = redis[k]
          /\ DOMAIN redis' \subseteq DOMAIN redis \cup {StageKey}
      BY <1>0, <2>2, CreatedFacts DEF Keyed, Stages
    <3>2. immortal' = immortal \cup {StageKey} /\ UNCHANGED req /\ pc' = "expire"
      BY <1>10, <2>2 DEF Breaks, Goto
    <3> QED BY <2>1, <2>2, <3>1, <3>2 DEF StageKey
  <2>3. CASE pc = "expire" /\ AfterStage /\ redis' \in {redis, Expiring(StageKey)}
    <3>1. /\ DOMAIN redis' = DOMAIN redis
          /\ \A k \in DOMAIN redis \ {StageKey} : redis'[k] = redis[k]
      BY <1>0, <2>3, ExpiringFacts
    <3>2. immortal' = immortal \cup {StageKey} /\ pc' \in {"exists", "handler"}
      BY <1>0, <1>10, <2>3, AfterStageLeads DEF Breaks
    <3> QED BY <2>1, <2>3, <3>1, <3>2
  <2>4. CASE pc = "save" /\ AfterSave /\ redis' \in {redis} \cup Sent(TRUE) \cup Sent(FALSE)
    <3>1. PICK words \in BOOLEAN : redis' \in {redis} \cup Sent(words)
      BY <2>4
    <3>2. connected /\ immortal' = immortal \cup MadeForGood
      BY <1>10, <2>4 DEF Breaks
    <3>3. pc' \in {"save", "respond"} /\ SaveIsEnabled'
      BY <1>0, <2>4, AfterSaveLeads
    <3>4. KeysExpire'
      BY <2>4, <3>1, <3>2, <3>3, MadeKeysAreExcused
    <3> QED BY <2>1, <3>3, <3>4
  <2> QED BY <1>10, <2>2, <2>3, <2>4 DEF Breaks
<1>11. CASE ExpireLost
  BY <1>0, <1>11, AfterStageLeads DEF ExpireLost
<1>12. ASSUME NEW k \in Keys, KeyExpires(k) PROVE ExpiryInv'
  BY <1>12 DEF KeyExpires, Restrict, StageKey
<1>13. ASSUME NEW c \in Clients, CookieExpires(c) PROVE ExpiryInv'
  BY <1>13 DEF CookieExpires, StageKey
<1>14. CASE Tick
  BY <1>14 DEF Tick, StageKey
<1>15. CASE UNCHANGED vars
  BY <1>15 DEF vars, StageKey
<1> QED BY <1>1, <1>2, <1>3, <1>4, <1>5, <1>6, <1>7, <1>8, <1>9, <1>10, <1>11, <1>12, <1>13, <1>14, <1>15
        DEF Next, Commands

(* However many clients there are and however long the server runs, a key  *)
(* without expiry is one whose EXPIRE was lost in work, or one that HMSET  *)
(* has made anew after it had expired, or has named after a field.         *)
THEOREM OnlyExcusedKeysStay == Spec => []KeysExpire
<1>1. Init => ExpiryInv
  BY DEF Init, ExpiryInv, Settled, SaveIsEnabled, LostIsImmortal, KeysExpire, NoRequest
<1>2. ExpiryInv => KeysExpire
  BY DEF ExpiryInv
<1> QED BY <1>1, <1>2, TypeCorrect, ExpiryStep, PTL DEF Spec

-----------------------------------------------------------------------------
(* What is kept under a client's id is in redis, and a client stored it.   *)
KeptIsThere ==
  /\ kept \in [Clients -> Sessions \cup {NoKey}]
  /\ \A c \in Clients : kept[c] # NoKey => kept[c] \in DOMAIN redis /\ redis[kept[c]].by \in Clients

(* A request for a kept session finds its key and loads it: it never comes *)
(* to create the key.                                                      *)
KeptIsLoaded ==
  req.key # NoKey /\ kept[req.client] = req.key =>
    /\ pc \in {"hset", "expire"} => req.stage = "cache"
    /\ pc = "handler" \/ (pc \in Stages /\ req.stage = "cache") => req.loaded # Nobody

FoundInv == KeptIsThere /\ KeptIsLoaded

(* A step after which redis has what it had, kept aside.                   *)
LEMMA KeptSurvives ==
  ASSUME KeptIsThere, UNCHANGED kept, DOMAIN redis \subseteq DOMAIN redis',
         \A k \in DOMAIN redis : redis'[k].by \in {redis[k].by} \cup Clients
  PROVE  KeptIsThere'
BY DEF KeptIsThere

(* KeptIsThere and KeptIsLoaded are inductive on top of the types: the     *)
(* only step that could create a kept key anew is HSet, and a request      *)
(* for a kept key goes to hgetall instead.                                 *)
LEMMA FoundStep == TypeOK /\ Keyed /\ FoundInv /\ [Next]_vars => FoundInv'
<1> SUFFICES ASSUME TypeOK, Keyed, FoundInv, [Next]_vars PROVE FoundInv'
  OBVIOUS
<1>0. Table(redis) /\ req \in Request /\ connected \in BOOLEAN
  BY DEF TypeOK, Table
<1> USE DEF FoundInv
<1>1. ASSUME NEW c \in Clients, Begin(c) PROVE FoundInv'
  <2> DEFINE r == [NoRequest EXCEPT !.client = c]
  <2>1. pc' \in {"exists", "handler"} /\ (pc' = "handler" \/ req'.stage = "cache" => req'.key = NoKey)
    <3>1. CASE AfterSession(r)
      <4>1. r \in Request /\ r.client = c /\ r.key = NoKey
        BY DEF NoRequest, Request
      <4> HIDE DEF r
      <4> QED BY <3>1, <4>1, AfterSessionLeads DEF SameRequest
    <3>2. CASE AfterSession([r EXCEPT !.cookie = NewId(now)])
      <4>1. NewId(now) \in Sessions
        BY DEF TypeOK, NewId, Sessions
      <4> DEFINE s == [r EXCEPT !.cookie = NewId(now)]
      <4>2. s \in Request /\ s.key = NoKey
        BY <4>1 DEF NoRequest, Request
      <4>3. AfterSession(s)
        BY <3>2
      <4> HIDE DEF s
      <4> QED BY <4>2, <4>3, AfterSessionLeads DEF SameRequest
    <3>3. CASE Goto([r EXCEPT !.key = jar[c]], "exists") /\ jar[c] \in Sessions
      <4> DEFINE s == [r EXCEPT !.key = jar[c]]
      <4>1. s.stage = "session"
        BY DEF NoRequest
      <4> QED BY <3>3, <4>1 DEF Goto
    <3> QED BY <1>1, <3>1, <3>2, <3>3 DEF Begin, TypeOK
  <2>2. UNCHANGED <<redis, kept>>
    BY <1>1 DEF Begin
  <2> QED BY <2>1, <2>2 DEF KeptIsThere, KeptIsLoaded
<1>2. CASE Exists
  <2>1. req.key # NoKey /\ kept[req.client] = req.key /\ req.stage = "session" => pc' = "hgetall"
    BY <1>2 DEF Exists, Goto, Found, StageKey, KeptIsThere, TypeOK
  <2> QED BY <1>0, <1>2, <2>1 DEF Exists, Goto, KeptIsThere, KeptIsLoaded, Stages, Request
<1>3. CASE HGetAll
  <2> DEFINE r == [req EXCEPT !.loaded = IF req.key \in DOMAIN redis THEN redis[req.key].by ELSE Nobody]
  <2>1. UNCHANGED <<redis, kept>> /\ pc = "hgetall"
    BY <1>3 DEF HGetAll
  <2>2. KeptIsThere'
    BY <2>1 DEF KeptIsThere
  <2>3. CASE req.stage = "session"
    <3>1. r \in Request /\ r.key = req.key /\ r.client = req.client
      BY <1>0 DEF TypeOK, Request, Entry
    <3>2. req.key # NoKey /\ kept[req.client] = req.key => r.loaded # Nobody
      BY <1>0, <2>1, NobodyAssumption DEF KeptIsThere, TypeOK, Request
    <3>3. AfterSession(r)
      BY <1>3, <2>3 DEF HGetAll
    <3> HIDE DEF r
    <3>4. SameRequest(r) /\ pc' \in {"exists", "handler"}
      BY <3>1, <3>3, AfterSessionLeads
    <3> QED BY <2>1, <2>2, <3>1, <3>2, <3>4 DEF KeptIsLoaded, SameRequest
  <2>4. CASE req.stage # "session"
    <3>1. SameRequest(req) /\ pc' = "handler"
      BY <1>0, <1>3, <2>4, AfterStageLeads DEF HGetAll
    <3> QED BY <1>0, <2>1, <2>2, <2>4, <3>1 DEF KeptIsLoaded, SameRequest, Stages, Request
  <2> QED BY <2>3, <2>4
<1>4. CASE HSet
  <2>1. KeptIsThere'
    BY <1>0, <1>4, CreatedFacts, KeptSurvives DEF HSet, Keyed, Stages
  <2> QED BY <1>4, <2>1 DEF HSet, Goto, KeptIsLoaded, Stages
<1>5. ASSUME pc = "expire", AfterStage, UNCHANGED kept PROVE KeptIsLoaded'
  <2>1. SameRequest(req) /\ pc' \in {"exists", "handler"}
    BY <1>0, <1>5, AfterStageLeads
  <2> QED BY <1>5, <2>1 DEF KeptIsLoaded, SameRequest, Stages
<1>6. CASE Expire
  <2>1. KeptIsThere'
    BY <1>0, <1>6, ExpiringFacts, KeptSurvives DEF Expire
  <2> QED BY <1>5, <1>6, <2>1 DEF Expire
<1>7. CASE Handler
  BY <1>7 DEF Handler, Goto, KeptIsThere, KeptIsLoaded, Stages
<1>8. CASE HMSet
  <2>1. pc' \in {"save", "respond"}
    BY <1>0, <1>8, AfterSaveLeads DEF HMSet
  <2>2. KeptIsThere'
    <3>1. CASE connected
      <4>1. PICK words \in BOOLEAN :
              /\ redis' \in Sent(words)
              /\ kept' = IF words /\ req.stage = "session" /\ req.key # NoKey
                         THEN [kept EXCEPT ![req.client] = req.key] ELSE kept
        BY <1>8, <3>1 DEF HMSet
      <4>2. pc = "save" /\ req.client \in Clients
        BY <1>8, <4>1, SentFacts DEF HMSet
      <4>3. /\ DOMAIN redis \subseteq DOMAIN redis'
            /\ \A k \in DOMAIN redis : redis'[k].by \in {redis[k].by} \cup Clients
        BY <4>1, <4>2, SentFacts
      <4>4. CASE words /\ req.stage = "session" /\ req.key # NoKey
        <5>1. StageKey = req.key /\ req.key \in Sessions
          BY <1>0, <4>4 DEF StageKey, Request
        <5>2. redis' \in Sent(TRUE)
          BY <4>1, <4>4
        <5>3. req.key \in DOMAIN redis' /\ redis'[req.key].by \in Clients
          BY <4>2, <4>4, <5>1, <5>2, WordsAreStored
        <5>4. kept' = [kept EXCEPT ![req.client] = req.key]
          BY <4>1, <4>4
        <5> QED BY <4>2, <4>3, <5>1, <5>3, <5>4 DEF KeptIsThere
      <4>5. CASE kept' = kept
        BY <4>3, <4>5, KeptSurvives
      <4> QED BY <4>1, <4>4, <4>5
    <3>2. CASE ~connected
      BY <1>8, <3>2 DEF HMSet, KeptIsThere
    <3> QED BY <3>1, <3>2
  <2> QED BY <2>1, <2>2 DEF KeptIsLoaded, Stages
<1>9. CASE Respond
  BY <1>9 DEF Respond, Goto, NoRequest, KeptIsThere, KeptIsLoaded
<1>10. CASE Restart
  BY <1>10 DEF Restart, Goto, NoRequest, KeptIsThere, KeptIsLoaded
<1>11. CASE Breaks
  <2>1. UNCHANGED kept
    BY <1>11 DEF Breaks
  <2>2. CASE pc = "hset" /\ Goto(req, "expire") /\ redis' \in {redis, Created(StageKey)}
    <3>1. KeptIsThere'
      BY <1>0, <2>1, <2>2, CreatedFacts, KeptSurvives DEF Keyed, Stages
    <3> QED BY <2>1, <2>2, <3>1 DEF Goto, KeptIsLoaded, Stages
  <2>3. CASE pc = "expire" /\ AfterStage /\ redis' \in {redis, Expiring(StageKey)}
    <3>1. KeptIsThere'
      BY <1>0, <2>1, <2>3, ExpiringFacts, KeptSurvives
    <3> QED BY <1>5, <2>1, <2>3, <3>1
  <2>4. CASE pc = "save" /\ AfterSave /\ redis' \in {redis} \cup Sent(TRUE) \cup Sent(FALSE)
    <3>1. PICK words \in BOOLEAN : redis' \in {redis} \cup Sent(words)
      BY <2>4
    <3>2. KeptIsThere'
      BY <2>1, <2>4, <3>1, SentFacts, KeptSurvives
    <3>3. pc' \in {"save", "respond"}
      BY <1>0, <2>4, AfterSaveLeads
    <3> QED BY <3>2, <3>3 DEF KeptIsLoaded, Stages
  <2> QED BY <1>11, <2>2, <2>3, <2>4 DEF Breaks
<1>12. CASE ExpireLost
  BY <1>5, <1>12 DEF ExpireLost, KeptIsThere
<1>13. ASSUME NEW k \in Keys, KeyExpires(k) PROVE FoundInv'
  BY <1>13, <1>0, NobodyAssumption DEF KeyExpires, Restrict, KeptIsThere, KeptIsLoaded, TypeOK, NoRequest
<1>14. ASSUME NEW c \in Clients, CookieExpires(c) PROVE FoundInv'
  BY <1>14 DEF CookieExpires, KeptIsThere, KeptIsLoaded
<1>15. CASE Tick
  BY <1>15 DEF Tick, KeptIsThere, KeptIsLoaded
<1>16. CASE UNCHANGED vars
  BY <1>16 DEF vars, KeptIsThere, KeptIsLoaded
<1> QED BY <1>1, <1>2, <1>3, <1>4, <1>6, <1>7, <1>8, <1>9, <1>10, <1>11, <1>12, <1>13, <1>14, <1>15, <1>16
        DEF Next, Commands

(* A handler finds the session that a handler stored, in words, for the    *)
(* same client, whatever crashes, lost connections and mangled HMSETs there*)
(* were since, unless the key has expired.                                 *)
THEOREM WhatWasStoredIsFound == Spec => []StoredIsFound
<1>1. Init => FoundInv
  BY DEF Init, FoundInv, KeptIsThere, KeptIsLoaded, NoRequest
<1>2. FoundInv => StoredIsFound
  BY DEF FoundInv, KeptIsLoaded, StoredIsFound
<1> QED BY <1>1, <1>2, TypeCorrect, FoundStep, PTL DEF Spec

-----------------------------------------------------------------------------
(* id was made for c; the id is the second it was made in.                 *)
MadeFor(id, c) == <<id, c, id>> \in given

(* Whoever holds, uses, or has stored under an id was given it.            *)
Provenance ==
  /\ \A c \in Clients : jar[c] \in Sessions => MadeFor(jar[c], c)
  /\ req.cookie # NoCookie => MadeFor(req.cookie, req.client)
  /\ \A k \in DOMAIN redis \cap Sessions : redis[k].by # Nobody => MadeFor(k, redis[k].by)
  /\ req.loaded # Nobody => req.key # NoKey /\ MadeFor(req.key, req.loaded)

(* Provenance is inductive on top of the types: HMSet stores only under    *)
(* the id of the request, and that is its client's cookie.                 *)
LEMMA ProvenanceStep == TypeOK /\ Keyed /\ Provenance /\ [Next]_vars => Provenance'
<1> SUFFICES ASSUME TypeOK, Keyed, Provenance, [Next]_vars PROVE Provenance'
  OBVIOUS
<1>0. Table(redis) /\ req \in Request
  BY DEF TypeOK, Table
<1> USE DEF Provenance, MadeFor
<1>1. ASSUME NEW c \in Clients, Begin(c) PROVE Provenance'
  <2> DEFINE r == [NoRequest EXCEPT !.client = c]
  <2>1. /\ req'.loaded = Nobody /\ given \subseteq given'
        /\ req'.cookie # NoCookie => <<req'.cookie, req'.client, req'.cookie>> \in given'
    <3>0. r \in Request /\ r.cookie = NoCookie /\ r.loaded = Nobody
      BY DEF NoRequest, Request
    <3>1. CASE AfterSession(r) /\ given' = given
      <4> HIDE DEF r
      <4> QED BY <3>0, <3>1, AfterSessionLeads DEF SameRequest
    <3>2. CASE AfterSession([r EXCEPT !.cookie = NewId(now)]) /\ given' = given \cup {<<NewId(now), c, now>>}
      <4> DEFINE s == [r EXCEPT !.cookie = NewId(now)]
      <4>1. NewId(now) = now /\ now \in Sessions
        BY DEF TypeOK, NewId, Sessions
      <4>2. s \in Request /\ s.cookie = now /\ s.loaded = Nobody /\ s.client = c
        BY <4>1 DEF NoRequest, Request
      <4>3. AfterSession(s)
        BY <3>2
      <4> HIDE DEF s
      <4> QED BY <3>2, <4>1, <4>2, <4>3, AfterSessionLeads DEF SameRequest
    <3>3. CASE Goto([r EXCEPT !.key = jar[c]], "exists") /\ given' = given
      BY <3>3 DEF Goto, NoRequest
    <3> QED BY <1>1, <3>1, <3>2, <3>3 DEF Begin
  <2>2. UNCHANGED <<redis, jar>>
    BY <1>1 DEF Begin
  <2> QED BY <2>1, <2>2
<1>2. ASSUME UNCHANGED <<jar, given>>, SameRequest(req),
             DOMAIN redis' \cap Sessions \subseteq DOMAIN redis \cup {req.key},
             \A k \in DOMAIN redis' \cap Sessions :
               \/ k \in DOMAIN redis /\ redis'[k].by = redis[k].by
               \/ redis'[k].by = Nobody
               \/ k = req.key /\ redis'[k].by = req.client /\ req.client \in Clients
      PROVE  Provenance'
  BY <1>0, <1>2, NamesAssumption DEF SameRequest, TypeOK, Request, Keys
<1>3. CASE Exists \/ Handler
  BY <1>0, <1>3 DEF Exists, Handler, Goto, Request
<1>4. CASE HGetAll
  <2> DEFINE r == [req EXCEPT !.loaded = IF req.key \in DOMAIN redis THEN redis[req.key].by ELSE Nobody]
  <2>1. UNCHANGED <<redis, jar, given>> /\ pc = "hgetall"
    BY <1>4 DEF HGetAll
  <2>2. CASE req.stage = "session"
    <3>1. r \in Request /\ r.key = req.key /\ r.client = req.client /\ r.cookie = req.cookie
      BY <1>0 DEF TypeOK, Request, Entry
    <3>2. r.loaded # Nobody => r.key # NoKey /\ MadeFor(r.key, r.loaded)
      BY <1>0, <2>1, <2>2, NamesAssumption DEF Keyed, Stages, StageKey, Keys, Request
    <3>3. AfterSession(r)
      BY <1>4, <2>2 DEF HGetAll
    <3> HIDE DEF r
    <3>4. SameRequest(r)
      BY <3>1, <3>3, AfterSessionLeads
    <3> QED BY <2>1, <3>1, <3>2, <3>4 DEF SameRequest
  <2>3. CASE req.stage # "session"
    <3>1. SameRequest(req)
      BY <1>0, <1>4, <2>3, AfterStageLeads DEF HGetAll
    <3> QED BY <2>1, <3>1 DEF SameRequest
  <2> QED BY <2>2, <2>3
<1>5. ASSUME NEW key \in Keys, redis' \in {redis, Created(key)}
      PROVE  \A k \in DOMAIN redis' : \/ k \in DOMAIN redis /\ redis'[k].by = redis[k].by
                                     \/ redis'[k].by = Nobody
  BY <1>5 DEF Created
<1>6. CASE HSet
  BY <1>0, <1>5, <1>6 DEF HSet, Goto, Keyed, Stages
<1>7. CASE Expire
  BY <1>0, <1>2, <1>7, ExpiringFacts, AfterStageLeads DEF Expire
<1>8. ASSUME pc = "save", NEW words \in BOOLEAN, redis' \in {redis} \cup Sent(words), UNCHANGED <<jar, given>>,
             SameRequest(req)
      PROVE  Provenance'
  <2>1. req.client \in Clients /\ (StageKey \in Sessions => StageKey = req.key)
    BY <1>8, SentFacts, NamesAssumption DEF StageKey
  <2>2. DOMAIN redis' \cap Sessions \subseteq DOMAIN redis \cup {req.key}
    BY <1>8, <2>1, SentFacts, NamesAssumption
  <2>3. ASSUME NEW k \in DOMAIN redis' \cap Sessions
        PROVE  \/ k \in DOMAIN redis /\ redis'[k].by = redis[k].by
               \/ redis'[k].by = Nobody
               \/ k = req.key /\ redis'[k].by = req.client /\ req.client \in Clients
    BY <1>8, <2>1, SentFacts
  <2> QED BY <1>2, <1>8, <2>2, <2>3
<1>9. CASE HMSet
  <2>1. SameRequest(req)
    BY <1>0, <1>9, AfterSaveLeads DEF HMSet
  <2>2. CASE connected
    BY <1>8, <1>9, <2>1, <2>2 DEF HMSet
  <2>3. CASE ~connected
    BY <1>9, <2>1, <2>3 DEF HMSet, SameRequest
  <2> QED BY <2>2, <2>3
<1>10. CASE Respond
  BY <1>0, <1>10 DEF Respond, Goto, NoRequest, TypeOK, Request
<1>11. CASE Restart
  BY <1>11 DEF Restart, Goto, NoRequest
<1>12. CASE Breaks
  <2>1. UNCHANGED <<jar, given>>
    BY <1>12 DEF Breaks
  <2>2. CASE pc = "hset" /\ Goto(req, "expire") /\ redis' \in {redis, Created(StageKey)}
    BY <1>5, <2>1, <2>2 DEF Goto, Keyed, Stages
  <2>3. CASE pc = "expire" /\ AfterStage /\ redis' \in {redis, Expiring(StageKey)}
    BY <1>0, <1>2, <2>1, <2>3, ExpiringFacts, AfterStageLeads
  <2>4. CASE pc = "save" /\ AfterSave /\ redis' \in {redis} \cup Sent(TRUE) \cup Sent(FALSE)
    <3>1. SameRequest(req)
      BY <1>0, <2>4, AfterSaveLeads
    <3> QED BY <1>8, <2>1, <2>4, <3>1 DEF SameRequest
  <2> QED BY <1>12, <2>2, <2>3, <2>4 DEF Breaks
<1>13. CASE ExpireLost
  BY <1>0, <1>13, AfterStageLeads DEF ExpireLost, SameRequest
<1>14. ASSUME NEW k \in Keys, KeyExpires(k) PROVE Provenance'
  BY <1>14 DEF KeyExpires, Restrict
<1>15. ASSUME NEW c \in Clients, CookieExpires(c) PROVE Provenance'
  BY <1>15, NamesAssumption DEF CookieExpires, TypeOK
<1>16. CASE Tick
  BY <1>16 DEF Tick
<1>17. CASE UNCHANGED vars
  BY <1>17 DEF vars
<1> QED BY <1>1, <1>3, <1>4, <1>6, <1>7, <1>9, <1>10, <1>11, <1>12, <1>13, <1>14, <1>15, <1>16, <1>17
        DEF Next, Commands

(* A session is shared only by clients whose Set-Cookie was made in one    *)
(* second, for every number of clients and every length of time.           *)
THEOREM SessionsStayOwn == Spec => []SessionsAreOwn
<1>1. Init => Provenance
  BY NamesAssumption DEF Init, Provenance, NoRequest
<1>2. TypeOK /\ Keyed /\ Provenance => SessionsAreOwn
  <2> SUFFICES ASSUME TypeOK, Provenance, pc = "handler", req.loaded \notin {Nobody, req.client}
               PROVE  \E t \in 0 .. MaxTime : \A c \in {req.loaded, req.client} :
                        \E id \in Sessions : <<id, c, t>> \in given
    BY DEF SessionsAreOwn
  <2>1. req.key \in Sessions /\ MadeFor(req.key, req.loaded) /\ MadeFor(req.key, req.client)
    BY DEF Provenance, TypeOK, Request
  <2> QED BY <2>1 DEF MadeFor, Sessions
<1> QED BY <1>1, <1>2, TypeCorrect, ProvenanceStep, PTL DEF Spec
-----------------------------------------------------------------------------
(* THE PARSER *)

(* What a callback may be given: a text of these. *)
Letters == Chars \cup P!Methods \cup {""}

(* The callbacks of http_parser_settings. *)
Kinds == {"message_begin", "url", "header_field", "header_value", "headers_complete", "body",
          "message_complete"}

Callbacks == [is : Kinds, text : Seq(Letters)]

HeaderStates ==
  {"h_general", "h_connection", "h_content_length", "h_content_length_num", "h_content_length_ws",
   "h_transfer_encoding", "h_transfer_encoding_chunked", "h_upgrade", "h_connection_keep_alive",
   "h_connection_close", "h_connection_upgrade", "h_matching_connection_token_start",
   "h_matching_connection_token"}

Errors ==
  {"HPE_INVALID_METHOD", "HPE_INVALID_URL", "HPE_INVALID_CONSTANT", "HPE_INVALID_VERSION",
   "HPE_LF_EXPECTED", "HPE_STRICT", "HPE_UNEXPECTED_CONTENT_LENGTH", "HPE_INVALID_HEADER_TOKEN",
   "HPE_INVALID_CONTENT_LENGTH", "HPE_INVALID_CHUNK_SIZE", "HPE_CLOSED_CONNECTION",
   "HPE_HEADER_OVERFLOW"}

(* The fields of http_parser, with the callbacks made in this call. *)
Parsers ==
  [state : P!States, header_state : HeaderStates, flags : SUBSET P!Flags, content_length : 0 .. ULLONG_MAX,
   nread : 0 .. HTTP_MAX_HEADER_SIZE + 1, method : P!Methods \cup {""}, http_1_1 : BOOLEAN,
   upgrade : BOOLEAN, errno : Errors \cup {"HPE_OK", "abort"}, marks : SUBSET P!Texts, text : Seq(Letters),
   calls : Seq(Callbacks), used : Nat, exit : BOOLEAN]

(* The headers being read are those after a chunked body. *)
Trailing(p) == "F_TRAILING" \in p.flags

(* The last callback made, by this call or, where it made none, before it. *)
Said(b, p) == IF p.calls = <<>> THEN b ELSE p.calls[Len(p.calls)].is

(* Each callback of this call is one that may follow the one before it. *)
InTurn(b, p) ==
  \A i \in 1 .. Len(p.calls) :
    p.calls[i].is \in P!After(IF i = 1 THEN b ELSE p.calls[i - 1].is, Trailing(p))

(* Callback what may come next. *)
Allowed(b, p, what) == what \in P!After(Said(b, p), Trailing(p))

(* The states before the headers; no state of a trailer is among them. *)
RequestLine == {"s_req_method", "s_req_spaces_before_url", "s_req_http_start", "s_req_http_end",
                "s_req_line_almost_done"} \cup P!OpenUrl \cup P!UrlStates

Discards == {"s_header_value_discard_ws", "s_header_value_discard_ws_almost_done",
             "s_header_value_discard_lws"}

ChunkStates == {"s_chunk_size_start", "s_chunk_size", "s_chunk_parameters",
                "s_chunk_size_almost_done", "s_chunk_data", "s_chunk_data_almost_done",
                "s_chunk_data_done"}

(* What was said last when the first line of the headers begins. *)
Opening(trailing) == IF trailing THEN {"headers_complete", "body"} ELSE {"url"}

(* What may have been said last when the parser is in a state. *)
Heard(state, trailing) ==
  CASE state = "s_dead" -> Kinds \cup {"none"}
    [] state = "s_start_req" -> {"none", "message_complete"}
    [] state \in {"s_req_method", "s_req_spaces_before_url"} -> {"message_begin"}
    [] state \in P!OpenUrl \cup P!UrlStates -> {"message_begin", "url"}
    [] state \in {"s_req_http_start", "s_req_http_end", "s_req_line_almost_done"} -> {"url"}
    [] state \in {"s_header_field_start", "s_headers_almost_done"} ->
         {"header_value"} \cup Opening(trailing)
    [] state = "s_header_field" -> {"header_field", "header_value"} \cup Opening(trailing)
    [] state \in Discards -> {"header_field"}
    [] state = "s_header_value" -> {"header_field", "header_value"}
    [] state \in {"s_header_almost_done", "s_header_value_lws"} -> {"header_value"}
    [] state \in ChunkStates \cup {"s_body_identity"} -> {"headers_complete", "body"}

(* What is being collected is what the state collects: the CALLBACK_DATA of a
   state finds the mark that its text began at. *)
MarksRight(p) ==
  IF p.state \in {"s_body_identity", "s_chunk_data", "s_chunk_data_almost_done"}
  THEN p.marks \subseteq {"body"} ELSE p.marks = P!Resumed(p)

(* The counters the code relies on in a state: those http_parser asserts, and
   those that keep the callbacks in turn. *)
DataRight(p) ==
  /\ p.nread <= HTTP_MAX_HEADER_SIZE
  /\ p.state \in RequestLine => ~Trailing(p)
  /\ p.state \in ChunkStates => P!IsChunked(p)
  /\ p.state \in {"s_body_identity", "s_chunk_data"} => P!HasLength(p)
  /\ p.state = "s_chunk_data_almost_done" => p.content_length = 0
  /\ p.state \in {"s_chunk_size", "s_chunk_parameters", "s_chunk_size_almost_done"} =>
       p.content_length < ULLONG_MAX
  /\ p.state \in {"s_header_value", "s_header_almost_done", "s_header_value_lws"} =>
       p.header_state \notin {"h_connection", "h_transfer_encoding"}

One(marks) == \A m, n \in marks : m = n

(* A parser that has kept to the grammar of callbacks and has not aborted;
   and, unless it has failed, one whose data suit its state. *)
Good(b, p) ==
  /\ b \in Kinds \cup {"none"}
  /\ p \in Parsers
  /\ p.errno # "abort"
  /\ One(p.marks)
  /\ InTurn(b, p)
  /\ p.errno = "HPE_OK" =>
       /\ MarksRight(p)
       /\ DataRight(p)
       /\ Said(b, p) \in Heard(p.state, Trailing(p))

(* The assert of s_chunk_size_start: nothing of the next chunk has been counted. *)
Unstarted(p) == p.errno = "HPE_OK" /\ p.state = "s_chunk_size_start" => p.nread = 0

-----------------------------------------------------------------------------
(* unhex() of a digit of a base is below the base. *)
LEMMA NumeralsAreTheirValues ==
  ASSUME NEW base \in {10, 16}, NEW ch, P!IsNumeral(ch, base)
  PROVE  P!Unhex(ch, base) \in 0 .. base - 1
<1>1. PICK i \in 1 .. base : P!Numerals[i] = ch BY DEF P!IsNumeral
<1>2. (CHOOSE j \in 1 .. base : P!Numerals[j] = ch) \in 1 .. base BY <1>1
<1>3. QED BY <1>2 DEF P!Unhex

(* The digits can be gone through one by one. *)
LEMMA ToSixteen ==
  /\ \A i \in 1 .. 16 :
       \/ i = 1 \/ i = 2 \/ i = 3 \/ i = 4 \/ i = 5 \/ i = 6 \/ i = 7 \/ i = 8
       \/ i = 9 \/ i = 10 \/ i = 11 \/ i = 12 \/ i = 13 \/ i = 14 \/ i = 15 \/ i = 16
  /\ \A base \in {10, 16} : \A i \in 1 .. base : i \in 1 .. 16
OBVIOUS

(* What ends a number is not a digit. *)
LEMMA NoNumerals ==
  ASSUME NEW ch \in {P!SP, P!CR, P!LF, ";"}, NEW base \in {10, 16}
  PROVE  ~P!IsNumeral(ch, base)
<1>1. /\ P!Numerals[1] = "0" /\ P!Numerals[2] = "1" /\ P!Numerals[3] = "2" /\ P!Numerals[4] = "3"
      /\ P!Numerals[5] = "4" /\ P!Numerals[6] = "5" /\ P!Numerals[7] = "6" /\ P!Numerals[8] = "7"
      /\ P!Numerals[9] = "8" /\ P!Numerals[10] = "9" /\ P!Numerals[11] = "a" /\ P!Numerals[12] = "b"
      /\ P!Numerals[13] = "c" /\ P!Numerals[14] = "d" /\ P!Numerals[15] = "e" /\ P!Numerals[16] = "f"
  BY DEF P!Numerals
<1>2. ASSUME NEW i \in 1 .. 16 PROVE P!Numerals[i] \notin {" ", "\r", "\n", ";"}
  BY <1>1, ToSixteen
<1>3. \A i \in 1 .. base : i \in 1 .. 16 BY ToSixteen
<1>4. \A i \in 1 .. base : P!Numerals[i] # ch BY <1>2, <1>3 DEF P!SP, P!CR, P!LF
<1>5. QED BY <1>4 DEF P!IsNumeral

(* What the guard against overflow lets through is not wrapped. *)
LEMMA DigitsAreExact ==
  ASSUME P!SizesAssumption, NEW p, NEW base \in {10, 16}, NEW ch, p.content_length \in 0 .. ULLONG_MAX,
         P!IsNumeral(ch, base), ~P!TooLong(p.content_length, base)
  PROVE  /\ base * p.content_length + P!Unhex(ch, base) \in 0 .. ULLONG_MAX - 1
         /\ (base * p.content_length + P!Unhex(ch, base)) % (ULLONG_MAX + 1)
               = base * p.content_length + P!Unhex(ch, base)
<1> DEFINE c == p.content_length
           u == P!Unhex(ch, base)
<1>1. u \in 0 .. base - 1 BY NumeralsAreTheirValues
<1>2. ~((ULLONG_MAX - base) \div base < c) BY DEF P!TooLong
<1>3. base * c <= ULLONG_MAX - base
  <2>1. CASE base = 10 BY <2>1, <1>2 DEF P!SizesAssumption
  <2>2. CASE base = 16 BY <2>2, <1>2 DEF P!SizesAssumption
  <2>3. QED BY <2>1, <2>2
<1>4. base * c + u \in 0 .. ULLONG_MAX - 1
  <2>1. CASE base = 10 BY <2>1, <1>1, <1>3 DEF P!SizesAssumption
  <2>2. CASE base = 16 BY <2>2, <1>1, <1>3 DEF P!SizesAssumption
  <2>3. QED BY <2>1, <2>2
<1> HIDE DEF c, u
<1>5. (base * c + u) % (ULLONG_MAX + 1) = base * c + u BY <1>4 DEF P!SizesAssumption
<1>6. QED BY <1>4, <1>5 DEF c, u

(* A step that calls nobody back keeps the callbacks in turn. *)
LEMMA Silent ==
  ASSUME NEW b, NEW p, NEW q, q.calls = p.calls, Trailing(q) = Trailing(p), InTurn(b, p)
  PROVE  InTurn(b, q) /\ Said(b, q) = Said(b, p)
BY DEF InTurn, Said

(* A call begins in turn. *)
LEMMA Quiet ==
  ASSUME NEW b, NEW p \in Parsers, p.calls = <<>>
  PROVE  InTurn(b, p) /\ Said(b, p) = b
<1>1. Len(p.calls) = 0 OBVIOUS
<1>2. QED BY <1>1 DEF InTurn, Said

(* A callback that may come next keeps the callbacks in turn. *)
LEMMA Spoken ==
  ASSUME NEW b, NEW p \in Parsers, NEW q, NEW c \in Callbacks,
         q.calls = Append(p.calls, c), Trailing(q) = Trailing(p),
         InTurn(b, p), c.is \in P!After(Said(b, p), Trailing(p))
  PROVE  InTurn(b, q) /\ Said(b, q) = c.is
<1>1. p.calls \in Seq(Callbacks) BY DEF Parsers
<1>2. /\ Len(q.calls) = Len(p.calls) + 1
      /\ \A i \in 1 .. Len(p.calls) : q.calls[i] = p.calls[i]
      /\ q.calls[Len(p.calls) + 1] = c
      /\ q.calls # <<>>
  BY <1>1
<1>3. Said(b, q) = c.is BY <1>2 DEF Said
<1>4. ASSUME NEW i \in 1 .. Len(q.calls)
      PROVE  q.calls[i].is \in P!After(IF i = 1 THEN b ELSE q.calls[i - 1].is, Trailing(q))
  <2>1. CASE i \in 1 .. Len(p.calls) BY <2>1, <1>1, <1>2 DEF InTurn
  <2>2. CASE i = Len(p.calls) + 1 /\ p.calls = <<>> BY <2>2, <1>1, <1>2 DEF Said
  <2>3. CASE i = Len(p.calls) + 1 /\ p.calls # <<>>
    <3>1. i - 1 = Len(p.calls) /\ i - 1 \in 1 .. Len(p.calls) BY <2>3, <1>1
    <3>2. QED BY <3>1, <2>3, <1>2 DEF Said
  <2>4. QED BY <2>1, <2>2, <2>3, <1>1, <1>2
<1>5. QED BY <1>3, <1>4 DEF InTurn

(* What the small steps leave alone and what they say. *)
LEMMA NotifyIs ==
  ASSUME NEW p \in Parsers, NEW what \in Kinds, NEW text \in Seq(Letters)
  PROVE  LET q == P!Notify(p, what, text)
         IN /\ q \in Parsers
            /\ q.calls = Append(p.calls, [is |-> what, text |-> text])
            /\ q.state = p.state /\ q.header_state = p.header_state /\ q.flags = p.flags
            /\ q.content_length = p.content_length /\ q.nread = p.nread /\ q.method = p.method
            /\ q.errno = p.errno /\ q.marks = p.marks /\ q.upgrade = p.upgrade
            /\ Trailing(q) = Trailing(p)
<1> DEFINE c == [is |-> what, text |-> text]
<1>1. c \in Callbacks BY DEF Callbacks
<1>2. P!Notify(p, what, text) = [p EXCEPT !.calls = Append(p.calls, c)] BY DEF P!Notify
<1> HIDE DEF c
<1>3. p.calls \in Seq(Callbacks) BY DEF Parsers
<1>4. Append(p.calls, c) \in Seq(Callbacks) BY <1>1, <1>3
<1>5. QED BY <1>2, <1>4 DEF Parsers, Trailing, c

(* CALLBACK_NOTIFY *)
LEMMA NotifySpeaks ==
  ASSUME NEW b, NEW p \in Parsers, NEW what \in Kinds, NEW text \in Seq(Letters),
         InTurn(b, p), Allowed(b, p, what)
  PROVE  InTurn(b, P!Notify(p, what, text)) /\ Said(b, P!Notify(p, what, text)) = what
<1> DEFINE c == [is |-> what, text |-> text]
           q == P!Notify(p, what, text)
<1>1. c \in Callbacks /\ c.is = what BY DEF Callbacks
<1>2. q.calls = Append(p.calls, c) /\ Trailing(q) = Trailing(p) BY NotifyIs
<1> HIDE DEF c, q
<1>3. InTurn(b, q) /\ Said(b, q) = what BY <1>1, <1>2, Spoken DEF Allowed
<1>4. QED BY <1>3 DEF q

(* CALLBACK_DATA, whose text is the one thing collected *)
LEMMA CallBackIs ==
  ASSUME NEW p \in Parsers, NEW what \in P!Texts, what \in p.marks, One(p.marks)
  PROVE  LET q == P!CallBack(p, what)
         IN /\ q \in Parsers
            /\ q.calls = Append(p.calls, [is |-> what, text |-> p.text])
            /\ q.state = p.state /\ q.header_state = p.header_state /\ q.flags = p.flags
            /\ q.content_length = p.content_length /\ q.nread = p.nread /\ q.method = p.method
            /\ q.errno = p.errno /\ q.marks = {} /\ q.upgrade = p.upgrade
            /\ Trailing(q) = Trailing(p)
<1> DEFINE c == [is |-> what, text |-> p.text]
<1>1. c \in Callbacks BY DEF P!Texts, Kinds, Parsers, Callbacks
<1>2. p.marks \ {what} = {} BY DEF One
<1>3. P!CallBack(p, what) = [p EXCEPT !.marks = {}, !.text = <<>>, !.calls = Append(p.calls, c)]
  BY <1>2 DEF P!CallBack
<1> HIDE DEF c
<1>4. p.calls \in Seq(Callbacks) BY DEF Parsers
<1>5. Append(p.calls, c) \in Seq(Callbacks) BY <1>1, <1>4
<1>6. <<>> \in Seq(Letters) OBVIOUS
<1>7. QED BY <1>3, <1>5, <1>6 DEF Parsers, Trailing, c

LEMMA CallBackSpeaks ==
  ASSUME NEW b, NEW p \in Parsers, NEW what \in P!Texts, what \in p.marks, One(p.marks),
         InTurn(b, p), Allowed(b, p, what)
  PROVE  InTurn(b, P!CallBack(p, what)) /\ Said(b, P!CallBack(p, what)) = what
<1> DEFINE c == [is |-> what, text |-> p.text]
           q == P!CallBack(p, what)
<1>1. c \in Callbacks /\ c.is = what BY DEF P!Texts, Kinds, Parsers, Callbacks
<1>2. q.calls = Append(p.calls, c) /\ Trailing(q) = Trailing(p) BY CallBackIs
<1> HIDE DEF c, q
<1>3. InTurn(b, q) /\ Said(b, q) = what BY <1>1, <1>2, Spoken DEF Allowed
<1>4. QED BY <1>3 DEF q

(* goto error: a parser that fails stays in its state, and is never asked again. *)
LEMMA FailIsGood ==
  ASSUME NEW b, NEW p, NEW errno \in Errors,
         b \in Kinds \cup {"none"}, p \in Parsers, One(p.marks), InTurn(b, p)
  PROVE  Good(b, P!Fail(p, errno)) /\ Unstarted(P!Fail(p, errno))
<1> DEFINE q == P!Fail(p, errno)
<1>0. errno \notin {"HPE_OK", "abort"} BY DEF Errors
<1>1. /\ q \in Parsers /\ q.errno = errno /\ q.marks = p.marks /\ q.calls = p.calls
      /\ Trailing(q) = Trailing(p)
  BY <1>0 DEF P!Fail, Parsers, Trailing
<1> HIDE DEF q
<1>2. InTurn(b, q) BY <1>1, Silent
<1>3. Good(b, q) /\ Unstarted(q) BY <1>0, <1>1, <1>2 DEF Good, Unstarted
<1>4. QED BY <1>3 DEF q

(* No header makes the parser take what follows for a trailer. *)
LEMMA MeaningIsNoTrailer ==
  ASSUME NEW h PROVE P!Meaning(h) \subseteq P!Flags \ {"F_TRAILING"}
BY DEF P!Meaning, P!Flags

(* parse_url_char() stays within the target, or finds it invalid. *)
LEMMA UrlStatesFollow ==
  ASSUME NEW state, NEW ch
  PROVE  P!UrlNext(state, ch) \in P!OpenUrl \cup P!UrlStates \cup {"s_dead"}
BY DEF P!UrlNext, P!OpenUrl, P!UrlStates

-----------------------------------------------------------------------------
(* What has to be seen of a parser that has not failed. *)
LEMMA Assembled ==
  ASSUME NEW b \in Kinds \cup {"none"}, NEW q \in Parsers, q.errno = "HPE_OK", InTurn(b, q),
         Said(b, q) \in Heard(q.state, Trailing(q)), MarksRight(q), DataRight(q)
  PROVE  Good(b, q)
<1>1. One(q.marks) BY DEF MarksRight, P!Resumed, One, P!OpenUrl, P!UrlStates
<1>2. q.errno # "abort" OBVIOUS
<1>3. QED BY <1>1, <1>2 DEF Good

(* Heard, state by state *)
LEMMA HeardIs ==
  ASSUME NEW t
  PROVE  /\ Heard("s_dead", t) = Kinds \cup {"none"}
         /\ Heard("s_start_req", t) = {"none", "message_complete"}
         /\ \A s \in {"s_req_method", "s_req_spaces_before_url"} : Heard(s, t) = {"message_begin"}
         /\ \A s \in P!OpenUrl \cup P!UrlStates : Heard(s, t) = {"message_begin", "url"}
         /\ \A s \in {"s_req_http_start", "s_req_http_end", "s_req_line_almost_done"} :
              Heard(s, t) = {"url"}
         /\ \A s \in {"s_header_field_start", "s_headers_almost_done"} :
              Heard(s, t) = {"header_value"} \cup Opening(t)
         /\ Heard("s_header_field", t) = {"header_field", "header_value"} \cup Opening(t)
         /\ \A s \in Discards : Heard(s, t) = {"header_field"}
         /\ Heard("s_header_value", t) = {"header_field", "header_value"}
         /\ \A s \in {"s_header_almost_done", "s_header_value_lws"} : Heard(s, t) = {"header_value"}
         /\ \A s \in ChunkStates \cup {"s_body_identity"} : Heard(s, t) = {"headers_complete", "body"}
<1>1. /\ Heard("s_dead", t) = Kinds \cup {"none"}
      /\ Heard("s_start_req", t) = {"none", "message_complete"}
  BY DEF Heard, P!OpenUrl, P!UrlStates, Discards, ChunkStates
<1>2. \A s \in {"s_req_method", "s_req_spaces_before_url"} : Heard(s, t) = {"message_begin"}
  BY DEF Heard, P!OpenUrl, P!UrlStates, Discards, ChunkStates
<1>3. \A s \in P!OpenUrl \cup P!UrlStates : Heard(s, t) = {"message_begin", "url"}
  BY DEF Heard, P!OpenUrl, P!UrlStates, Discards, ChunkStates
<1>4. \A s \in {"s_req_http_start", "s_req_http_end", "s_req_line_almost_done"} : Heard(s, t) = {"url"}
  BY DEF Heard, P!OpenUrl, P!UrlStates, Discards, ChunkStates
<1>5. \A s \in {"s_header_field_start", "s_headers_almost_done"} :
        Heard(s, t) = {"header_value"} \cup Opening(t)
  BY DEF Heard, P!OpenUrl, P!UrlStates, Discards, ChunkStates
<1>6. Heard("s_header_field", t) = {"header_field", "header_value"} \cup Opening(t)
  BY DEF Heard, P!OpenUrl, P!UrlStates, Discards, ChunkStates
<1>7. \A s \in Discards : Heard(s, t) = {"header_field"}
  BY DEF Heard, P!OpenUrl, P!UrlStates, Discards, ChunkStates
<1>8. Heard("s_header_value", t) = {"header_field", "header_value"}
  BY DEF Heard, P!OpenUrl, P!UrlStates, Discards, ChunkStates
<1>9. \A s \in {"s_header_almost_done", "s_header_value_lws"} : Heard(s, t) = {"header_value"}
  BY DEF Heard, P!OpenUrl, P!UrlStates, Discards, ChunkStates
<1>10. \A s \in ChunkStates \cup {"s_body_identity"} : Heard(s, t) = {"headers_complete", "body"}
  BY DEF Heard, P!OpenUrl, P!UrlStates, Discards, ChunkStates
<1>11. QED BY <1>1, <1>2, <1>3, <1>4, <1>5, <1>6, <1>7, <1>8, <1>9, <1>10

(* A step that calls nobody back, into a state that may have heard the same. *)
LEMMA Silently ==
  ASSUME NEW b, NEW p, NEW q \in Parsers, Good(b, p), p.errno = "HPE_OK",
         q.errno = "HPE_OK", q.calls = p.calls, Trailing(q) = Trailing(p),
         Said(b, p) \in Heard(q.state, Trailing(p)), MarksRight(q), DataRight(q)
  PROVE  Good(b, q)
<1>1. InTurn(b, q) /\ Said(b, q) = Said(b, p) BY Silent DEF Good
<1>2. QED BY <1>1, Assembled DEF Good

(* UPDATE_STATE *)
LEMMA GoIs ==
  ASSUME NEW p \in Parsers, NEW s \in P!States
  PROVE  LET q == P!Go(p, s)
         IN /\ q \in Parsers
            /\ q.state = s /\ q.header_state = p.header_state /\ q.flags = p.flags
            /\ q.content_length = p.content_length /\ q.nread = p.nread /\ q.method = p.method
            /\ q.errno = p.errno /\ q.marks = p.marks /\ q.calls = p.calls /\ q.upgrade = p.upgrade
            /\ Trailing(q) = Trailing(p)
BY DEF P!Go, Parsers, Trailing

(* The states of the request line, one lemma per case of the switch *)
LEMMA ReqMethodIsGood ==
  ASSUME NEW b, NEW p, NEW ch \in Chars, Good(b, p), p.errno = "HPE_OK", p.state = "s_req_method"
  PROVE  Good(b, P!ReqMethod(p, ch)) /\ Unstarted(P!ReqMethod(p, ch))
<1>1. CASE ch = P!SP
  <2> DEFINE q == P!Go(p, "s_req_spaces_before_url")
  <2>1. /\ q \in Parsers /\ q.state = "s_req_spaces_before_url" /\ q.calls = p.calls
        /\ q.marks = p.marks /\ q.errno = "HPE_OK" /\ q.nread = p.nread /\ Trailing(q) = Trailing(p)
    BY GoIs DEF Good, P!States
  <2> HIDE DEF q
  <2>2. MarksRight(q) BY <2>1 DEF Good, MarksRight, P!Resumed, P!OpenUrl, P!UrlStates
  <2>3. DataRight(q) BY <2>1 DEF Good, DataRight, RequestLine, ChunkStates
  <2>4. Said(b, p) \in Heard(q.state, Trailing(p)) BY <2>1, HeardIs DEF Good
  <2>5. Good(b, q) BY <2>1, <2>2, <2>3, <2>4, Silently DEF Good
  <2>6. QED BY <1>1, <2>1, <2>5 DEF P!ReqMethod, q, Unstarted
<1>2. CASE ch # P!SP
  BY <1>2, FailIsGood DEF P!ReqMethod, Good, Errors
<1>3. QED BY <1>1, <1>2

LEMMA DeadIsGood ==
  ASSUME NEW b, NEW p, NEW ch \in Chars, Good(b, p), p.errno = "HPE_OK", p.state = "s_dead"
  PROVE  Good(b, P!Dead(p, ch)) /\ Unstarted(P!Dead(p, ch))
<1>1. p \in Parsers /\ b \in Kinds \cup {"none"} /\ One(p.marks) /\ InTurn(b, p) BY DEF Good
<1>2. "HPE_CLOSED_CONNECTION" \in Errors BY DEF Errors
<1>3. LET q == P!Fail(p, "HPE_CLOSED_CONNECTION") IN Good(b, q) /\ Unstarted(q)
  BY <1>1, <1>2, FailIsGood
<1>4. Unstarted(p) BY DEF Unstarted
<1>5. QED BY <1>3, <1>4 DEF P!Dead

LEMMA StartReqIsGood ==
  ASSUME P!SizesAssumption, NEW b, NEW p, NEW ch \in Chars, Good(b, p), p.errno = "HPE_OK",
         p.state = "s_start_req", p.calls = <<>>
  PROVE  Good(b, P!StartReq(p, ch)) /\ Unstarted(P!StartReq(p, ch))
<1> DEFINE q == [p EXCEPT !.flags = {}, !.content_length = ULLONG_MAX]
           r == P!Go([q EXCEPT !.method = ch], "s_req_method")
           n == P!Notify(r, "message_begin", <<>>)
<1>0. p \in Parsers /\ ULLONG_MAX \in 0 .. ULLONG_MAX /\ "s_req_method" \in P!States
  BY DEF Good, P!SizesAssumption, P!States
<1>1. CASE ch \in {P!CR, P!LF} BY <1>1 DEF P!StartReq, Good, Unstarted
<1>2. CASE ch \notin {P!CR, P!LF} /\ ch \notin P!Methods
  <2>1. q \in Parsers /\ q.calls = <<>> /\ q.marks = p.marks
    BY <1>0 DEF Parsers
  <2>2. InTurn(b, q) BY <2>1, Quiet
  <2>3. Good(b, P!Fail(q, "HPE_INVALID_METHOD")) /\ Unstarted(P!Fail(q, "HPE_INVALID_METHOD"))
    BY <2>1, <2>2, FailIsGood DEF Good, Errors
  <2>4. QED BY <1>2, <2>3 DEF P!StartReq
<1>3. CASE ch \notin {P!CR, P!LF} /\ ch \in P!Methods
  <2>1. /\ r \in Parsers /\ r.calls = <<>> /\ r.marks = p.marks /\ r.flags = {}
        /\ r.state = "s_req_method" /\ r.errno = "HPE_OK" /\ r.nread = p.nread
    BY <1>0, <1>3 DEF Parsers, P!Go
  <2> HIDE DEF r
  <2>2. InTurn(b, r) /\ Said(b, r) = b BY <2>1, Quiet
  <2>3. b \in {"none", "message_complete"} BY Quiet, HeardIs DEF Good
  <2>4. Allowed(b, r, "message_begin") BY <2>2, <2>3 DEF P!After, Allowed
  <2>5. <<>> \in Seq(Letters) /\ "message_begin" \in Kinds BY DEF Kinds
  <2>6. n \in Parsers BY <2>1, <2>5, NotifyIs
  <2>7. InTurn(b, n) /\ Said(b, n) = "message_begin"
    <3>1. r \in Parsers BY <2>1
    <3>2. InTurn(b, r) BY <2>2
    <3>3. Allowed(b, r, "message_begin") BY <2>4
    <3>4. QED BY <3>1, <3>2, <3>3, <2>5, NotifySpeaks
  <2>8. /\ n.state = "s_req_method" /\ n.flags = {} /\ n.marks = p.marks /\ n.errno = "HPE_OK"
        /\ n.nread = p.nread
    BY <2>1, <2>5, NotifyIs
  <2> HIDE DEF n
  <2>9. MarksRight(n) BY <2>8 DEF Good, MarksRight, P!Resumed, P!OpenUrl, P!UrlStates
  <2>10. DataRight(n) BY <2>8 DEF Good, DataRight, Trailing, RequestLine, ChunkStates
  <2>11. Good(b, n) BY <2>6, <2>7, <2>8, <2>9, <2>10, HeardIs, Assembled DEF Good
  <2>12. Unstarted(n) BY <2>8 DEF Unstarted
  <2>13. QED BY <1>3, <2>11, <2>12 DEF P!StartReq, n, r
<1>4. QED BY <1>1, <1>2, <1>3

(* A character of the target, in the state the line is in *)
LEMMA UrlCharIsGood ==
  ASSUME NEW b, NEW p, NEW ch, p \in Parsers, b \in Kinds \cup {"none"}, p.errno = "HPE_OK",
         p.state \in RequestLine, p.marks = {"url"}, InTurn(b, p), ~Trailing(p),
         p.nread <= HTTP_MAX_HEADER_SIZE, Said(b, p) \in {"message_begin", "url"}
  PROVE  Good(b, P!UrlChar(p, ch)) /\ Unstarted(P!UrlChar(p, ch))
<1> DEFINE q == P!Go(p, P!UrlNext(p.state, ch))
<1>1. P!UrlNext(p.state, ch) \in P!OpenUrl \cup P!UrlStates \cup {"s_dead"} BY UrlStatesFollow
<1>2. P!UrlNext(p.state, ch) \in P!States BY <1>1 DEF P!States
<1>3. /\ q \in Parsers /\ q.state = P!UrlNext(p.state, ch) /\ q.calls = p.calls /\ q.marks = {"url"}
      /\ q.errno = "HPE_OK" /\ q.nread = p.nread /\ Trailing(q) = Trailing(p)
  BY <1>2, GoIs
<1> HIDE DEF q
<1>4. InTurn(b, q) /\ Said(b, q) = Said(b, p) BY <1>3, Silent
<1>5. CASE q.state = "s_dead"
  <2>1. Good(b, P!Fail(q, "HPE_INVALID_URL")) /\ Unstarted(P!Fail(q, "HPE_INVALID_URL"))
    BY <1>3, <1>4, FailIsGood DEF One, Errors
  <2>2. QED BY <1>5, <2>1 DEF P!UrlChar, q
<1>6. CASE q.state \in P!OpenUrl \cup P!UrlStates
  <2>1. MarksRight(q) BY <1>3, <1>6 DEF MarksRight, P!Resumed, P!OpenUrl, P!UrlStates
  <2>2. DataRight(q) BY <1>3, <1>6 DEF DataRight, ChunkStates, P!OpenUrl, P!UrlStates
  <2>3. Said(b, q) \in Heard(q.state, Trailing(q)) BY <1>4, <1>6, HeardIs
  <2>4. Good(b, q) BY <1>3, <1>4, <2>1, <2>2, <2>3, Assembled
  <2>5. Unstarted(q) /\ q.state # "s_dead" BY <1>6 DEF Unstarted, P!OpenUrl, P!UrlStates
  <2>6. QED BY <2>4, <2>5 DEF P!UrlChar, q
<1>7. QED BY <1>1, <1>3, <1>5, <1>6

LEMMA SpacesBeforeUrlIsGood ==
  ASSUME NEW b, NEW p, NEW ch \in Chars, Good(b, p), p.errno = "HPE_OK",
         p.state = "s_req_spaces_before_url"
  PROVE  Good(b, P!SpacesBeforeUrl(p, ch)) /\ Unstarted(P!SpacesBeforeUrl(p, ch))
<1> DEFINE m == P!Mark(p, "url")
           q == IF p.method = "CONNECT" THEN P!Go(m, "s_req_server_start") ELSE m
<1>1. CASE ch = P!SP BY <1>1 DEF P!SpacesBeforeUrl, Unstarted
<1>2. CASE ch # P!SP
  <2>0. p \in Parsers BY DEF Good
  <2>1. p.marks = {} BY DEF Good, MarksRight, P!Resumed, P!OpenUrl, P!UrlStates
  <2>2. m = [p EXCEPT !.marks = {"url"}, !.text = <<>>] BY <2>1 DEF P!Mark
  <2>3. <<>> \in Seq(Letters) /\ {"url"} \subseteq P!Texts BY DEF P!Texts
  <2> HIDE DEF m
  <2>4. /\ m \in Parsers /\ m.marks = {"url"} /\ m.state = p.state /\ m.calls = p.calls
        /\ m.flags = p.flags /\ m.errno = "HPE_OK" /\ m.nread = p.nread
    BY <2>0, <2>2, <2>3 DEF Parsers
  <2>5. "s_req_server_start" \in P!States BY DEF P!States, P!OpenUrl
  <2>6. /\ q \in Parsers /\ q.marks = {"url"} /\ q.state \in {p.state, "s_req_server_start"}
        /\ q.calls = p.calls /\ Trailing(q) = Trailing(p) /\ q.errno = "HPE_OK" /\ q.nread = p.nread
    BY <2>4, <2>5, GoIs DEF Trailing
  <2> HIDE DEF q
  <2>7. InTurn(b, q) /\ Said(b, q) = Said(b, p) BY <2>6, Silent DEF Good
  <2>8. Said(b, p) = "message_begin" BY HeardIs DEF Good
  <2>9. ~Trailing(p) /\ q.state \in RequestLine /\ q.nread <= HTTP_MAX_HEADER_SIZE
    BY <2>6 DEF Good, DataRight, RequestLine, P!OpenUrl
  <2>10. Good(b, P!UrlChar(q, ch)) /\ Unstarted(P!UrlChar(q, ch))
    BY <2>6, <2>7, <2>8, <2>9, UrlCharIsGood DEF Good
  <2>11. P!SpacesBeforeUrl(p, ch) = P!UrlChar(q, ch) BY <1>2 DEF P!SpacesBeforeUrl, q, m
  <2>12. QED BY <2>10, <2>11
<1>3. QED BY <1>1, <1>2

(* CALLBACK_DATA at the end of a text, into a state that collects nothing *)
LEMMA HandOver ==
  ASSUME NEW b \in Kinds \cup {"none"}, NEW r \in Parsers, NEW what \in P!Texts, r.errno = "HPE_OK",
         r.marks = {what}, InTurn(b, r), Allowed(b, r, what), what \in Heard(r.state, Trailing(r)),
         P!Resumed(r) = {}, DataRight(r)
  PROVE  /\ Good(b, P!CallBack(r, what))
         /\ Said(b, P!CallBack(r, what)) = what
         /\ P!CallBack(r, what).state = r.state
         /\ P!CallBack(r, what).errno = "HPE_OK"
<1> DEFINE q == P!CallBack(r, what)
<1>1. One(r.marks) /\ what \in r.marks BY DEF One
<1>2. /\ q \in Parsers /\ q.state = r.state /\ q.header_state = r.header_state /\ q.flags = r.flags
      /\ q.content_length = r.content_length /\ q.nread = r.nread /\ q.errno = "HPE_OK"
      /\ q.marks = {} /\ Trailing(q) = Trailing(r)
  BY <1>1, CallBackIs
<1>3. InTurn(b, q) /\ Said(b, q) = what BY <1>1, CallBackSpeaks
<1> HIDE DEF q
<1>4. P!Resumed(q) = {} BY <1>2 DEF P!Resumed
<1>5. MarksRight(q) BY <1>2, <1>4 DEF MarksRight
<1>6. DataRight(q) BY <1>2 DEF DataRight, P!IsChunked, P!HasLength
<1>7. Good(b, q) BY <1>2, <1>3, <1>5, <1>6, Assembled
<1>8. QED BY <1>2, <1>3, <1>7 DEF q

(* The target ends here. *)
LEMMA UrlEnds ==
  ASSUME NEW b, NEW p, NEW r \in Parsers, Good(b, p), p.errno = "HPE_OK", p.state \in P!UrlStates,
         r.state \in {"s_req_http_start", "s_req_line_almost_done", "s_header_field_start"},
         r.calls = p.calls, r.marks = p.marks, r.flags = p.flags, r.errno = "HPE_OK",
         r.nread = p.nread
  PROVE  Good(b, P!CallBack(r, "url")) /\ Unstarted(P!CallBack(r, "url"))
<1>1. r.marks = {"url"} BY DEF Good, MarksRight, P!Resumed, P!OpenUrl, P!UrlStates
<1>2. Trailing(r) = Trailing(p) /\ ~Trailing(r) BY DEF Good, DataRight, Trailing, RequestLine
<1>3. InTurn(b, r) /\ Said(b, r) = Said(b, p) BY <1>2, Silent DEF Good
<1>4. Said(b, p) \in {"message_begin", "url"} BY HeardIs DEF Good
<1>5. Allowed(b, r, "url") BY <1>3, <1>4 DEF Allowed, P!After
<1>6. "url" \in Heard(r.state, Trailing(r)) BY <1>2, HeardIs DEF Opening
<1>7. DataRight(r) BY <1>2 DEF Good, DataRight, ChunkStates
<1>8. P!Resumed(r) = {} /\ "url" \in P!Texts BY DEF P!Resumed, P!OpenUrl, P!UrlStates, P!Texts
<1>9. b \in Kinds \cup {"none"} BY DEF Good
<1>10. Good(b, P!CallBack(r, "url")) /\ P!CallBack(r, "url").state = r.state
  BY <1>1, <1>3, <1>5, <1>6, <1>7, <1>8, <1>9, HandOver
<1>11. QED BY <1>10 DEF Unstarted

LEMMA UrlIsGood ==
  ASSUME NEW b, NEW p, NEW ch \in Chars, Good(b, p), p.errno = "HPE_OK", p.state \in P!UrlStates
  PROVE  Good(b, P!Url(p, ch)) /\ Unstarted(P!Url(p, ch))
<1> DEFINE h == [p EXCEPT !.http_1_1 = FALSE]
<1>1. p \in Parsers BY DEF Good
<1>2. /\ h \in Parsers /\ h.calls = p.calls /\ h.marks = p.marks /\ h.flags = p.flags
      /\ h.errno = p.errno /\ h.nread = p.nread
  BY <1>1 DEF Parsers
<1>3. {"s_req_http_start", "s_req_line_almost_done", "s_header_field_start"} \subseteq P!States
  BY DEF P!States
<1> HIDE DEF h
<1>4. CASE ch = P!SP
  <2>1. P!Url(p, ch) = P!CallBack(P!Go(p, "s_req_http_start"), "url")
    BY <1>4 DEF P!Url, P!SP, P!CR, P!LF
  <2> DEFINE r == P!Go(p, "s_req_http_start")
  <2>2. /\ r \in Parsers /\ r.state = "s_req_http_start" /\ r.calls = p.calls
        /\ r.marks = p.marks /\ r.flags = p.flags /\ r.errno = "HPE_OK" /\ r.nread = p.nread
    BY <1>1, <1>3, GoIs
  <2> HIDE DEF r
  <2>3. Good(b, P!CallBack(r, "url")) /\ Unstarted(P!CallBack(r, "url")) BY <2>2, UrlEnds
  <2>4. QED BY <2>1, <2>3 DEF r
<1>5. CASE ch = P!CR
  <2>1. P!Url(p, ch) = P!CallBack(P!Go(h, "s_req_line_almost_done"), "url")
    BY <1>5 DEF P!Url, P!SP, P!CR, P!LF, h
  <2> DEFINE r == P!Go(h, "s_req_line_almost_done")
  <2>2. /\ r \in Parsers /\ r.state = "s_req_line_almost_done" /\ r.calls = p.calls
        /\ r.marks = p.marks /\ r.flags = p.flags /\ r.errno = "HPE_OK" /\ r.nread = p.nread
    BY <1>1, <1>2, <1>3, GoIs
  <2> HIDE DEF r
  <2>3. Good(b, P!CallBack(r, "url")) /\ Unstarted(P!CallBack(r, "url")) BY <2>2, UrlEnds
  <2>4. QED BY <2>1, <2>3 DEF r
<1>6. CASE ch = P!LF
  <2>1. P!Url(p, ch) = P!CallBack(P!Go(h, "s_header_field_start"), "url")
    BY <1>6 DEF P!Url, P!SP, P!CR, P!LF, h
  <2> DEFINE r == P!Go(h, "s_header_field_start")
  <2>2. /\ r \in Parsers /\ r.state = "s_header_field_start" /\ r.calls = p.calls
        /\ r.marks = p.marks /\ r.flags = p.flags /\ r.errno = "HPE_OK" /\ r.nread = p.nread
    BY <1>1, <1>2, <1>3, GoIs
  <2> HIDE DEF r
  <2>3. Good(b, P!CallBack(r, "url")) /\ Unstarted(P!CallBack(r, "url")) BY <2>2, UrlEnds
  <2>4. QED BY <2>1, <2>3 DEF r
<1>7. CASE ch \notin {P!SP, P!CR, P!LF}
  <2>1. p.marks = {"url"} BY DEF Good, MarksRight, P!Resumed, P!OpenUrl, P!UrlStates
  <2>2. Said(b, p) \in {"message_begin", "url"} BY HeardIs DEF Good
  <2>3. ~Trailing(p) /\ p.nread <= HTTP_MAX_HEADER_SIZE /\ p.state \in RequestLine
    BY DEF Good, DataRight, RequestLine
  <2>4. Good(b, P!UrlChar(p, ch)) /\ Unstarted(P!UrlChar(p, ch))
    BY <1>1, <2>1, <2>2, <2>3, UrlCharIsGood DEF Good
  <2>5. QED BY <1>7, <2>4 DEF P!Url
<1>8. QED BY <1>4, <1>5, <1>6, <1>7

LEMMA OpenUrlIsGood ==
  ASSUME NEW b, NEW p, NEW ch \in Chars, Good(b, p), p.errno = "HPE_OK", p.state \in P!OpenUrl
  PROVE  Good(b, P!UrlChar(p, ch)) /\ Unstarted(P!UrlChar(p, ch))
<1>1. p.marks = {"url"} BY DEF Good, MarksRight, P!Resumed, P!OpenUrl, P!UrlStates
<1>2. Said(b, p) \in {"message_begin", "url"} BY HeardIs DEF Good
<1>3. ~Trailing(p) /\ p.nread <= HTTP_MAX_HEADER_SIZE /\ p.state \in RequestLine
  BY DEF Good, DataRight, RequestLine
<1>4. QED BY <1>1, <1>2, <1>3, UrlCharIsGood DEF Good

(* On within the line: nothing is collected, nothing is said. *)
LEMMA LineGoesOn ==
  ASSUME NEW b, NEW p, NEW q \in Parsers, Good(b, p), p.errno = "HPE_OK",
         p.state \in {"s_req_http_start", "s_req_http_end", "s_req_line_almost_done"},
         q.state \in {"s_req_http_end", "s_req_line_almost_done", "s_header_field_start"},
         q.calls = p.calls, q.marks = p.marks, q.flags = p.flags, q.errno = "HPE_OK",
         q.nread = p.nread
  PROVE  Good(b, q) /\ Unstarted(q)
<1>1. Trailing(q) = Trailing(p) /\ ~Trailing(q) BY DEF Good, DataRight, Trailing, RequestLine
<1>2. MarksRight(q) BY DEF Good, MarksRight, P!Resumed, P!OpenUrl, P!UrlStates
<1>3. DataRight(q) BY <1>1 DEF Good, DataRight, ChunkStates
<1>4. Said(b, p) = "url" BY HeardIs DEF Good
<1>5. Said(b, p) \in Heard(q.state, Trailing(p)) BY <1>1, <1>4, HeardIs DEF Opening
<1>6. Good(b, q) BY <1>1, <1>2, <1>3, <1>5, Silently
<1>7. QED BY <1>6 DEF Unstarted

LEMMA ReqHttpStartIsGood ==
  ASSUME NEW b, NEW p, NEW ch \in Chars, Good(b, p), p.errno = "HPE_OK", p.state = "s_req_http_start"
  PROVE  Good(b, P!ReqHttpStart(p, ch)) /\ Unstarted(P!ReqHttpStart(p, ch))
<1> DEFINE q == P!Go([p EXCEPT !.http_1_1 = ch = "HTTP/1.1"], "s_req_http_end")
<1>1. p \in Parsers /\ "s_req_http_end" \in P!States BY DEF Good, P!States
<1>2. /\ q \in Parsers /\ q.calls = p.calls /\ q.marks = p.marks /\ q.flags = p.flags
      /\ q.errno = p.errno /\ q.nread = p.nread /\ q.state = "s_req_http_end"
  BY <1>1 DEF Parsers, P!Go
<1>3. CASE ch = P!SP BY <1>3 DEF P!ReqHttpStart, Unstarted
<1>4. CASE ch # P!SP /\ ch \in P!Versions
  <2>1. Good(b, q) /\ Unstarted(q) BY <1>2, LineGoesOn
  <2>2. QED BY <1>4, <2>1 DEF P!ReqHttpStart
<1>5. CASE ch # P!SP /\ ch \notin P!Versions
  BY <1>5, FailIsGood DEF P!ReqHttpStart, Good, Errors
<1>6. QED BY <1>3, <1>4, <1>5

LEMMA ReqHttpEndIsGood ==
  ASSUME NEW b, NEW p, NEW ch \in Chars, Good(b, p), p.errno = "HPE_OK", p.state = "s_req_http_end"
  PROVE  Good(b, P!ReqHttpEnd(p, ch)) /\ Unstarted(P!ReqHttpEnd(p, ch))
<1>1. p \in Parsers /\ {"s_req_line_almost_done", "s_header_field_start"} \subseteq P!States
  BY DEF Good, P!States
<1>2. \A s \in {"s_req_line_almost_done", "s_header_field_start"} :
        Good(b, P!Go(p, s)) /\ Unstarted(P!Go(p, s))
  <2> TAKE s \in {"s_req_line_almost_done", "s_header_field_start"}
  <2> DEFINE q == P!Go(p, s)
  <2>1. /\ q \in Parsers /\ q.state = s /\ q.calls = p.calls
        /\ q.marks = p.marks /\ q.flags = p.flags /\ q.errno = "HPE_OK" /\ q.nread = p.nread
    BY <1>1, GoIs
  <2> HIDE DEF q
  <2>2. Good(b, q) /\ Unstarted(q) BY <2>1, LineGoesOn
  <2>3. QED BY <2>2 DEF q
<1>3. Good(b, P!Fail(p, "HPE_INVALID_VERSION")) /\ Unstarted(P!Fail(p, "HPE_INVALID_VERSION"))
  BY FailIsGood DEF Good, Errors
<1>4. QED BY <1>2, <1>3 DEF P!ReqHttpEnd, P!CR, P!LF

LEMMA ReqLineAlmostDoneIsGood ==
  ASSUME NEW b, NEW p, NEW ch \in Chars, Good(b, p), p.errno = "HPE_OK",
         p.state = "s_req_line_almost_done"
  PROVE  Good(b, P!ReqLineAlmostDone(p, ch)) /\ Unstarted(P!ReqLineAlmostDone(p, ch))
<1>1. p \in Parsers /\ "s_header_field_start" \in P!States BY DEF Good, P!States
<1>2. Good(b, P!Go(p, "s_header_field_start")) /\ Unstarted(P!Go(p, "s_header_field_start"))
  BY <1>1, GoIs, LineGoesOn
<1>3. Good(b, P!Fail(p, "HPE_LF_EXPECTED")) /\ Unstarted(P!Fail(p, "HPE_LF_EXPECTED"))
  BY FailIsGood DEF Good, Errors
<1>4. QED BY <1>2, <1>3 DEF P!ReqLineAlmostDone
-----------------------------------------------------------------------------
(* The end of the headers and of the message *)

(* CALLBACK_NOTIFY_NOADVANCE may leave the loop early. *)
LEMMA ExitIsGood ==
  ASSUME NEW b, NEW p, Good(b, p), p.errno = "HPE_OK", p.state # "s_chunk_size_start"
  PROVE  Good(b, P!Exit(p)) /\ Unstarted(P!Exit(p))
<1> DEFINE q == P!Exit(p)
<1>1. p \in Parsers BY DEF Good
<1>2. /\ q \in Parsers /\ q.state = p.state /\ q.header_state = p.header_state /\ q.flags = p.flags
      /\ q.content_length = p.content_length /\ q.nread = p.nread /\ q.errno = "HPE_OK"
      /\ q.marks = p.marks /\ q.calls = p.calls
  BY <1>1 DEF Parsers, P!Exit
<1> HIDE DEF q
<1>3. Trailing(q) = Trailing(p) BY <1>2 DEF Trailing
<1>4. P!Resumed(q) = P!Resumed(p) BY <1>2 DEF P!Resumed
<1>5. MarksRight(q) BY <1>2, <1>4 DEF Good, MarksRight
<1>6. DataRight(q) BY <1>2, <1>3 DEF Good, DataRight, P!IsChunked, P!HasLength
<1>7. Said(b, p) \in Heard(q.state, Trailing(p)) BY <1>2 DEF Good
<1>8. Good(b, q) BY <1>2, <1>3, <1>5, <1>6, <1>7, Silently
<1>9. QED BY <1>2, <1>8 DEF Unstarted, q

(* The end of a message, whether the connection goes on or not *)
LEMMA NewMessageIsGood ==
  ASSUME NEW b \in Kinds \cup {"none"}, NEW p \in Parsers, p.errno = "HPE_OK", p.marks = {},
         InTurn(b, p), Allowed(b, p, "message_complete"), p.nread <= HTTP_MAX_HEADER_SIZE
  PROVE  /\ Good(b, P!NewMessage(p)) /\ Unstarted(P!NewMessage(p))
         /\ Good(b, P!Exit(P!NewMessage(p))) /\ Unstarted(P!Exit(P!NewMessage(p)))
         /\ Good(b, P!MessageDone(p)) /\ Unstarted(P!MessageDone(p))
<1> DEFINE s == IF P!http_should_keep_alive(p) THEN "s_start_req" ELSE "s_dead"
           r == P!Go(p, s)
           q == P!Notify(r, "message_complete", <<>>)
<1>1. s \in {"s_start_req", "s_dead"} /\ s \in P!States BY DEF P!States
<1> HIDE DEF s
<1>2. /\ r \in Parsers /\ r.state = s /\ r.nread = p.nread /\ r.errno = "HPE_OK" /\ r.marks = {}
      /\ r.calls = p.calls /\ Trailing(r) = Trailing(p)
  BY <1>1, GoIs
<1> HIDE DEF r
<1>3. InTurn(b, r) /\ Said(b, r) = Said(b, p) BY <1>2, Silent
<1>4. Allowed(b, r, "message_complete") BY <1>2, <1>3 DEF Allowed
<1>5. <<>> \in Seq(Letters) /\ "message_complete" \in Kinds BY DEF Kinds
<1>6. /\ q \in Parsers /\ q.state = s /\ q.nread = p.nread /\ q.errno = "HPE_OK" /\ q.marks = {}
  BY <1>2, <1>5, NotifyIs
<1>7. InTurn(b, q) /\ Said(b, q) = "message_complete"
  <2>1. r \in Parsers BY <1>2
  <2>2. InTurn(b, r) BY <1>3
  <2>3. <<>> \in Seq(Letters) OBVIOUS
  <2>4. "message_complete" \in Kinds BY DEF Kinds
  <2>5. QED BY ONLY <2>1, <2>2, <2>3, <2>4, <1>4, NotifySpeaks
<1> HIDE DEF q
<1>8. MarksRight(q) BY <1>1, <1>6 DEF MarksRight, P!Resumed, P!OpenUrl, P!UrlStates
<1>9. DataRight(q) BY <1>1, <1>6 DEF DataRight, RequestLine, P!OpenUrl, P!UrlStates, ChunkStates
<1>10. Said(b, q) \in Heard(q.state, Trailing(q))
  <2>1. CASE s = "s_start_req" BY <2>1, <1>6, <1>7, HeardIs
  <2>2. CASE s = "s_dead" BY <2>2, <1>6, <1>7, HeardIs DEF Kinds
  <2>3. QED BY <2>1, <2>2, <1>1
<1>11. Good(b, q) BY <1>6, <1>7, <1>8, <1>9, <1>10, Assembled
<1>12. Good(b, P!Exit(q)) /\ Unstarted(P!Exit(q)) BY <1>1, <1>6, <1>11, ExitIsGood
<1>13. Unstarted(q) BY <1>1, <1>6 DEF Unstarted
<1>14. P!NewMessage(p) = q BY DEF P!NewMessage, q, r, s
<1>15. QED BY <1>11, <1>12, <1>13, <1>14 DEF P!MessageDone

(* After headers_complete: what the message's length is decides the state. *)
LEMMA HeadersDoneIsGood ==
  ASSUME P!SizesAssumption, NEW b \in Kinds \cup {"none"}, NEW p \in Parsers, p.errno = "HPE_OK",
         p.marks = {}, InTurn(b, p), Said(b, p) = "headers_complete"
  PROVE  Good(b, P!HeadersDone(p)) /\ Unstarted(P!HeadersDone(p))
<1> DEFINE q == [p EXCEPT !.nread = 0]
<1>0. 0 \in 0 .. HTTP_MAX_HEADER_SIZE + 1 BY DEF P!SizesAssumption
<1>1. /\ q \in Parsers /\ q.state = p.state /\ q.flags = p.flags /\ q.errno = "HPE_OK"
      /\ q.content_length = p.content_length /\ q.nread = 0 /\ q.marks = {} /\ q.calls = p.calls
  BY <1>0 DEF Parsers
<1> HIDE DEF q
<1>2. Trailing(q) = Trailing(p) BY <1>1 DEF Trailing
<1>3. InTurn(b, q) /\ Said(b, q) = "headers_complete" BY <1>1, <1>2, Silent
<1>4. Allowed(b, q, "message_complete") BY <1>3 DEF Allowed, P!After
<1>5. q.nread <= HTTP_MAX_HEADER_SIZE BY <1>1 DEF P!SizesAssumption
<1>6. /\ Good(b, P!NewMessage(q)) /\ Unstarted(P!NewMessage(q))
      /\ Good(b, P!Exit(P!NewMessage(q))) /\ Unstarted(P!Exit(P!NewMessage(q)))
  BY <1>1, <1>3, <1>4, <1>5, NewMessageIsGood
<1>7. ASSUME NEW s \in {"s_chunk_size_start", "s_body_identity"},
             s = "s_chunk_size_start" => P!IsChunked(p), s = "s_body_identity" => P!HasLength(p)
      PROVE  Good(b, P!Go(q, s)) /\ Unstarted(P!Go(q, s))
  <2> DEFINE r == P!Go(q, s)
  <2>1. s \in P!States BY DEF P!States, P!BodyStates
  <2>2. /\ r \in Parsers /\ r.state = s /\ r.flags = p.flags /\ r.errno = "HPE_OK"
        /\ r.content_length = p.content_length /\ r.nread = 0 /\ r.marks = {} /\ r.calls = q.calls
        /\ Trailing(r) = Trailing(q)
    BY <2>1, <1>1, GoIs
  <2> HIDE DEF r
  <2>3. InTurn(b, r) /\ Said(b, r) = "headers_complete" BY <2>2, <1>3, Silent
  <2>4. MarksRight(r) BY <2>2 DEF MarksRight, P!Resumed, P!OpenUrl, P!UrlStates
  <2>5. DataRight(r)
    BY <2>2, <1>7 DEF DataRight, P!SizesAssumption, P!IsChunked, P!HasLength, RequestLine,
         P!OpenUrl,
                      P!UrlStates, ChunkStates
  <2>6. Said(b, r) \in Heard(r.state, Trailing(r)) BY <2>2, <2>3, HeardIs DEF ChunkStates
  <2>7. Good(b, r) BY <2>2, <2>3, <2>4, <2>5, <2>6, Assembled
  <2>8. QED BY <2>2, <2>7 DEF Unstarted, r
<1>8. QED BY <1>6, <1>7 DEF P!HeadersDone, P!IsChunked, P!HasLength, q
(* A line of the headers begins. *)
AtLineStart(b, p) ==
  /\ b \in Kinds \cup {"none"}
  /\ p \in Parsers
  /\ p.errno = "HPE_OK"
  /\ p.marks = {}
  /\ InTurn(b, p)
  /\ Said(b, p) \in {"header_value"} \cup Opening(Trailing(p))
  /\ p.nread <= HTTP_MAX_HEADER_SIZE

(* The empty line: the end of the headers, or of the trailer and the message *)
LEMMA HeadersAlmostDoneIsGood ==
  ASSUME P!SizesAssumption, NEW b, NEW p, NEW ch, AtLineStart(b, p)
  PROVE  Good(b, P!HeadersAlmostDone(p, ch)) /\ Unstarted(P!HeadersAlmostDone(p, ch))
<1> DEFINE upgrade == {"F_UPGRADE", "F_CONNECTION_UPGRADE"} \subseteq p.flags \/ p.method = "CONNECT"
           u == [p EXCEPT !.upgrade = upgrade]
           n == P!Notify(u, "headers_complete", <<p.method>>)
<1>0. p \in Parsers /\ upgrade \in BOOLEAN BY DEF AtLineStart
<1> HIDE DEF upgrade
<1>1. CASE ch # P!LF
  <2>1. One(p.marks) /\ "HPE_STRICT" \in Errors BY DEF One, AtLineStart, Errors
  <2>2. Good(b, P!Fail(p, "HPE_STRICT")) /\ Unstarted(P!Fail(p, "HPE_STRICT"))
    BY <2>1, FailIsGood DEF AtLineStart
  <2>3. QED BY <1>1, <2>2 DEF P!HeadersAlmostDone, P!Strict
<1>2. CASE ch = P!LF /\ Trailing(p)
  <2>1. Allowed(b, p, "message_complete") BY <1>2 DEF AtLineStart, Allowed, P!After, Opening
  <2>2. Good(b, P!MessageDone(p)) /\ Unstarted(P!MessageDone(p))
    BY <2>1, NewMessageIsGood DEF AtLineStart
  <2>3. QED BY <1>2, <2>2 DEF P!HeadersAlmostDone, P!Strict, Trailing
<1>3. CASE ch = P!LF /\ ~Trailing(p) /\ {"F_CHUNKED", "F_CONTENTLENGTH"} \subseteq p.flags
  <2>1. One(p.marks) /\ "HPE_UNEXPECTED_CONTENT_LENGTH" \in Errors
    BY DEF One, AtLineStart, Errors
  <2>2. /\ Good(b, P!Fail(p, "HPE_UNEXPECTED_CONTENT_LENGTH"))
        /\ Unstarted(P!Fail(p, "HPE_UNEXPECTED_CONTENT_LENGTH"))
    BY <2>1, FailIsGood DEF AtLineStart
  <2>3. QED BY <1>3, <2>2 DEF P!HeadersAlmostDone, P!Strict, Trailing
<1>4. CASE ch = P!LF /\ ~Trailing(p) /\ ~({"F_CHUNKED", "F_CONTENTLENGTH"} \subseteq p.flags)
  <2>1. /\ u \in Parsers /\ u.errno = p.errno /\ u.marks = p.marks /\ u.calls = p.calls
        /\ u.flags = p.flags
    BY <1>0 DEF Parsers
  <2> HIDE DEF u
  <2>2. u.errno = "HPE_OK" /\ u.marks = {} /\ Trailing(u) = Trailing(p)
    BY <2>1 DEF Trailing, AtLineStart
  <2>3. InTurn(b, u) /\ Said(b, u) = Said(b, p) BY <2>1, <2>2, Silent DEF AtLineStart
  <2>4. Said(b, p) \in {"header_value", "url"} BY <1>4 DEF AtLineStart, Opening
  <2>5. Allowed(b, u, "headers_complete") BY <1>4, <2>2, <2>3, <2>4 DEF Allowed, P!After
  <2>6. p.method \in Letters BY <1>0 DEF Parsers, Letters
  <2>7. <<p.method>> \in Seq(Letters) /\ "headers_complete" \in Kinds BY <2>6 DEF Kinds
  <2>8. /\ n \in Parsers /\ n.errno = u.errno /\ n.marks = u.marks
    BY <2>1, <2>7, NotifyIs
  <2>9. InTurn(b, n) /\ Said(b, n) = "headers_complete"
    <3>1. u \in Parsers BY <2>1
    <3>2. InTurn(b, u) BY <2>3
    <3>3. QED BY <3>1, <3>2, <2>5, <2>7, NotifySpeaks
  <2> HIDE DEF n
  <2>10. Good(b, P!HeadersDone(n)) /\ Unstarted(P!HeadersDone(n))
    BY <2>2, <2>8, <2>9, HeadersDoneIsGood DEF AtLineStart
  <2>11. P!HeadersAlmostDone(p, ch) = P!HeadersDone(n)
    BY <1>4 DEF P!HeadersAlmostDone, P!Strict, Trailing, n, u, upgrade
  <2>12. QED BY <2>10, <2>11
<1>5. QED BY <1>1, <1>2, <1>3, <1>4

(* What a header's name, and a token of Connection, are taken for. *)
LEMMA NamesAreKnown ==
  ASSUME NEW ch
  PROVE  /\ P!HeaderNamed(ch) \in HeaderStates
         /\ P!ConnectionToken(ch) \in HeaderStates \ {"h_connection", "h_transfer_encoding"}
BY DEF P!HeaderNamed, P!ConnectionToken, HeaderStates

(* The first character of a header's name, or of the empty line *)
LEMMA HeaderFieldStartIsGood ==
  ASSUME P!SizesAssumption, NEW b, NEW p, NEW ch, AtLineStart(b, p), p.state = "s_header_field_start"
  PROVE  Good(b, P!HeaderFieldStart(p, ch)) /\ Unstarted(P!HeaderFieldStart(p, ch))
<1>0. p \in Parsers BY DEF AtLineStart
<1>1. CASE ch = P!CR
  <2> DEFINE q == P!Go(p, "s_headers_almost_done")
  <2>1. "s_headers_almost_done" \in P!States BY DEF P!States
  <2>2. /\ q \in Parsers /\ q.state = "s_headers_almost_done" /\ q.calls = p.calls
        /\ q.marks = p.marks /\ q.errno = p.errno /\ q.nread = p.nread /\ Trailing(q) = Trailing(p)
    BY <1>0, <2>1, GoIs
  <2> HIDE DEF q
  <2>3. InTurn(b, q) /\ Said(b, q) = Said(b, p) BY <2>2, Silent DEF AtLineStart
  <2>4. MarksRight(q) BY <2>2 DEF MarksRight, P!Resumed, P!OpenUrl, P!UrlStates, AtLineStart
  <2>5. DataRight(q)
    BY <2>2 DEF DataRight, RequestLine, P!OpenUrl, P!UrlStates, ChunkStates, AtLineStart
  <2>6. Said(b, q) \in Heard(q.state, Trailing(q)) BY <2>2, <2>3, HeardIs DEF AtLineStart
  <2>7. Good(b, q) BY <2>2, <2>3, <2>4, <2>5, <2>6, Assembled DEF AtLineStart
  <2>8. Unstarted(q) BY <2>2 DEF Unstarted
  <2>9. P!HeaderFieldStart(p, ch) = q BY <1>1 DEF P!HeaderFieldStart, P!CR, P!LF, q
  <2>10. QED BY <2>7, <2>8, <2>9
<1>2. CASE ch = P!LF
  <2>1. P!HeaderFieldStart(p, ch) = P!HeadersAlmostDone(p, ch)
    BY <1>2 DEF P!HeaderFieldStart, P!CR, P!LF
  <2>2. QED BY <2>1, HeadersAlmostDoneIsGood
<1>3. CASE ch \notin {P!CR, P!LF} /\ ~P!IsToken(ch)
  <2>1. One(p.marks) /\ "HPE_INVALID_HEADER_TOKEN" \in Errors BY DEF One, AtLineStart, Errors
  <2>2. /\ Good(b, P!Fail(p, "HPE_INVALID_HEADER_TOKEN"))
        /\ Unstarted(P!Fail(p, "HPE_INVALID_HEADER_TOKEN"))
    BY <2>1, FailIsGood DEF AtLineStart
  <2>3. P!HeaderFieldStart(p, ch) = P!Fail(p, "HPE_INVALID_HEADER_TOKEN")
    BY <1>3 DEF P!HeaderFieldStart
  <2>4. QED BY <2>2, <2>3
<1>4. CASE ch \notin {P!CR, P!LF} /\ P!IsToken(ch)
  <2> DEFINE h == [P!Mark(p, "header_field") EXCEPT !.header_state = P!HeaderNamed(ch)]
             q == P!Go(h, "s_header_field")
  <2>1. p.marks = {} BY DEF AtLineStart
  <2>2. h = [p EXCEPT !.marks = {"header_field"}, !.text = <<>>, !.header_state = P!HeaderNamed(ch)]
    BY <1>0, <2>1 DEF P!Mark, Parsers
  <2> HIDE DEF h
  <2>3. /\ {"header_field"} \subseteq P!Texts /\ <<>> \in Seq(Letters)
        /\ P!HeaderNamed(ch) \in HeaderStates /\ "s_header_field" \in P!States
    BY NamesAreKnown DEF P!Texts, P!States
  <2>a. /\ h \in Parsers /\ h.calls = p.calls /\ h.marks = {"header_field"}
        /\ h.errno = p.errno /\ h.nread = p.nread /\ h.flags = p.flags
    BY <1>0, <2>2, <2>3 DEF Parsers
  <2>4. /\ q \in Parsers /\ q.state = "s_header_field" /\ q.calls = p.calls
        /\ q.marks = {"header_field"} /\ q.errno = p.errno /\ q.nread = p.nread
        /\ q.flags = p.flags
    BY <2>a, <2>3, GoIs
  <2> HIDE DEF q
  <2>5. Trailing(q) = Trailing(p) BY <2>4 DEF Trailing
  <2>6. InTurn(b, q) /\ Said(b, q) = Said(b, p) BY <2>4, <2>5, Silent DEF AtLineStart
  <2>7. MarksRight(q) BY <2>4 DEF MarksRight, P!Resumed, P!OpenUrl, P!UrlStates
  <2>8. DataRight(q)
    BY <2>4 DEF DataRight, RequestLine, P!OpenUrl, P!UrlStates, ChunkStates, AtLineStart
  <2>9. Said(b, q) \in Heard(q.state, Trailing(q)) BY <2>4, <2>5, <2>6, HeardIs DEF AtLineStart
  <2>10. Good(b, q) BY <2>4, <2>6, <2>7, <2>8, <2>9, Assembled DEF AtLineStart
  <2>11. Unstarted(q) BY <2>4 DEF Unstarted
  <2>12. P!HeaderFieldStart(p, ch) = q BY <1>4 DEF P!HeaderFieldStart, q, h
  <2>13. QED BY <2>10, <2>11, <2>12
<1>5. QED BY <1>1, <1>2, <1>3, <1>4
-----------------------------------------------------------------------------
(* Headers *)

(* The rest of the name, up to its colon *)
LEMMA HeaderFieldIsGood ==
  ASSUME NEW b, NEW p, NEW ch \in Chars, Good(b, p), p.errno = "HPE_OK", p.state = "s_header_field"
  PROVE  Good(b, P!HeaderField(p, ch)) /\ Unstarted(P!HeaderField(p, ch))
<1>0. p \in Parsers BY DEF Good
<1>1. CASE P!IsToken(ch)
  <2> DEFINE q == [p EXCEPT !.header_state = "h_general"]
  <2>1. "h_general" \in HeaderStates BY DEF HeaderStates
  <2>2. /\ q \in Parsers /\ q.state = p.state /\ q.calls = p.calls /\ q.marks = p.marks
        /\ q.errno = "HPE_OK" /\ q.nread = p.nread /\ q.flags = p.flags
    BY <1>0, <2>1 DEF Parsers
  <2> HIDE DEF q
  <2>3. Trailing(q) = Trailing(p) BY <2>2 DEF Trailing
  <2>4. MarksRight(q) BY <2>2 DEF Good, MarksRight, P!Resumed, P!OpenUrl, P!UrlStates
  <2>5. DataRight(q) BY <2>2 DEF Good, DataRight, RequestLine, P!OpenUrl, P!UrlStates, ChunkStates
  <2>6. Said(b, p) \in Heard(q.state, Trailing(p)) BY <2>2 DEF Good
  <2>7. Good(b, q) BY <2>2, <2>3, <2>4, <2>5, <2>6, Silently
  <2>8. QED BY <1>1, <2>2, <2>7 DEF P!HeaderField, Unstarted, q
<1>2. CASE ~P!IsToken(ch) /\ ch = ":"
  <2> DEFINE r == P!Go(p, "s_header_value_discard_ws")
  <2>1. "s_header_value_discard_ws" \in P!States /\ "header_field" \in P!Texts
    BY DEF P!States, P!Texts
  <2>2. /\ r \in Parsers /\ r.state = "s_header_value_discard_ws" /\ r.calls = p.calls
        /\ r.marks = p.marks /\ r.errno = "HPE_OK" /\ r.nread = p.nread /\ Trailing(r) = Trailing(p)
    BY <1>0, <2>1, GoIs
  <2> HIDE DEF r
  <2>3. r.marks = {"header_field"} BY <2>2 DEF Good, MarksRight, P!Resumed, P!OpenUrl, P!UrlStates
  <2>4. InTurn(b, r) /\ Said(b, r) = Said(b, p) BY <2>2, Silent DEF Good
  <2>5. Said(b, p) \in {"header_field", "header_value"} \cup Opening(Trailing(p))
    BY HeardIs DEF Good
  <2>6. Allowed(b, r, "header_field") BY <2>2, <2>4, <2>5 DEF Allowed, P!After, Opening
  <2>7. "header_field" \in Heard(r.state, Trailing(r)) BY <2>2, HeardIs DEF Discards
  <2>8. DataRight(r)
    BY <2>2 DEF Good, DataRight, RequestLine, P!OpenUrl, P!UrlStates, ChunkStates
  <2>9. P!Resumed(r) = {} BY <2>2 DEF P!Resumed, P!OpenUrl, P!UrlStates
  <2>10. b \in Kinds \cup {"none"} BY DEF Good
  <2>11. Good(b, P!CallBack(r, "header_field")) /\ P!CallBack(r, "header_field").state = r.state
    BY <2>1, <2>2, <2>3, <2>4, <2>6, <2>7, <2>8, <2>9, <2>10, HandOver
  <2>12. Unstarted(P!CallBack(r, "header_field")) BY <2>2, <2>11 DEF Unstarted
  <2>13. QED BY <1>2, <2>11, <2>12 DEF P!HeaderField, r
<1>3. CASE ~P!IsToken(ch) /\ ch # ":"
  <2>1. /\ Good(b, P!Fail(p, "HPE_INVALID_HEADER_TOKEN"))
        /\ Unstarted(P!Fail(p, "HPE_INVALID_HEADER_TOKEN"))
    BY FailIsGood DEF Good, Errors
  <2>2. QED BY <1>3, <2>1 DEF P!HeaderField
<1>4. QED BY <1>1, <1>2, <1>3

(* A header sets flags, and never the one of the trailer. *)
LEMMA FlagIs ==
  ASSUME NEW p \in Parsers, NEW flags \in SUBSET (P!Flags \ {"F_TRAILING"})
  PROVE  LET q == P!Flag(p, flags)
         IN /\ q \in Parsers
            /\ q.state = p.state /\ q.header_state = p.header_state
            /\ q.content_length = p.content_length /\ q.nread = p.nread /\ q.method = p.method
            /\ q.errno = p.errno /\ q.marks = p.marks /\ q.calls = p.calls /\ q.upgrade = p.upgrade
            /\ Trailing(q) = Trailing(p)
            /\ p.flags \subseteq q.flags
<1>1. p.flags \cup flags \subseteq P!Flags BY DEF Parsers
<1>2. P!Flag(p, flags) = [p EXCEPT !.flags = p.flags \cup flags] BY DEF P!Flag
<1>3. P!Flag(p, flags).flags = p.flags \cup flags BY <1>2 DEF Parsers
<1>4. ("F_TRAILING" \in p.flags \cup flags) <=> "F_TRAILING" \in p.flags OBVIOUS
<1>5. Trailing(P!Flag(p, flags)) = Trailing(p) BY <1>3, <1>4 DEF Trailing
<1>6. QED BY <1>1, <1>2, <1>3, <1>5 DEF Parsers

(* A value is being read. *)
LEMMA InValue ==
  ASSUME NEW b, NEW p, NEW r \in Parsers, Good(b, p), p.errno = "HPE_OK",
         p.state \in {"s_header_value_discard_ws", "s_header_value_lws", "s_header_value"},
         r.state = "s_header_value", r.marks = {"header_value"}, r.calls = p.calls,
         Trailing(r) = Trailing(p), r.nread = p.nread, r.errno = "HPE_OK",
         r.header_state \notin {"h_connection", "h_transfer_encoding"}
  PROVE  Good(b, r) /\ Unstarted(r)
<1>1. MarksRight(r) BY DEF MarksRight, P!Resumed, P!OpenUrl, P!UrlStates
<1>2. DataRight(r) BY DEF Good, DataRight, RequestLine, P!OpenUrl, P!UrlStates, ChunkStates
<1>3. Said(b, p) \in {"header_field", "header_value"} BY HeardIs DEF Good, Discards
<1>4. Said(b, p) \in Heard(r.state, Trailing(p)) BY <1>3, HeardIs
<1>5. Good(b, r) BY <1>1, <1>2, <1>4, Silently
<1>6. QED BY <1>5 DEF Unstarted

(* The first character of a value, by which header it is of *)
LEMMA HeaderValueStartIsGood ==
  ASSUME P!SizesAssumption, NEW b, NEW p, NEW ch, Good(b, p), p.errno = "HPE_OK",
         p.state \in {"s_header_value_discard_ws", "s_header_value_lws"}
  PROVE  Good(b, P!HeaderValueStart(p, ch)) /\ Unstarted(P!HeaderValueStart(p, ch))
<1> DEFINE m == P!Mark(p, "header_value")
           q == P!Go(m, "s_header_value")
           B(h) == [q EXCEPT !.header_state = h]
           Meant == HeaderStates \ {"h_connection", "h_transfer_encoding"}
<1>1. p \in Parsers /\ p.marks = {} BY DEF Good, MarksRight, P!Resumed, P!OpenUrl, P!UrlStates
<1>2. m = [p EXCEPT !.marks = {"header_value"}, !.text = <<>>] BY <1>1 DEF P!Mark
<1>3. {"header_value"} \subseteq P!Texts /\ <<>> \in Seq(Letters) /\ "s_header_value" \in P!States
  BY DEF P!Texts, P!States
<1> HIDE DEF m
<1>4. /\ m \in Parsers /\ m.marks = {"header_value"} /\ m.calls = p.calls /\ m.flags = p.flags
      /\ m.nread = p.nread /\ m.errno = "HPE_OK" /\ m.header_state = p.header_state
  BY <1>1, <1>2, <1>3 DEF Parsers
<1>5. Trailing(m) = Trailing(p) BY <1>4 DEF Trailing
<1>6. /\ q \in Parsers /\ q.state = "s_header_value" /\ q.marks = {"header_value"}
      /\ q.calls = p.calls /\ Trailing(q) = Trailing(p) /\ q.nread = p.nread /\ q.errno = "HPE_OK"
      /\ q.header_state = p.header_state /\ q.flags = p.flags
  BY <1>3, <1>4, <1>5, GoIs
<1> HIDE DEF q
<1>7. InTurn(b, q) /\ One(q.marks) BY <1>6, Silent DEF Good, One
<1>8. ASSUME NEW h \in Meant
      PROVE  /\ B(h) \in Parsers /\ B(h).state = "s_header_value" /\ B(h).marks = {"header_value"}
             /\ B(h).calls = p.calls /\ Trailing(B(h)) = Trailing(p) /\ B(h).nread = p.nread
             /\ B(h).errno = "HPE_OK" /\ B(h).header_state = h
  BY <1>6, <1>8 DEF Parsers, Trailing
<1>9. ASSUME NEW h \in Meant PROVE Good(b, B(h)) /\ Unstarted(B(h))
  BY <1>8, InValue
<1>10. /\ {"h_general", "h_transfer_encoding_chunked", "h_content_length_num"} \subseteq Meant
       /\ P!ConnectionToken(ch) \in Meant
  BY NamesAreKnown DEF HeaderStates
<1>11. CASE p.header_state = "h_upgrade"
  <2> DEFINE l == B("h_general")
             r == P!Flag(l, {"F_UPGRADE"})
  <2>0. /\ l \in Parsers /\ l.state = "s_header_value" /\ l.marks = {"header_value"}
        /\ l.calls = p.calls /\ Trailing(l) = Trailing(p) /\ l.nread = p.nread
        /\ l.errno = "HPE_OK" /\ l.header_state = "h_general"
    BY <1>8, <1>10
  <2> HIDE DEF l
  <2>1. {"F_UPGRADE"} \in SUBSET (P!Flags \ {"F_TRAILING"}) BY DEF P!Flags
  <2>2. /\ r \in Parsers /\ r.state = "s_header_value" /\ r.marks = {"header_value"}
        /\ r.calls = p.calls /\ Trailing(r) = Trailing(p) /\ r.nread = p.nread
        /\ r.errno = "HPE_OK" /\ r.header_state = "h_general"
    BY <2>0, <2>1, FlagIs
  <2> HIDE DEF r
  <2>3. Good(b, r) /\ Unstarted(r) BY <2>2, InValue
  <2>4. P!HeaderValueStart(p, ch) = r BY <1>11 DEF P!HeaderValueStart, r, l, q, m
  <2>5. QED BY <2>3, <2>4
<1>12. CASE p.header_state = "h_transfer_encoding"
  <2>1. P!HeaderValueStart(p, ch) = B(IF ch = "chunked" THEN "h_transfer_encoding_chunked" ELSE "h_general")
    BY <1>12 DEF P!HeaderValueStart, q, m
  <2>2. QED BY <2>1, <1>9, <1>10
<1>13. CASE p.header_state = "h_content_length"
  <2>1. P!HeaderValueStart(p, ch) = P!ContentLength(q, ch) BY <1>13 DEF P!HeaderValueStart, q, m
  <2>2. \A errno \in Errors : Good(b, P!Fail(q, errno)) /\ Unstarted(P!Fail(q, errno))
    BY <1>6, <1>7, FailIsGood DEF Good
  <2>3. {"HPE_INVALID_CONTENT_LENGTH", "HPE_UNEXPECTED_CONTENT_LENGTH"} \subseteq Errors
    BY DEF Errors
  <2>4. CASE P!IsNumeral(ch, 10)
    <3> DEFINE l == [q EXCEPT !.content_length = P!Unhex(ch, 10), !.header_state = "h_content_length_num"]
               r == P!Flag(l, {"F_CONTENTLENGTH"})
    <3>1. P!Unhex(ch, 10) \in 0 .. ULLONG_MAX
      BY <2>4, NumeralsAreTheirValues DEF P!SizesAssumption
    <3>2. "h_content_length_num" \in HeaderStates BY DEF HeaderStates
    <3>3. /\ l \in Parsers /\ l.state = "s_header_value" /\ l.marks = {"header_value"}
          /\ l.calls = p.calls /\ l.flags = q.flags /\ l.nread = p.nread
          /\ l.errno = "HPE_OK" /\ l.header_state = "h_content_length_num"
      BY <1>6, <3>1, <3>2 DEF Parsers
    <3> HIDE DEF l
    <3>4. Trailing(l) = Trailing(p) BY <3>3, <1>6 DEF Trailing
    <3>5. {"F_CONTENTLENGTH"} \in SUBSET (P!Flags \ {"F_TRAILING"}) BY DEF P!Flags
    <3>6. /\ r \in Parsers /\ r.state = "s_header_value" /\ r.marks = {"header_value"}
          /\ r.calls = p.calls /\ Trailing(r) = Trailing(p) /\ r.nread = p.nread
          /\ r.errno = "HPE_OK" /\ r.header_state = "h_content_length_num"
      BY <3>3, <3>4, <3>5, FlagIs
    <3> HIDE DEF r
    <3>7. Good(b, r) /\ Unstarted(r) BY <3>6, InValue
    <3>8. QED BY <2>1, <2>2, <2>3, <2>4, <3>7 DEF P!ContentLength, r, l
  <2>5. CASE ~P!IsNumeral(ch, 10) BY <2>1, <2>2, <2>3, <2>5 DEF P!ContentLength
  <2>6. QED BY <2>4, <2>5
<1>14. CASE p.header_state = "h_connection"
  <2>1. P!HeaderValueStart(p, ch) = B(P!ConnectionToken(ch)) BY <1>14 DEF P!HeaderValueStart, q, m
  <2>2. QED BY <2>1, <1>9, <1>10
<1>15. CASE p.header_state = "h_matching_connection_token_start"
  <2>1. P!HeaderValueStart(p, ch) = q BY <1>15 DEF P!HeaderValueStart, q, m
  <2>2. Good(b, q) /\ Unstarted(q) BY <1>6, <1>15, InValue
  <2>3. QED BY <2>1, <2>2
<1>16. CASE p.header_state \notin {"h_upgrade", "h_transfer_encoding", "h_content_length",
                                  "h_connection", "h_matching_connection_token_start"}
  <2>1. P!HeaderValueStart(p, ch) = B("h_general") BY <1>16 DEF P!HeaderValueStart, q, m
  <2>2. QED BY <2>1, <1>9, <1>10
<1>17. QED BY <1>11, <1>12, <1>13, <1>14, <1>15, <1>16
(* Still before the value. *)
LEMMA StillDiscarding ==
  ASSUME NEW b, NEW p, NEW s \in Discards, Good(b, p), p.errno = "HPE_OK", p.state \in Discards
  PROVE  Good(b, P!Go(p, s)) /\ Unstarted(P!Go(p, s))
<1> DEFINE q == P!Go(p, s)
<1>1. p \in Parsers /\ s \in P!States BY DEF Good, Discards, P!States
<1>2. /\ q \in Parsers /\ q.state = s /\ q.calls = p.calls /\ q.marks = p.marks
      /\ q.errno = "HPE_OK" /\ q.nread = p.nread /\ Trailing(q) = Trailing(p)
  BY <1>1, GoIs
<1> HIDE DEF q
<1>3. MarksRight(q) BY <1>2 DEF Good, MarksRight, P!Resumed, P!OpenUrl, P!UrlStates, Discards
<1>4. DataRight(q)
  BY <1>2 DEF Good, DataRight, RequestLine, P!OpenUrl, P!UrlStates, ChunkStates, Discards
<1>5. Said(b, p) \in Heard(q.state, Trailing(p)) BY <1>2, HeardIs DEF Good
<1>6. Good(b, q) BY <1>2, <1>3, <1>4, <1>5, Silently
<1>7. Unstarted(q) BY <1>2 DEF Unstarted, Discards
<1>8. QED BY <1>6, <1>7 DEF q

(* White space before a value *)
LEMMA HeaderValueDiscardWsIsGood ==
  ASSUME P!SizesAssumption, NEW b, NEW p, NEW ch \in Chars, Good(b, p), p.errno = "HPE_OK",
         p.state = "s_header_value_discard_ws"
  PROVE  Good(b, P!HeaderValueDiscardWs(p, ch)) /\ Unstarted(P!HeaderValueDiscardWs(p, ch))
<1>1. \A s \in Discards : Good(b, P!Go(p, s)) /\ Unstarted(P!Go(p, s))
  BY StillDiscarding DEF Discards
<1>2. Good(b, P!HeaderValueStart(p, ch)) /\ Unstarted(P!HeaderValueStart(p, ch))
  BY HeaderValueStartIsGood
<1>3. CASE ch = P!SP BY <1>3 DEF P!HeaderValueDiscardWs, P!SP, P!CR, P!LF, Unstarted
<1>4. CASE ch = P!CR BY <1>1, <1>4 DEF P!HeaderValueDiscardWs, P!SP, P!CR, P!LF, Discards
<1>5. CASE ch = P!LF BY <1>1, <1>5 DEF P!HeaderValueDiscardWs, P!SP, P!CR, P!LF, Discards
<1>6. CASE ch \notin {P!SP, P!CR, P!LF} BY <1>2, <1>6 DEF P!HeaderValueDiscardWs
<1>7. QED BY <1>3, <1>4, <1>5, <1>6

LEMMA DiscardWsAlmostDoneIsGood ==
  ASSUME NEW b, NEW p, NEW ch \in Chars, Good(b, p), p.errno = "HPE_OK",
         p.state = "s_header_value_discard_ws_almost_done"
  PROVE  Good(b, P!DiscardWsAlmostDone(p, ch)) /\ Unstarted(P!DiscardWsAlmostDone(p, ch))
<1>1. \A s \in Discards : Good(b, P!Go(p, s)) /\ Unstarted(P!Go(p, s))
  BY StillDiscarding DEF Discards
<1>2. Good(b, P!Fail(p, "HPE_STRICT")) /\ Unstarted(P!Fail(p, "HPE_STRICT"))
  BY FailIsGood DEF Good, Errors
<1>3. QED BY <1>1, <1>2 DEF P!DiscardWsAlmostDone, P!Strict, Discards

(* A value has been handed over: the next line begins. *)
LEMMA ValueHandedOver ==
  ASSUME NEW b, NEW p, NEW r \in Parsers, Good(b, p), p.errno = "HPE_OK",
         p.state \in {"s_header_value_discard_lws", "s_header_value"},
         r.state \in {"s_header_field_start", "s_header_almost_done"},
         r.state = "s_header_almost_done" =>
           r.header_state \notin {"h_connection", "h_transfer_encoding"},
         r.marks = {"header_value"}, r.calls = p.calls, Trailing(r) = Trailing(p),
         r.nread = p.nread, r.errno = "HPE_OK"
  PROVE  LET q == P!CallBack(r, "header_value")
         IN /\ Good(b, q)
            /\ q.state = r.state
            /\ q.errno = "HPE_OK"
            /\ r.state = "s_header_field_start" => AtLineStart(b, q)
<1> DEFINE q == P!CallBack(r, "header_value")
<1>1. InTurn(b, r) /\ Said(b, r) = Said(b, p) BY Silent DEF Good
<1>2. Said(b, p) \in {"header_field", "header_value"} BY HeardIs DEF Good, Discards
<1>3. Allowed(b, r, "header_value") BY <1>1, <1>2 DEF Allowed, P!After
<1>4. "header_value" \in Heard(r.state, Trailing(r)) BY HeardIs
<1>5. DataRight(r)
  BY DEF Good, DataRight, RequestLine, P!OpenUrl, P!UrlStates, ChunkStates
<1>6. P!Resumed(r) = {} /\ "header_value" \in P!Texts
  BY DEF P!Resumed, P!OpenUrl, P!UrlStates, P!Texts
<1>7. b \in Kinds \cup {"none"} BY DEF Good
<1>8. Good(b, q) /\ q.state = r.state /\ q.errno = "HPE_OK" /\ Said(b, q) = "header_value"
  BY <1>1, <1>3, <1>4, <1>5, <1>6, <1>7, HandOver
<1> HIDE DEF q
<1>9. ASSUME r.state = "s_header_field_start" PROVE AtLineStart(b, q)
  <2>1. q.marks = {} BY <1>8, <1>9 DEF Good, MarksRight, P!Resumed, P!OpenUrl, P!UrlStates
  <2>2. q.nread <= HTTP_MAX_HEADER_SIZE BY <1>8 DEF Good, DataRight
  <2>3. QED BY <1>8, <2>1, <2>2 DEF Good, AtLineStart
<1>10. QED BY <1>8, <1>9 DEF q

(* A value that was white space only: it is handed over empty. *)
LEMMA HeaderValueDiscardLwsIsGood ==
  ASSUME P!SizesAssumption, NEW b, NEW p, NEW ch \in Chars, Good(b, p), p.errno = "HPE_OK",
         p.state = "s_header_value_discard_lws"
  PROVE  Good(b, P!HeaderValueDiscardLws(p, ch)) /\ Unstarted(P!HeaderValueDiscardLws(p, ch))
<1> DEFINE f == P!Flag(p, P!Meaning(p.header_state))
           q == P!Mark(f, "header_value")
           r == P!Go(q, "s_header_field_start")
<1>1. CASE ch = P!SP
  <2>1. Good(b, P!Go(p, "s_header_value_discard_ws")) /\ Unstarted(P!Go(p, "s_header_value_discard_ws"))
    BY StillDiscarding DEF Discards
  <2>2. QED BY <1>1, <2>1 DEF P!HeaderValueDiscardLws
<1>2. CASE ch # P!SP
  <2>1. p \in Parsers /\ p.marks = {} BY DEF Good, MarksRight, P!Resumed, P!OpenUrl, P!UrlStates
  <2>2. P!Meaning(p.header_state) \in SUBSET (P!Flags \ {"F_TRAILING"}) BY MeaningIsNoTrailer
  <2>3. /\ f \in Parsers /\ f.state = p.state /\ f.marks = {} /\ f.calls = p.calls
        /\ f.nread = p.nread /\ f.errno = "HPE_OK" /\ Trailing(f) = Trailing(p)
    BY <2>1, <2>2, FlagIs
  <2> HIDE DEF f
  <2>4. q = [f EXCEPT !.marks = {"header_value"}, !.text = <<>>] BY <2>3 DEF P!Mark
  <2>5. {"header_value"} \subseteq P!Texts /\ <<>> \in Seq(Letters) /\ "s_header_field_start" \in P!States
    BY DEF P!Texts, P!States
  <2> HIDE DEF q
  <2>6. /\ q \in Parsers /\ q.marks = {"header_value"} /\ q.calls = p.calls /\ q.nread = p.nread
        /\ q.errno = "HPE_OK" /\ q.flags = f.flags
    BY <2>3, <2>4, <2>5 DEF Parsers
  <2>7. Trailing(q) = Trailing(p) BY <2>3, <2>6 DEF Trailing
  <2>8. /\ r \in Parsers /\ r.state = "s_header_field_start" /\ r.marks = {"header_value"}
        /\ r.calls = p.calls /\ Trailing(r) = Trailing(p) /\ r.nread = p.nread /\ r.errno = "HPE_OK"
    BY <2>5, <2>6, <2>7, GoIs
  <2> HIDE DEF r
  <2>9. /\ AtLineStart(b, P!CallBack(r, "header_value"))
        /\ P!CallBack(r, "header_value").state = "s_header_field_start"
    BY <2>8, ValueHandedOver
  <2>10. P!HeaderValueDiscardLws(p, ch) = P!HeaderFieldStart(P!CallBack(r, "header_value"), ch)
    BY <1>2 DEF P!HeaderValueDiscardLws, r, q, f
  <2>11. QED BY <2>9, <2>10, HeaderFieldStartIsGood
<1>3. QED BY <1>1, <1>2

(* After the end of a value's line *)
LEMMA HeaderAlmostDoneIsGood ==
  ASSUME NEW b, NEW p, NEW ch, Good(b, p), p.errno = "HPE_OK", p.state = "s_header_almost_done"
  PROVE  Good(b, P!HeaderAlmostDone(p, ch)) /\ Unstarted(P!HeaderAlmostDone(p, ch))
<1> DEFINE q == P!Go(p, "s_header_value_lws")
<1>1. p \in Parsers /\ "s_header_value_lws" \in P!States BY DEF Good, P!States
<1>2. /\ q \in Parsers /\ q.state = "s_header_value_lws" /\ q.calls = p.calls /\ q.marks = p.marks
      /\ q.errno = "HPE_OK" /\ q.nread = p.nread /\ Trailing(q) = Trailing(p)
      /\ q.header_state = p.header_state
  BY <1>1, GoIs
<1> HIDE DEF q
<1>3. MarksRight(q) BY <1>2 DEF Good, MarksRight, P!Resumed, P!OpenUrl, P!UrlStates
<1>4. DataRight(q) BY <1>2 DEF Good, DataRight, RequestLine, P!OpenUrl, P!UrlStates, ChunkStates
<1>5. Said(b, p) \in Heard(q.state, Trailing(p)) BY <1>2, HeardIs DEF Good
<1>6. Good(b, q) /\ Unstarted(q) BY <1>2, <1>3, <1>4, <1>5, Silently DEF Unstarted
<1>7. Good(b, P!Fail(p, "HPE_LF_EXPECTED")) /\ Unstarted(P!Fail(p, "HPE_LF_EXPECTED"))
  BY FailIsGood DEF Good, Errors
<1>8. QED BY <1>6, <1>7 DEF P!HeaderAlmostDone, q

(* A line that goes on, or a header that is complete: now its value counts. *)
LEMMA HeaderValueLwsIsGood ==
  ASSUME P!SizesAssumption, NEW b, NEW p, NEW ch \in Chars, Good(b, p), p.errno = "HPE_OK",
         p.state = "s_header_value_lws"
  PROVE  Good(b, P!HeaderValueLws(p, ch)) /\ Unstarted(P!HeaderValueLws(p, ch))
<1> DEFINE f == P!Flag(p, P!Meaning(p.header_state))
           r == P!Go(f, "s_header_field_start")
<1>1. CASE ch = P!SP BY <1>1, HeaderValueStartIsGood DEF P!HeaderValueLws
<1>2. CASE ch # P!SP
  <2>1. p \in Parsers /\ p.marks = {} BY DEF Good, MarksRight, P!Resumed, P!OpenUrl, P!UrlStates
  <2>2. P!Meaning(p.header_state) \in SUBSET (P!Flags \ {"F_TRAILING"}) BY MeaningIsNoTrailer
  <2>3. /\ f \in Parsers /\ f.marks = {} /\ f.calls = p.calls
        /\ f.nread = p.nread /\ f.errno = "HPE_OK" /\ Trailing(f) = Trailing(p)
    BY <2>1, <2>2, FlagIs
  <2> HIDE DEF f
  <2>4. "s_header_field_start" \in P!States BY DEF P!States
  <2>5. /\ r \in Parsers /\ r.state = "s_header_field_start" /\ r.marks = {}
        /\ r.calls = p.calls /\ Trailing(r) = Trailing(p) /\ r.nread = p.nread /\ r.errno = "HPE_OK"
    BY <2>3, <2>4, GoIs
  <2> HIDE DEF r
  <2>6. InTurn(b, r) /\ Said(b, r) = Said(b, p) BY <2>5, Silent DEF Good
  <2>7. Said(b, p) = "header_value" BY HeardIs DEF Good
  <2>8. r.nread <= HTTP_MAX_HEADER_SIZE /\ b \in Kinds \cup {"none"} BY <2>5 DEF Good, DataRight
  <2>9. AtLineStart(b, r) BY <2>5, <2>6, <2>7, <2>8 DEF AtLineStart
  <2>10. P!HeaderValueLws(p, ch) = P!HeaderFieldStart(r, ch) BY <1>2 DEF P!HeaderValueLws, r, f
  <2>11. QED BY <2>5, <2>9, <2>10, HeaderFieldStartIsGood
<1>3. QED BY <1>1, <1>2

(* A character inside a value *)
LEMMA ValueCharIsGood ==
  ASSUME P!SizesAssumption, NEW b, NEW p, NEW ch, Good(b, p), p.errno = "HPE_OK",
         p.state = "s_header_value"
  PROVE  Good(b, P!ValueChar(p, ch)) /\ Unstarted(P!ValueChar(p, ch))
<1> DEFINE B(h) == [p EXCEPT !.header_state = h]
           Meant == HeaderStates \ {"h_connection", "h_transfer_encoding"}
           Kept == {"h_connection_keep_alive", "h_connection_close", "h_connection_upgrade"}
<1>1. p \in Parsers /\ p.marks = {"header_value"} /\ p.header_state \in Meant
  BY DEF Good, MarksRight, P!Resumed, P!OpenUrl, P!UrlStates, DataRight, Parsers
<1>2. ASSUME NEW h \in Meant
      PROVE  /\ B(h) \in Parsers /\ B(h).state = "s_header_value" /\ B(h).marks = {"header_value"}
             /\ B(h).calls = p.calls /\ Trailing(B(h)) = Trailing(p) /\ B(h).nread = p.nread
             /\ B(h).errno = "HPE_OK" /\ B(h).header_state = h
  BY <1>1, <1>2 DEF Parsers, Trailing
<1>3. ASSUME NEW h \in Meant PROVE Good(b, B(h)) /\ Unstarted(B(h))
  BY <1>2, InValue
<1>4. /\ {"h_general", "h_content_length_ws", "h_matching_connection_token",
          "h_matching_connection_token_start"} \subseteq Meant
      /\ P!ConnectionToken(ch) \in Meant
  BY NamesAreKnown DEF HeaderStates
<1>5. Good(b, p) /\ Unstarted(p) BY DEF Unstarted
<1>6. Good(b, P!Fail(p, "HPE_INVALID_CONTENT_LENGTH")) /\ Unstarted(P!Fail(p, "HPE_INVALID_CONTENT_LENGTH"))
  BY FailIsGood DEF Good, Errors
<1>7. CASE p.header_state = "h_content_length_num"
  <2>1. CASE ch = P!SP
    <3>1. P!ValueChar(p, ch) = B("h_content_length_ws") 
      BY <1>7, <2>1, NoNumerals DEF P!ValueChar
    <3>2. QED BY <3>1, <1>3, <1>4
  <2>2. CASE ch # P!SP /\ P!IsNumeral(ch, 10)
    <3> DEFINE v == (10 * p.content_length + P!Unhex(ch, 10)) % (ULLONG_MAX + 1)
               r == [p EXCEPT !.content_length = v]
    <3>1. P!ValueChar(p, ch) = P!Digit(p, ch, 10) BY <1>7, <2>2 DEF P!ValueChar
    <3>2. CASE P!TooLong(p.content_length, 10) BY <1>6, <3>1, <3>2 DEF P!Digit
    <3>3. CASE ~P!TooLong(p.content_length, 10)
      <4>1. p.content_length \in 0 .. ULLONG_MAX BY <1>1 DEF Parsers
      <4>2. v \in 0 .. ULLONG_MAX BY <2>2, <3>3, <4>1, DigitsAreExact DEF P!SizesAssumption
      <4>3. P!Digit(p, ch, 10) = r BY <3>3 DEF P!Digit
      <4> HIDE DEF v
      <4>4. /\ r \in Parsers /\ r.state = "s_header_value" /\ r.marks = {"header_value"}
            /\ r.calls = p.calls /\ r.flags = p.flags /\ r.nread = p.nread
            /\ r.errno = "HPE_OK" /\ r.header_state = "h_content_length_num"
        BY <1>1, <1>7, <4>2 DEF Parsers
      <4> HIDE DEF r
      <4>5. Trailing(r) = Trailing(p) BY <4>4 DEF Trailing
      <4>6. Good(b, r) /\ Unstarted(r) BY <4>4, <4>5, InValue
      <4>7. QED BY <3>1, <4>3, <4>6
    <3>4. QED BY <3>2, <3>3
  <2>3. CASE ch # P!SP /\ ~P!IsNumeral(ch, 10) BY <1>6, <1>7, <2>3 DEF P!ValueChar
  <2>4. QED BY <2>1, <2>2, <2>3
<1>8. CASE p.header_state = "h_content_length_ws"
  BY <1>5, <1>6, <1>8 DEF P!ValueChar
<1>9. CASE p.header_state = "h_matching_connection_token_start"
  <2>1. P!ValueChar(p, ch) \in {p, B(P!ConnectionToken(ch)), B("h_general")}
    BY <1>9 DEF P!ValueChar
  <2>2. QED BY <2>1, <1>3, <1>4, <1>5
<1>10. CASE p.header_state = "h_matching_connection_token"
  <2>1. P!ValueChar(p, ch) \in {p, B("h_matching_connection_token_start")}
    BY <1>10 DEF P!ValueChar
  <2>2. QED BY <2>1, <1>3, <1>4, <1>5
<1>11. CASE p.header_state = "h_transfer_encoding_chunked"
  <2>1. P!ValueChar(p, ch) \in {p, B("h_general")} BY <1>11 DEF P!ValueChar
  <2>2. QED BY <2>1, <1>3, <1>4, <1>5
<1>12. CASE p.header_state \in Kept
  <2> DEFINE l == B("h_matching_connection_token_start")
             r == P!Flag(l, P!Meaning(p.header_state))
  <2>1. P!ValueChar(p, ch) \in {p, r, B("h_matching_connection_token")}
    BY <1>12 DEF P!ValueChar
  <2>2. /\ l \in Parsers /\ l.state = "s_header_value" /\ l.marks = {"header_value"}
        /\ l.calls = p.calls /\ Trailing(l) = Trailing(p) /\ l.nread = p.nread
        /\ l.errno = "HPE_OK" /\ l.header_state = "h_matching_connection_token_start"
    BY <1>2, <1>4
  <2> HIDE DEF l
  <2>3. P!Meaning(p.header_state) \in SUBSET (P!Flags \ {"F_TRAILING"}) BY MeaningIsNoTrailer
  <2>4. /\ r \in Parsers /\ r.state = "s_header_value" /\ r.marks = {"header_value"}
        /\ r.calls = p.calls /\ Trailing(r) = Trailing(p) /\ r.nread = p.nread
        /\ r.errno = "HPE_OK" /\ r.header_state = "h_matching_connection_token_start"
    BY <2>2, <2>3, FlagIs
  <2> HIDE DEF r
  <2>5. Good(b, r) /\ Unstarted(r) BY <2>4, InValue
  <2>6. QED BY <2>1, <2>5, <1>3, <1>4, <1>5
<1>13. CASE p.header_state \in {"h_general", "h_content_length", "h_upgrade"}
  <2>1. P!ValueChar(p, ch) \in {p, B("h_general")} BY <1>13 DEF P!ValueChar
  <2>2. QED BY <2>1, <1>3, <1>4, <1>5
<1>14. QED BY <1>1, <1>7, <1>8, <1>9, <1>10, <1>11, <1>12, <1>13 DEF HeaderStates

(* A character of a value, or its end *)
LEMMA HeaderValueIsGood ==
  ASSUME P!SizesAssumption, NEW b, NEW p, NEW ch \in Chars, Good(b, p), p.errno = "HPE_OK",
         p.state = "s_header_value"
  PROVE  Good(b, P!HeaderValue(p, ch)) /\ Unstarted(P!HeaderValue(p, ch))
<1> DEFINE r == P!Go(p, "s_header_almost_done")
           q == P!CallBack(r, "header_value")
<1>1. /\ p \in Parsers /\ p.marks = {"header_value"} /\ "s_header_almost_done" \in P!States
      /\ p.header_state \notin {"h_connection", "h_transfer_encoding"}
  BY DEF Good, MarksRight, P!Resumed, P!OpenUrl, P!UrlStates, DataRight, P!States
<1>2. /\ r \in Parsers /\ r.state = "s_header_almost_done" /\ r.marks = {"header_value"}
      /\ r.calls = p.calls /\ Trailing(r) = Trailing(p) /\ r.nread = p.nread /\ r.errno = "HPE_OK"
      /\ r.header_state = p.header_state
  BY <1>1, GoIs
<1> HIDE DEF r
<1>3. Good(b, q) /\ q.state = "s_header_almost_done" /\ q.errno = "HPE_OK"
  BY <1>1, <1>2, ValueHandedOver
<1> HIDE DEF q
<1>4. CASE ch = P!CR
  <2>1. P!HeaderValue(p, ch) = q BY <1>4 DEF P!HeaderValue, P!CR, P!LF, q, r
  <2>2. QED BY <1>3, <2>1 DEF Unstarted
<1>5. CASE ch = P!LF
  <2>1. P!HeaderValue(p, ch) = P!HeaderAlmostDone(q, ch) BY <1>5 DEF P!HeaderValue, P!CR, P!LF, q, r
  <2>2. QED BY <1>3, <2>1, HeaderAlmostDoneIsGood
<1>6. CASE ch \notin {P!CR, P!LF} BY <1>6, ValueCharIsGood DEF P!HeaderValue
<1>7. QED BY <1>4, <1>5, <1>6

(* The two states a line of the headers begins in. *)
LEMMA LineStarts ==
  ASSUME NEW b, NEW p, Good(b, p), p.errno = "HPE_OK",
         p.state \in {"s_header_field_start", "s_headers_almost_done"}
  PROVE  AtLineStart(b, p)
<1>1. p.marks = {} BY DEF Good, MarksRight, P!Resumed, P!OpenUrl, P!UrlStates
<1>2. Said(b, p) \in {"header_value"} \cup Opening(Trailing(p)) BY HeardIs DEF Good
<1>3. p.nread <= HTTP_MAX_HEADER_SIZE BY DEF Good, DataRight
<1>4. QED BY <1>1, <1>2, <1>3 DEF Good, AtLineStart
-----------------------------------------------------------------------------
(* Bodies *)

(* Within a body nothing is said between the texts. *)
LEMMA BodyGoesOn ==
  ASSUME NEW b, NEW p, NEW r \in Parsers, Good(b, p), p.errno = "HPE_OK",
         p.state \in ChunkStates \cup {"s_body_identity"},
         r.state \in ChunkStates \cup {"s_body_identity"},
         r.calls = p.calls, Trailing(r) = Trailing(p), r.errno = "HPE_OK",
         MarksRight(r), DataRight(r)
  PROVE  Good(b, r)
<1>1. Said(b, p) \in {"headers_complete", "body"} BY HeardIs DEF Good
<1>2. Said(b, p) \in Heard(r.state, Trailing(p)) BY <1>1, HeardIs
<1>3. QED BY <1>2, Silently

(* One character less to come. *)
LEMMA BodyChar ==
  ASSUME P!SizesAssumption, NEW p \in Parsers, p.marks \subseteq {"body"}, p.content_length # 0
  PROVE  LET q == [P!Mark(p, "body") EXCEPT !.content_length = @ - 1]
         IN /\ q \in Parsers /\ q.state = p.state /\ q.flags = p.flags /\ q.errno = p.errno
            /\ q.nread = p.nread /\ q.calls = p.calls /\ q.marks = {"body"}
            /\ q.content_length = p.content_length - 1
            /\ Trailing(q) = Trailing(p)
<1> DEFINE m == P!Mark(p, "body")
           q == [m EXCEPT !.content_length = @ - 1]
<1>1. m = IF "body" \in p.marks THEN p ELSE [p EXCEPT !.marks = {"body"}, !.text = <<>>]
  BY DEF P!Mark
<1>2. {"body"} \subseteq P!Texts /\ <<>> \in Seq(Letters) BY DEF P!Texts
<1> HIDE DEF m
<1>3. /\ m \in Parsers /\ m.state = p.state /\ m.flags = p.flags /\ m.errno = p.errno
      /\ m.nread = p.nread /\ m.calls = p.calls /\ m.content_length = p.content_length
  <2>1. CASE "body" \in p.marks BY <1>1, <2>1
  <2>2. CASE "body" \notin p.marks BY <1>1, <1>2, <2>2 DEF Parsers
  <2>3. QED BY <2>1, <2>2
<1>4. m.marks = {"body"}
  <2>1. CASE "body" \in p.marks BY <1>1, <2>1
  <2>2. CASE "body" \notin p.marks BY <1>1, <2>2 DEF Parsers
  <2>3. QED BY <2>1, <2>2
<1>5. m.content_length - 1 \in 0 .. ULLONG_MAX
  <2>1. p.content_length \in 0 .. ULLONG_MAX BY DEF Parsers
  <2>2. QED BY <1>3, <2>1 DEF P!SizesAssumption
<1>6. /\ q \in Parsers /\ q.state = p.state /\ q.flags = p.flags /\ q.errno = p.errno
      /\ q.nread = p.nread /\ q.calls = p.calls /\ q.marks = {"body"}
      /\ q.content_length = p.content_length - 1
  BY <1>3, <1>4, <1>5 DEF Parsers
<1>7. QED BY <1>6 DEF Trailing, m

(* A body of a known length, up to its last character *)
LEMMA BodyIdentityIsGood ==
  ASSUME P!SizesAssumption, NEW b, NEW p, NEW ch \in Chars, Good(b, p), p.errno = "HPE_OK",
         p.state = "s_body_identity"
  PROVE  Good(b, P!BodyIdentity(p, ch)) /\ Unstarted(P!BodyIdentity(p, ch))
<1> DEFINE q == [P!Mark(p, "body") EXCEPT !.content_length = @ - 1]
           r == [q EXCEPT !.text = Append(@, ch)]
           c == P!CallBack(r, "body")
<1>1. p \in Parsers /\ p.marks \subseteq {"body"} /\ P!HasLength(p)
  BY DEF Good, MarksRight, DataRight
<1>2. p.content_length \in 1 .. ULLONG_MAX - 1
  <2>1. p.content_length \in 0 .. ULLONG_MAX BY <1>1 DEF Parsers
  <2>2. QED BY <1>1, <2>1 DEF P!HasLength, P!SizesAssumption
<1>3. /\ q \in Parsers /\ q.state = p.state /\ q.flags = p.flags /\ q.errno = "HPE_OK"
      /\ q.nread = p.nread /\ q.calls = p.calls /\ q.marks = {"body"}
      /\ q.content_length = p.content_length - 1 /\ Trailing(q) = Trailing(p)
  BY <1>1, <1>2, BodyChar
<1> HIDE DEF q
<1>4. CASE p.content_length > 1
  <2>1. MarksRight(q) BY <1>3 DEF MarksRight
  <2>2. DataRight(q)
    BY <1>2, <1>3, <1>4 DEF Good, DataRight, P!HasLength, RequestLine, P!OpenUrl, P!UrlStates,
                            ChunkStates, P!SizesAssumption
  <2>3. Good(b, q) BY <1>3, <2>1, <2>2, BodyGoesOn
  <2>4. P!BodyIdentity(p, ch) = q BY <1>1, <1>4 DEF P!BodyIdentity, P!Demand, q
  <2>5. QED BY <1>3, <2>3, <2>4 DEF Unstarted
<1>5. CASE ~(p.content_length > 1)
  <2>1. ch \in Letters /\ q.text \in Seq(Letters) BY <1>3 DEF Letters, Parsers
  <2>2. Append(q.text, ch) \in Seq(Letters) BY <2>1
  <2>3. /\ r \in Parsers /\ r.flags = q.flags /\ r.errno = "HPE_OK"
        /\ r.nread = p.nread /\ r.calls = p.calls /\ r.marks = {"body"}
    BY <1>3, <2>2 DEF Parsers
  <2> HIDE DEF r
  <2>4. Trailing(r) = Trailing(p) BY <1>3, <2>3 DEF Trailing
  <2>5. InTurn(b, r) /\ Said(b, r) = Said(b, p) BY <2>3, <2>4, Silent DEF Good
  <2>6. Said(b, p) \in {"headers_complete", "body"} BY HeardIs DEF Good
  <2>7. Allowed(b, r, "body") BY <2>5, <2>6 DEF Allowed, P!After
  <2>8. "body" \in P!Texts /\ One(r.marks) /\ "body" \in r.marks BY <2>3 DEF P!Texts, One
  <2>9. /\ c \in Parsers /\ c.errno = "HPE_OK" /\ c.marks = {} /\ c.nread = p.nread
    BY <2>3, <2>8, CallBackIs
  <2>10. InTurn(b, c) /\ Said(b, c) = "body"
    <3>1. r \in Parsers BY <2>3
    <3>2. InTurn(b, r) BY <2>5
    <3>3. QED BY <3>1, <3>2, <2>7, <2>8, CallBackSpeaks
  <2> HIDE DEF c
  <2>11. Allowed(b, c, "message_complete") BY <2>10 DEF Allowed, P!After
  <2>12. c.nread <= HTTP_MAX_HEADER_SIZE /\ b \in Kinds \cup {"none"} BY <2>9 DEF Good, DataRight
  <2>13. Good(b, P!MessageDone(c)) /\ Unstarted(P!MessageDone(c))
    BY <2>9, <2>10, <2>11, <2>12, NewMessageIsGood
  <2>14. P!BodyIdentity(p, ch) = P!MessageDone(c)
    BY <1>1, <1>5 DEF P!BodyIdentity, P!Demand, c, r, q
  <2>15. QED BY <2>13, <2>14
<1>6. QED BY <1>4, <1>5
(* Each state of a chunk, once it has been left for another. *)
LEMMA ChunkStep ==
  ASSUME NEW b, NEW p, NEW s, Good(b, p), p.errno = "HPE_OK", p.state \in ChunkStates,
         p.marks = {}, NEW q \in Parsers, q.calls = p.calls, q.flags = p.flags, q.errno = "HPE_OK",
         q.marks = {}, q.nread <= HTTP_MAX_HEADER_SIZE,
         q.state = s, s \in ChunkStates \ {"s_chunk_data_almost_done"},
         s \in {"s_chunk_size", "s_chunk_parameters", "s_chunk_size_almost_done"} =>
           q.content_length < ULLONG_MAX,
         s = "s_chunk_data" => P!HasLength(q),
         s = "s_chunk_size_start" => q.nread = 0
  PROVE  Good(b, q) /\ Unstarted(q)
<1>1. Trailing(q) = Trailing(p) BY DEF Trailing
<1>2. MarksRight(q) BY DEF MarksRight, P!Resumed, P!OpenUrl, P!UrlStates, ChunkStates
<1>3. DataRight(q)
  BY DEF Good, DataRight, P!IsChunked, RequestLine, P!OpenUrl, P!UrlStates, ChunkStates
<1>4. Good(b, q) BY <1>1, <1>2, <1>3, BodyGoesOn
<1>5. QED BY <1>4 DEF Unstarted

(* The asserts of the chunk states hold: F_CHUNKED is set in each of them. *)
LEMMA AbortsNot ==
  ASSUME NEW b, NEW p, NEW errno \in Errors, Good(b, p)
  PROVE  Good(b, P!Fail(p, errno)) /\ Unstarted(P!Fail(p, errno))
BY FailIsGood DEF Good

(* The first digit of a chunk's size *)
LEMMA ChunkSizeStartIsGood ==
  ASSUME P!SizesAssumption, NEW b, NEW p, NEW ch \in Chars, Good(b, p), p.errno = "HPE_OK",
         p.state = "s_chunk_size_start", p.nread = 1
  PROVE  Good(b, P!ChunkSizeStart(p, ch)) /\ Unstarted(P!ChunkSizeStart(p, ch))
<1>1. p \in Parsers /\ P!IsChunked(p) /\ p.marks = {} /\ p.nread <= HTTP_MAX_HEADER_SIZE
  BY DEF Good, DataRight, ChunkStates, MarksRight, P!Resumed, P!OpenUrl, P!UrlStates
<1>2. CASE P!IsNumeral(ch, 16)
  <2> DEFINE l == [p EXCEPT !.content_length = P!Unhex(ch, 16)]
             q == P!Go(l, "s_chunk_size")
  <2>1. P!Unhex(ch, 16) \in 0 .. 15 BY <1>2, NumeralsAreTheirValues
  <2>2. P!Unhex(ch, 16) \in 0 .. ULLONG_MAX /\ P!Unhex(ch, 16) < ULLONG_MAX
    BY <2>1 DEF P!SizesAssumption
  <2>3. /\ l \in Parsers /\ l.calls = p.calls /\ l.flags = p.flags /\ l.errno = "HPE_OK"
        /\ l.marks = {} /\ l.nread = p.nread /\ l.content_length < ULLONG_MAX
    BY <1>1, <2>2 DEF Parsers
  <2> HIDE DEF l
  <2>4. "s_chunk_size" \in P!States /\ p.state \in ChunkStates
        /\ "s_chunk_size" \in ChunkStates \ {"s_chunk_data_almost_done"}
          BY DEF P!States, ChunkStates
  <2>5. /\ q \in Parsers /\ q.state = "s_chunk_size" /\ q.calls = p.calls /\ q.flags = p.flags
        /\ q.errno = "HPE_OK" /\ q.marks = {} /\ q.nread = p.nread /\ q.content_length < ULLONG_MAX
    BY <2>3, <2>4, GoIs
  <2> HIDE DEF q
  <2>6. Good(b, q) /\ Unstarted(q) BY <1>1, <2>4, <2>5, ChunkStep
  <2>7. QED BY <1>1, <1>2, <2>6 DEF P!ChunkSizeStart, P!Demand, q, l
<1>3. CASE ~P!IsNumeral(ch, 16)
  BY <1>1, <1>3, AbortsNot DEF P!ChunkSizeStart, P!Demand, Errors
<1>4. QED BY <1>2, <1>3

(* The states up to the end of the line a chunk's size is on. *)
LEMMA SizeLineGoesOn ==
  ASSUME NEW b, NEW p, Good(b, p), p.errno = "HPE_OK",
         p.state \in {"s_chunk_size", "s_chunk_parameters"},
         NEW s \in {"s_chunk_parameters", "s_chunk_size_almost_done"}
  PROVE  Good(b, P!Go(p, s)) /\ Unstarted(P!Go(p, s))
<1> DEFINE q == P!Go(p, s)
<1>1. /\ p \in Parsers /\ p.marks = {} /\ p.nread <= HTTP_MAX_HEADER_SIZE
      /\ p.content_length < ULLONG_MAX /\ p.state \in ChunkStates
  BY DEF Good, DataRight, ChunkStates, MarksRight, P!Resumed, P!OpenUrl, P!UrlStates
<1>2. s \in P!States /\ s \in ChunkStates \ {"s_chunk_data_almost_done"}
  BY DEF P!States, ChunkStates
<1>3. /\ q \in Parsers /\ q.state = s /\ q.calls = p.calls /\ q.flags = p.flags
      /\ q.errno = "HPE_OK" /\ q.marks = {} /\ q.nread = p.nread /\ q.content_length < ULLONG_MAX
  BY <1>1, <1>2, GoIs
<1> HIDE DEF q
<1>4. Good(b, q) /\ Unstarted(q) BY <1>1, <1>2, <1>3, ChunkStep
<1>5. QED BY <1>4 DEF q

(* A digit more, or the end of the number *)
LEMMA ChunkSizeIsGood ==
  ASSUME P!SizesAssumption, NEW b, NEW p, NEW ch \in Chars, Good(b, p), p.errno = "HPE_OK",
         p.state = "s_chunk_size"
  PROVE  Good(b, P!ChunkSize(p, ch)) /\ Unstarted(P!ChunkSize(p, ch))
<1>1. /\ p \in Parsers /\ P!IsChunked(p) /\ p.marks = {} /\ p.nread <= HTTP_MAX_HEADER_SIZE
      /\ p.state \in ChunkStates
  BY DEF Good, DataRight, ChunkStates, MarksRight, P!Resumed, P!OpenUrl, P!UrlStates
<1>2. \A s \in {"s_chunk_parameters", "s_chunk_size_almost_done"} :
        Good(b, P!Go(p, s)) /\ Unstarted(P!Go(p, s))
  BY SizeLineGoesOn
<1>3. \A e \in Errors : Good(b, P!Fail(p, e)) /\ Unstarted(P!Fail(p, e)) BY AbortsNot
<1>4. CASE ch = P!CR
  <2>1. P!ChunkSize(p, ch) = P!Go(p, "s_chunk_size_almost_done")
    BY <1>1, <1>4, NoNumerals DEF P!ChunkSize, P!Demand, P!CR, P!SP
  <2>2. QED BY <2>1, <1>2
<1>5. CASE ch \in {";", P!SP}
  <2>1. P!ChunkSize(p, ch) = P!Go(p, "s_chunk_parameters")
    BY <1>1, <1>5, NoNumerals DEF P!ChunkSize, P!Demand, P!CR, P!SP
  <2>2. QED BY <2>1, <1>2
<1>6. CASE ch \notin {P!CR, ";", P!SP} /\ P!IsNumeral(ch, 16)
  <2> DEFINE v == (16 * p.content_length + P!Unhex(ch, 16)) % (ULLONG_MAX + 1)
             q == [p EXCEPT !.content_length = v]
  <2>1. P!ChunkSize(p, ch) = P!Digit(p, ch, 16) BY <1>1, <1>6 DEF P!ChunkSize, P!Demand
  <2>2. CASE P!TooLong(p.content_length, 16)
    BY <1>3, <2>1, <2>2 DEF P!Digit, Errors
  <2>3. CASE ~P!TooLong(p.content_length, 16)
    <3>1. p.content_length \in 0 .. ULLONG_MAX BY <1>1 DEF Parsers
    <3>2. v \in 0 .. ULLONG_MAX - 1 BY <1>6, <2>3, <3>1, DigitsAreExact
    <3>3. P!Digit(p, ch, 16) = q BY <2>3 DEF P!Digit
    <3> HIDE DEF v
    <3>4. v \in 0 .. ULLONG_MAX /\ v < ULLONG_MAX BY <3>2 DEF P!SizesAssumption
    <3>5. /\ q \in Parsers /\ q.state = "s_chunk_size" /\ q.calls = p.calls /\ q.flags = p.flags
          /\ q.errno = "HPE_OK" /\ q.marks = {} /\ q.nread = p.nread /\ q.content_length < ULLONG_MAX
      BY <1>1, <3>4 DEF Parsers
    <3> HIDE DEF q
    <3>6. "s_chunk_size" \in ChunkStates \ {"s_chunk_data_almost_done"} BY DEF ChunkStates
    <3>7. Good(b, q) /\ Unstarted(q) BY <1>1, <3>5, <3>6, ChunkStep
    <3>8. QED BY <2>1, <3>3, <3>7
  <2>4. QED BY <2>2, <2>3
<1>7. CASE ch \notin {P!CR, ";", P!SP} /\ ~P!IsNumeral(ch, 16)
  <2>1. P!ChunkSize(p, ch) = P!Fail(p, "HPE_INVALID_CHUNK_SIZE")
    BY <1>1, <1>7 DEF P!ChunkSize, P!Demand
  <2>2. QED BY <1>3, <2>1 DEF Errors
<1>8. QED BY <1>4, <1>5, <1>6, <1>7

(* Parameters are skipped. *)
LEMMA ChunkParametersIsGood ==
  ASSUME NEW b, NEW p, NEW ch \in Chars, Good(b, p), p.errno = "HPE_OK",
         p.state = "s_chunk_parameters"
  PROVE  Good(b, P!ChunkParameters(p, ch)) /\ Unstarted(P!ChunkParameters(p, ch))
<1>1. P!IsChunked(p) BY DEF Good, DataRight, ChunkStates
<1>2. Good(b, P!Go(p, "s_chunk_size_almost_done")) /\ Unstarted(P!Go(p, "s_chunk_size_almost_done"))
  BY SizeLineGoesOn
<1>3. QED BY <1>1, <1>2 DEF P!ChunkParameters, P!Demand, Unstarted

(* A chunk of no characters begins the trailer, any other the data. *)
LEMMA ChunkSizeAlmostDoneIsGood ==
  ASSUME P!SizesAssumption, NEW b, NEW p, NEW ch \in Chars, Good(b, p), p.errno = "HPE_OK",
         p.state = "s_chunk_size_almost_done", p.calls = <<>>
  PROVE  Good(b, P!ChunkSizeAlmostDone(p, ch)) /\ Unstarted(P!ChunkSizeAlmostDone(p, ch))
<1> DEFINE q == [p EXCEPT !.nread = 0]
<1>1. /\ p \in Parsers /\ P!IsChunked(p) /\ p.marks = {} /\ p.nread <= HTTP_MAX_HEADER_SIZE
      /\ p.state \in ChunkStates /\ p.content_length < ULLONG_MAX
  BY DEF Good, DataRight, ChunkStates, MarksRight, P!Resumed, P!OpenUrl, P!UrlStates
<1>2. 0 \in 0 .. HTTP_MAX_HEADER_SIZE + 1 /\ 0 <= HTTP_MAX_HEADER_SIZE BY DEF P!SizesAssumption
<1>3. /\ q \in Parsers /\ q.calls = <<>> /\ q.flags = p.flags /\ q.errno = "HPE_OK" /\ q.marks = {}
      /\ q.nread = 0 /\ q.content_length = p.content_length
  BY <1>1, <1>2 DEF Parsers
<1> HIDE DEF q
<1>4. CASE ch # P!LF
  BY <1>1, <1>4, AbortsNot DEF P!ChunkSizeAlmostDone, P!Demand, P!Strict, Errors
<1>5. CASE ch = P!LF /\ p.content_length = 0
  <2> DEFINE f == P!Flag(q, {"F_TRAILING"})
             r == P!Go(f, "s_header_field_start")
  <2>1. f = [q EXCEPT !.flags = q.flags \cup {"F_TRAILING"}] BY DEF P!Flag
  <2>2. q.flags \cup {"F_TRAILING"} \subseteq P!Flags BY <1>3 DEF Parsers, P!Flags
  <2> HIDE DEF f
  <2>3. /\ f \in Parsers /\ f.calls = <<>> /\ f.errno = "HPE_OK" /\ f.marks = {} /\ f.nread = 0
        /\ f.flags = q.flags \cup {"F_TRAILING"}
    BY <1>3, <2>1, <2>2 DEF Parsers
  <2>4. Trailing(f) BY <2>3 DEF Trailing
  <2>5. "s_header_field_start" \in P!States BY DEF P!States
  <2>6. /\ r \in Parsers /\ r.state = "s_header_field_start" /\ r.calls = <<>> /\ r.errno = "HPE_OK"
        /\ r.marks = {} /\ r.nread = 0 /\ Trailing(r)
    BY <2>3, <2>4, <2>5, GoIs
  <2> HIDE DEF r
  <2>7. InTurn(b, r) /\ Said(b, r) = b BY <2>6, Quiet
  <2>8. Said(b, p) = b BY <1>1, Quiet
  <2>9. b \in {"headers_complete", "body"} BY <2>8, <1>1, HeardIs DEF Good
  <2>10. MarksRight(r) BY <2>6 DEF MarksRight, P!Resumed, P!OpenUrl, P!UrlStates
  <2>11. DataRight(r)
    BY <1>2, <2>6 DEF DataRight, RequestLine, P!OpenUrl, P!UrlStates, ChunkStates
  <2>12. Said(b, r) \in Heard(r.state, Trailing(r))
    <3>1. Opening(Trailing(r)) = {"headers_complete", "body"} BY <2>6 DEF Opening
    <3>2. Heard(r.state, Trailing(r)) = {"header_value"} \cup Opening(Trailing(r))
      BY <2>6, HeardIs
    <3>3. QED BY <2>7, <2>9, <3>1, <3>2
  <2>13. Good(b, r) BY <2>6, <2>7, <2>10, <2>11, <2>12, Assembled DEF Good
  <2>14. Unstarted(r) BY <2>6 DEF Unstarted
  <2>15. P!ChunkSizeAlmostDone(p, ch) = r
    BY <1>1, <1>5 DEF P!ChunkSizeAlmostDone, P!Demand, P!Strict, r, f, q
  <2>16. QED BY <2>13, <2>14, <2>15
<1>6. CASE ch = P!LF /\ p.content_length # 0
  <2> DEFINE r == P!Go(q, "s_chunk_data")
  <2>1. "s_chunk_data" \in P!States /\ "s_chunk_data" \in ChunkStates \ {"s_chunk_data_almost_done"}
    BY DEF P!States, ChunkStates, P!BodyStates
  <2>2. /\ r \in Parsers /\ r.state = "s_chunk_data" /\ r.calls = p.calls /\ r.flags = p.flags
        /\ r.errno = "HPE_OK" /\ r.marks = {} /\ r.nread = 0 /\ r.content_length = p.content_length
    BY <1>3, <2>1, GoIs
  <2> HIDE DEF r
  <2>3. P!HasLength(r)
    <3>1. p.content_length # ULLONG_MAX
      <4>1. p.content_length \in 0 .. ULLONG_MAX BY <1>1 DEF Parsers
      <4>2. QED BY <1>1, <4>1 DEF P!SizesAssumption
    <3>2. QED BY <2>2, <1>6, <3>1 DEF P!HasLength
  <2>4. Good(b, r) /\ Unstarted(r) BY <1>1, <1>2, <2>1, <2>2, <2>3, ChunkStep
  <2>5. P!ChunkSizeAlmostDone(p, ch) = r
    BY <1>1, <1>6 DEF P!ChunkSizeAlmostDone, P!Demand, P!Strict, r, q
  <2>6. QED BY <2>4, <2>5
<1>7. QED BY <1>4, <1>5, <1>6

(* The data of a chunk *)
LEMMA ChunkDataIsGood ==
  ASSUME P!SizesAssumption, NEW b, NEW p, NEW ch \in Chars, Good(b, p), p.errno = "HPE_OK",
         p.state = "s_chunk_data"
  PROVE  Good(b, P!ChunkData(p, ch)) /\ Unstarted(P!ChunkData(p, ch))
<1> DEFINE q == [P!Mark(p, "body") EXCEPT !.content_length = @ - 1]
           r == P!Go(q, "s_chunk_data_almost_done")
<1>1. p \in Parsers /\ p.marks \subseteq {"body"} /\ P!HasLength(p) /\ P!IsChunked(p)
  BY DEF Good, MarksRight, DataRight, ChunkStates
<1>2. p.content_length \in 1 .. ULLONG_MAX - 1
  <2>1. p.content_length \in 0 .. ULLONG_MAX BY <1>1 DEF Parsers
  <2>2. QED BY <1>1, <2>1 DEF P!HasLength, P!SizesAssumption
<1>3. /\ q \in Parsers /\ q.state = p.state /\ q.flags = p.flags /\ q.errno = "HPE_OK"
      /\ q.nread = p.nread /\ q.calls = p.calls /\ q.marks = {"body"}
      /\ q.content_length = p.content_length - 1 /\ Trailing(q) = Trailing(p)
  BY <1>1, <1>2, BodyChar
<1> HIDE DEF q
<1>4. p.nread <= HTTP_MAX_HEADER_SIZE BY DEF Good, DataRight
<1>5. p.state \in ChunkStates /\ "s_chunk_data_almost_done" \in ChunkStates
  BY DEF ChunkStates
<1>6. CASE p.content_length > 1
  <2>1. MarksRight(q) BY <1>3 DEF MarksRight
  <2>2. q.content_length \notin {0, ULLONG_MAX} BY <1>2, <1>3, <1>6 DEF P!SizesAssumption
  <2>3. DataRight(q)
    BY <1>1, <1>3, <1>4, <2>2 DEF DataRight, P!HasLength, P!IsChunked, RequestLine, P!OpenUrl,
         P!UrlStates
  <2>4. Good(b, q) BY <1>3, <1>5, <2>1, <2>3, BodyGoesOn
  <2>5. P!ChunkData(p, ch) = q BY <1>1, <1>6 DEF P!ChunkData, P!Demand, q
  <2>6. QED BY <1>3, <2>4, <2>5 DEF Unstarted
<1>7. CASE ~(p.content_length > 1)
  <2>1. "s_chunk_data_almost_done" \in P!States BY DEF P!States, P!BodyStates
  <2>2. /\ r \in Parsers /\ r.state = "s_chunk_data_almost_done" /\ r.flags = p.flags
        /\ r.errno = "HPE_OK" /\ r.nread = p.nread /\ r.calls = p.calls /\ r.marks = {"body"}
        /\ r.content_length = q.content_length /\ Trailing(r) = Trailing(p)
    BY <1>3, <2>1, GoIs
  <2> HIDE DEF r
  <2>3. r.content_length = 0 BY <1>2, <1>3, <1>7, <2>2 DEF P!SizesAssumption
  <2>4. MarksRight(r) BY <2>2 DEF MarksRight
  <2>5. DataRight(r)
    BY <1>1, <1>4, <2>2, <2>3 DEF DataRight, P!IsChunked, RequestLine, P!OpenUrl, P!UrlStates
  <2>6. Good(b, r) BY <1>5, <2>2, <2>4, <2>5, BodyGoesOn
  <2>7. P!ChunkData(p, ch) = r BY <1>1, <1>7 DEF P!ChunkData, P!Demand, r, q
  <2>8. QED BY <2>2, <2>6, <2>7 DEF Unstarted
<1>8. QED BY <1>6, <1>7

(* The two characters after the data *)
LEMMA ChunkDataAlmostDoneIsGood ==
  ASSUME NEW b, NEW p, NEW ch \in Chars, Good(b, p), p.errno = "HPE_OK",
         p.state = "s_chunk_data_almost_done"
  PROVE  Good(b, P!ChunkDataAlmostDone(p, ch)) /\ Unstarted(P!ChunkDataAlmostDone(p, ch))
<1> DEFINE r == P!Go(p, "s_chunk_data_done")
<1>1. /\ p \in Parsers /\ P!IsChunked(p) /\ p.marks \subseteq {"body"} /\ p.content_length = 0
      /\ p.nread <= HTTP_MAX_HEADER_SIZE /\ b \in Kinds \cup {"none"}
  BY DEF Good, DataRight, ChunkStates, MarksRight
<1>2. /\ p.state \in ChunkStates /\ "s_chunk_data_done" \in ChunkStates
      /\ "s_chunk_data_done" \in P!States /\ "body" \in P!Texts
  BY DEF ChunkStates, P!States, P!BodyStates, P!Texts
<1>3. /\ r \in Parsers /\ r.state = "s_chunk_data_done" /\ r.calls = p.calls /\ r.flags = p.flags
      /\ r.errno = "HPE_OK" /\ r.marks = p.marks /\ r.nread = p.nread
      /\ r.content_length = p.content_length /\ Trailing(r) = Trailing(p)
  BY <1>1, <1>2, GoIs
<1> HIDE DEF r
<1>4. P!Resumed(r) = {} BY <1>3 DEF P!Resumed, P!OpenUrl, P!UrlStates
<1>5. DataRight(r)
  BY <1>1, <1>3 DEF DataRight, P!IsChunked, RequestLine, P!OpenUrl, P!UrlStates
<1>6. Said(b, p) \in {"headers_complete", "body"} BY <1>2, HeardIs DEF Good
<1>7. Good(b, P!CallBack(r, "body")) /\ Unstarted(P!CallBack(r, "body"))
  <2>1. CASE p.marks = {}
    <3>1. P!CallBack(r, "body") = r BY <1>3, <2>1 DEF P!CallBack
    <3>2. MarksRight(r) BY <1>3, <1>4, <2>1 DEF MarksRight
    <3>3. Good(b, r) BY <1>2, <1>3, <1>5, <3>2, BodyGoesOn
    <3>4. QED BY <1>3, <3>1, <3>3 DEF Unstarted
  <2>2. CASE p.marks = {"body"}
    <3>1. InTurn(b, r) /\ Said(b, r) = Said(b, p) BY <1>3, Silent DEF Good
    <3>2. Allowed(b, r, "body") BY <1>6, <3>1 DEF Allowed, P!After
    <3>3. "body" \in Heard(r.state, Trailing(r))
      <4>1. r.state \in ChunkStates \cup {"s_body_identity"} BY <1>2, <1>3
      <4>2. Heard(r.state, Trailing(r)) = {"headers_complete", "body"} BY <4>1, HeardIs
      <4>3. QED BY <4>2
    <3>4. r.marks = {"body"} BY <1>3, <2>2
    <3>5. Good(b, P!CallBack(r, "body")) /\ P!CallBack(r, "body").state = r.state
      BY <1>1, <1>2, <1>3, <1>4, <1>5, <3>1, <3>2, <3>3, <3>4, HandOver
    <3>6. QED BY <1>3, <3>5 DEF Unstarted
  <2>3. QED BY <1>1, <2>1, <2>2
<1>8. Good(b, P!Fail(p, "HPE_STRICT")) /\ Unstarted(P!Fail(p, "HPE_STRICT"))
  BY AbortsNot DEF Errors
<1>9. QED BY <1>1, <1>7, <1>8 DEF P!ChunkDataAlmostDone, P!Demand, P!Strict, r

LEMMA ChunkDataDoneIsGood ==
  ASSUME P!SizesAssumption, NEW b, NEW p, NEW ch \in Chars, Good(b, p), p.errno = "HPE_OK",
         p.state = "s_chunk_data_done"
  PROVE  Good(b, P!ChunkDataDone(p, ch)) /\ Unstarted(P!ChunkDataDone(p, ch))
<1> DEFINE l == [p EXCEPT !.nread = 0]
           q == P!Go(l, "s_chunk_size_start")
<1>1. /\ p \in Parsers /\ P!IsChunked(p) /\ p.marks = {} /\ p.state \in ChunkStates
      /\ "s_chunk_size_start" \in P!States
      /\ "s_chunk_size_start" \in ChunkStates \ {"s_chunk_data_almost_done"}
  BY DEF Good, DataRight, ChunkStates, MarksRight, P!Resumed, P!OpenUrl, P!UrlStates, P!States
<1>2. 0 \in 0 .. HTTP_MAX_HEADER_SIZE + 1 /\ 0 <= HTTP_MAX_HEADER_SIZE BY DEF P!SizesAssumption
<1>3. /\ l \in Parsers /\ l.calls = p.calls /\ l.flags = p.flags /\ l.errno = "HPE_OK"
      /\ l.marks = {} /\ l.nread = 0
  BY <1>1, <1>2 DEF Parsers
<1> HIDE DEF l
<1>4. /\ q \in Parsers /\ q.state = "s_chunk_size_start" /\ q.calls = p.calls /\ q.flags = p.flags
      /\ q.errno = "HPE_OK" /\ q.marks = {} /\ q.nread = 0
  BY <1>1, <1>3, GoIs
<1> HIDE DEF q
<1>5. Good(b, q) /\ Unstarted(q) BY <1>1, <1>2, <1>4, ChunkStep
<1>6. Good(b, P!Fail(p, "HPE_STRICT")) /\ Unstarted(P!Fail(p, "HPE_STRICT"))
  BY AbortsNot DEF Errors
<1>7. QED BY <1>1, <1>5, <1>6 DEF P!ChunkDataDone, P!Demand, P!Strict, q, l
-----------------------------------------------------------------------------
(* The loop *)

(* Whatever the state, its case of the switch keeps to the grammar. *)
LEMMA ReactIsGood ==
  ASSUME P!SizesAssumption, NEW b, NEW p, NEW ch \in Chars, Good(b, p), p.errno = "HPE_OK",
         p.calls = <<>>, p.state = "s_chunk_size_start" => p.nread = 1
  PROVE  Good(b, P!React(p, ch)) /\ Unstarted(P!React(p, ch))
<1>1. CASE p.state = "s_dead"
  <2>1. P!React(p, ch) = P!Dead(p, ch) BY <1>1 DEF P!React, P!OpenUrl, P!UrlStates
  <2>2. QED BY <1>1, <2>1, DeadIsGood
<1>2. CASE p.state = "s_start_req"
  <2>1. P!React(p, ch) = P!StartReq(p, ch) BY <1>2 DEF P!React, P!OpenUrl, P!UrlStates
  <2>2. QED BY <1>2, <2>1, StartReqIsGood
<1>3. CASE p.state = "s_req_method"
  <2>1. P!React(p, ch) = P!ReqMethod(p, ch) BY <1>3 DEF P!React, P!OpenUrl, P!UrlStates
  <2>2. QED BY <1>3, <2>1, ReqMethodIsGood
<1>4. CASE p.state = "s_req_spaces_before_url"
  <2>1. P!React(p, ch) = P!SpacesBeforeUrl(p, ch) BY <1>4 DEF P!React, P!OpenUrl, P!UrlStates
  <2>2. QED BY <1>4, <2>1, SpacesBeforeUrlIsGood
<1>5. CASE p.state \in P!OpenUrl
  <2>1. P!React(p, ch) = P!UrlChar(p, ch) BY <1>5 DEF P!React, P!OpenUrl, P!UrlStates
  <2>2. QED BY <1>5, <2>1, OpenUrlIsGood
<1>6. CASE p.state \in P!UrlStates
  <2>1. P!React(p, ch) = P!Url(p, ch) BY <1>6 DEF P!React, P!OpenUrl, P!UrlStates
  <2>2. QED BY <1>6, <2>1, UrlIsGood
<1>7. CASE p.state = "s_req_http_start"
  <2>1. P!React(p, ch) = P!ReqHttpStart(p, ch) BY <1>7 DEF P!React, P!OpenUrl, P!UrlStates
  <2>2. QED BY <1>7, <2>1, ReqHttpStartIsGood
<1>8. CASE p.state = "s_req_http_end"
  <2>1. P!React(p, ch) = P!ReqHttpEnd(p, ch) BY <1>8 DEF P!React, P!OpenUrl, P!UrlStates
  <2>2. QED BY <1>8, <2>1, ReqHttpEndIsGood
<1>9. CASE p.state = "s_req_line_almost_done"
  <2>1. P!React(p, ch) = P!ReqLineAlmostDone(p, ch) BY <1>9 DEF P!React, P!OpenUrl, P!UrlStates
  <2>2. QED BY <1>9, <2>1, ReqLineAlmostDoneIsGood
<1>10. CASE p.state = "s_header_field_start"
  <2>1. P!React(p, ch) = P!HeaderFieldStart(p, ch) BY <1>10 DEF P!React, P!OpenUrl, P!UrlStates
  <2>2. QED BY <1>10, <2>1, HeaderFieldStartIsGood, LineStarts
<1>11. CASE p.state = "s_header_field"
  <2>1. P!React(p, ch) = P!HeaderField(p, ch) BY <1>11 DEF P!React, P!OpenUrl, P!UrlStates
  <2>2. QED BY <1>11, <2>1, HeaderFieldIsGood
<1>12. CASE p.state = "s_header_value_discard_ws"
  <2>1. P!React(p, ch) = P!HeaderValueDiscardWs(p, ch) BY <1>12 DEF P!React, P!OpenUrl, P!UrlStates
  <2>2. QED BY <1>12, <2>1, HeaderValueDiscardWsIsGood
<1>13. CASE p.state = "s_header_value_discard_ws_almost_done"
  <2>1. P!React(p, ch) = P!DiscardWsAlmostDone(p, ch) BY <1>13 DEF P!React, P!OpenUrl, P!UrlStates
  <2>2. QED BY <1>13, <2>1, DiscardWsAlmostDoneIsGood
<1>14. CASE p.state = "s_header_value_discard_lws"
  <2>1. P!React(p, ch) = P!HeaderValueDiscardLws(p, ch) BY <1>14 DEF P!React, P!OpenUrl, P!UrlStates
  <2>2. QED BY <1>14, <2>1, HeaderValueDiscardLwsIsGood
<1>15. CASE p.state = "s_header_value"
  <2>1. P!React(p, ch) = P!HeaderValue(p, ch) BY <1>15 DEF P!React, P!OpenUrl, P!UrlStates
  <2>2. QED BY <1>15, <2>1, HeaderValueIsGood
<1>16. CASE p.state = "s_header_almost_done"
  <2>1. P!React(p, ch) = P!HeaderAlmostDone(p, ch) BY <1>16 DEF P!React, P!OpenUrl, P!UrlStates
  <2>2. QED BY <1>16, <2>1, HeaderAlmostDoneIsGood
<1>17. CASE p.state = "s_header_value_lws"
  <2>1. P!React(p, ch) = P!HeaderValueLws(p, ch) BY <1>17 DEF P!React, P!OpenUrl, P!UrlStates
  <2>2. QED BY <1>17, <2>1, HeaderValueLwsIsGood
<1>18. CASE p.state = "s_headers_almost_done"
  <2>1. P!React(p, ch) = P!HeadersAlmostDone(p, ch) BY <1>18 DEF P!React, P!OpenUrl, P!UrlStates
  <2>2. QED BY <1>18, <2>1, HeadersAlmostDoneIsGood, LineStarts
<1>19. CASE p.state = "s_body_identity"
  <2>1. P!React(p, ch) = P!BodyIdentity(p, ch) BY <1>19 DEF P!React, P!OpenUrl, P!UrlStates
  <2>2. QED BY <1>19, <2>1, BodyIdentityIsGood
<1>20. CASE p.state = "s_chunk_size_start"
  <2>1. P!React(p, ch) = P!ChunkSizeStart(p, ch) BY <1>20 DEF P!React, P!OpenUrl, P!UrlStates
  <2>2. QED BY <1>20, <2>1, ChunkSizeStartIsGood
<1>21. CASE p.state = "s_chunk_size"
  <2>1. P!React(p, ch) = P!ChunkSize(p, ch) BY <1>21 DEF P!React, P!OpenUrl, P!UrlStates
  <2>2. QED BY <1>21, <2>1, ChunkSizeIsGood
<1>22. CASE p.state = "s_chunk_parameters"
  <2>1. P!React(p, ch) = P!ChunkParameters(p, ch) BY <1>22 DEF P!React, P!OpenUrl, P!UrlStates
  <2>2. QED BY <1>22, <2>1, ChunkParametersIsGood
<1>23. CASE p.state = "s_chunk_size_almost_done"
  <2>1. P!React(p, ch) = P!ChunkSizeAlmostDone(p, ch) BY <1>23 DEF P!React, P!OpenUrl, P!UrlStates
  <2>2. QED BY <1>23, <2>1, ChunkSizeAlmostDoneIsGood
<1>24. CASE p.state = "s_chunk_data"
  <2>1. P!React(p, ch) = P!ChunkData(p, ch) BY <1>24 DEF P!React, P!OpenUrl, P!UrlStates
  <2>2. QED BY <1>24, <2>1, ChunkDataIsGood
<1>25. CASE p.state = "s_chunk_data_almost_done"
  <2>1. P!React(p, ch) = P!ChunkDataAlmostDone(p, ch) BY <1>25 DEF P!React, P!OpenUrl, P!UrlStates
  <2>2. QED BY <1>25, <2>1, ChunkDataAlmostDoneIsGood
<1>26. CASE p.state = "s_chunk_data_done"
  <2>1. P!React(p, ch) = P!ChunkDataDone(p, ch) BY <1>26 DEF P!React, P!OpenUrl, P!UrlStates
  <2>2. QED BY <1>26, <2>1, ChunkDataDoneIsGood
<1>27. p.state \in P!States BY DEF Good, Parsers
<1>28. QED
  BY <1>1, <1>2, <1>3, <1>4, <1>5, <1>6, <1>7, <1>8, <1>9, <1>10, <1>11, <1>12, <1>13, <1>14,
       <1>15, <1>16, <1>17, <1>18, <1>19, <1>20, <1>21, <1>22, <1>23, <1>24, <1>25, <1>26,
       <1>27 DEF P!States, P!BodyStates

(* What is collected, and how much was consumed, says nothing. *)
LEMMA TextsDoNotMatter ==
  ASSUME NEW b, NEW p, Good(b, p), NEW q \in Parsers, q.state = p.state,
         q.header_state = p.header_state, q.flags = p.flags, q.content_length = p.content_length,
         q.nread = p.nread, q.errno = p.errno, q.marks = p.marks, q.calls = p.calls
  PROVE  Good(b, q) /\ (Unstarted(p) => Unstarted(q))
<1>1. Trailing(q) = Trailing(p) BY DEF Trailing
<1>2. InTurn(b, q) /\ Said(b, q) = Said(b, p) BY <1>1, Silent DEF Good
<1>3. ASSUME p.errno = "HPE_OK"
      PROVE  MarksRight(q) /\ DataRight(q) /\ Said(b, q) \in Heard(q.state, Trailing(q))
  <2>1. MarksRight(p) /\ DataRight(p) /\ Said(b, p) \in Heard(p.state, Trailing(p))
    BY <1>3 DEF Good
  <2>2. P!Resumed(q) = P!Resumed(p) BY DEF P!Resumed
  <2>3. MarksRight(q) BY <2>1, <2>2 DEF MarksRight
  <2>4. DataRight(q) BY <2>1, <1>1 DEF DataRight, P!IsChunked, P!HasLength
  <2>5. Said(b, q) \in Heard(q.state, Trailing(q)) BY <2>1, <1>1, <1>2
  <2>6. QED BY <2>3, <2>4, <2>5
<1>4. Good(b, q) BY <1>2, <1>3 DEF Good
<1>5. QED BY <1>4 DEF Unstarted

(* One call with one character: the size of the headers is checked, the state
   reacts, and may react again to the same character. *)
LEMMA StepIsGood ==
  ASSUME P!SizesAssumption, NEW b, NEW p, NEW ch \in Chars, Good(b, p), p.calls = <<>>, Unstarted(p)
  PROVE  Good(b, P!Step(p, ch)) /\ Unstarted(P!Step(p, ch))
<1> DEFINE n == [p EXCEPT !.nread = @ + 1]
           c == P!Counted(p)
           q == IF c.errno = "HPE_OK" THEN P!React(c, ch) ELSE c
           u == [q EXCEPT !.used = @ + 1]
           t == P!Collect(u, ch)
<1>1. CASE p.errno # "HPE_OK" \/ p.exit BY <1>1 DEF P!Step
<1>2. CASE p.errno = "HPE_OK" /\ ~p.exit
  <2>1. p \in Parsers /\ p.nread \in 0 .. HTTP_MAX_HEADER_SIZE
    <3>1. p \in Parsers /\ p.nread <= HTTP_MAX_HEADER_SIZE BY <1>2 DEF Good, DataRight
    <3>2. p.nread \in 0 .. HTTP_MAX_HEADER_SIZE + 1 BY <3>1 DEF Parsers
    <3>3. QED BY <3>1, <3>2 DEF P!SizesAssumption
  <2>2. Good(b, q) /\ Unstarted(q)
    <3>1. CASE p.state \in P!BodyStates
      <4>1. c = p BY <3>1 DEF P!Counted
      <4>2. p.state # "s_chunk_size_start" BY <3>1 DEF P!BodyStates
      <4>3. Good(b, P!React(p, ch)) /\ Unstarted(P!React(p, ch)) BY <1>2, <4>2, ReactIsGood
      <4>4. QED BY <1>2, <4>1, <4>3
    <3>2. CASE p.state \notin P!BodyStates
      <4>1. p.nread + 1 \in 0 .. HTTP_MAX_HEADER_SIZE + 1 BY <2>1 DEF P!SizesAssumption
      <4>2. /\ n \in Parsers /\ n.state = p.state /\ n.header_state = p.header_state
            /\ n.flags = p.flags /\ n.content_length = p.content_length /\ n.nread = p.nread + 1
            /\ n.errno = "HPE_OK" /\ n.marks = p.marks /\ n.calls = <<>>
        BY <1>2, <2>1, <4>1 DEF Parsers
      <4>3. c = IF n.nread > HTTP_MAX_HEADER_SIZE THEN P!Fail(n, "HPE_HEADER_OVERFLOW") ELSE n
        BY <3>2 DEF P!Counted
      <4> HIDE DEF n, c
      <4>4. Trailing(n) = Trailing(p) BY <4>2 DEF Trailing
      <4>5. InTurn(b, n) /\ One(n.marks) BY <4>2, Quiet DEF Good
      <4>6. CASE n.nread > HTTP_MAX_HEADER_SIZE
        <5>1. "HPE_HEADER_OVERFLOW" \in Errors BY DEF Errors
        <5>2. Good(b, c) /\ Unstarted(c) BY <4>2, <4>3, <4>5, <4>6, <5>1, FailIsGood DEF Good
        <5>3. c.errno # "HPE_OK" BY <4>2, <4>3, <4>6 DEF P!Fail, Parsers
        <5>4. QED BY <5>2, <5>3
      <4>7. CASE ~(n.nread > HTTP_MAX_HEADER_SIZE)
        <5>1. c = n BY <4>3, <4>7
        <5>2. n.nread <= HTTP_MAX_HEADER_SIZE BY <2>1, <4>2, <4>7 DEF P!SizesAssumption
        <5>3. MarksRight(n)
          <6>1. P!Resumed(n) = P!Resumed(p) BY <4>2 DEF P!Resumed
          <6>2. QED BY <1>2, <4>2, <6>1 DEF Good, MarksRight
        <5>4. DataRight(n) BY <1>2, <4>2, <4>4, <5>2 DEF Good, DataRight, P!IsChunked, P!HasLength
        <5>5. Said(b, p) \in Heard(n.state, Trailing(p)) BY <1>2, <4>2 DEF Good
        <5>6. Good(b, n) BY <1>2, <4>2, <4>4, <5>3, <5>4, <5>5, Silently
        <5>7. n.state = "s_chunk_size_start" => n.nread = 1 BY <1>2, <4>2 DEF Unstarted
        <5>8. Good(b, P!React(n, ch)) /\ Unstarted(P!React(n, ch)) BY <4>2, <5>6, <5>7, ReactIsGood
        <5>9. QED BY <4>2, <5>1, <5>8
      <4>8. QED BY <4>6, <4>7
    <3>3. QED BY <3>1, <3>2
  <2> HIDE DEF q
  <2>3. CASE q.errno # "HPE_OK" BY <1>2, <2>2, <2>3 DEF P!Step, q, c
  <2>4. CASE q.errno = "HPE_OK"
    <3>0. q \in Parsers BY <2>2 DEF Good
    <3>a. q.used \in Nat BY <3>0 DEF Parsers
    <3>1. q \in Parsers /\ q.used + 1 \in Nat BY <3>0, <3>a
    <3>2. /\ u \in Parsers /\ u.state = q.state /\ u.header_state = q.header_state
          /\ u.flags = q.flags /\ u.content_length = q.content_length /\ u.nread = q.nread
          /\ u.errno = q.errno /\ u.marks = q.marks /\ u.calls = q.calls
      BY <3>1 DEF Parsers
    <3> HIDE DEF u
    <3>3. /\ t \in Parsers /\ t.state = u.state /\ t.header_state = u.header_state
          /\ t.flags = u.flags /\ t.content_length = u.content_length /\ t.nread = u.nread
          /\ t.errno = u.errno /\ t.marks = u.marks /\ t.calls = u.calls
      <4>1. CASE u.marks = {} BY <3>2, <4>1 DEF P!Collect
      <4>2. CASE u.marks # {}
        <5>1. ch \in Letters /\ u.text \in Seq(Letters) BY <3>2 DEF Letters, Parsers
        <5>2. Append(u.text, ch) \in Seq(Letters) BY <5>1
        <5>3. t = [u EXCEPT !.text = Append(u.text, ch)] BY <4>2 DEF P!Collect
        <5>4. QED BY <3>2, <5>2, <5>3 DEF Parsers
      <4>3. QED BY <4>1, <4>2
    <3> HIDE DEF t
    <3>4. Good(b, t) /\ Unstarted(t) BY <2>2, <3>2, <3>3, TextsDoNotMatter
    <3>5. P!Step(p, ch) = t BY <1>2, <2>4 DEF P!Step, t, u, q, c
    <3>6. QED BY <3>4, <3>5
  <2>5. QED BY <2>3, <2>4
<1>3. QED BY <1>1, <1>2

(* A call ends and the next one begins. *)
Again(p) == [P!Begin(P!End(p)) EXCEPT !.calls = P!End(p).calls]

(* A call that ends between two characters hands over what it has collected of
   a target, a header or a body, and the next call starts to collect again. *)
LEMMA CutIsGood ==
  ASSUME NEW b, NEW p, Good(b, p), p.calls = <<>>, Unstarted(p)
  PROVE  Good(b, Again(p)) /\ Unstarted(Again(p))
<1> DEFINE e == P!End(p)
           q == Again(p)
<1>1. p \in Parsers /\ One(p.marks) /\ b \in Kinds \cup {"none"} BY DEF Good
<1>2. ASSUME e \in Parsers, e.state = p.state, e.header_state = p.header_state, e.flags = p.flags,
             e.content_length = p.content_length, e.nread = p.nread, e.errno = p.errno,
             InTurn(b, e), p.errno = "HPE_OK" => Said(b, e) \in Heard(p.state, Trailing(p))
      PROVE  Good(b, q) /\ Unstarted(q)
  <2>1. P!Resumed(e) \subseteq P!Texts /\ One(P!Resumed(e)) /\ <<>> \in Seq(Letters)
    BY DEF P!Resumed, P!Texts, One
  <2>2. q = [e EXCEPT !.marks = P!Resumed(e), !.text = <<>>, !.used = 0, !.exit = FALSE]
    BY <1>2 DEF Again, P!Begin, Parsers
  <2> HIDE DEF e, q
  <2>3. /\ q \in Parsers /\ q.state = p.state /\ q.header_state = p.header_state
        /\ q.flags = p.flags /\ q.content_length = p.content_length /\ q.nread = p.nread
        /\ q.errno = p.errno /\ q.marks = P!Resumed(e) /\ q.calls = e.calls
    BY <1>2, <2>1, <2>2 DEF Parsers
  <2>4. Trailing(q) = Trailing(p) /\ Trailing(q) = Trailing(e) BY <1>2, <2>3 DEF Trailing
  <2>5. InTurn(b, q) /\ Said(b, q) = Said(b, e) BY <1>2, <2>3, <2>4, Silent
  <2>6. ASSUME p.errno = "HPE_OK"
        PROVE  MarksRight(q) /\ DataRight(q) /\ Said(b, q) \in Heard(q.state, Trailing(q))
    <3>1. P!Resumed(q) = P!Resumed(e) BY <1>2, <2>3 DEF P!Resumed
    <3>2. q.state \in {"s_body_identity", "s_chunk_data", "s_chunk_data_almost_done"} =>
            P!Resumed(e) = {}
      BY <1>2, <2>3 DEF P!Resumed, P!OpenUrl, P!UrlStates
    <3>3. MarksRight(q) BY <2>3, <3>1, <3>2 DEF MarksRight
    <3>4. DataRight(q) BY <2>3, <2>4, <2>6 DEF Good, DataRight, P!IsChunked, P!HasLength
    <3>5. Said(b, q) \in Heard(q.state, Trailing(q)) BY <1>2, <2>3, <2>4, <2>5, <2>6
    <3>6. QED BY <3>3, <3>4, <3>5
  <2>7. Good(b, q)
    <3>1. q.errno # "abort" BY <2>3 DEF Good
    <3>2. QED BY <1>1, <2>1, <2>3, <2>5, <2>6, <3>1 DEF Good
  <2>8. Unstarted(q) BY <2>3 DEF Unstarted
  <2>9. QED BY <2>7, <2>8
<1>3. CASE p.errno # "HPE_OK" \/ p.exit \/ p.marks = {}
  <2>1. e = p BY <1>3 DEF P!End
  <2>2. InTurn(b, p) /\ (p.errno = "HPE_OK" => Said(b, p) \in Heard(p.state, Trailing(p)))
    BY DEF Good
  <2>3. QED BY <1>1, <1>2, <2>1, <2>2
<1>4. CASE p.errno = "HPE_OK" /\ ~p.exit /\ p.marks # {}
  <2>1. PICK m \in p.marks : TRUE BY <1>4
  <2>2. p.marks = {m} BY <1>1 DEF One
  <2>3. m \in P!Texts BY <1>1 DEF Parsers
  <2>4. e = P!CallBack(p, m)
    <3>1. (CHOOSE x \in p.marks : TRUE) = m BY <2>2
    <3>2. e = [p EXCEPT !.marks = {}, !.text = <<>>,
                        !.calls = Append(@, [is |-> m, text |-> p.text])]
      BY <1>4, <3>1 DEF P!End
    <3>3. p.marks \ {m} = {} BY <2>2
    <3>4. QED BY <3>2, <3>3 DEF P!CallBack
  <2>5. Said(b, p) \in Heard(p.state, Trailing(p)) /\ MarksRight(p) BY <1>4 DEF Good
  <2>6. \/ m = "url" /\ p.state \in P!OpenUrl \cup P!UrlStates
        \/ m = "header_field" /\ p.state = "s_header_field"
        \/ m = "header_value" /\ p.state = "s_header_value"
        \/ m = "body" /\ p.state \in ChunkStates \cup {"s_body_identity"}
    BY <2>2, <2>5 DEF MarksRight, P!Resumed, ChunkStates
  <2>7. Allowed(b, p, m) /\ m \in Heard(p.state, Trailing(p))
    <3>1. CASE m = "url" /\ p.state \in P!OpenUrl \cup P!UrlStates
      <4>1. Heard(p.state, Trailing(p)) = {"message_begin", "url"} BY <3>1, HeardIs
      <4>2. QED BY <2>5, <3>1, <4>1 DEF Allowed, P!After
    <3>2. CASE m = "header_field" /\ p.state = "s_header_field"
      <4>1. Heard(p.state, Trailing(p)) = {"header_field", "header_value"} \cup Opening(Trailing(p))
        BY <3>2, HeardIs
      <4>2. QED BY <2>5, <3>2, <4>1 DEF Allowed, P!After, Opening
    <3>3. CASE m = "header_value" /\ p.state = "s_header_value"
      <4>1. Heard(p.state, Trailing(p)) = {"header_field", "header_value"} BY <3>3, HeardIs
      <4>2. QED BY <2>5, <3>3, <4>1 DEF Allowed, P!After
    <3>4. CASE m = "body" /\ p.state \in ChunkStates \cup {"s_body_identity"}
      <4>1. Heard(p.state, Trailing(p)) = {"headers_complete", "body"} BY <3>4, HeardIs
      <4>2. QED BY <2>5, <3>4, <4>1 DEF Allowed, P!After
    <3>5. QED BY <2>6, <3>1, <3>2, <3>3, <3>4
  <2>8. InTurn(b, p) BY DEF Good
  <2>9. InTurn(b, e) /\ Said(b, e) = m
    <3>1. Allowed(b, p, m) BY <2>7
    <3>2. p \in Parsers /\ One(p.marks) /\ m \in p.marks BY <1>1
    <3>3. InTurn(b, P!CallBack(p, m)) /\ Said(b, P!CallBack(p, m)) = m
      BY <2>3, <2>8, <3>1, <3>2, CallBackSpeaks
    <3>4. QED BY <2>4, <3>3
  <2>10. /\ e \in Parsers /\ e.state = p.state /\ e.header_state = p.header_state
         /\ e.flags = p.flags /\ e.content_length = p.content_length /\ e.nread = p.nread
         /\ e.errno = p.errno
    <3>1. p \in Parsers /\ One(p.marks) /\ m \in p.marks BY <1>1
    <3> DEFINE k == P!CallBack(p, m)
    <3>2. /\ k \in Parsers /\ k.state = p.state /\ k.header_state = p.header_state
          /\ k.flags = p.flags /\ k.content_length = p.content_length /\ k.nread = p.nread
          /\ k.errno = p.errno
      BY <2>3, <3>1, CallBackIs
    <3>3. QED BY <2>4, <3>2
  <2>11. QED BY <1>2, <2>7, <2>9, <2>10
<1>5. QED BY <1>3, <1>4

-----------------------------------------------------------------------------
(* The inductive invariant *)

(* The callbacks so far were in turn, and the next ones will be: the parser is
   good between any two characters. CallbacksInOrder alone is not inductive: it
   says nothing of the state, the marks and the flags that decide what comes next. *)
IInv ==
  /\ made \in Seq(Kinds)
  /\ before \in Kinds \cup {"none"}
  /\ parser.calls = <<>>
  /\ Good(P!LastCall, parser)
  /\ Unstarted(parser)
  /\ P!CallbacksInOrder

(* The two numbers the parser reads, a length and a chunk's size, are exact. *)
LEMMA NumbersAreRight ==
  ASSUME P!SizesAssumption, parser \in Parsers
  PROVE  P!NumbersAreExact
<1> SUFFICES ASSUME NEW base \in {10, 16}, NEW ch \in Chars, P!IsNumeral(ch, base),
                    parser.errno = "HPE_OK", P!Digit(parser, ch, base).errno = "HPE_OK"
             PROVE  /\ P!Digit(parser, ch, base).content_length
                         = base * parser.content_length + P!Unhex(ch, base)
                    /\ P!Digit(parser, ch, base).content_length < ULLONG_MAX
  BY DEF P!NumbersAreExact
<1> DEFINE v == base * parser.content_length + P!Unhex(ch, base)
<1>1. ~P!TooLong(parser.content_length, base)
  <2>1. P!Fail(parser, "HPE_INVALID_CONTENT_LENGTH").errno = "HPE_INVALID_CONTENT_LENGTH"
    BY DEF P!Fail, Parsers
  <2>2. QED BY <2>1 DEF P!Digit
<1>2. parser.content_length \in 0 .. ULLONG_MAX BY DEF Parsers
<1>3. v \in 0 .. ULLONG_MAX - 1 /\ v % (ULLONG_MAX + 1) = v BY <1>1, <1>2, DigitsAreExact
<1>4. P!Digit(parser, ch, base) = [parser EXCEPT !.content_length = v % (ULLONG_MAX + 1)]
  BY <1>1 DEF P!Digit
<1> HIDE DEF v
<1>5. P!Digit(parser, ch, base).content_length = v BY <1>3, <1>4 DEF Parsers
<1>6. v < ULLONG_MAX BY <1>3 DEF P!SizesAssumption
<1>7. QED BY <1>5, <1>6 DEF v

(* The invariant implies what the run checks. *)
LEMMA InvIsEnough ==
  ASSUME P!SizesAssumption PROVE IInv => P!ParserIsSound
<1> SUFFICES ASSUME IInv PROVE P!ParserIsSound OBVIOUS
<1>1. parser \in Parsers /\ parser.errno # "abort" /\ One(parser.marks) BY DEF IInv, Good
<1>2. P!NoAssertFails BY <1>1 DEF P!NoAssertFails, One
<1>3. P!NumbersAreExact BY <1>1, NumbersAreRight
<1>4. QED BY <1>2, <1>3 DEF P!ParserIsSound, IInv

(* http_parser_init leaves a good parser. *)
LEMMA InvAtFirst ==
  ASSUME P!SizesAssumption PROVE P!Init => IInv
<1> SUFFICES ASSUME P!Init PROVE IInv OBVIOUS
<1>1. parser = P!Fresh /\ made = <<>> /\ before = "none" BY DEF P!Init
<1>2. <<>> \in Seq(Kinds) /\ <<>> \in Seq(Letters) /\ <<>> \in Seq(Callbacks) OBVIOUS
<1>3. 0 \in 0 .. ULLONG_MAX /\ 0 \in 0 .. HTTP_MAX_HEADER_SIZE + 1 /\ 0 <= HTTP_MAX_HEADER_SIZE
  BY DEF P!SizesAssumption
<1>4. "s_start_req" \in P!States /\ "h_general" \in HeaderStates /\ {} \in SUBSET P!Flags
      /\ {} \in SUBSET P!Texts
  BY DEF P!States, HeaderStates
<1>5. /\ P!Fresh \in Parsers /\ P!Fresh.state = "s_start_req" /\ P!Fresh.errno = "HPE_OK"
      /\ P!Fresh.marks = {} /\ P!Fresh.calls = <<>> /\ P!Fresh.nread = 0
  BY <1>2, <1>3, <1>4 DEF P!Fresh, Parsers
<1> HIDE DEF P!Fresh
<1>6. InTurn("none", P!Fresh) /\ Said("none", P!Fresh) = "none" BY <1>5, Quiet
<1>7. MarksRight(P!Fresh) BY <1>5 DEF MarksRight, P!Resumed, P!OpenUrl, P!UrlStates
<1>8. DataRight(P!Fresh)
  BY <1>3, <1>5 DEF DataRight, RequestLine, P!OpenUrl, P!UrlStates, ChunkStates
<1>9. Said("none", P!Fresh) \in Heard(P!Fresh.state, Trailing(P!Fresh)) BY <1>5, <1>6, HeardIs
<1>10. Good("none", P!Fresh) BY <1>5, <1>6, <1>7, <1>8, <1>9, Assembled
<1>11. Unstarted(P!Fresh) BY <1>5 DEF Unstarted
<1>12. P!LastCall = "none" BY <1>1 DEF P!LastCall
<1>13. P!CallbacksInOrder BY <1>1 DEF P!CallbacksInOrder
<1>14. QED BY <1>1, <1>2, <1>5, <1>10, <1>11, <1>12, <1>13 DEF IInv

(* What Becomes leaves of a parser that has made its callbacks in turn. *)
LEMMA BecomesKeeps ==
  ASSUME IInv, NEW q, Good(P!LastCall, q), Unstarted(q), P!Becomes(q)
  PROVE  IInv'
<1> DEFINE b == P!LastCall
           n == Len(q.calls)
           r == [q EXCEPT !.text = <<>>, !.calls = <<>>, !.used = 0]
<1>1. q \in Parsers /\ b \in Kinds \cup {"none"} BY DEF Good
<1>2. parser' = r /\ made' = [i \in 1 .. n |-> q.calls[i].is] /\ before' = b BY DEF P!Becomes
<1> HIDE DEF b
<1>3. q.calls \in Seq(Callbacks) BY <1>1 DEF Parsers
<1>4. n \in Nat /\ \A i \in 1 .. n : q.calls[i] \in Callbacks BY <1>3
<1>5. \A i \in 1 .. n : q.calls[i].is \in Kinds BY <1>4 DEF Callbacks
<1> HIDE DEF n
<1>6. made' \in Seq(Kinds) /\ Len(made') = n /\ \A i \in 1 .. n : made'[i] = q.calls[i].is
  BY <1>2, <1>4, <1>5
<1>7. <<>> \in Seq(Letters) /\ <<>> \in Seq(Callbacks) OBVIOUS
<1>8. /\ r \in Parsers /\ r.state = q.state /\ r.header_state = q.header_state
      /\ r.flags = q.flags /\ r.content_length = q.content_length /\ r.nread = q.nread
      /\ r.errno = q.errno /\ r.marks = q.marks /\ r.calls = <<>>
  BY <1>1, <1>7 DEF Parsers
<1> HIDE DEF r
<1>9. P!LastCall' = Said(b, q)
  <2>1. (made' = <<>>) <=> (q.calls = <<>>) BY <1>3, <1>6 DEF n
  <2>2. P!LastCall' = IF made' = <<>> THEN before' ELSE made'[Len(made')] BY DEF P!LastCall
  <2>3. CASE q.calls = <<>> BY <1>2, <2>1, <2>2, <2>3 DEF Said
  <2>4. CASE q.calls # <<>>
    <3>1. n \in 1 .. n BY <1>3, <2>4 DEF n
    <3>2. P!LastCall' = q.calls[n].is BY <1>6, <2>1, <2>2, <2>4, <3>1
    <3>3. QED BY <2>4, <3>2 DEF Said, n
  <2>5. QED BY <2>3, <2>4
<1>10. Said(b, q) \in Kinds \cup {"none"}
  <2>1. CASE q.calls = <<>> BY <1>1, <2>1 DEF Said
  <2>2. CASE q.calls # <<>>
    <3>1. n \in 1 .. n BY <1>3, <2>2 DEF n
    <3>2. QED BY <1>5, <2>2, <3>1 DEF Said, n
  <2>3. QED BY <2>1, <2>2
<1> DEFINE l == Said(b, q)
<1> HIDE DEF l
<1>11. Good(l, r)
  <2>1. InTurn(l, r) /\ Said(l, r) = l BY <1>8, Quiet
  <2>2. Trailing(r) = Trailing(q) BY <1>8 DEF Trailing
  <2>3. P!Resumed(r) = P!Resumed(q) BY <1>8 DEF P!Resumed
  <2>4. ASSUME r.errno = "HPE_OK"
        PROVE  MarksRight(r) /\ DataRight(r) /\ Said(l, r) \in Heard(r.state, Trailing(r))
    <3>1. MarksRight(q) /\ DataRight(q) /\ l \in Heard(q.state, Trailing(q))
      BY <1>8, <2>4 DEF Good, l, b
    <3>2. MarksRight(r) BY <1>8, <2>3, <3>1 DEF MarksRight
    <3>3. DataRight(r) BY <1>8, <2>2, <3>1 DEF DataRight, P!IsChunked, P!HasLength
    <3>4. Said(l, r) \in Heard(r.state, Trailing(r)) BY <1>8, <2>1, <2>2, <3>1
    <3>5. QED BY <3>2, <3>3, <3>4
  <2>5. r.errno # "abort" /\ One(r.marks) BY <1>8 DEF Good
  <2>6. l \in Kinds \cup {"none"} BY <1>10 DEF l
  <2>7. QED BY <1>8, <2>1, <2>4, <2>5, <2>6 DEF Good
<1>12. Good(P!LastCall, parser)'
  <2>1. Good(P!LastCall', parser') BY <1>2, <1>9, <1>11 DEF l
  <2>2. QED BY <2>1
<1>13. Unstarted(parser)' BY <1>2, <1>8 DEF Unstarted
<1>14. P!CallbacksInOrder'
  <2>1. ASSUME NEW i \in DOMAIN made'
        PROVE  made'[i] \in P!Follows(IF i = 1 THEN before ELSE made[i - 1])'
    <3>1. i \in 1 .. n BY <1>6
    <3>2. InTurn(b, q) BY DEF Good, b
    <3>3. q.calls[i].is \in P!After(IF i = 1 THEN b ELSE q.calls[i - 1].is, Trailing(q))
      BY <3>1, <3>2 DEF InTurn, n
    <3>4. made'[i] = q.calls[i].is BY <1>6, <3>1
    <3>5. i # 1 => i - 1 \in 1 .. n BY <1>4, <3>1
    <3>6. (IF i = 1 THEN before' ELSE made'[i - 1]) = (IF i = 1 THEN b ELSE q.calls[i - 1].is)
      BY <1>2, <1>6, <3>5
    <3>7. ("F_TRAILING" \in parser'.flags) = Trailing(q) BY <1>2, <1>8 DEF Trailing
    <3>8. QED BY <3>3, <3>4, <3>6, <3>7 DEF P!Follows
  <2>2. QED BY <2>1 DEF P!CallbacksInOrder
<1>15. (parser.calls = <<>>)' BY <1>2, <1>8
<1>16. (before \in Kinds \cup {"none"})' BY <1>1, <1>2
<1>17. QED BY <1>6, <1>12, <1>13, <1>14, <1>15, <1>16 DEF IInv

(* Every character, and every place a packet may end at, keeps the invariant. *)
LEMMA InvIsKept ==
  ASSUME P!SizesAssumption PROVE IInv /\ [P!Next]_P!vars => IInv'
<1> SUFFICES ASSUME IInv, [P!Next]_P!vars PROVE IInv' OBVIOUS
<1>1. Good(P!LastCall, parser) /\ parser.calls = <<>> /\ Unstarted(parser) BY DEF IInv
<1>2. ASSUME NEW ch \in Chars, P!Feed(ch) PROVE IInv'
  <2>1. Good(P!LastCall, P!Step(parser, ch)) /\ Unstarted(P!Step(parser, ch)) BY <1>1, StepIsGood
  <2>2. QED BY <1>2, <2>1, BecomesKeeps DEF P!Feed
<1>3. CASE P!Cut
  <2>1. Good(P!LastCall, Again(parser)) /\ Unstarted(Again(parser)) BY <1>1, CutIsGood
  <2>2. P!Becomes(Again(parser)) BY <1>3 DEF P!Cut, Again
  <2>3. QED BY <2>1, <2>2, BecomesKeeps
<1>4. CASE UNCHANGED P!vars
  BY <1>4 DEF P!vars, IInv, P!CallbacksInOrder, P!Follows, P!LastCall
<1>5. QED BY <1>2, <1>3, <1>4 DEF P!Next

(* Whatever a peer sends and however it comes in packets, for any limits:
   http_parser_execute makes its callbacks in the order that http_request_parser
   counts on (a name before its value, the headers before the body, the end of a
   message before the next one), none of its asserts fails, no two texts are
   collected at once, and a length or a chunk's size that it accepts is the number
   written, not that number modulo 2^64. *)
THEOREM ParserStaysSound ==
  ASSUME P!SizesAssumption PROVE P!Spec => []P!ParserIsSound
<1>1. P!Init => IInv BY InvAtFirst
<1>2. IInv /\ [P!Next]_P!vars => IInv' BY InvIsKept
<1>3. IInv => P!ParserIsSound BY InvIsEnough
<1>4. QED BY <1>1, <1>2, <1>3, PTL DEF P!Spec

-----------------------------------------------------------------------------
(* THE UPLOADS *)

IsObject(object) ==
  /\ DOMAIN object = {"name", "file", "filename", "content", "written"}
  /\ object.written \in BOOLEAN
  /\ object.content = <<>> \/ object.written = TRUE

(* The parser's objects are in the order they were made, and one that has  *)
(* content was written; each name has an object of its own, and content is *)
(* only found for an object that has none yet.                             *)
Collected(p) ==
  /\ DOMAIN p = {"status", "data", "repeat", "outcome", "objects", "fields"}
  /\ p.status \in {"LookingForStartingBoundary", "ProcessingHeaders", "ProcessingContentOfTheField"}
  /\ p.repeat \in BOOLEAN
  /\ \E S : p.objects \in Seq(S)
  /\ \A id \in DOMAIN p.objects : IsObject(p.objects[id])
  /\ \A n \in DOMAIN p.fields : p.fields[n] \in DOMAIN p.objects
  /\ \A n, m \in DOMAIN p.fields : p.fields[n] = p.fields[m] => n = m
  /\ (p.repeat = TRUE /\ p.status = "ProcessingContentOfTheField") =>
       Len(p.objects) \in DOMAIN p.objects /\ p.objects[Len(p.objects)].written = FALSE

(* What was written stays as it is, under its number.                      *)
Continued(p, q) ==
  \A id \in DOMAIN p.objects :
    id \in DOMAIN q.objects /\ (p.objects[id].written = TRUE => q.objects[id] = p.objects[id])

LEMMA FreshIsCollected ==
  ASSUME NEW data PROVE Collected(U!Fresh(data))
<1>1. U!Fresh(data).objects \in Seq({}) BY EmptySeq DEF U!Fresh
<1>2. QED BY <1>1 DEF U!Fresh, Collected

LEMMA BoundaryKeeps ==
  ASSUME NEW p, Collected(p)
  PROVE  Collected(U!FindStartingBoundary(p)) /\ Continued(p, U!FindStartingBoundary(p))
BY DEF Collected, Continued, U!FindStartingBoundary, U!Stop, U!Truncated

LEMMA HeadersKeep ==
  ASSUME NEW p, Collected(p), NEW headers
  PROVE  LET q == U!ParseHeaders(p, headers)
         IN /\ Collected([q EXCEPT !.status = "ProcessingContentOfTheField"]) /\ Continued(p, q)
            /\ DOMAIN q = DOMAIN p
<1> DEFINE q == U!ParseHeaders(p, headers)
           r == [q EXCEPT !.status = "ProcessingContentOfTheField"]
<1>1. CASE q = U!Throw(p)
  BY <1>1 DEF Collected, Continued, U!Throw, U!Stop
<1>2. ASSUME NEW name, NEW file, NEW filename,
             q = [p EXCEPT !.objects = Append(@, U!NewField(name, file, filename)),
                           !.fields = [n \in DOMAIN @ \cup {name} |-> IF n = name THEN Len(p.objects) + 1 ELSE @[n]]]
      PROVE  Collected(r) /\ Continued(p, q) /\ DOMAIN q = DOMAIN p
  <2> DEFINE field == U!NewField(name, file, filename)
  <2>1. PICK S : p.objects \in Seq(S) BY DEF Collected
  <2>2. p.objects \in Seq(S \cup {field}) BY <2>1, SeqMonotonic
  <2>3. /\ Len(p.objects) \in Nat /\ DOMAIN p.objects = 1 .. Len(p.objects)
        /\ Append(p.objects, field) \in Seq(S \cup {field})
        /\ Len(Append(p.objects, field)) = Len(p.objects) + 1
        /\ \A i \in 1 .. Len(p.objects) : Append(p.objects, field)[i] = p.objects[i]
        /\ Append(p.objects, field)[Len(p.objects) + 1] = field
    BY <2>2, AppendProperties, LenProperties
  <2>4. DOMAIN Append(p.objects, field) = 1 .. Len(p.objects) + 1 BY <2>3, LenProperties
  <2>5. /\ q.objects = Append(p.objects, field) /\ DOMAIN q = DOMAIN p /\ q.repeat = p.repeat
        /\ q.fields = [n \in DOMAIN p.fields \cup {name} |-> IF n = name THEN Len(p.objects) + 1 ELSE p.fields[n]]
    BY <1>2 DEF Collected
  <2>6. Continued(p, q) BY <2>3, <2>4, <2>5 DEF Continued
  <2>7. /\ DOMAIN r = DOMAIN p /\ r.objects = q.objects /\ r.repeat = p.repeat /\ r.fields = q.fields
        /\ r.status = "ProcessingContentOfTheField"
    BY <2>5 DEF Collected
  <2>8. IsObject(field) /\ field.written = FALSE BY DEF U!NewField, IsObject
  <2> HIDE DEF field, q, r
  <2>9. \A id \in DOMAIN r.objects : IsObject(r.objects[id])
    BY <2>3, <2>4, <2>5, <2>7, <2>8 DEF Collected
  <2>10. \A n \in DOMAIN r.fields : r.fields[n] \in DOMAIN r.objects
    BY <2>3, <2>4, <2>5, <2>7 DEF Collected
  <2>11. \A n, m \in DOMAIN r.fields : r.fields[n] = r.fields[m] => n = m
    BY <2>3, <2>5, <2>7 DEF Collected
  <2>12. \E T : r.objects \in Seq(T) BY <2>3, <2>5, <2>7
  <2>13. Len(r.objects) \in DOMAIN r.objects /\ r.objects[Len(r.objects)].written = FALSE
    BY <2>3, <2>4, <2>5, <2>7, <2>8
  <2>14. Collected(r) BY <2>7, <2>9, <2>10, <2>11, <2>12, <2>13 DEF Collected
  <2>15. QED BY <2>5, <2>6, <2>14
<1>3. QED BY <1>1, <1>2 DEF U!ParseHeaders

LEMMA HeadersEndKeeps ==
  ASSUME NEW p, Collected(p)
  PROVE  Collected(U!WaitForHeadersEnd(p)) /\ Continued(p, U!WaitForHeadersEnd(p))
<1> DEFINE q == U!WaitForHeadersEnd(p)
<1>1. CASE q = [U!Stop(p) EXCEPT !.outcome = "past the end"] \/ q = U!Stop(p)
  BY <1>1 DEF Collected, Continued, U!Stop
<1>2. ASSUME NEW headers, NEW n,
             q = [U!Truncated(U!ParseHeaders(p, headers), n) EXCEPT !.status = "ProcessingContentOfTheField"]
      PROVE  Collected(q) /\ Continued(p, q)
  <2> DEFINE h == U!ParseHeaders(p, headers)
             r == [h EXCEPT !.status = "ProcessingContentOfTheField"]
  <2>1. Collected(r) /\ Continued(p, h) /\ DOMAIN h = DOMAIN p BY HeadersKeep
  <2>2. q = [r EXCEPT !.data = q.data] /\ r.objects = h.objects
    BY <1>2, <2>1 DEF U!Truncated, Collected
  <2> HIDE DEF h, q
  <2>3. QED BY <2>1, <2>2 DEF Collected, Continued
<1>3. \/ q = [U!Stop(p) EXCEPT !.outcome = "past the end"] \/ q = U!Stop(p)
      \/ \E headers, n :
           q = [U!Truncated(U!ParseHeaders(p, headers), n) EXCEPT !.status = "ProcessingContentOfTheField"]
  BY DEF U!WaitForHeadersEnd
<1>4. Collected(q) /\ Continued(p, q)
  <2>1. CASE q = [U!Stop(p) EXCEPT !.outcome = "past the end"] \/ q = U!Stop(p) BY <1>1, <2>1
  <2>2. CASE \E headers, n :
           q = [U!Truncated(U!ParseHeaders(p, headers), n) EXCEPT !.status = "ProcessingContentOfTheField"]
    <3>1. PICK headers, n :
           q = [U!Truncated(U!ParseHeaders(p, headers), n) EXCEPT !.status = "ProcessingContentOfTheField"]
      BY <2>2
    <3>2. QED BY <1>2, <3>1
  <2>3. QED BY <1>3, <2>1, <2>2, Zenon
<1>5. QED BY <1>4

LEMMA ContentKeeps ==
  ASSUME NEW p, Collected(p), p.repeat = TRUE, p.status = "ProcessingContentOfTheField"
  PROVE  Collected(U!ProcessContent(p)) /\ Continued(p, U!ProcessContent(p))
<1> DEFINE n == U!LengthToSend(p.data)
           id == Len(p.objects)
           fed == [U!Truncated(p, n) EXCEPT !.objects[id].content = SubSeq(p.data, 1, n),
                                            !.objects[id].written = TRUE]
           q == IF n <= 0 THEN p ELSE fed
           object == [[p.objects[id] EXCEPT !.content = SubSeq(p.data, 1, n)] EXCEPT !.written = TRUE]
<1>1. PICK S : p.objects \in Seq(S) BY DEF Collected
<1>2. /\ id \in Nat /\ DOMAIN p.objects = 1 .. id /\ id \in 1 .. id
      /\ p.objects[id].written = FALSE
  BY <1>1, LenProperties DEF Collected
<1>3. /\ DOMAIN fed = DOMAIN p /\ fed.status = p.status /\ fed.repeat = p.repeat /\ fed.fields = p.fields
      /\ fed.objects = [p.objects EXCEPT ![id] = object]
  <2>1. fed.objects = [[p.objects EXCEPT ![id].content = SubSeq(p.data, 1, n)] EXCEPT ![id].written = TRUE]
    BY DEF U!Truncated, Collected
  <2>2. @ = [p.objects EXCEPT ![id] = object] BY <1>2
  <2>3. QED BY <2>1, <2>2 DEF U!Truncated, Collected
<1>4. IsObject(object)
  <2>1. IsObject(p.objects[id]) BY <1>2 DEF Collected
  <2>2. QED BY <2>1 DEF IsObject
<1> HIDE DEF n, object, fed
<1>5. /\ fed.objects \in Seq(S \cup {object}) /\ DOMAIN fed.objects = DOMAIN p.objects
      /\ \A i \in DOMAIN p.objects : fed.objects[i] = IF i = id THEN object ELSE p.objects[i]
  <2>1. p.objects \in Seq(S \cup {object}) BY <1>1, SeqMonotonic
  <2>2. QED BY <1>2, <1>3, <2>1, ExceptSeq
<1>6. Continued(p, q) BY <1>2, <1>5 DEF Continued
<1>7. Collected([q EXCEPT !.repeat = FALSE]) /\ Collected([q EXCEPT !.status = "LookingForStartingBoundary"])
  <2>1. CASE q = p BY <2>1 DEF Collected
  <2>2. CASE q = fed
    <3>1. \A i \in DOMAIN fed.objects : IsObject(fed.objects[i]) BY <1>4, <1>5 DEF Collected
    <3>2. \E T : fed.objects \in Seq(T) BY <1>5
    <3> DEFINE r == [fed EXCEPT !.repeat = FALSE]
               t == [fed EXCEPT !.status = "LookingForStartingBoundary"]
    <3>3. /\ DOMAIN r = DOMAIN p /\ r.status = p.status /\ r.repeat = FALSE /\ r.objects = fed.objects /\ r.fields = p.fields
          /\ DOMAIN t = DOMAIN p /\ t.status = "LookingForStartingBoundary" /\ t.repeat = p.repeat
          /\ t.objects = fed.objects /\ t.fields = p.fields
      BY <1>3 DEF Collected
    <3> HIDE DEF r, t
    <3>4. Collected(r) /\ Collected(t)
      <4>1. /\ DOMAIN p = {"status", "data", "repeat", "outcome", "objects", "fields"}
            /\ p.status \in {"LookingForStartingBoundary", "ProcessingHeaders", "ProcessingContentOfTheField"}
            /\ p.repeat \in BOOLEAN
            /\ \A m \in DOMAIN p.fields : p.fields[m] \in DOMAIN fed.objects
            /\ \A m, k \in DOMAIN p.fields : p.fields[m] = p.fields[k] => m = k
        BY <1>5 DEF Collected
      <4>2. Collected(r) BY ONLY ZenonT(40), <3>1, <3>2, <3>3, <4>1 DEF Collected
      <4>3. t.status # "ProcessingContentOfTheField" BY ONLY <3>3
      <4>4. Collected(t) BY ONLY ZenonT(40), <3>1, <3>2, <3>3, <4>1, <4>3 DEF Collected
      <4>5. QED BY <4>2, <4>4
    <3>5. QED BY <2>2, <3>4 DEF r, t
  <2>3. QED BY <2>1, <2>2
<1>8. U!ProcessContent(p) \in {[q EXCEPT !.repeat = FALSE], [q EXCEPT !.status = "LookingForStartingBoundary"]}
  BY DEF U!ProcessContent, U!Stop, n, fed
<1>9. [q EXCEPT !.repeat = FALSE].objects = q.objects /\ [q EXCEPT !.status = "LookingForStartingBoundary"].objects = q.objects
  BY <1>3 DEF Collected
<1> HIDE DEF q
<1>10. \A x : x.objects = q.objects => Continued(p, x) BY ONLY <1>6 DEF Continued
<1>11. CASE U!ProcessContent(p) = [q EXCEPT !.repeat = FALSE] BY <1>7, <1>9, <1>10, <1>11
<1>12. CASE U!ProcessContent(p) = [q EXCEPT !.status = "LookingForStartingBoundary"]
  BY <1>7, <1>9, <1>10, <1>12
<1>13. QED BY <1>8, <1>11, <1>12

LEMMA ProcessKeeps ==
  ASSUME NEW p, Collected(p), p.repeat = TRUE
  PROVE  Collected(U!Process(p)) /\ Continued(p, U!Process(p))
<1>1. CASE p.status = "LookingForStartingBoundary" BY <1>1, BoundaryKeeps DEF U!Process
<1>2. CASE p.status = "ProcessingHeaders" BY <1>2, HeadersEndKeeps DEF U!Process
<1>3. CASE p.status = "ProcessingContentOfTheField" BY <1>3, ContentKeeps DEF U!Process
<1>4. QED BY <1>1, <1>2, <1>3 DEF Collected

-----------------------------------------------------------------------------
(* An upload is in hand from its body to the end of upload(): the files it *)
(* opened are of objects that were written, and the form is filled when    *)
(* all of the body is parsed.                                              *)
InHand(u) ==
  /\ Collected(u.parser)
  /\ \A id \in DOMAIN u.opened : id \in DOMAIN u.parser.objects /\ u.parser.objects[id].written = TRUE
  /\ u.found # 0 => U!ToStore(u) # {}
  /\ DOMAIN u.form \subseteq DOMAIN u.parser.fields
  /\ DOMAIN u.form # {} => U!Parsed(u)

UploadOk(u) ==
  /\ DOMAIN u = {"pc", "body", "id", "parser", "found", "opened", "form"}
  /\ u.pc = "store" => InHand(u)

(* What was opened and has no name yet.                                    *)
Pending(u) == {id \in DOMAIN u.opened : \A name \in DOMAIN u.form : u.parser.fields[name] # id}

(* The names are different ones, and under each is what was written.       *)
Owns(u, f) ==
  /\ \A i, j \in DOMAIN u.opened : u.opened[i] = u.opened[j] => i = j
  /\ u.found # 0 => \A i \in DOMAIN u.opened : u.opened[i] # u.found
  /\ \A id \in Pending(u) : /\ U!Temp(u.opened[id]) \in DOMAIN f
                            /\ f[U!Temp(u.opened[id])] = u.parser.objects[id].content

(* Two uploads that took one name know of each other.                      *)
SharersAreKnown ==
  \A s, t \in Servers :
    (s # t /\ up[s].pc = "store" /\ up[t].pc = "store") =>
      \A i \in DOMAIN up[s].opened, j \in DOMAIN up[t].opened :
        up[s].opened[i] = up[t].opened[j] => up[s].id \in shared /\ up[t].id \in shared

(* One that is alone with its names has its files.                         *)
OthersOwn == \A s \in Servers : (up[s].pc = "store" /\ up[s].id \notin shared) => Owns(up[s], files)

(* A temporary file is one that an upload in hand made, or nobody has to   *)
(* remove it.                                                              *)
HasFile(u, path) == u.pc = "store" /\ \E id \in DOMAIN u.opened : path = U!Temp(u.opened[id])
TempsAreInHand ==
  \A path \in DOMAIN files : path.temp => path \in left \/ \E s \in Servers : HasFile(up[s], path)

NamesAreTargets == \A n \in named : n.path = U!Target(n.filename, n.second)

UploadInv ==
  /\ DOMAIN up = Servers
  /\ \A s \in Servers : UploadOk(up[s])
  /\ IsFiniteSet(DOMAIN files)
  /\ SharersAreKnown
  /\ OthersOwn
  /\ TempsAreInHand
  /\ NamesAreTargets
  /\ U!UploadsAreKept

LEMMA UploadsAtFirst == U!Init => UploadInv
<1> SUFFICES ASSUME U!Init PROVE UploadInv OBVIOUS
<1>1. /\ DOMAIN files = {} /\ named = {} /\ DOMAIN up = Servers /\ \A s \in Servers : up[s] = U!Idle
  BY DEF U!Init
<1>2. DOMAIN U!Idle = {"pc", "body", "id", "parser", "found", "opened", "form"} /\ U!Idle.pc = "idle"
  BY DEF U!Idle
<1>3. IsFiniteSet(DOMAIN files) BY <1>1, FS_EmptySet
<1>4. QED
  BY <1>1, <1>2, <1>3 DEF UploadInv, UploadOk, SharersAreKnown, OthersOwn, TempsAreInHand, NamesAreTargets,
     U!UploadsAreKept

LEMMA UploadsAreEnough == UploadInv => U!FilesAreAccountedFor
<1>1. SUFFICES ASSUME UploadInv, U!Busy = {}
               PROVE  \A path \in DOMAIN files : path.temp => path \in left
  BY DEF UploadInv, U!FilesAreAccountedFor, U!TempFilesAreRemoved
<1>2. \A s \in Servers : up[s].pc # "store" BY <1>1 DEF U!Busy
<1>3. QED BY <1>1, <1>2 DEF UploadInv, TempsAreInHand, HasFile

(* A step of one upload that touches no file.                              *)
LEMMA UploadMoves ==
  ASSUME UploadInv, NEW s \in Servers, DOMAIN up' = Servers, \A t \in Servers \ {s} : up'[t] = up[t],
         UNCHANGED <<files, shared, named>>, left \subseteq left',
         UploadOk(up'[s]),
         up'[s].pc = "store" =>
           \/ DOMAIN up'[s].opened = {} /\ up'[s].found = 0
           \/ /\ up[s].pc = "store" /\ up'[s].id = up[s].id /\ up'[s].opened = up[s].opened
              /\ up[s].id \notin shared => Owns(up'[s], files),
         up[s].pc = "store" =>
           \/ \A id \in DOMAIN up[s].opened : U!Temp(up[s].opened[id]) \in left'
           \/ up'[s].pc = "store" /\ up'[s].opened = up[s].opened
  PROVE  UploadInv'
<1>1. \A t \in Servers : UploadOk(up'[t]) BY DEF UploadInv
<1>2. SharersAreKnown'
  <2> SUFFICES ASSUME NEW a \in Servers, NEW b \in Servers, a # b, up'[a].pc = "store", up'[b].pc = "store",
                      NEW i \in DOMAIN up'[a].opened, NEW j \in DOMAIN up'[b].opened,
                      up'[a].opened[i] = up'[b].opened[j]
               PROVE  up'[a].id \in shared /\ up'[b].id \in shared
    BY DEF SharersAreKnown
  <2>1. \A t \in {a, b} : up[t].pc = "store" /\ up'[t].id = up[t].id /\ up'[t].opened = up[t].opened
    OBVIOUS
  <2>2. QED BY <2>1 DEF UploadInv, SharersAreKnown
<1>3. OthersOwn'
  <2> SUFFICES ASSUME NEW t \in Servers, up'[t].pc = "store", up'[t].id \notin shared
               PROVE  Owns(up'[t], files)
    BY DEF OthersOwn
  <2>1. CASE t # s BY <2>1 DEF UploadInv, OthersOwn
  <2>2. CASE DOMAIN up'[t].opened = {} /\ up'[t].found = 0 BY <2>2 DEF Owns, Pending
  <2>3. QED BY <2>1, <2>2
<1>4. TempsAreInHand'
  <2> SUFFICES ASSUME NEW path \in DOMAIN files, path.temp
               PROVE  path \in left' \/ \E t \in Servers : HasFile(up'[t], path)
    BY DEF TempsAreInHand
  <2>1. CASE path \in left BY <2>1
  <2>2. ASSUME NEW t \in Servers, HasFile(up[t], path)
        PROVE  path \in left' \/ HasFile(up'[t], path)
    <3>1. CASE t # s BY <2>2, <3>1
    <3>2. CASE t = s BY <2>2, <3>2 DEF HasFile
    <3>3. QED BY <3>1, <3>2
  <2>3. QED BY <2>1, <2>2 DEF UploadInv, TempsAreInHand
<1>5. NamesAreTargets' /\ (U!UploadsAreKept)' /\ IsFiniteSet(DOMAIN files')
  BY DEF UploadInv, NamesAreTargets, U!UploadsAreKept
<1>6. QED BY <1>1, <1>2, <1>3, <1>4, <1>5 DEF UploadInv

LEMMA BeginKeeps ==
  ASSUME UploadInv, NEW s \in Servers, U!Begin(s) PROVE UploadInv'
<1>1. PICK body \in Bodies :
        up' = [up EXCEPT ![s] = [U!Idle EXCEPT !.pc = "store", !.body = body, !.id = serial',
                                               !.parser = U!Fresh(U!Arrived(body))]]
  BY DEF U!Begin
<1> DEFINE u == [U!Idle EXCEPT !.pc = "store", !.body = body, !.id = serial', !.parser = U!Fresh(U!Arrived(body))]
<1>2. /\ DOMAIN up' = Servers /\ up'[s] = u /\ \A t \in Servers \ {s} : up'[t] = up[t]
      /\ UNCHANGED <<files, shared, named, left>> /\ up[s].pc # "store"
  BY <1>1 DEF UploadInv, U!Begin
<1>3. /\ DOMAIN u = {"pc", "body", "id", "parser", "found", "opened", "form"}
      /\ u.parser = U!Fresh(U!Arrived(body)) /\ u.found = 0 /\ DOMAIN u.opened = {} /\ DOMAIN u.form = {}
  BY DEF U!Idle
<1> HIDE DEF u
<1>4. UploadOk(u) BY <1>3, FreshIsCollected DEF UploadOk, InHand
<1>5. QED BY <1>2, <1>3, <1>4, UploadMoves

LEMMA HandledKeeps ==
  ASSUME UploadInv, NEW s \in Servers, U!Handled(s) PROVE UploadInv'
<1>1. /\ DOMAIN up' = Servers /\ up'[s] = U!Idle /\ \A t \in Servers \ {s} : up'[t] = up[t]
      /\ UNCHANGED <<files, shared, named, left>> /\ up[s].pc # "store"
  BY DEF UploadInv, U!Handled
<1>2. DOMAIN U!Idle = {"pc", "body", "id", "parser", "found", "opened", "form"} /\ U!Idle.pc # "store"
  BY DEF U!Idle
<1>3. QED BY <1>1, <1>2, UploadMoves DEF UploadOk

LEMMA DieKeeps ==
  ASSUME UploadInv, NEW s \in Servers, U!Die(s) PROVE UploadInv'
<1>1. /\ DOMAIN up' = Servers /\ up'[s] = [up[s] EXCEPT !.pc = "dead"] /\ \A t \in Servers \ {s} : up'[t] = up[t]
      /\ UNCHANGED <<files, shared, named>>
      /\ left' = left \cup {U!Temp(up[s].opened[id]) : id \in DOMAIN up[s].opened}
  BY DEF UploadInv, U!Die
<1>2. DOMAIN up[s] = {"pc", "body", "id", "parser", "found", "opened", "form"}
  BY DEF UploadInv, UploadOk
<1>3. up'[s].pc = "dead" /\ DOMAIN up'[s] = DOMAIN up[s] BY <1>1, <1>2
<1>4. UploadOk(up'[s]) BY <1>2, <1>3 DEF UploadOk
<1>5. QED BY <1>1, <1>3, <1>4, UploadMoves

LEMMA ParseKeeps ==
  ASSUME UploadInv, NEW s \in Servers, U!Parse(s) PROVE UploadInv'
<1> DEFINE u == up[s]
           v == [u EXCEPT !.parser = U!Process(u.parser)]
<1>1. /\ DOMAIN up' = Servers /\ up'[s] = v /\ \A t \in Servers \ {s} : up'[t] = up[t]
      /\ UNCHANGED <<files, shared, named, left>>
      /\ u.pc = "store" /\ U!ToStore(u) = {} /\ u.parser.repeat
  BY DEF UploadInv, U!Parse
<1>2. UploadOk(u) /\ InHand(u) BY <1>1 DEF UploadInv, UploadOk
<1>3. /\ DOMAIN v = DOMAIN u /\ v.parser = U!Process(u.parser) /\ v.pc = u.pc /\ v.id = u.id
      /\ v.found = u.found /\ v.opened = u.opened /\ v.form = u.form
  BY <1>2 DEF UploadOk
<1>4. u.parser.repeat = TRUE /\ u.found = 0 /\ DOMAIN u.form = {}
  BY <1>1, <1>2 DEF InHand, Collected, U!Parsed
<1>5. Collected(v.parser) /\ Continued(u.parser, v.parser)
  BY <1>2, <1>3, <1>4, ProcessKeeps DEF InHand
<1> HIDE DEF v, u
<1>6. \A id \in DOMAIN v.opened :
        /\ id \in DOMAIN v.parser.objects /\ v.parser.objects[id] = u.parser.objects[id]
        /\ v.parser.objects[id].written = TRUE
  BY <1>2, <1>3, <1>5 DEF InHand, Continued
<1>7. UploadOk(v) BY <1>2, <1>3, <1>4, <1>5, <1>6 DEF UploadOk, InHand
<1>8. ASSUME u.id \notin shared PROVE Owns(v, files)
  <2>1. Owns(u, files) BY <1>1, <1>8 DEF UploadInv, OthersOwn, u
  <2>2. Pending(v) = DOMAIN u.opened /\ Pending(u) = DOMAIN u.opened BY <1>3, <1>4 DEF Pending
  <2>3. QED BY <1>3, <1>6, <2>1, <2>2 DEF Owns
<1>9. QED BY <1>1, <1>3, <1>7, <1>8, UploadMoves DEF u

-----------------------------------------------------------------------------
(* Temporary names *)

LEMMA LeastIs ==
  ASSUME NEW S, S \subseteq Nat, S # {}
  PROVE  U!First(S) \in S /\ \A i \in S : U!First(S) <= i
<1>1. PICK x \in S : \A y \in S : <<y, x>> \notin OpToRel(<, Nat)
  BY NatLessThanWellFounded, WFMin
<1>2. \A y \in S : ~(y < x) BY <1>1 DEF OpToRel
<1>3. \E i \in S : \A j \in S : i <= j BY <1>2
<1>4. QED BY <1>3, Zenon DEF U!First

LEMMA TempsDiffer ==
  \A i, j, f, n : /\ (U!Temp(i) = U!Temp(j) => i = j)
                  /\ U!Temp(i) # U!Target(f, n)
                  /\ U!Temp(i).temp /\ ~U!Target(f, n).temp
BY DEF U!Temp, U!Target

LEMMA SameTargets ==
  \A f, g, m, n : U!Target(f, m) = U!Target(g, n) => f = g /\ m = n
BY DEF U!Target

LEMMA SameCardinality == \A S : U!Cardinality(S) = Cardinality(S)
BY DEF U!Cardinality, Cardinality, U!IsFiniteSet, IsFiniteSet

(* Among one name more than there are files is one that no file has.       *)
LEMMA ProbeFinds ==
  ASSUME NEW F, IsFiniteSet(F)
  PROVE  LET i == CHOOSE i \in 1 .. Cardinality(F) + 1 :
                    U!Temp(i) \notin F /\ \A j \in 1 .. i - 1 : U!Temp(j) \in F
         IN U!Temp(i) \notin F
<1> DEFINE n == Cardinality(F) + 1
           free == {i \in 1 .. n : U!Temp(i) \notin F}
<1>1. Cardinality(F) \in Nat BY FS_CardinalityType
<1>2. free # {}
  <2>1. SUFFICES ASSUME free = {} PROVE FALSE OBVIOUS
  <2> DEFINE f == [i \in 1 .. n |-> U!Temp(i)]
  <2>2. f \in [1 .. n -> F] BY <2>1
  <2>3. IsFiniteSet(1 .. n) /\ Cardinality(1 .. n) = n BY <1>1, FS_Interval
  <2>4. PICK x, y \in 1 .. n : x # y /\ f[x] = f[y]
    <3> HIDE DEF f
    <3>1. Cardinality(F) < Cardinality(1 .. n) BY <1>1, <2>3
    <3>2. QED BY <2>2, <2>3, <3>1, FS_PigeonHole
  <2>5. QED BY <2>4, TempsDiffer
<1>3. U!First(free) \in free /\ \A i \in free : U!First(free) <= i BY <1>2, LeastIs
<1>4. \A j \in 1 .. U!First(free) - 1 : U!Temp(j) \in F BY <1>1, <1>3
<1>5. \E i \in 1 .. n : U!Temp(i) \notin F /\ \A j \in 1 .. i - 1 : U!Temp(j) \in F BY <1>3, <1>4
<1>6. QED BY <1>5

LEMMA ProbeKeeps ==
  ASSUME UploadInv, NEW s \in Servers, U!Probe(s) PROVE UploadInv'
<1> DEFINE u == up[s]
           i == CHOOSE i \in 1 .. Cardinality(DOMAIN files) + 1 :
                  U!Temp(i) \notin DOMAIN files /\ \A j \in 1 .. i - 1 : U!Temp(j) \in DOMAIN files
           v == [u EXCEPT !.found = i]
<1>1. U!Temp(i) \notin DOMAIN files
  <2>1. IsFiniteSet(DOMAIN files) BY DEF UploadInv
  <2>2. QED BY <2>1, ProbeFinds
<1>2. /\ DOMAIN up' = Servers /\ up'[s] = v /\ \A t \in Servers \ {s} : up'[t] = up[t]
      /\ UNCHANGED <<files, shared, named, left>>
      /\ u.pc = "store" /\ U!ToStore(u) # {}
  BY SameCardinality DEF UploadInv, U!Probe
<1> HIDE DEF i
<1>3. UploadOk(u) /\ InHand(u) BY <1>2 DEF UploadInv, UploadOk
<1>4. /\ DOMAIN v = DOMAIN u /\ v.parser = u.parser /\ v.pc = u.pc /\ v.id = u.id
      /\ v.found = i /\ v.opened = u.opened /\ v.form = u.form
  BY <1>3 DEF UploadOk
<1> HIDE DEF v, u
<1>5. U!ToStore(v) = U!ToStore(u) /\ DOMAIN u.form = {} BY <1>2, <1>3, <1>4 DEF InHand, U!ToStore, U!Parsed
<1>6. UploadOk(v) BY <1>2, <1>3, <1>4, <1>5 DEF UploadOk, InHand
<1>7. ASSUME u.id \notin shared PROVE Owns(v, files)
  <2>1. Owns(u, files) BY <1>2, <1>7 DEF UploadInv, OthersOwn, u
  <2>2. Pending(u) = DOMAIN u.opened /\ Pending(v) = DOMAIN u.opened BY <1>4, <1>5 DEF Pending
  <2>3. QED BY <1>1, <1>4, <2>1, <2>2 DEF Owns
<1>8. QED BY <1>2, <1>4, <1>6, <1>7, UploadMoves DEF u

-----------------------------------------------------------------------------
(* Steps that make, rename or remove files *)

(* A target stays what it is, where only other paths are written.          *)
LEMMA TargetsAreKept ==
  ASSUME UploadInv, named' = named, shared \subseteq shared',
         \A path \in DOMAIN files : ~path.temp => path \in DOMAIN files' /\ files'[path] = files[path]
  PROVE  NamesAreTargets' /\ (U!UploadsAreKept)'
<1>1. \A n \in named : ~n.path.temp BY TempsDiffer DEF UploadInv, NamesAreTargets
<1>2. QED BY <1>1 DEF UploadInv, NamesAreTargets, U!UploadsAreKept

LEMMA StoreKeeps ==
  ASSUME UploadInv, NEW s \in Servers, U!Store(s) PROVE UploadInv'
<1> DEFINE u == up[s]
           i == u.found
           id == U!First(U!ToStore(u))
           content == u.parser.objects[id].content
           v == [u EXCEPT !.opened = U!With(u.opened, id, i), !.found = 0]
           holders == {t \in Servers \ {s} : up[t].pc = "store" /\ u.found \in U!Range(up[t].opened)}
<1>1. /\ DOMAIN up' = Servers /\ up'[s] = v /\ \A t \in Servers \ {s} : up'[t] = up[t]
      /\ files' = U!With(files, U!Temp(i), content)
      /\ shared' = shared \cup {up[t].id : t \in IF holders = {} THEN {} ELSE holders \cup {s}}
      /\ UNCHANGED <<named, left>>
      /\ u.pc = "store" /\ i # 0
  BY DEF UploadInv, U!Store
<1>2. UploadOk(u) /\ InHand(u) BY <1>1 DEF UploadInv, UploadOk
<1>3. id \in U!ToStore(u)
  <2>1. PICK S : u.parser.objects \in Seq(S) BY <1>2 DEF InHand, Collected
  <2>2. DOMAIN u.parser.objects \subseteq Nat BY <2>1
  <2>3. U!ToStore(u) # {} /\ U!ToStore(u) \subseteq Nat BY <1>1, <1>2, <2>2 DEF InHand, U!ToStore
  <2> HIDE DEF u
  <2>4. QED BY <2>3, LeastIs
<1>4. /\ id \notin DOMAIN u.opened /\ id \in DOMAIN u.parser.objects
      /\ u.parser.objects[id].written = TRUE /\ DOMAIN u.form = {}
  BY <1>2, <1>3 DEF U!ToStore, U!Parsed, InHand, Collected, IsObject
<1>5. /\ DOMAIN v = DOMAIN u /\ v.parser = u.parser /\ v.pc = "store" /\ v.id = u.id
      /\ v.found = 0 /\ v.form = u.form /\ v.opened = U!With(u.opened, id, i)
  BY <1>1, <1>2 DEF UploadOk
<1>6. /\ DOMAIN v.opened = DOMAIN u.opened \cup {id} /\ v.opened[id] = i
      /\ \A k \in DOMAIN u.opened : v.opened[k] = u.opened[k]
  BY <1>4, <1>5 DEF U!With
<1>7. /\ \A t \in Servers \ {s} : (up[t].pc = "store" /\ \E k \in DOMAIN up[t].opened : up[t].opened[k] = i) =>
            up[t].id \in shared' /\ u.id \in shared'
      /\ shared \subseteq shared'
  <2>1. \A t \in Servers \ {s} :
          (up[t].pc = "store" /\ \E k \in DOMAIN up[t].opened : up[t].opened[k] = i) => t \in holders
    BY DEF U!Range
  <2> HIDE DEF holders
  <2>2. QED BY <1>1, <2>1
<1>8. /\ DOMAIN files' = DOMAIN files \cup {U!Temp(i)} /\ files'[U!Temp(i)] = content
      /\ \A path \in DOMAIN files : path # U!Temp(i) => files'[path] = files[path]
  BY <1>1 DEF U!With
<1> HIDE DEF i, id, v, holders
<1>9. UploadOk(v) BY <1>2, <1>4, <1>5, <1>6 DEF UploadOk, InHand
<1>10. SharersAreKnown'
  <2>1. ASSUME NEW t \in Servers, t # s, up[t].pc = "store",
               NEW j \in DOMAIN v.opened, NEW k \in DOMAIN up[t].opened, v.opened[j] = up[t].opened[k]
        PROVE  v.id \in shared' /\ up[t].id \in shared'
    <3>1. CASE j = id BY <1>5, <1>6, <1>7, <2>1, <3>1
    <3>2. CASE j \in DOMAIN u.opened
      <4>1. u.id \in shared /\ up[t].id \in shared
        BY <1>1, <1>6, <2>1, <3>2 DEF UploadInv, SharersAreKnown
      <4>2. QED BY <1>5, <1>7, <4>1
    <3>3. QED BY <1>6, <3>1, <3>2
  <2>2. ASSUME NEW a \in Servers, NEW b \in Servers, a # b, a # s, b # s, up[a].pc = "store", up[b].pc = "store",
               NEW j \in DOMAIN up[a].opened, NEW k \in DOMAIN up[b].opened, up[a].opened[j] = up[b].opened[k]
        PROVE  up[a].id \in shared' /\ up[b].id \in shared'
    BY <1>7, <2>2 DEF UploadInv, SharersAreKnown
  <2> SUFFICES ASSUME NEW a \in Servers, NEW b \in Servers, a # b, up'[a].pc = "store", up'[b].pc = "store",
                      NEW j \in DOMAIN up'[a].opened, NEW k \in DOMAIN up'[b].opened,
                      up'[a].opened[j] = up'[b].opened[k]
               PROVE  up'[a].id \in shared' /\ up'[b].id \in shared'
    BY DEF SharersAreKnown
  <2>3. CASE a = s BY <1>1, <2>1, <2>3
  <2>4. CASE b = s BY <1>1, <2>1, <2>4
  <2>5. CASE a # s /\ b # s BY <1>1, <2>2, <2>5
  <2>6. QED BY <2>3, <2>4, <2>5
<1>11. OthersOwn'
  <2> SUFFICES ASSUME NEW t \in Servers, up'[t].pc = "store", up'[t].id \notin shared' PROVE Owns(up'[t], files')
    BY DEF OthersOwn
  <2>1. CASE t # s
    <3>1. up'[t] = up[t] /\ Owns(up[t], files) BY <1>1, <1>7, <2>1 DEF UploadInv, OthersOwn
    <3>2. \A k \in DOMAIN up[t].opened : U!Temp(up[t].opened[k]) # U!Temp(i) BY <1>7, <2>1, <3>1, TempsDiffer
    <3>3. QED BY <1>8, <3>1, <3>2 DEF Owns, Pending
  <2>2. CASE t = s
    <3>1. Owns(u, files) BY <1>1, <1>5, <1>7, <2>2 DEF UploadInv, OthersOwn
    <3>2. Pending(u) = DOMAIN u.opened /\ Pending(v) = DOMAIN v.opened BY <1>4, <1>5 DEF Pending
    <3>3. \A k \in DOMAIN u.opened : u.opened[k] # i BY <1>1, <3>1 DEF Owns, i
    <3>4. \A k \in DOMAIN u.opened : /\ U!Temp(v.opened[k]) \in DOMAIN files'
                                     /\ files'[U!Temp(v.opened[k])] = v.parser.objects[k].content
      <4> SUFFICES ASSUME NEW k \in DOMAIN u.opened
                   PROVE  /\ U!Temp(v.opened[k]) \in DOMAIN files'
                          /\ files'[U!Temp(v.opened[k])] = v.parser.objects[k].content
        OBVIOUS
      <4>1. U!Temp(u.opened[k]) # U!Temp(i) BY <3>3, TempsDiffer
      <4>2. U!Temp(u.opened[k]) \in DOMAIN files /\ files[U!Temp(u.opened[k])] = u.parser.objects[k].content
        BY <3>1, <3>2 DEF Owns
      <4>3. QED BY <1>5, <1>6, <1>8, <4>1, <4>2
    <3>5. U!Temp(v.opened[id]) \in DOMAIN files' /\ files'[U!Temp(v.opened[id])] = v.parser.objects[id].content
      BY <1>5, <1>6, <1>8
    <3>6. \A j, k \in DOMAIN v.opened : v.opened[j] = v.opened[k] => j = k BY <1>6, <3>1, <3>3 DEF Owns
    <3>7. /\ v.found = 0 /\ Pending(v) = DOMAIN u.opened \cup {id}
          /\ \A k \in Pending(v) : /\ U!Temp(v.opened[k]) \in DOMAIN files'
                                   /\ files'[U!Temp(v.opened[k])] = v.parser.objects[k].content
      BY ONLY <1>5, <1>6, <3>2, <3>4, <3>5
    <3>8. Owns(v, files') BY ONLY <3>6, <3>7 DEF Owns
    <3>9. QED BY <1>1, <2>2, <3>8
  <2>3. QED BY <2>1, <2>2
<1>12. TempsAreInHand'
  <2> SUFFICES ASSUME NEW path \in DOMAIN files', path.temp
               PROVE  path \in left \/ \E t \in Servers : HasFile(up'[t], path)
    BY <1>1 DEF TempsAreInHand
  <2>1. CASE path = U!Temp(i) BY <1>1, <1>5, <1>6, <2>1 DEF HasFile
  <2>2. ASSUME NEW t \in Servers, HasFile(up[t], path) PROVE HasFile(up'[t], path)
    <3>1. CASE t = s BY <1>1, <1>5, <1>6, <2>2, <3>1 DEF HasFile
    <3>2. QED BY <1>1, <2>2, <3>1
  <2>3. QED BY <1>8, <2>1, <2>2 DEF UploadInv, TempsAreInHand
<1>13. NamesAreTargets' /\ (U!UploadsAreKept)'
  <2>1. \A path \in DOMAIN files : ~path.temp => path # U!Temp(i) BY TempsDiffer
  <2>2. QED BY <1>1, <1>7, <1>8, <2>1, TargetsAreKept
<1>14. IsFiniteSet(DOMAIN files') BY <1>8, FS_AddElement DEF UploadInv
<1>15. \A t \in Servers : UploadOk(up'[t]) BY <1>1, <1>9 DEF UploadInv
<1>16. QED BY <1>1, <1>10, <1>11, <1>12, <1>13, <1>14, <1>15 DEF UploadInv

(* Who is alone with its names does not mind what another does to its own. *)
LEMMA OthersUntouched ==
  ASSUME UploadInv, NEW s \in Servers, NEW t \in Servers, s # t,
         up[s].pc = "store", up[t].pc = "store", up[t].id \notin shared,
         NEW f, \A path \in DOMAIN files :
                  (path.temp /\ ~HasFile(up[s], path)) => path \in DOMAIN f /\ f[path] = files[path]
  PROVE  Owns(up[t], f)
<1>1. Owns(up[t], files) BY DEF UploadInv, OthersOwn
<1>2. \A k \in DOMAIN up[t].opened : ~HasFile(up[s], U!Temp(up[t].opened[k]))
  BY TempsDiffer DEF UploadInv, SharersAreKnown, HasFile
<1>3. QED BY <1>1, <1>2, TempsDiffer DEF Owns, Pending

(* Nobody takes a name in such a step: the pairs that share one stay.      *)
LEMMA SharersStay ==
  ASSUME UploadInv, shared \subseteq shared',
         \A t \in Servers : up'[t].pc = "store" =>
           up[t].pc = "store" /\ up'[t].id = up[t].id /\ up'[t].opened = up[t].opened
  PROVE  SharersAreKnown'
BY DEF UploadInv, SharersAreKnown

LEMMA DropKeeps ==
  ASSUME UploadInv, NEW s \in Servers, U!Drop(s) PROVE UploadInv'
<1> DEFINE u == up[s]
           removed == UNION {U!TempFile(u, name) : name \in U!Deleted(u)}
<1>1. /\ DOMAIN up' = Servers /\ up'[s] = [u EXCEPT !.pc = "handle"] /\ \A t \in Servers \ {s} : up'[t] = up[t]
      /\ files' = U!Without(files, removed)
      /\ left' = left \cup {U!Temp(u.opened[id]) : id \in DOMAIN u.opened \ U!Range(u.parser.fields)}
      /\ UNCHANGED <<shared, named>> /\ u.pc = "store"
  BY DEF UploadInv, U!Drop, U!Parsed
<1>2. UploadOk(u) BY DEF UploadInv
<1>3. up'[s].pc = "handle" /\ DOMAIN up'[s] = DOMAIN u BY <1>1, <1>2 DEF UploadOk
<1>4. \A t \in Servers : UploadOk(up'[t]) BY <1>1, <1>2, <1>3 DEF UploadInv, UploadOk
<1>5. /\ DOMAIN files' = DOMAIN files \ removed
      /\ \A path \in DOMAIN files \ removed : files'[path] = files[path]
  BY <1>1 DEF U!Without, U!Restrict
<1>6. \A path \in removed : path.temp /\ HasFile(u, path)
  BY <1>1, TempsDiffer DEF U!TempFile, U!Deleted, HasFile
<1>7. \A path : (HasFile(u, path) /\ path \notin left') => path \in removed
  <2> SUFFICES ASSUME NEW path, HasFile(u, path), path \notin left' PROVE path \in removed OBVIOUS
  <2>1. PICK id \in DOMAIN u.opened : path = U!Temp(u.opened[id]) BY DEF HasFile
  <2>2. id \in U!Range(u.parser.fields) BY <1>1, <2>1
  <2>3. PICK name \in DOMAIN u.parser.fields : u.parser.fields[name] = id BY <2>2 DEF U!Range
  <2>4. path \in U!TempFile(u, name) BY <2>1, <2>3 DEF U!TempFile
  <2>5. QED BY <2>4 DEF U!Deleted
<1> HIDE DEF removed
<1>8. SharersAreKnown' BY <1>1, <1>3, SharersStay
<1>9. OthersOwn'
  <2> SUFFICES ASSUME NEW t \in Servers, up'[t].pc = "store", up'[t].id \notin shared
               PROVE  Owns(up'[t], files')
    BY <1>1 DEF OthersOwn
  <2>1. t # s /\ up'[t] = up[t] BY <1>1, <1>3
  <2>2. QED BY <1>1, <1>5, <1>6, <2>1, OthersUntouched
<1>10. TempsAreInHand'
  <2> SUFFICES ASSUME NEW path \in DOMAIN files', path.temp
               PROVE  path \in left' \/ \E t \in Servers : HasFile(up'[t], path)
    BY DEF TempsAreInHand
  <2>1. path \in left \/ \E t \in Servers : HasFile(up[t], path) BY <1>5 DEF UploadInv, TempsAreInHand
  <2>2. CASE path \in left BY <1>1, <2>2
  <2>3. CASE HasFile(u, path) BY <1>5, <1>7, <2>3
  <2>4. ASSUME NEW t \in Servers \ {s}, HasFile(up[t], path) PROVE HasFile(up'[t], path) BY <1>1, <2>4
  <2>5. QED BY <2>1, <2>2, <2>3, <2>4
<1>11. NamesAreTargets' /\ (U!UploadsAreKept)' BY <1>1, <1>5, <1>6, TargetsAreKept
<1>12. IsFiniteSet(DOMAIN files') BY <1>5, FS_Subset DEF UploadInv
<1>13. QED BY <1>1, <1>4, <1>8, <1>9, <1>10, <1>11, <1>12 DEF UploadInv

(* What the form takes leaves all else of the upload as it is.             *)
LEMMA FormTakes ==
  ASSUME NEW u, UploadOk(u), U!Parsed(u), NEW name \in DOMAIN u.parser.fields \ DOMAIN u.form, NEW value
  PROVE  LET v == [u EXCEPT !.form = U!With(u.form, name, value)]
             id == u.parser.fields[name]
         IN /\ UploadOk(v) /\ v.pc = "store" /\ v.id = u.id /\ v.parser = u.parser
            /\ v.found = u.found /\ v.opened = u.opened
            /\ Pending(v) = Pending(u) \ {id}
            /\ id \in DOMAIN u.opened => id \in Pending(u)
<1> DEFINE v == [u EXCEPT !.form = U!With(u.form, name, value)]
           id == u.parser.fields[name]
<1>1. InHand(u) BY DEF UploadOk, U!Parsed
<1>2. /\ DOMAIN v = DOMAIN u /\ v.pc = u.pc /\ v.id = u.id /\ v.parser = u.parser
      /\ v.found = u.found /\ v.opened = u.opened /\ v.form = U!With(u.form, name, value)
  BY DEF UploadOk
<1> HIDE DEF v
<1>3. DOMAIN v.form = DOMAIN u.form \cup {name} BY <1>2 DEF U!With
<1>4. U!ToStore(v) = U!ToStore(u) BY <1>2 DEF U!ToStore
<1>5. UploadOk(v) BY <1>1, <1>2, <1>3, <1>4 DEF UploadOk, InHand, U!Parsed
<1>6. \A n \in DOMAIN u.form : u.parser.fields[n] # id BY <1>1 DEF InHand, Collected
<1>7. QED BY <1>2, <1>3, <1>5, <1>6 DEF Pending, U!Parsed, v

LEMMA TextKeeps ==
  ASSUME UploadInv, NEW s \in Servers, NEW name, U!Insert(s, name), ~U!ObjectOf(up[s], name).file
  PROVE  UploadInv'
<1> DEFINE u == up[s]
           v == [u EXCEPT !.form = U!With(u.form, name, U!ObjectOf(u, name).content)]
<1>1. /\ DOMAIN up' = Servers /\ up'[s] = v /\ \A t \in Servers \ {s} : up'[t] = up[t]
      /\ UNCHANGED <<files, shared, named, left>>
      /\ U!Parsed(u) /\ name \in DOMAIN u.parser.fields \ DOMAIN u.form
  BY DEF UploadInv, U!Insert
<1>2. UploadOk(u) BY DEF UploadInv
<1> HIDE DEF u
<1>3. /\ UploadOk(v) /\ v.pc = "store" /\ v.id = u.id /\ v.parser = u.parser
      /\ v.found = u.found /\ v.opened = u.opened /\ Pending(v) \subseteq Pending(u)
  BY <1>1, <1>2, FormTakes
<1> HIDE DEF v
<1>4. u.pc = "store" BY <1>1 DEF U!Parsed
<1>5. ASSUME u.id \notin shared PROVE Owns(v, files)
  <2>1. Owns(u, files) BY <1>4, <1>5 DEF UploadInv, OthersOwn, u
  <2>2. QED BY <1>3, <2>1 DEF Owns
<1>6. QED BY <1>1, <1>3, <1>4, <1>5, UploadMoves DEF u

LEMMA FileKeeps ==
  ASSUME UploadInv, NEW s \in Servers, NEW name, U!Insert(s, name), U!ObjectOf(up[s], name).file
  PROVE  UploadInv'
<1> DEFINE u == up[s]
           id == u.parser.fields[name]
           object == u.parser.objects[id]
           path == U!Target(object.filename, now)
           there == U!TempFile(u, name) \cap DOMAIN files
           v == [u EXCEPT !.form = U!With(u.form, name, path)]
           new == [by |-> u.id, name |-> name, filename |-> object.filename,
                   second |-> now, path |-> path, content |-> object.content]
<1>1. /\ DOMAIN up' = Servers /\ up'[s] = v /\ \A t \in Servers \ {s} : up'[t] = up[t]
      /\ files' = IF there = {} THEN files
                  ELSE U!With(U!Without(files, there), path, files[CHOOSE temp \in there : TRUE])
      /\ named' = named \cup {new}
      /\ UNCHANGED <<shared, left>>
      /\ U!Parsed(u) /\ name \in DOMAIN u.parser.fields \ DOMAIN u.form
  BY DEF UploadInv, U!Insert, U!ObjectOf
<1>2. UploadOk(u) /\ u.pc = "store" /\ U!ToStore(u) = {} BY <1>1 DEF UploadInv, U!Parsed
<1>3. InHand(u) BY <1>2 DEF UploadOk
<1>4. /\ UploadOk(v) /\ v.pc = "store" /\ v.id = u.id /\ v.parser = u.parser
      /\ v.found = u.found /\ v.opened = u.opened
      /\ Pending(v) = Pending(u) \ {id}
      /\ id \in DOMAIN u.opened => id \in Pending(u)
  <2> HIDE DEF u, path
  <2>1. QED BY <1>1, <1>2, FormTakes
<1>5. new.path = path /\ new.filename = object.filename /\ new.second = now /\ new.by = u.id /\ new.content = object.content
  OBVIOUS
<1>6. object.content # <<>> => id \in DOMAIN u.opened
  <2>1. id \in DOMAIN u.parser.objects /\ IsObject(object) BY <1>1, <1>3 DEF InHand, Collected
  <2>2. object.file BY DEF U!ObjectOf
  <2>3. QED BY <1>2, <2>1, <2>2 DEF U!ToStore, IsObject
<1>7. /\ id \notin DOMAIN u.opened => there = {}
      /\ id \in DOMAIN u.opened => there = {U!Temp(u.opened[id])} \cap DOMAIN files
  BY DEF U!TempFile
<1>8. \A p \in there : p.temp /\ HasFile(u, p) BY <1>2, <1>7, TempsDiffer DEF HasFile
<1>9. /\ DOMAIN files' \subseteq DOMAIN files \cup {path}
      /\ DOMAIN files \ there \subseteq DOMAIN files'
      /\ \A p \in DOMAIN files \ there : p # path => files'[p] = files[p]
      /\ there = {} => files' = files
      /\ there # {} => path \in DOMAIN files' /\ files'[path] = files[CHOOSE temp \in there : TRUE]
  <2>1. CASE there = {} BY <1>1, <2>1
  <2>2. CASE there # {}
    <3> HIDE DEF path, there
    <3>1. QED BY <1>1, <2>2 DEF U!With, U!Without, U!Restrict
  <2>3. QED BY <2>1, <2>2
<1>10. ~path.temp /\ \A i : path # U!Temp(i) BY TempsDiffer
<1> HIDE DEF v, new
<1>11. \A t \in Servers : UploadOk(up'[t]) BY <1>1, <1>4 DEF UploadInv
<1>12. SharersAreKnown' BY <1>1, <1>2, <1>4, SharersStay
<1>13. OthersOwn'
  <2> SUFFICES ASSUME NEW t \in Servers, up'[t].pc = "store", up'[t].id \notin shared
               PROVE  Owns(up'[t], files')
    BY <1>1 DEF OthersOwn
  <2> HIDE DEF path, there, object
  <2>1. CASE t # s
    <3>1. \A p \in DOMAIN files : (p.temp /\ ~HasFile(u, p)) => p \in DOMAIN files' /\ files'[p] = files[p]
      BY <1>8, <1>9, <1>10
    <3>2. QED BY <1>1, <1>2, <2>1, <3>1, OthersUntouched
  <2>2. CASE t = s
    <3>1. Owns(u, files) BY <1>1, <1>2, <1>4, <2>2 DEF UploadInv, OthersOwn
    <3>2. \A k \in Pending(v) : U!Temp(u.opened[k]) \notin there
      BY <1>4, <1>7, <3>1, TempsDiffer DEF Owns, Pending
    <3>3. \A k \in Pending(v) : /\ U!Temp(v.opened[k]) \in DOMAIN files'
                                /\ files'[U!Temp(v.opened[k])] = v.parser.objects[k].content
      BY <1>4, <1>9, <1>10, <3>1, <3>2 DEF Owns
    <3>4. QED BY <1>1, <1>4, <2>2, <3>1, <3>3 DEF Owns
  <2>3. QED BY <2>1, <2>2
<1>14. TempsAreInHand'
  <2> SUFFICES ASSUME NEW p \in DOMAIN files', p.temp
               PROVE  p \in left \/ \E t \in Servers : HasFile(up'[t], p)
    BY <1>1 DEF TempsAreInHand
  <2>1. p \in DOMAIN files BY <1>9, <1>10
  <2>2. ASSUME NEW t \in Servers, HasFile(up[t], p) PROVE HasFile(up'[t], p)
    <3>1. CASE t = s BY <1>1, <1>4, <2>2, <3>1 DEF HasFile
    <3>2. QED BY <1>1, <2>2, <3>1
  <2>3. QED BY <2>1, <2>2 DEF UploadInv, TempsAreInHand
<1>15. NamesAreTargets' BY <1>1, <1>5 DEF UploadInv, NamesAreTargets
<1>16. (U!UploadsAreKept)'
  <2> SUFFICES ASSUME NEW n \in named', n.content # <<>>, n.by \notin shared,
                      \A m \in named' : m.filename = n.filename /\ m.second = n.second => m = n
               PROVE  n.path \in DOMAIN files' /\ files'[n.path] = n.content
    BY <1>1 DEF U!UploadsAreKept
  <2>1. CASE n = new
    <3>1. id \in Pending(u) /\ Owns(u, files) BY <1>2, <1>4, <1>5, <1>6, <2>1 DEF UploadInv, OthersOwn
    <3>2. U!Temp(u.opened[id]) \in DOMAIN files /\ files[U!Temp(u.opened[id])] = object.content BY <3>1 DEF Owns
    <3>3. there = {U!Temp(u.opened[id])} BY <1>7, <3>1, <3>2 DEF Pending
    <3> HIDE DEF there, path, object
    <3>4. QED BY <1>5, <1>9, <2>1, <3>2, <3>3
  <2>2. CASE n # new
    <3>1. n \in named /\ n.path = U!Target(n.filename, n.second) BY <1>1, <2>2 DEF UploadInv, NamesAreTargets
    <3>2. n.path # path
      <4>1. ~(new.filename = n.filename /\ new.second = n.second) BY <1>1, <2>2
      <4>2. QED BY <1>5, <3>1, <4>1, SameTargets
    <3>3. n.path \in DOMAIN files /\ files[n.path] = n.content BY <1>1, <3>1 DEF UploadInv, U!UploadsAreKept
    <3>4. n.path \notin there BY <1>8, <3>1, TempsDiffer
    <3> HIDE DEF there, path
    <3>5. QED BY <1>9, <3>2, <3>3, <3>4
  <2>3. QED BY <2>1, <2>2
<1>17. IsFiniteSet(DOMAIN files')
  <2>1. IsFiniteSet(DOMAIN files \cup {path}) BY FS_AddElement DEF UploadInv
  <2>2. QED BY <1>9, <2>1, FS_Subset
<1>18. QED BY <1>1, <1>11, <1>12, <1>13, <1>14, <1>15, <1>16, <1>17 DEF UploadInv

LEMMA UploadsKeep == UploadInv /\ [U!Next]_U!vars => UploadInv'
<1> SUFFICES ASSUME UploadInv, [U!Next]_U!vars PROVE UploadInv' OBVIOUS
<1>1. CASE U!Tick \/ UNCHANGED U!vars
  <2>1. UNCHANGED <<files, up, shared, named, left>> BY <1>1 DEF U!Tick, U!vars
  <2>2. QED BY <2>1 DEF UploadInv, SharersAreKnown, OthersOwn, TempsAreInHand, NamesAreTargets, U!UploadsAreKept
<1>2. ASSUME NEW s \in Servers,
             \/ U!Begin(s) \/ U!Parse(s) \/ U!Probe(s) \/ U!Store(s) \/ U!Drop(s) \/ U!Die(s) \/ U!Handled(s)
      PROVE  UploadInv'
  BY <1>2, BeginKeeps, ParseKeeps, ProbeKeeps, StoreKeeps, DropKeeps, DieKeeps, HandledKeeps
<1>3. ASSUME NEW s \in Servers, NEW name, U!Insert(s, name) PROVE UploadInv'
  BY <1>3, TextKeeps, FileKeeps
<1>4. QED BY <1>1, <1>2, <1>3 DEF U!Next

(* Whatever bodies clients send, however they are cut, and however many servers share
   the directory temp/: an uploaded file keeps the content that was sent once it has
   its name, unless the same file name is uploaded within the same second or another
   server took the same temporary name in between; and while nobody is in upload(), no
   temporary file is left but by a name that came twice and by a process that died. *)
THEOREM FilesStayAccountedFor == U!Spec => []U!FilesAreAccountedFor
<1>1. U!Init => UploadInv BY UploadsAtFirst
<1>2. UploadInv /\ [U!Next]_U!vars => UploadInv' BY UploadsKeep
<1>3. UploadInv => U!FilesAreAccountedFor BY UploadsAreEnough
<1>4. QED BY <1>1, <1>2, <1>3, PTL DEF U!Spec

-----------------------------------------------------------------------------
(* THE CACHE IN MEMORY *)

Distinct(list) == \A i, j \in DOMAIN list : list[i] = list[j] => i = j
Members(list) == {list[i] : i \in DOMAIN list}

(* List and map are two indexes of the same nodes: each node is in the     *)
(* list once, and the map has its key, and nothing else.                   *)
Indexed(list, contents, map) ==
  /\ list \in Seq(Node) /\ Distinct(list)
  /\ DOMAIN contents = Members(list)
  /\ \A n \in DOMAIN contents :
       /\ contents[n] \in [key : Key, value : Value]
       /\ contents[n].key \in DOMAIN map /\ map[contents[n].key] = n
  /\ \A k \in DOMAIN map : map[k] \in DOMAIN contents /\ contents[map[k]].key = k

IndexInv == Indexed(keys_, node, cache_)

(* The order and the table that a user of the cache sees.                  *)
Order == [i \in DOMAIN keys_ |-> node[keys_[i]].key]
Entries == [k \in DOMAIN cache_ |-> node[cache_[k]].value]

-----------------------------------------------------------------------------
(* Lists *)

LEMMA RemoveAtFacts ==
  ASSUME NEW S, NEW s \in Seq(S), NEW i \in 1 .. Len(s)
  PROVE  /\ RemoveAt(s, i) \in Seq(S)
         /\ Len(s) \in Nat /\ Len(RemoveAt(s, i)) = Len(s) - 1
         /\ \A j \in 1 .. Len(s) - 1 : RemoveAt(s, i)[j] = IF j < i THEN s[j] ELSE s[j + 1]
<1> DEFINE front == SubSeq(s, 1, i - 1)
           back == SubSeq(s, i + 1, Len(s))
<1>1. Len(s) \in Nat /\ i \in Nat /\ 1 <= i /\ i <= Len(s) /\ \A j \in 1 .. Len(s) : s[j] \in S
  BY LenProperties
<1>2. front \in Seq(S) /\ Len(front) = i - 1 /\ \A j \in 1 .. i - 1 : front[j] = s[j]
  BY <1>1, SubSeqProperties
<1>3. back \in Seq(S) /\ Len(back) = Len(s) - i /\ \A j \in 1 .. Len(s) - i : back[j] = s[i + j]
  BY <1>1, SubSeqProperties
<1> HIDE DEF front, back
<1>4. /\ front \o back \in Seq(S) /\ Len(front \o back) = Len(s) - 1
      /\ \A j \in 1 .. Len(s) - 1 : (front \o back)[j] = IF j <= i - 1 THEN front[j] ELSE back[j - (i - 1)]
  <2>1. /\ front \o back \in Seq(S) /\ Len(front \o back) = Len(front) + Len(back)
        /\ \A j \in 1 .. Len(front) + Len(back) :
             (front \o back)[j] = IF j <= Len(front) THEN front[j] ELSE back[j - Len(front)]
    BY <1>2, <1>3, ConcatProperties
  <2>2. Len(front) + Len(back) = Len(s) - 1 /\ Len(front) = i - 1
    BY <1>1, <1>2, <1>3
  <2>3. QED
    BY <2>1, <2>2
<1>5. ASSUME NEW j \in 1 .. Len(s) - 1 PROVE (front \o back)[j] = IF j < i THEN s[j] ELSE s[j + 1]
  <2>1. CASE j < i
    BY <1>1, <1>2, <1>4, <2>1
  <2>2. CASE ~(j < i)
    <3>1. j - (i - 1) \in 1 .. Len(s) - i /\ i + (j - (i - 1)) = j + 1 /\ ~(j <= i - 1)
      BY <1>1, <2>2
    <3>2. QED
      BY <1>3, <1>4, <2>2, <3>1
  <2>3. QED
    BY <2>1, <2>2
<1>6. RemoveAt(s, i) = front \o back
  BY DEF RemoveAt, front, back
<1>7. QED
  BY <1>1, <1>4, <1>5, <1>6

(* What a list loses and what it keeps.                                    *)
LEMMA RemovalFacts ==
  ASSUME NEW S, NEW s \in Seq(S), Distinct(s), NEW i \in 1 .. Len(s)
  PROVE  /\ DOMAIN s = 1 .. Len(s) /\ DOMAIN RemoveAt(s, i) = 1 .. Len(s) - 1
         /\ Distinct(RemoveAt(s, i))
         /\ Members(RemoveAt(s, i)) = Members(s) \ {s[i]}
<1> DEFINE r == RemoveAt(s, i)
<1>1. /\ r \in Seq(S) /\ Len(s) \in Nat /\ Len(r) = Len(s) - 1
      /\ \A j \in 1 .. Len(s) - 1 : r[j] = IF j < i THEN s[j] ELSE s[j + 1]
  BY RemoveAtFacts
<1> HIDE DEF r
<1>2. DOMAIN s = 1 .. Len(s) /\ DOMAIN r = 1 .. Len(s) - 1
  BY <1>1, LenProperties
<1>3. ASSUME NEW j \in 1 .. Len(s) - 1
      PROVE  \E l \in 1 .. Len(s) : l # i /\ r[j] = s[l] /\ l = (IF j < i THEN j ELSE j + 1)
  BY <1>1
<1>4. Distinct(r)
  <2>1. SUFFICES ASSUME NEW j \in 1 .. Len(s) - 1, NEW l \in 1 .. Len(s) - 1, r[j] = r[l] PROVE j = l
    BY <1>2 DEF Distinct
  <2>2. PICK m \in 1 .. Len(s) : r[j] = s[m] /\ m = (IF j < i THEN j ELSE j + 1)
    BY <1>3
  <2>3. PICK n \in 1 .. Len(s) : r[l] = s[n] /\ n = (IF l < i THEN l ELSE l + 1)
    BY <1>3
  <2>4. m = n
    BY <1>2, <2>1, <2>2, <2>3 DEF Distinct
  <2>5. QED
    BY <1>1, <2>2, <2>3, <2>4
<1>5. Members(r) \subseteq Members(s) \ {s[i]}
  BY <1>2, <1>3 DEF Members, Distinct
<1>6. ASSUME NEW l \in 1 .. Len(s), l # i PROVE s[l] \in Members(r)
  <2>1. CASE l < i
    <3>1. l \in 1 .. Len(s) - 1 /\ r[l] = s[l]
      BY <1>1, <2>1
    <3>2. QED
      BY <1>2, <3>1 DEF Members
  <2>2. CASE ~(l < i)
    <3>1. l - 1 \in 1 .. Len(s) - 1 /\ r[l - 1] = s[l]
      BY <1>1, <1>6, <2>2
    <3>2. QED
      BY <1>2, <3>1 DEF Members
  <2>3. QED
    BY <2>1, <2>2
<1>7. QED
  BY <1>2, <1>4, <1>5, <1>6 DEF r, Members

LEMMA PlaceOf ==
  ASSUME NEW s, Distinct(s), NEW i \in DOMAIN s
  PROVE  (CHOOSE j \in DOMAIN s : s[j] = s[i]) = i
BY DEF Distinct

LEMMA InFront ==
  ASSUME NEW S, NEW s \in Seq(S), NEW n \in S
  PROVE  /\ <<n>> \o s \in Seq(S)
         /\ Len(s) \in Nat /\ Len(<<n>> \o s) = Len(s) + 1
         /\ DOMAIN (<<n>> \o s) = 1 .. Len(s) + 1
         /\ (<<n>> \o s)[1] = n
         /\ \A i \in 1 .. Len(s) : (<<n>> \o s)[i + 1] = s[i]
         /\ \A i \in 2 .. Len(s) + 1 : (<<n>> \o s)[i] = s[i - 1]
<1>1. <<n>> \in Seq(S) /\ Len(<<n>>) = 1 /\ <<n>>[1] = n /\ Len(s) \in Nat
  BY LenProperties
<1>2. /\ <<n>> \o s \in Seq(S) /\ Len(<<n>> \o s) = 1 + Len(s)
      /\ \A i \in 1 .. 1 + Len(s) : (<<n>> \o s)[i] = IF i <= 1 THEN <<n>>[i] ELSE s[i - 1]
  BY <1>1, ConcatProperties
<1>3. DOMAIN (<<n>> \o s) = 1 .. Len(<<n>> \o s)
  BY <1>2, LenProperties
<1>4. \A i \in 1 .. Len(s) : i + 1 \in 1 .. 1 + Len(s) /\ ~(i + 1 <= 1) /\ (i + 1) - 1 = i
  BY <1>1
<1>5. \A i \in 2 .. Len(s) + 1 : i \in 1 .. 1 + Len(s) /\ ~(i <= 1)
  BY <1>1
<1>6. 1 \in 1 .. 1 + Len(s)
  BY <1>1
<1>7. QED
  BY <1>1, <1>2, <1>3, <1>4, <1>5, <1>6

LEMMA SizeOfList ==
  ASSUME NEW S, NEW s \in Seq(S), Distinct(s)
  PROVE  IsFiniteSet(Members(s)) /\ Cardinality(Members(s)) = Len(s) /\ Len(s) \in Nat
<1>1. Len(s) \in Nat /\ DOMAIN s = 1 .. Len(s) /\ s \in [1 .. Len(s) -> S]
  BY LenProperties
<1>2. s \in [1 .. Len(s) -> Members(s)]
  BY <1>1 DEF Members
<1>3. s \in Bijection(1 .. Len(s), Members(s))
  <2>1. s \in Injection(1 .. Len(s), Members(s))
    BY <1>1, <1>2 DEF Injection, IsInjective, Distinct
  <2>2. s \in Surjection(1 .. Len(s), Members(s))
    BY <1>1, <1>2 DEF Surjection, Members
  <2>3. QED
    BY <2>1, <2>2 DEF Bijection
<1>4. ExistsBijection(1 .. Len(s), Members(s))
  BY <1>3 DEF ExistsBijection
<1>5. IsFiniteSet(Members(s))
  BY <1>1, <1>4, FS_NatBijection
<1>6. QED
  BY <1>1, <1>4, <1>5, FS_CountingElements

-----------------------------------------------------------------------------
(* Order and table *)

LEMMA OrderOfIndex ==
  ASSUME NEW l, NEW c, NEW m, Indexed(l, c, m), NEW o, o = [i \in DOMAIN l |-> c[l[i]].key]
  PROVE  /\ o \in Seq(Key) /\ Len(o) = Len(l) /\ Distinct(o)
         /\ DOMAIN o = 1 .. Len(l) /\ DOMAIN l = 1 .. Len(l) /\ Len(l) \in Nat
         /\ Members(o) = DOMAIN m
         /\ \A i \in 1 .. Len(l) :
              /\ l[i] \in DOMAIN c /\ o[i] = c[l[i]].key
              /\ o[i] \in DOMAIN m /\ m[o[i]] = l[i]
<1>1. Len(l) \in Nat /\ DOMAIN l = 1 .. Len(l)
  BY LenProperties DEF Indexed
<1>2. DOMAIN o = 1 .. Len(l) /\ \A i \in 1 .. Len(l) : o[i] = c[l[i]].key
  BY <1>1
<1>3. \A i \in 1 .. Len(l) : l[i] \in DOMAIN c
  BY <1>1 DEF Indexed, Members
<1>4. \A i \in 1 .. Len(l) : o[i] \in DOMAIN m /\ m[o[i]] = l[i] /\ o[i] \in Key
  BY <1>2, <1>3 DEF Indexed
<1>5. Distinct(o)
  BY <1>1, <1>2, <1>4 DEF Distinct, Indexed
<1>6. o \in [1 .. Len(l) -> Key]
  BY <1>1, <1>4
<1>7. o \in Seq(Key) /\ Len(o) = Len(l)
  BY <1>1, <1>2, <1>6, IsASeq, LenProperties
<1>8. ASSUME NEW k \in DOMAIN m PROVE k \in Members(o)
  <2>1. m[k] \in Members(l) /\ c[m[k]].key = k
    BY DEF Indexed
  <2>2. PICK i \in 1 .. Len(l) : l[i] = m[k]
    BY <1>1, <2>1 DEF Members
  <2>3. QED
    BY <1>2, <2>1, <2>2 DEF Members
<1>9. Members(o) = DOMAIN m
  <2>1. Members(o) \subseteq DOMAIN m
    BY <1>2, <1>4 DEF Members
  <2>2. QED
    BY <1>8, <2>1
<1>10. QED
  BY <1>1, <1>2, <1>3, <1>4, <1>5, <1>7, <1>9

LEMMA OrderFacts ==
  ASSUME IndexInv
  PROVE  /\ Order \in Seq(Key) /\ Len(Order) = Len(keys_) /\ Distinct(Order)
         /\ DOMAIN Order = 1 .. Len(keys_) /\ DOMAIN keys_ = 1 .. Len(keys_) /\ Len(keys_) \in Nat
         /\ Members(Order) = DOMAIN cache_
         /\ \A i \in 1 .. Len(keys_) :
              /\ keys_[i] \in DOMAIN node /\ Order[i] = node[keys_[i]].key
              /\ Order[i] \in DOMAIN cache_ /\ cache_[Order[i]] = keys_[i]
BY OrderOfIndex DEF IndexInv, Order

(* The iterator that the map has for a key leads to its place in the order.*)
LEMMA IteratorFacts ==
  ASSUME IndexInv, NEW k \in DOMAIN cache_
  PROVE  \E p \in 1 .. Len(keys_) :
           /\ keys_[p] = cache_[k] /\ Order[p] = k
           /\ Unlinked(keys_, cache_[k]) = RemoveAt(keys_, p)
           /\ Recency!Without(Order, k) = RemoveAt(Order, p)
<1>1. k \in Members(Order)
  BY OrderFacts
<1>2. PICK p \in 1 .. Len(keys_) : Order[p] = k
  BY <1>1, OrderFacts DEF Members
<1>3. keys_[p] = cache_[k] /\ p \in DOMAIN keys_ /\ p \in DOMAIN Order
  BY <1>2, OrderFacts
<1>4. Unlinked(keys_, cache_[k]) = RemoveAt(keys_, p)
  <2>1. (CHOOSE i \in DOMAIN keys_ : keys_[i] = keys_[p]) = p
    BY <1>3, PlaceOf DEF IndexInv, Indexed
  <2>2. QED
    BY <1>3, <2>1 DEF Unlinked
<1>5. Recency!Without(Order, k) = RemoveAt(Order, p)
  <2>1. (CHOOSE i \in DOMAIN Order : Order[i] = Order[p]) = p
    BY <1>3, PlaceOf, OrderFacts
  <2>2. k \in {Order[i] : i \in DOMAIN Order}
    BY <1>2, <1>3
  <2>3. QED
    BY <1>2, <2>1, <2>2 DEF Recency!Without, Recency!Held, Recency!RemoveAt, RemoveAt
<1>6. QED
  BY <1>2, <1>3, <1>4, <1>5

(* Taking a node out of the list, and putting it in front.                 *)
LEMMA UnlinkFacts ==
  ASSUME IndexInv, NEW k \in DOMAIN cache_
  PROVE  LET out == Unlinked(keys_, cache_[k])
             rest == Recency!Without(Order, k)
         IN /\ out \in Seq(Node) /\ Distinct(out) /\ Members(out) = DOMAIN node \ {cache_[k]}
            /\ rest \in Seq(Key) /\ Len(out) = Len(keys_) - 1 /\ Len(rest) = Len(keys_) - 1
            /\ DOMAIN out = 1 .. Len(keys_) - 1 /\ DOMAIN rest = 1 .. Len(keys_) - 1
            /\ \A i \in 1 .. Len(keys_) - 1 : rest[i] = node[out[i]].key
            /\ Members(rest) = DOMAIN cache_ \ {k}
<1>1. PICK p \in 1 .. Len(keys_) :
        /\ keys_[p] = cache_[k] /\ Order[p] = k
        /\ Unlinked(keys_, cache_[k]) = RemoveAt(keys_, p)
        /\ Recency!Without(Order, k) = RemoveAt(Order, p)
  BY IteratorFacts
<1>2. keys_ \in Seq(Node) /\ Distinct(keys_) /\ Members(keys_) = DOMAIN node
  BY DEF IndexInv, Indexed
<1>3. /\ RemoveAt(keys_, p) \in Seq(Node) /\ Len(RemoveAt(keys_, p)) = Len(keys_) - 1
      /\ \A j \in 1 .. Len(keys_) - 1 : RemoveAt(keys_, p)[j] = IF j < p THEN keys_[j] ELSE keys_[j + 1]
      /\ DOMAIN RemoveAt(keys_, p) = 1 .. Len(keys_) - 1
      /\ Distinct(RemoveAt(keys_, p)) /\ Members(RemoveAt(keys_, p)) = Members(keys_) \ {keys_[p]}
  BY <1>2, RemoveAtFacts, RemovalFacts
<1>4. Order \in Seq(Key) /\ Distinct(Order) /\ Len(Order) = Len(keys_) /\ Len(keys_) \in Nat
      /\ Members(Order) = DOMAIN cache_ /\ \A i \in 1 .. Len(keys_) : Order[i] = node[keys_[i]].key
  BY OrderFacts
<1>5. /\ RemoveAt(Order, p) \in Seq(Key) /\ Len(RemoveAt(Order, p)) = Len(keys_) - 1
      /\ \A j \in 1 .. Len(keys_) - 1 : RemoveAt(Order, p)[j] = IF j < p THEN Order[j] ELSE Order[j + 1]
      /\ DOMAIN RemoveAt(Order, p) = 1 .. Len(keys_) - 1
      /\ Members(RemoveAt(Order, p)) = Members(Order) \ {Order[p]}
  <2>1. p \in 1 .. Len(Order)
    BY <1>4
  <2>2. /\ RemoveAt(Order, p) \in Seq(Key) /\ Len(RemoveAt(Order, p)) = Len(Order) - 1
        /\ \A j \in 1 .. Len(Order) - 1 : RemoveAt(Order, p)[j] = IF j < p THEN Order[j] ELSE Order[j + 1]
    BY <1>4, <2>1, RemoveAtFacts
  <2>3. /\ DOMAIN RemoveAt(Order, p) = 1 .. Len(Order) - 1
        /\ Members(RemoveAt(Order, p)) = Members(Order) \ {Order[p]}
    BY <1>4, <2>1, RemovalFacts
  <2>4. QED
    BY <1>4, <2>2, <2>3
<1>6. \A i \in 1 .. Len(keys_) - 1 : RemoveAt(Order, p)[i] = node[RemoveAt(keys_, p)[i]].key
  <2>1. ASSUME NEW i \in 1 .. Len(keys_) - 1 PROVE RemoveAt(Order, p)[i] = node[RemoveAt(keys_, p)[i]].key
    <3>1. i \in 1 .. Len(keys_) /\ i + 1 \in 1 .. Len(keys_)
      BY <1>4
    <3>2. QED
      BY <1>3, <1>4, <1>5, <3>1
  <2>2. QED
    BY <2>1
<1>7. QED
  BY <1>1, <1>2, <1>3, <1>4, <1>5, <1>6

LEMMA SpliceFacts ==
  ASSUME IndexInv, NEW k \in DOMAIN cache_
  PROVE  LET list == Splice(keys_, cache_[k])
             order == <<k>> \o Recency!Without(Order, k)
         IN /\ list \in Seq(Node) /\ Distinct(list) /\ Members(list) = DOMAIN node
            /\ order \in Seq(Key) /\ Len(list) = Len(keys_) /\ Len(order) = Len(keys_)
            /\ DOMAIN list = 1 .. Len(keys_) /\ DOMAIN order = 1 .. Len(keys_) /\ Len(keys_) \in Nat \ {0}
            /\ \A i \in 1 .. Len(keys_) : order[i] = node[list[i]].key
            /\ Members(order) = DOMAIN cache_
<1> DEFINE out == Unlinked(keys_, cache_[k])
           rest == Recency!Without(Order, k)
           list == <<cache_[k]>> \o out
           order == <<k>> \o rest
<1>1. /\ out \in Seq(Node) /\ Distinct(out) /\ Members(out) = DOMAIN node \ {cache_[k]}
      /\ rest \in Seq(Key) /\ Len(out) = Len(keys_) - 1 /\ Len(rest) = Len(keys_) - 1
      /\ DOMAIN out = 1 .. Len(keys_) - 1 /\ DOMAIN rest = 1 .. Len(keys_) - 1
      /\ \A i \in 1 .. Len(keys_) - 1 : rest[i] = node[out[i]].key
      /\ Members(rest) = DOMAIN cache_ \ {k}
  BY UnlinkFacts
<1>2. cache_[k] \in DOMAIN node /\ node[cache_[k]].key = k
  BY DEF IndexInv, Indexed
<1>3. cache_[k] \in Node /\ k \in Key
  <2>1. cache_[k] \in Members(keys_)
    BY <1>2 DEF IndexInv, Indexed
  <2>2. \A i \in DOMAIN keys_ : keys_[i] \in Node
    BY LenProperties DEF IndexInv, Indexed
  <2>3. QED
    BY <1>2, <2>1, <2>2 DEF IndexInv, Indexed, Members
<1>4. Len(keys_) \in Nat /\ Len(keys_) # 0
  <2>1. PICK p \in 1 .. Len(keys_) : keys_[p] = cache_[k]
    BY IteratorFacts
  <2>2. QED
    BY <2>1, OrderFacts
<1> HIDE DEF out, rest
<1>5. /\ list \in Seq(Node) /\ Len(list) = Len(keys_) /\ DOMAIN list = 1 .. Len(keys_)
      /\ list[1] = cache_[k] /\ \A i \in 2 .. Len(keys_) : list[i] = out[i - 1]
      /\ \A i \in 1 .. Len(keys_) - 1 : list[i + 1] = out[i]
  BY <1>1, <1>3, <1>4, InFront
<1>6. /\ order \in Seq(Key) /\ Len(order) = Len(keys_) /\ DOMAIN order = 1 .. Len(keys_)
      /\ order[1] = k /\ \A i \in 2 .. Len(keys_) : order[i] = rest[i - 1]
      /\ \A i \in 1 .. Len(keys_) - 1 : order[i + 1] = rest[i]
  BY <1>1, <1>3, <1>4, InFront
<1> HIDE DEF list, order
<1>7. \A i \in 1 .. Len(keys_) : i = 1 \/ (i \in 2 .. Len(keys_) /\ i - 1 \in 1 .. Len(keys_) - 1)
  BY <1>4
<1>8. \A i \in 1 .. Len(keys_) : order[i] = node[list[i]].key
  BY <1>1, <1>2, <1>5, <1>6, <1>7
<1>9. \A i \in 2 .. Len(keys_) : list[i] \in Members(out) /\ order[i] \in Members(rest)
  <2>1. \A i \in 2 .. Len(keys_) : i - 1 \in 1 .. Len(keys_) - 1
    BY <1>4
  <2>2. QED
    <3>1. \A i \in 2 .. Len(keys_) : out[i - 1] \in Members(out)
      BY <1>1, <2>1 DEF Members
    <3>2. \A i \in 2 .. Len(keys_) : rest[i - 1] \in Members(rest)
      BY <1>1, <2>1 DEF Members
    <3>3. QED
      BY <1>5, <1>6, <3>1, <3>2
<1>10. Distinct(list)
  <2>1. SUFFICES ASSUME NEW i \in 1 .. Len(keys_), NEW j \in 1 .. Len(keys_), list[i] = list[j] PROVE i = j
    BY <1>5 DEF Distinct
  <2>2. CASE i = 1 \/ j = 1
    BY <1>1, <1>5, <1>7, <1>9, <2>1, <2>2
  <2>3. CASE i # 1 /\ j # 1
    <3>1. out[i - 1] = out[j - 1] /\ i - 1 \in DOMAIN out /\ j - 1 \in DOMAIN out
      BY <1>1, <1>5, <1>7, <2>1, <2>3
    <3>2. i - 1 = j - 1
      BY <1>1, <3>1 DEF Distinct
    <3>3. QED
      BY <3>2
  <2>4. QED
    BY <2>2, <2>3
<1>11. Members(list) = DOMAIN node
  <2>1. Members(list) \subseteq DOMAIN node
    BY <1>1, <1>2, <1>5, <1>7, <1>9 DEF Members
  <2>2. ASSUME NEW n \in DOMAIN node PROVE n \in Members(list)
    <3>1. CASE n = cache_[k]
      BY <1>4, <1>5, <3>1 DEF Members
    <3>2. CASE n # cache_[k]
      <4>1. PICK i \in 1 .. Len(keys_) - 1 : out[i] = n
        BY <1>1, <3>2 DEF Members
      <4>2. i + 1 \in DOMAIN list /\ list[i + 1] = n
        BY <1>4, <1>5, <4>1
      <4>3. QED
        BY <4>2 DEF Members
    <3>3. QED
      BY <3>1, <3>2
  <2>3. QED
    BY <2>1, <2>2
<1>12. Members(order) = DOMAIN cache_
  <2>1. Members(order) \subseteq DOMAIN cache_
    BY <1>1, <1>6, <1>7, <1>9 DEF Members
  <2>2. ASSUME NEW j \in DOMAIN cache_ PROVE j \in Members(order)
    <3>1. CASE j = k
      BY <1>4, <1>6, <3>1 DEF Members
    <3>2. CASE j # k
      <4>1. PICK i \in 1 .. Len(keys_) - 1 : rest[i] = j
        BY <1>1, <3>2 DEF Members
      <4>2. i + 1 \in DOMAIN order /\ order[i + 1] = j
        BY <1>4, <1>6, <4>1
      <4>3. QED
        BY <4>2 DEF Members
    <3>3. QED
      BY <3>1, <3>2
  <2>3. QED
    BY <2>1, <2>2
<1>13. QED
  BY <1>4, <1>5, <1>6, <1>8, <1>10, <1>11, <1>12 DEF list, order, out, rest, Splice

-----------------------------------------------------------------------------
(* Steps *)

Limit == IF elasticity_ = 0 THEN maxSize_ ELSE maxSize_ + elasticity_ - 1
SizeInv == maxSize_ > 0 => Len(keys_) <= Limit
CacheInv == IndexInv /\ SizeInv

(* A hit moves the key to the front.                                       *)
LEMMA GetStep ==
  ASSUME CacheInv, NEW k \in Key, Get(k)
  PROVE  CacheInv' /\ Recency!Use(k)
<1>1. k \in DOMAIN cache_ /\ keys_' = Splice(keys_, cache_[k]) /\ node' = node /\ cache_' = cache_ /\ IndexInv
  BY DEF Get, CacheInv
<1>2. /\ keys_' \in Seq(Node) /\ Distinct(keys_') /\ Members(keys_') = DOMAIN node
      /\ Len(keys_') = Len(keys_) /\ DOMAIN keys_' = 1 .. Len(keys_)
      /\ DOMAIN (<<k>> \o Recency!Without(Order, k)) = 1 .. Len(keys_)
      /\ <<k>> \o Recency!Without(Order, k) \in Seq(Key)
      /\ \A i \in 1 .. Len(keys_) : (<<k>> \o Recency!Without(Order, k))[i] = node[keys_'[i]].key
  BY <1>1, SpliceFacts
<1>3. CacheInv'
  BY <1>1, <1>2 DEF CacheInv, IndexInv, Indexed, SizeInv, Limit, Distinct, Members
<1>4. Order' = [i \in 1 .. Len(keys_) |-> node[keys_'[i]].key]
  BY <1>1, <1>2 DEF Order
<1>5. Order' = <<k>> \o Recency!Without(Order, k)
  <2>1. PICK s : s = <<k>> \o Recency!Without(Order, k)
    OBVIOUS
  <2>2. s \in Seq(Key) /\ DOMAIN s = 1 .. Len(keys_) /\ \A i \in 1 .. Len(keys_) : s[i] = node[keys_'[i]].key
    BY <1>2, <2>1
  <2>3. s = [i \in 1 .. Len(keys_) |-> s[i]]
    BY <2>2
  <2>4. QED
    BY <1>4, <2>1, <2>2, <2>3
<1>6. Entries' = Entries
  BY <1>1 DEF Entries
<1>7. k \in Recency!Held(Order)
  BY <1>1, OrderFacts DEF Recency!Held, Members
<1>8. QED
  BY <1>3, <1>5, <1>6, <1>7 DEF Recency!Use, Order, Entries

LEMMA SequencesAgree ==
  ASSUME NEW S, NEW s \in Seq(S), NEW n, DOMAIN s = 1 .. n, NEW t,
         t = [i \in 1 .. n |-> t[i]], \A i \in 1 .. n : s[i] = t[i]
  PROVE  s = t
<1>1. s = [i \in 1 .. n |-> s[i]]
  BY LenProperties
<1>2. QED
  BY <1>1

LEMMA PrefixFacts ==
  ASSUME NEW S, NEW s \in Seq(S), NEW n \in 0 .. Len(s)
  PROVE  /\ SubSeq(s, 1, n) \in Seq(S) /\ Len(SubSeq(s, 1, n)) = n
         /\ DOMAIN SubSeq(s, 1, n) = 1 .. n
         /\ \A i \in 1 .. n : SubSeq(s, 1, n)[i] = s[i]
<1>1. Len(s) \in Nat /\ n \in Nat /\ n <= Len(s) /\ \A i \in 1 .. n : s[i] \in S
  BY LenProperties
<1>2. SubSeq(s, 1, n) \in Seq(S) /\ Len(SubSeq(s, 1, n)) = n
      /\ \A i \in 1 .. n : SubSeq(s, 1, n)[i] = s[i]
  <2>1. \A i \in 1 .. n : s[i] \in S
    BY <1>1
  <2>2. Len(SubSeq(s, 1, n)) = IF 1 <= n THEN n - 1 + 1 ELSE 0
    BY <1>1, SubSeqProperties
  <2>3. SubSeq(s, 1, n) \in Seq(S) /\ \A i \in 1 .. n - 1 + 1 : SubSeq(s, 1, n)[i] = s[1 + i - 1]
    BY <1>1, SubSeqProperties
  <2>4. \A i \in 1 .. n : i \in 1 .. n - 1 + 1 /\ 1 + i - 1 = i
    BY <1>1
  <2>5. Len(SubSeq(s, 1, n)) = n
    BY <1>1, <2>2
  <2>6. QED
    BY <2>3, <2>4, <2>5
<1>3. QED
  BY <1>2, LenProperties

(* insert() of a key the cache holds.                                      *)
LEMMA OverwriteStep ==
  ASSUME CacheInv, NEW k \in Key, NEW v \in Value, Overwrite(k, v)
  PROVE  CacheInv' /\ Recency!Put(k, v)
<1> DEFINE grown == <<k>> \o Recency!Without(Order, k)
<1>1. /\ k \in DOMAIN cache_ /\ keys_' = Splice(keys_, cache_[k]) /\ cache_' = cache_ /\ IndexInv
      /\ node' = [node EXCEPT ![cache_[k]].value = v]
  BY DEF Overwrite, CacheInv
<1>2. /\ keys_' \in Seq(Node) /\ Distinct(keys_') /\ Members(keys_') = DOMAIN node
      /\ Len(keys_') = Len(keys_) /\ DOMAIN keys_' = 1 .. Len(keys_)
      /\ DOMAIN grown = 1 .. Len(keys_) /\ grown \in Seq(Key) /\ Len(grown) = Len(keys_)
      /\ Len(keys_) \in Nat \ {0}
      /\ \A i \in 1 .. Len(keys_) : grown[i] = node[keys_'[i]].key
  BY <1>1, SpliceFacts
<1> HIDE DEF grown
<1>3. cache_[k] \in DOMAIN node /\ node[cache_[k]] \in [key : Key, value : Value] /\ node[cache_[k]].key = k
  BY <1>1 DEF IndexInv, Indexed
<1>4. /\ DOMAIN node' = DOMAIN node
      /\ \A m \in DOMAIN node :
           /\ node'[m].key = node[m].key
           /\ node'[m].value = IF m = cache_[k] THEN v ELSE node[m].value
           /\ node'[m] \in [key : Key, value : Value]
  <2>1. DOMAIN node' = DOMAIN node
    BY <1>1
  <2>2. ASSUME NEW m \in DOMAIN node, m # cache_[k] PROVE node'[m] = node[m]
    BY <1>1, <2>2
  <2>3. \A m \in DOMAIN node : node[m] \in [key : Key, value : Value]
    BY <1>1 DEF IndexInv, Indexed
  <2>4. PICK r : r = node[cache_[k]]
    OBVIOUS
  <2>5. r \in [key : Key, value : Value] /\ r.key = k /\ node'[cache_[k]] = [r EXCEPT !.value = v]
    BY <1>1, <1>3, <2>4
  <2>6. /\ node'[cache_[k]] \in [key : Key, value : Value]
        /\ node'[cache_[k]].key = k /\ node'[cache_[k]].value = v
    BY <2>5
  <2>7. ASSUME NEW m \in DOMAIN node
        PROVE  /\ node'[m].key = node[m].key
               /\ node'[m].value = IF m = cache_[k] THEN v ELSE node[m].value
               /\ node'[m] \in [key : Key, value : Value]
    <3>1. CASE m = cache_[k]
      BY <1>3, <2>6, <3>1
    <3>2. CASE m # cache_[k]
      BY <2>2, <2>3, <3>2
    <3>3. QED
      BY <3>1, <3>2
  <2>8. QED
    BY <2>1, <2>7
<1>5. IndexInv'
  BY <1>1, <1>2, <1>4 DEF IndexInv, Indexed
<1>6. SizeInv'
  BY <1>2 DEF CacheInv, SizeInv, Limit
<1>7. Order' = grown
  <2>1. Order' = [i \in 1 .. Len(keys_) |-> node'[keys_'[i]].key]
    BY <1>2 DEF Order
  <2>2. \A i \in 1 .. Len(keys_) : keys_'[i] \in DOMAIN node
    BY <1>2 DEF Members
  <2>3. \A i \in 1 .. Len(keys_) : grown[i] = Order'[i]
    BY <1>2, <1>4, <2>1, <2>2
  <2>4. Order' = [i \in 1 .. Len(keys_) |-> Order'[i]]
    BY <2>1
  <2>5. PICK o : o = Order'
    OBVIOUS
  <2>6. QED
    BY <1>2, <2>3, <2>4, <2>5, SequencesAgree
<1>8. Recency!Prefix(grown, Len(keys_)) = grown
  <2>1. /\ SubSeq(grown, 1, Len(keys_)) \in Seq(Key) /\ DOMAIN SubSeq(grown, 1, Len(keys_)) = 1 .. Len(keys_)
        /\ \A i \in 1 .. Len(keys_) : SubSeq(grown, 1, Len(keys_))[i] = grown[i]
    BY <1>2, PrefixFacts
  <2>2. grown = [i \in 1 .. Len(keys_) |-> grown[i]]
    BY <1>2, LenProperties
  <2>3. QED
    BY <2>1, <2>2, SequencesAgree DEF Recency!Prefix
<1>9. Members(Order) = DOMAIN cache_ /\ Members(Order') = DOMAIN cache_ /\ Len(Order) = Len(keys_)
  <2>1. Indexed(keys_', node', cache_')
    BY <1>5 DEF IndexInv
  <2>2. Members(Order') = DOMAIN cache_'
    BY <2>1, OrderOfIndex DEF Order
  <2>3. QED
    BY <1>1, <2>2, OrderFacts
<1>10. Entries' = [j \in Recency!Held(Order') |-> IF j = k THEN v ELSE Entries[j]]
  <2>1. Entries' = [j \in DOMAIN cache_ |-> node'[cache_[j]].value]
    BY <1>1 DEF Entries
  <2>2. \A j \in DOMAIN cache_ : cache_[j] \in DOMAIN node /\ (cache_[j] = cache_[k] <=> j = k)
    BY <1>1 DEF IndexInv, Indexed
  <2>3. ASSUME NEW j \in DOMAIN cache_
        PROVE  node'[cache_[j]].value = IF j = k THEN v ELSE Entries[j]
    <3>1. Entries[j] = node[cache_[j]].value
      BY DEF Entries
    <3>2. PICK n \in DOMAIN node : n = cache_[j] /\ (n = cache_[k] <=> j = k)
      BY <2>2
    <3>3. node'[n].value = IF n = cache_[k] THEN v ELSE node[n].value
      BY <1>4
    <3>4. QED
      BY <3>1, <3>2, <3>3
  <2>4. Recency!Held(Order') = DOMAIN cache_
    BY <1>9 DEF Recency!Held, Members
  <2>5. QED
    BY <2>1, <2>3, <2>4
<1>11. maxSize_ > 0 => Len(keys_) <= (IF elasticity_ = 0 THEN maxSize_ ELSE maxSize_ + elasticity_ - 1)
  BY DEF CacheInv, SizeInv, Limit
<1>12. Recency!Put(k, v)
  <2>1. /\ Len(keys_) \in 1 .. Len(Order) + 1 /\ Len(keys_) <= Len(grown) /\ Len(keys_) = Len(grown)
        /\ Order' = Recency!Prefix(grown, Len(keys_))
    BY <1>2, <1>7, <1>8, <1>9
  <2>2. QED
    BY <1>10, <1>11, <2>1 DEF Recency!Put, Order, Entries, grown
<1>13. QED
  BY <1>5, <1>6, <1>12 DEF CacheInv

-----------------------------------------------------------------------------
(* Insertion: the indexes grow by a node, and prune() cuts all three at the *)
(* same place.                                                             *)
LEMMA GrowFacts ==
  ASSUME NEW l, NEW c, NEW m, Indexed(l, c, m),
         NEW k \in Key, k \notin DOMAIN m, NEW v \in Value, NEW n \in Node \ DOMAIN c,
         NEW c2, c2 = [x \in DOMAIN c \cup {n} |-> IF x = n THEN [key |-> k, value |-> v] ELSE c[x]],
         NEW m2, m2 = [j \in DOMAIN m \cup {k} |-> IF j = k THEN n ELSE m[j]]
  PROVE  Indexed(<<n>> \o l, c2, m2)
<1>1. /\ <<n>> \o l \in Seq(Node) /\ Len(l) \in Nat /\ DOMAIN (<<n>> \o l) = 1 .. Len(l) + 1
      /\ (<<n>> \o l)[1] = n /\ DOMAIN l = 1 .. Len(l)
      /\ \A i \in 1 .. Len(l) : (<<n>> \o l)[i + 1] = l[i]
      /\ \A i \in 2 .. Len(l) + 1 : (<<n>> \o l)[i] = l[i - 1]
  BY InFront, LenProperties DEF Indexed
<1>2. PICK g : g = <<n>> \o l
  OBVIOUS
<1>3. /\ g \in Seq(Node) /\ DOMAIN g = 1 .. Len(l) + 1 /\ g[1] = n
      /\ \A i \in 1 .. Len(l) : g[i + 1] = l[i]
      /\ \A i \in 2 .. Len(l) + 1 : g[i] = l[i - 1] /\ i - 1 \in 1 .. Len(l)
      /\ \A i \in 1 .. Len(l) + 1 : i = 1 \/ i \in 2 .. Len(l) + 1
  BY <1>1, <1>2
<1>4. \A i \in 1 .. Len(l) : l[i] \in DOMAIN c
  BY <1>1 DEF Indexed, Members
<1>5. Distinct(g)
  <2>1. SUFFICES ASSUME NEW i \in 1 .. Len(l) + 1, NEW j \in 1 .. Len(l) + 1, g[i] = g[j] PROVE i = j
    BY <1>3 DEF Distinct
  <2>2. CASE i = 1 \/ j = 1
    BY <1>3, <1>4, <2>1, <2>2
  <2>3. CASE i # 1 /\ j # 1
    <3>1. l[i - 1] = l[j - 1] /\ i - 1 \in DOMAIN l /\ j - 1 \in DOMAIN l
      BY <1>1, <1>3, <2>1, <2>3
    <3>2. i - 1 = j - 1
      BY <3>1 DEF Distinct, Indexed
    <3>3. QED
      BY <3>2
  <2>4. QED
    BY <2>2, <2>3
<1>6. Members(g) = DOMAIN c2
  <2>1. ASSUME NEW i \in 1 .. Len(l) + 1 PROVE g[i] \in DOMAIN c \cup {n}
    BY <1>3, <1>4
  <2>2. ASSUME NEW x \in DOMAIN c PROVE x \in Members(g)
    <3>1. PICK i \in 1 .. Len(l) : l[i] = x
      BY <1>1 DEF Indexed, Members
    <3>2. i + 1 \in DOMAIN g /\ g[i + 1] = x
      BY <1>1, <1>3, <3>1
    <3>3. QED
      BY <3>2 DEF Members
  <2>3. n \in Members(g)
    <3>1. 1 \in DOMAIN g
      BY <1>1, <1>3
    <3>2. QED
      BY <1>3, <3>1 DEF Members
  <2>4. Members(g) \subseteq DOMAIN c \cup {n}
    BY <1>3, <2>1 DEF Members
  <2>5. QED
    BY <2>2, <2>3, <2>4
<1>7. ASSUME NEW x \in DOMAIN c2
      PROVE  c2[x] \in [key : Key, value : Value] /\ c2[x].key \in DOMAIN m2 /\ m2[c2[x].key] = x
  <2>1. CASE x = n
    BY <2>1
  <2>2. CASE x # n
    <3>1. /\ x \in DOMAIN c /\ c2[x] = c[x] /\ c[x] \in [key : Key, value : Value]
          /\ c[x].key \in DOMAIN m /\ m[c[x].key] = x
      BY <2>2 DEF Indexed
    <3>2. QED
      BY <3>1
  <2>3. QED
    BY <2>1, <2>2
<1>8. ASSUME NEW j \in DOMAIN m2 PROVE m2[j] \in DOMAIN c2 /\ c2[m2[j]].key = j
  <2>1. CASE j = k
    BY <2>1
  <2>2. CASE j # k
    <3>1. j \in DOMAIN m /\ m2[j] = m[j] /\ m[j] \in DOMAIN c /\ c[m[j]].key = j
      BY <2>2 DEF Indexed
    <3>2. m[j] # n /\ c2[m[j]] = c[m[j]]
      BY <3>1
    <3>3. QED
      BY <3>1, <3>2
  <2>3. QED
    BY <2>1, <2>2
<1>9. QED
  BY <1>2, <1>3, <1>5, <1>6, <1>7, <1>8 DEF Indexed

Behind(list, size) == {list[i] : i \in size + 1 .. Len(list)}
KeysOf(contents, nodes) == {contents[n].key : n \in nodes}

LEMMA PruneFacts ==
  ASSUME NEW l, NEW c, NEW m, Indexed(l, c, m), NEW size \in 0 .. Len(l),
         NEW pruned, pruned = Behind(l, size),
         NEW c2, c2 = Restrict(c, DOMAIN c \ pruned),
         NEW m2, m2 = Unmapped(m, KeysOf(c, pruned))
  PROVE  /\ Indexed(SubSeq(l, 1, size), c2, m2)
         /\ \A n \in DOMAIN c \ pruned : c2[n] = c[n]
         /\ \A j \in DOMAIN m2 : j \in DOMAIN m /\ m[j] \in DOMAIN c \ pruned /\ m2[j] = m[j]
<1>1. PICK s : s = SubSeq(l, 1, size)
  OBVIOUS
<1> USE DEF Behind, KeysOf
<1>2. /\ s \in Seq(Node) /\ DOMAIN s = 1 .. size /\ \A i \in 1 .. size : s[i] = l[i]
      /\ DOMAIN l = 1 .. Len(l) /\ Len(l) \in Nat /\ size \in Nat /\ size <= Len(l)
  BY <1>1, PrefixFacts, LenProperties DEF Indexed
<1>3. DOMAIN c2 = DOMAIN c \ pruned /\ \A n \in DOMAIN c2 : c2[n] = c[n]
  BY DEF Restrict
<1>4. /\ DOMAIN m2 = DOMAIN m \ {c[n].key : n \in pruned}
      /\ \A j \in DOMAIN m2 : m2[j] = m[j]
  BY DEF Restrict, Unmapped
<1>5. pruned \subseteq DOMAIN c
  BY <1>2 DEF Indexed, Members
<1>6. \A j \in DOMAIN m : j \in DOMAIN m2 <=> m[j] \notin pruned
  <2>1. ASSUME NEW j \in DOMAIN m, m[j] \in pruned PROVE j \in {c[n].key : n \in pruned}
    BY <2>1 DEF Indexed
  <2>2. ASSUME NEW n \in pruned PROVE m[c[n].key] = n
    BY <1>5 DEF Indexed
  <2>3. QED
    BY <1>4, <2>1, <2>2
<1>7. Distinct(s)
  <2>1. SUFFICES ASSUME NEW i \in 1 .. size, NEW j \in 1 .. size, s[i] = s[j] PROVE i = j
    BY <1>2 DEF Distinct
  <2>2. i \in DOMAIN l /\ j \in DOMAIN l /\ l[i] = l[j]
    BY <1>2, <2>1
  <2>3. QED
    BY <2>2 DEF Distinct, Indexed
<1>8. Members(s) = DOMAIN c \ pruned
  <2>1. ASSUME NEW i \in 1 .. size PROVE s[i] \in DOMAIN c \ pruned
    <3>1. s[i] = l[i] /\ i \in DOMAIN l /\ l[i] \in DOMAIN c
      BY <1>2 DEF Indexed, Members
    <3>2. ASSUME NEW j \in size + 1 .. Len(l) PROVE l[j] # l[i]
      <4>1. j \in DOMAIN l /\ j # i
        BY <1>2, <3>2
      <4>2. QED
        BY <3>1, <4>1 DEF Distinct, Indexed
    <3>3. QED
      BY <3>1, <3>2
  <2>2. ASSUME NEW n \in DOMAIN c, n \notin pruned PROVE n \in Members(s)
    <3>1. PICK i \in 1 .. Len(l) : l[i] = n
      BY <1>2 DEF Indexed, Members
    <3>2. i \in 1 .. size
      BY <1>2, <2>2, <3>1
    <3>3. QED
      BY <1>2, <3>1, <3>2 DEF Members
  <2>3. Members(s) \subseteq DOMAIN c \ pruned
    BY <1>2, <2>1 DEF Members
  <2>4. QED
    BY <2>2, <2>3
<1>9. ASSUME NEW n \in DOMAIN c2
      PROVE  c2[n] \in [key : Key, value : Value] /\ c2[n].key \in DOMAIN m2 /\ m2[c2[n].key] = n
  <2>1. /\ n \in DOMAIN c /\ n \notin pruned /\ c2[n] = c[n] /\ c[n] \in [key : Key, value : Value]
        /\ c[n].key \in DOMAIN m /\ m[c[n].key] = n
    BY <1>3 DEF Indexed
  <2>2. QED
    BY <1>4, <1>6, <2>1
<1>10. ASSUME NEW j \in DOMAIN m2
       PROVE  /\ m2[j] \in DOMAIN c2 /\ c2[m2[j]].key = j
              /\ j \in DOMAIN m /\ m[j] \in DOMAIN c \ pruned /\ m2[j] = m[j]
  <2>1. j \in DOMAIN m /\ m2[j] = m[j] /\ m[j] \in DOMAIN c /\ c[m[j]].key = j
    BY <1>4 DEF Indexed
  <2>2. QED
    BY <1>3, <1>6, <2>1
<1>11. Indexed(s, c2, m2)
  BY <1>2, <1>3, <1>7, <1>8, <1>9, <1>10 DEF Indexed
<1>12. QED
  BY <1>1, <1>3, <1>10, <1>11

(* insert() of any other key, and the prune() it ends with.                *)
LEMMA InsertStep ==
  ASSUME CacheInv, NEW k \in Key, NEW v \in Value, Insert(k, v)
  PROVE  CacheInv' /\ Recency!Put(k, v)
<1> USE SizesAssumption
<1>1. k \notin DOMAIN cache_ /\ Indexed(keys_, node, cache_)
  BY DEF Insert, CacheInv, IndexInv
<1>2. PICK n \in Node \ DOMAIN node :
        Prune(<<n>> \o keys_,
              [m \in DOMAIN node \cup {n} |-> IF m = n THEN [key |-> k, value |-> v] ELSE node[m]],
              [j \in DOMAIN cache_ \cup {k} |-> IF j = k THEN n ELSE cache_[j]])
  BY DEF Insert
<1>3. PICK l : l = <<n>> \o keys_
  OBVIOUS
<1>4. PICK c : c = [m \in DOMAIN node \cup {n} |-> IF m = n THEN [key |-> k, value |-> v] ELSE node[m]]
  OBVIOUS
<1>5. PICK m : m = [j \in DOMAIN cache_ \cup {k} |-> IF j = k THEN n ELSE cache_[j]]
  OBVIOUS
<1>6. Indexed(l, c, m) /\ Prune(l, c, m)
  <2>1. Indexed(<<n>> \o keys_, c, m)
    BY <1>1, <1>4, <1>5, GrowFacts
  <2>2. QED
    BY <1>2, <1>3, <1>4, <1>5, <2>1
<1>7. PICK o : o = [i \in DOMAIN l |-> c[l[i]].key]
  OBVIOUS
<1>8. /\ o \in Seq(Key) /\ Len(o) = Len(l) /\ Distinct(o) /\ DOMAIN o = 1 .. Len(l)
      /\ DOMAIN l = 1 .. Len(l) /\ Len(l) \in Nat /\ Members(o) = DOMAIN m
      /\ \A i \in 1 .. Len(l) : o[i] = c[l[i]].key
  BY <1>6, <1>7, OrderOfIndex
<1>9. Cardinality(DOMAIN m) = Len(l)
  BY <1>8, SizeOfList
<1>10. /\ Len(keys_) \in Nat /\ Len(l) = Len(keys_) + 1 /\ l[1] = n
       /\ DOMAIN keys_ = 1 .. Len(keys_)
       /\ \A i \in 2 .. Len(l) : l[i] = keys_[i - 1]
  BY <1>1, <1>3, InFront, LenProperties DEF Indexed
<1>11. PICK size : size = Len(l) - Excess(Len(l))
  OBVIOUS
<1>12. /\ size \in 1 .. Len(l)
       /\ size = Len(l) \/ (maxSize_ > 0 /\ size >= maxSize_)
       /\ maxSize_ > 0 => size <= (IF elasticity_ = 0 THEN maxSize_ ELSE maxSize_ + elasticity_ - 1)
  <2>1. CASE maxSize_ = 0 \/ Len(l) < maxSize_ + elasticity_ \/ Len(l) <= maxSize_
    <3>1. Excess(Len(l)) = 0
      BY <2>1 DEF Excess
    <3>2. size = Len(l)
      BY <1>10, <1>11, <3>1
    <3>3. QED
      BY <1>10, <2>1, <3>2
  <2>2. CASE ~(maxSize_ = 0 \/ Len(l) < maxSize_ + elasticity_ \/ Len(l) <= maxSize_)
    <3>1. Excess(Len(l)) = Len(l) - maxSize_
      BY <2>2 DEF Excess
    <3>2. size = maxSize_
      BY <1>10, <1>11, <3>1
    <3>3. QED
      BY <1>10, <2>2, <3>2
  <2>3. QED
    BY <2>1, <2>2
<1>13. PICK pruned : pruned = Behind(l, size)
  OBVIOUS
<1>bounds. size \in Nat /\ size <= Len(l) /\ size \in 0 .. Len(l) /\ \A i \in 1 .. size : i \in 1 .. Len(l)
  <2>1. Len(l) \in Nat /\ size \in 1 .. Len(l)
    BY <1>8, <1>12
  <2>2. QED
    BY <2>1
<1>14. /\ keys_' = SubSeq(l, 1, size)
       /\ node' = Restrict(c, DOMAIN c \ pruned)
       /\ cache_' = Unmapped(m, KeysOf(c, pruned))
  BY <1>6, <1>9, <1>11, <1>13 DEF Prune, Behind, KeysOf
<1>15. /\ Indexed(keys_', node', cache_')
       /\ \A x \in DOMAIN c \ pruned : node'[x] = c[x]
       /\ \A j \in DOMAIN cache_' : j \in DOMAIN m /\ m[j] \in DOMAIN c \ pruned /\ cache_'[j] = m[j]
  <2>1. PICK prunedNodes : prunedNodes = node'
    OBVIOUS
  <2>2. PICK prunedMap : prunedMap = cache_'
    OBVIOUS
  <2>3. /\ Indexed(SubSeq(l, 1, size), prunedNodes, prunedMap)
        /\ \A x \in DOMAIN c \ pruned : prunedNodes[x] = c[x]
        /\ \A j \in DOMAIN prunedMap : j \in DOMAIN m /\ m[j] \in DOMAIN c \ pruned /\ prunedMap[j] = m[j]
    <3>1. /\ prunedNodes = Restrict(c, DOMAIN c \ pruned)
          /\ prunedMap = Unmapped(m, KeysOf(c, pruned))
      BY <1>14, <2>1, <2>2
    <3>2. QED
      BY <1>6, <1>13, <1>bounds, <3>1, PruneFacts
  <2>4. QED
    BY <1>14, <2>1, <2>2, <2>3
<1>16. /\ DOMAIN keys_' = 1 .. size /\ Len(keys_') = size /\ \A i \in 1 .. size : keys_'[i] = l[i]
  <2>1. l \in Seq(Node) /\ size \in 0 .. Len(l)
    BY <1>6, <1>bounds DEF Indexed
  <2>2. QED
    BY <1>14, <2>1, PrefixFacts
<1>17. CacheInv'
  BY <1>12, <1>15, <1>16 DEF CacheInv, IndexInv, SizeInv, Limit
<1>18. /\ Order \in Seq(Key) /\ Len(Order) = Len(keys_) /\ Members(Order) = DOMAIN cache_
       /\ \A i \in 1 .. Len(keys_) : keys_[i] \in DOMAIN node /\ Order[i] = node[keys_[i]].key
  BY OrderFacts DEF CacheInv
<1>19. o = <<k>> \o Order
  <2>1. PICK g : g = <<k>> \o Order
    OBVIOUS
  <2>2. /\ g \in Seq(Key) /\ DOMAIN g = 1 .. Len(l) /\ g[1] = k
        /\ \A i \in 2 .. Len(l) : g[i] = Order[i - 1]
    BY <1>10, <1>18, <2>1, InFront
  <2>3. ASSUME NEW i \in 1 .. Len(l) PROVE g[i] = o[i]
    <3>1. CASE i = 1
      <4>1. c[n].key = k
        BY <1>4
      <4>2. QED
        BY <1>8, <1>10, <2>2, <3>1, <4>1
    <3>2. CASE i # 1
      <4>1. i \in 2 .. Len(l) /\ i - 1 \in 1 .. Len(keys_)
        BY <1>10, <3>2
      <4>2. PICK x \in DOMAIN node : x = keys_[i - 1] /\ Order[i - 1] = node[x].key
        BY <1>18, <4>1
      <4>3. c[x] = node[x]
        BY <1>4
      <4>4. QED
        BY <1>8, <1>10, <2>2, <4>1, <4>2, <4>3
    <3>3. QED
      BY <3>1, <3>2
  <2>4. o = [i \in 1 .. Len(l) |-> o[i]]
    BY <1>8, LenProperties
  <2>5. g = [i \in 1 .. Len(l) |-> g[i]]
    BY <2>2, LenProperties
  <2>6. g = o
    BY <2>3, <2>4, <2>5
  <2>7. QED
    BY <2>1, <2>6
<1>20. Order' = SubSeq(o, 1, size)
  <2>1. size \in 0 .. Len(o)
    BY <1>8, <1>bounds
  <2>2. /\ SubSeq(o, 1, size) \in Seq(Key) /\ DOMAIN SubSeq(o, 1, size) = 1 .. size
        /\ \A i \in 1 .. size : SubSeq(o, 1, size)[i] = o[i]
    BY <1>8, <2>1, PrefixFacts
  <2>3. PICK p : p = Order'
    OBVIOUS
  <2>4. p = [i \in 1 .. size |-> node'[keys_'[i]].key]
    BY <1>16, <2>3 DEF Order
  <2>5. ASSUME NEW i \in 1 .. size PROVE p[i] = o[i]
    <3>1. i \in 1 .. Len(l) /\ keys_'[i] = l[i]
      BY <1>16, <1>bounds
    <3>2. keys_'[i] \in DOMAIN c \ pruned
      <4>1. keys_'[i] \in DOMAIN node'
        BY <1>15, <1>16 DEF Indexed, Members
      <4>2. QED
        BY <1>14, <4>1 DEF Restrict
    <3>3. node'[keys_'[i]] = c[l[i]]
      BY <1>15, <3>1, <3>2
    <3>4. QED
      BY <1>8, <2>4, <3>1, <3>3
  <2>6. p = [i \in 1 .. size |-> p[i]]
    BY <2>4
  <2>7. QED
    BY <2>2, <2>3, <2>5, <2>6, SequencesAgree
<1>21. Recency!Without(Order, k) = Order /\ k \notin Recency!Held(Order)
  BY <1>1, <1>18 DEF Recency!Without, Recency!Held, Members
<1>22. Recency!Held(Order') = DOMAIN cache_'
  <2>1. Members(Order') = DOMAIN cache_'
    BY <1>15, OrderOfIndex DEF Order
  <2>2. QED
    BY <2>1 DEF Recency!Held, Members
<1>23. Entries' = [j \in Recency!Held(Order') |-> IF j = k THEN v ELSE Entries[j]]
  <2>1. ASSUME NEW j \in DOMAIN cache_'
        PROVE  node'[cache_'[j]].value = IF j = k THEN v ELSE Entries[j]
    <3>1. PICK x : x = m[j] /\ x \in DOMAIN c \ pruned /\ j \in DOMAIN m /\ node'[cache_'[j]] = c[x]
      BY <1>15
    <3>2. CASE j = k
      BY <1>4, <1>5, <3>1, <3>2
    <3>3. CASE j # k
      <4>1. j \in DOMAIN cache_ /\ x = cache_[j] /\ x \in DOMAIN node
        BY <1>1, <1>5, <3>1, <3>3 DEF Indexed
      <4>2. c[x] = node[x]
        BY <1>2, <1>4, <4>1
      <4>3. Entries[j] = node[x].value
        BY <4>1 DEF Entries
      <4>4. QED
        BY <3>1, <3>3, <4>2, <4>3
    <3>4. QED
      BY <3>2, <3>3
  <2>2. QED
    BY <1>22, <2>1 DEF Entries
<1>24. Recency!Put(k, v)
  <2>1. size \in 1 .. Len(Order) + 1 /\ size <= Len(<<k>> \o Order) /\ Len(<<k>> \o Order) = Len(l)
    BY <1>8, <1>10, <1>12, <1>18, <1>19
  <2>2. Order' = Recency!Prefix(<<k>> \o Recency!Without(Order, k), size)
    BY <1>19, <1>20, <1>21 DEF Recency!Prefix
  <2>3. QED
    BY <1>12, <1>21, <1>23, <2>1, <2>2 DEF Recency!Put, Order, Entries
<1>25. QED
  BY <1>17, <1>24

(* remove(): the entry leaves the list, the nodes and the map.             *)
LEMMA RemoveStep ==
  ASSUME CacheInv, NEW k \in Key, remove(k)
  PROVE  CacheInv' /\ Recency!Erase(k)
<1> DEFINE rest == Recency!Without(Order, k)
<1>1. /\ k \in DOMAIN cache_ /\ IndexInv
      /\ keys_' = Unlinked(keys_, cache_[k])
      /\ node' = Restrict(node, DOMAIN node \ {cache_[k]})
      /\ cache_' = Unmapped(cache_, {k})
  BY DEF remove, CacheInv
<1>2. /\ keys_' \in Seq(Node) /\ Distinct(keys_') /\ Members(keys_') = DOMAIN node \ {cache_[k]}
      /\ rest \in Seq(Key) /\ Len(keys_') = Len(keys_) - 1
      /\ DOMAIN keys_' = 1 .. Len(keys_) - 1 /\ DOMAIN rest = 1 .. Len(keys_) - 1
      /\ \A i \in 1 .. Len(keys_) - 1 : rest[i] = node[keys_'[i]].key
      /\ Members(rest) = DOMAIN cache_ \ {k}
  BY <1>1, UnlinkFacts
<1> HIDE DEF rest
<1>3. /\ DOMAIN node' = DOMAIN node \ {cache_[k]} /\ \A x \in DOMAIN node' : node'[x] = node[x]
      /\ DOMAIN cache_' = DOMAIN cache_ \ {k} /\ \A j \in DOMAIN cache_' : cache_'[j] = cache_[j]
  BY <1>1 DEF Restrict, Unmapped
<1>4. ASSUME NEW x \in DOMAIN node'
      PROVE  node'[x] \in [key : Key, value : Value] /\ node'[x].key \in DOMAIN cache_' /\ cache_'[node'[x].key] = x
  <2>1. /\ x \in DOMAIN node /\ x # cache_[k] /\ node'[x] = node[x] /\ node[x] \in [key : Key, value : Value]
        /\ node[x].key \in DOMAIN cache_ /\ cache_[node[x].key] = x
    BY <1>1, <1>3 DEF IndexInv, Indexed
  <2>2. QED
    BY <1>3, <2>1
<1>5. ASSUME NEW j \in DOMAIN cache_' PROVE cache_'[j] \in DOMAIN node' /\ node'[cache_'[j]].key = j
  <2>1. /\ j \in DOMAIN cache_ /\ j # k /\ cache_'[j] = cache_[j] /\ cache_[j] \in DOMAIN node
        /\ node[cache_[j]].key = j /\ node[cache_[k]].key = k
    BY <1>1, <1>3 DEF IndexInv, Indexed
  <2>2. QED
    BY <1>3, <2>1
<1>6. IndexInv'
  BY <1>2, <1>3, <1>4, <1>5 DEF IndexInv, Indexed
<1>7. SizeInv'
  BY <1>1, <1>2, OrderFacts, SizesAssumption DEF CacheInv, SizeInv, Limit
<1>8. Order' = rest
  <2>1. PICK p : p = Order'
    OBVIOUS
  <2>2. p = [i \in 1 .. Len(keys_) - 1 |-> node'[keys_'[i]].key]
    BY <1>2, <2>1 DEF Order
  <2>3. ASSUME NEW i \in 1 .. Len(keys_) - 1 PROVE rest[i] = p[i]
    <3>1. keys_'[i] \in DOMAIN node'
      BY <1>2, <1>3 DEF Members
    <3>2. QED
      BY <1>2, <1>3, <2>2, <3>1
  <2>4. p = [i \in 1 .. Len(keys_) - 1 |-> p[i]]
    BY <2>2
  <2>5. QED
    BY <1>2, <2>1, <2>3, <2>4, SequencesAgree
<1>9. Recency!Held(Order') = DOMAIN cache_'
  BY <1>2, <1>3, <1>8 DEF Recency!Held, Members
<1>10. Entries' = [j \in Recency!Held(Order') |-> Entries[j]]
  <2>1. ASSUME NEW j \in DOMAIN cache_' PROVE node'[cache_'[j]].value = Entries[j]
    <3>1. j \in DOMAIN cache_ /\ cache_'[j] = cache_[j] /\ node'[cache_'[j]] = node[cache_[j]]
      BY <1>3, <1>5
    <3>2. QED
      BY <3>1 DEF Entries
  <2>2. QED
    BY <1>9, <2>1 DEF Entries
<1>11. QED
  BY <1>6, <1>7, <1>8, <1>10 DEF CacheInv, Recency!Erase, Order, Entries, rest

LEMMA ClearStep ==
  ASSUME CacheInv, Clear
  PROVE  CacheInv' /\ Recency!Clear
<1>1. keys_' = <<>> /\ node' = <<>> /\ cache_' = <<>>
  BY DEF Clear
<1>2. CacheInv'
  BY <1>1, SizesAssumption DEF CacheInv, IndexInv, Indexed, Distinct, Members, SizeInv, Limit
<1>3. QED
  BY <1>1, <1>2 DEF Recency!Clear

LEMMA StepRefines ==
  ASSUME CacheInv, [CacheNext]_cacheVars
  PROVE  CacheInv' /\ [Recency!Next]_Recency!vars
<1>1. CASE Clear
  BY <1>1, ClearStep DEF Recency!Next
<1>2. ASSUME NEW k \in Key, Get(k) PROVE CacheInv' /\ Recency!Next
  BY <1>2, GetStep DEF Recency!Next
<1>3. ASSUME NEW k \in Key, remove(k) PROVE CacheInv' /\ Recency!Next
  BY <1>3, RemoveStep DEF Recency!Next
<1>4. ASSUME NEW k \in Key, NEW v \in Value, Overwrite(k, v) PROVE CacheInv' /\ Recency!Next
  BY <1>4, OverwriteStep DEF Recency!Next
<1>5. ASSUME NEW k \in Key, NEW v \in Value, Insert(k, v) PROVE CacheInv' /\ Recency!Next
  BY <1>5, InsertStep DEF Recency!Next
<1>6. CASE UNCHANGED cacheVars
  BY <1>6 DEF cacheVars, CacheInv, IndexInv, SizeInv, Recency!vars
<1>7. QED
  BY <1>1, <1>2, <1>3, <1>4, <1>5, <1>6 DEF CacheNext

(* The cache keeps what it promises, whatever its sizes: a hit or an        *)
(* insertion makes its key the most recent, an entry leaves because it was  *)
(* removed or because an insertion overfilled the cache, in which case the  *)
(* least recently used go, down to maxSize_ and no further, and a key is    *)
(* never found with a value other than the last one stored for it.         *)
THEOREM CacheIsARecencyCache == CacheSpec => ImplementsRecencyCache
<1>1. CacheInit => CacheInv /\ Recency!Init
  BY SizesAssumption DEF CacheInit, CacheInv, IndexInv, Indexed, Distinct, Members, SizeInv, Limit, Recency!Init
<1>2. CacheInv /\ [CacheNext]_cacheVars => CacheInv' /\ [Recency!Next]_Recency!vars
  BY StepRefines
<1>3. QED
  BY <1>1, <1>2, PTL DEF CacheSpec, ImplementsRecencyCache, Recency!Spec
==============================================================================
