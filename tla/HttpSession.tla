---------------------------- MODULE HttpSession ----------------------------
(***************************************************************************)
(* http_server::work with sessions and the cache enabled, and the redis    *)
(* server behind it.  One request is served at a time: tcp_server has one  *)
(* thread, and tcp_threading_server calls work under main_mtx.  But each   *)
(* redis command is a step of its own: keys expire between two commands,   *)
(* the connection to redis may break, and the process may be killed and    *)
(* started again while redis keeps what it has.                            *)
(*                                                                         *)
(* Of a hash one field is modelled: who stored it.                         *)
(***************************************************************************)
EXTENDS Naturals, FiniteSets, Functions

CONSTANTS
  Clients,
  enable_session, enable_cache,
  MaxTime,     \* bound on the clock, in seconds
  CacheKey,    \* cache_k, the md5 of the one path that is requested
  FieldKey,    \* a key that has the name of a field of a handler's
  NoKey,       \* session_val is empty
  NoCookie, OtherCookie,   \* no Cookie header; one without SESSIONID
  Nobody       \* no client; nothing stored

ASSUME SettingsAssumption ==
  MaxTime \in Nat /\ enable_session \in BOOLEAN /\ enable_cache \in BOOLEAN
ASSUME NobodyAssumption == Nobody \notin Clients

Sessions == 0 .. MaxTime   \* ids, named after the second they were made in
Keys == Sessions \cup {CacheKey, FieldKey}

ASSUME NamesAssumption ==
  CacheKey \notin Sessions /\ FieldKey \notin Sessions \cup {CacheKey} /\ NoKey \notin Keys /\ {NoCookie, OtherCookie} \cap Sessions = {}

VARIABLES
  redis,       \* key -> [by, expires], for the keys that exist
  connected,   \* redis::is_connected()
  now,         \* the clock, in seconds
  jar,         \* client -> the cookie its browser holds
  pc,          \* next step of the request in progress
  req          \* [client, key (session_val), stage, loaded, cookie (Set-Cookie)]

(* History *)
VARIABLES
  given,       \* triples <<id, client, time>>: every Set-Cookie that was made
  gone,        \* keys that have expired since the request in progress began
  immortal,    \* keys created whose EXPIRE never came, made anew by HMSET after they
               \* had expired within the request, or named after a field
  kept         \* client -> the id its session was last stored under, until that expires

vars == <<redis, connected, now, jar, pc, req, given, gone, immortal, kept>>

NoRequest == [client |-> Nobody, key |-> NoKey, stage |-> "session", loaded |-> Nobody,
              cookie |-> NoCookie]

Entry == [by : Clients \cup {Nobody}, expires : BOOLEAN]
Request ==
  [client : Clients \cup {Nobody}, key : Sessions \cup {NoKey}, stage : {"session", "cache"},
   loaded : Clients \cup {Nobody}, cookie : Sessions \cup {NoCookie}]

TypeOK ==
  /\ DOMAIN redis \subseteq Keys /\ redis \in [DOMAIN redis -> Entry]
  /\ connected \in BOOLEAN /\ now \in 0 .. MaxTime
  /\ jar \in [Clients -> Sessions \cup {NoCookie, OtherCookie}]
  /\ pc \in {"idle", "exists", "hgetall", "hset", "expire", "handler", "save", "respond"}
  /\ req \in Request /\ (IF pc = "idle" THEN req = NoRequest ELSE req.client \in Clients)
  /\ req.key # NoKey => req.key = jar[req.client]

Init ==
  /\ redis = <<>> /\ connected \in BOOLEAN /\ now = 0
  /\ jar \in [Clients -> {NoCookie, OtherCookie}]
  /\ pc = "idle" /\ req = NoRequest
  /\ given = {} /\ gone = {} /\ immortal = {}
  /\ kept = [c \in Clients |-> NoKey]

-----------------------------------------------------------------------------
(* The request *)

StageKey == IF req.stage = "session" THEN req.key ELSE CacheKey

(* Where work goes after a stage's commands, or when it skips them.        *)
Goto(r, to) == pc' = to /\ req' = r
AfterSession(r) ==
  IF enable_cache /\ connected' THEN Goto([r EXCEPT !.stage = "cache"], "exists") ELSE Goto(r, "handler")
AfterStage == IF req.stage = "session" THEN AfterSession(req) ELSE Goto(req, "handler")

(* random_string(""): the md5 of ctime(), which counts seconds.            *)
NewIdFixed(t) == 0   \* mutant: an id that does not change
NewId(t) == t

Begin(c) ==
  LET r == [NoRequest EXCEPT !.client = c] IN
  /\ pc = "idle"
  /\ gone' = {}
  /\ UNCHANGED connected
  /\ CASE ~enable_session -> AfterSession(r) /\ UNCHANGED given
       [] enable_session /\ jar[c] = NoCookie ->
            /\ given' = given \cup {<<NewId(now), c, now>>}
            /\ AfterSession([r EXCEPT !.cookie = NewId(now)])
       [] enable_session /\ jar[c] = OtherCookie -> AfterSession(r) /\ UNCHANGED given
       [] OTHER -> /\ IF connected THEN Goto([r EXCEPT !.key = jar[c]], "exists") ELSE AfterSession(r)
                   /\ UNCHANGED given
  /\ UNCHANGED <<redis, now, jar, immortal, kept>>

FoundNever(key) == FALSE   \* mutant: the answer to EXISTS is not looked at
Found(key) == key \in DOMAIN redis

Exists ==
  /\ pc = "exists"
  /\ Goto(req, IF Found(StageKey) THEN "hgetall" ELSE "hset")
  /\ UNCHANGED <<redis, connected, now, jar, given, gone, immortal, kept>>

(* A key that has expired since EXISTS yields an empty reply.              *)
HGetAll ==
  /\ pc = "hgetall"
  /\ UNCHANGED connected
  /\ IF req.stage = "session"
     THEN AfterSession([req EXCEPT !.loaded = IF req.key \in DOMAIN redis THEN redis[req.key].by ELSE Nobody])
     ELSE AfterStage
  /\ UNCHANGED <<redis, now, jar, given, gone, immortal, kept>>

(* HSET of the marker field. *)
Created(key) ==
  [k \in DOMAIN redis \cup {key} |-> IF k \in DOMAIN redis THEN redis[k] ELSE [by |-> Nobody, expires |-> FALSE]]

HSet ==
  /\ pc = "hset"
  /\ redis' = Created(StageKey)
  /\ Goto(req, "expire")
  /\ UNCHANGED <<connected, now, jar, given, gone, immortal, kept>>

ExpiringCacheOnly(key) ==   \* mutant: no EXPIRE for sessions
  [redis EXCEPT ![key].expires = (key = CacheKey)]
Expiring(key) == [redis EXCEPT ![key].expires = TRUE]

Expire ==
  /\ pc = "expire"
  /\ redis' = Expiring(StageKey)
  /\ immortal' = immortal \ {StageKey}
  /\ UNCHANGED connected
  /\ AfterStage
  /\ UNCHANGED <<now, jar, given, gone, kept>>

(* res_filter: it may put something into res.session and res.cache, and    *)
(* stage now says which of the two is being written.                       *)
Handler ==
  /\ pc = "handler"
  /\ \E wrote \in BOOLEAN :
       Goto([req EXCEPT !.stage = IF enable_session THEN "session" ELSE "cache"],
            IF wrote /\ (enable_session \/ enable_cache) THEN "save" ELSE "respond")
  /\ UNCHANGED <<redis, connected, now, jar, given, gone, immortal, kept>>

(* HMSET keeps the expiry of a key that exists and makes one without       *)
(* expiry otherwise.                                                       *)
Stored(key, c) ==
  [k \in DOMAIN redis \cup {key} |->
     IF k # key THEN redis[k]
     ELSE [by |-> c, expires |-> IF k \in DOMAIN redis THEN redis[k].expires ELSE FALSE]]

(* What redis may hold after hmset, which puts the key, the fields and the *)
(* values one after the other, with blanks between, into the format of the *)
(* command.  In words (no field or value is empty or has a blank or a '%') *)
(* the command says what the handler stored.  Otherwise arguments are      *)
(* missing, split or changed: redis refuses them, sets other fields, or    *)
(* sets these.  An empty key (session_val) leaves a gap, and every argument*)
(* moves up: of words one is then missing and they are refused, otherwise  *)
(* the first field may become the key.                                     *)
Sent(words) ==
  CASE words /\ StageKey # NoKey  -> {Stored(StageKey, req.client)}
    [] words /\ StageKey = NoKey  -> {redis}
    [] ~words /\ StageKey # NoKey -> {redis, Created(StageKey), Stored(StageKey, req.client)}
    [] ~words /\ StageKey = NoKey -> {redis, Created(FieldKey)}

(* The keys that hmset has made and nothing will ever expire.              *)
MadeForGood == (DOMAIN redis' \ DOMAIN redis) \cap (gone \cup {FieldKey})

AfterSave == IF req.stage = "session" /\ enable_cache THEN Goto([req EXCEPT !.stage = "cache"], "save") ELSE Goto(req, "respond")

HMSet ==
  /\ pc = "save"
  /\ AfterSave
  /\ IF connected
     THEN \E words \in BOOLEAN :
            /\ redis' \in Sent(words)
            /\ immortal' = immortal \cup MadeForGood
            /\ kept' = IF words /\ req.stage = "session" /\ req.key # NoKey
                       THEN [kept EXCEPT ![req.client] = req.key] ELSE kept
     ELSE UNCHANGED <<redis, immortal, kept>>
  /\ UNCHANGED <<connected, now, jar, given, gone>>

Respond ==
  /\ pc = "respond"
  /\ Goto(NoRequest, "idle")
  /\ jar' = IF req.cookie # NoCookie THEN [jar EXCEPT ![req.client] = req.cookie] ELSE jar
  /\ UNCHANGED <<redis, connected, now, given, gone, immortal, kept>>

-----------------------------------------------------------------------------
(* What goes wrong *)

(* The process ends, and a new one finds redis or does not. *)
Restart ==
  /\ pc # "idle"
  /\ Goto(NoRequest, "idle")
  /\ connected' \in BOOLEAN
  /\ immortal' = IF pc = "expire" THEN immortal \cup {StageKey} ELSE immortal
  /\ UNCHANGED <<redis, now, jar, given, gone, kept>>

(* The connection breaks and redisCommand returns NULL.  hset, expire and  *)
(* hmset go on with nothing, whether or not redis has seen the command;    *)
(* exists and hgetall dereference it, and the process ends (Restart).  A   *)
(* '%' in a value has hiredis give up the context, or read an argument that*)
(* is not there, which ends the process too.                               *)
Breaks ==
  /\ connected
  /\ connected' = FALSE
  /\ \/ pc = "hset" /\ Goto(req, "expire") /\ redis' \in {redis, Created(StageKey)}
     \/ pc = "expire" /\ AfterStage /\ redis' \in {redis, Expiring(StageKey)}
     \/ pc = "save" /\ AfterSave /\ redis' \in {redis} \cup Sent(TRUE) \cup Sent(FALSE)
  /\ immortal' = immortal \cup IF pc = "save" THEN MadeForGood ELSE {StageKey}
  /\ UNCHANGED <<now, jar, given, gone, kept>>

(* EXPIRE after the connection broke in HSET. *)
ExpireLost ==
  /\ pc = "expire" /\ ~connected
  /\ UNCHANGED connected
  /\ AfterStage
  /\ UNCHANGED <<redis, now, jar, given, gone, immortal, kept>>

(* redis drops a key whose time has come. *)
KeyExpires(k) ==
  /\ k \in DOMAIN redis /\ redis[k].expires
  /\ redis' = Restrict(redis, DOMAIN redis \ {k})
  /\ gone' = gone \cup {k}
  /\ kept' = [c \in Clients |-> IF kept[c] = k THEN NoKey ELSE kept[c]]
  /\ UNCHANGED <<connected, now, jar, pc, req, given, immortal>>

(* A browser drops its cookie at the time the server gave it.              *)
CookieExpires(c) ==
  /\ jar[c] \in Sessions /\ req.client # c
  /\ jar' = [jar EXCEPT ![c] = NoCookie]
  /\ UNCHANGED <<redis, connected, now, pc, req, given, gone, immortal, kept>>

Tick ==
  /\ now < MaxTime
  /\ now' = now + 1
  /\ UNCHANGED <<redis, connected, jar, pc, req, given, gone, immortal, kept>>

Commands ==
  \/ connected /\ (Exists \/ HGetAll \/ HSet \/ Expire)
  \/ Handler \/ HMSet \/ Respond

Next ==
  \/ Commands \/ Restart \/ Breaks \/ ExpireLost \/ Tick
  \/ \E c \in Clients : Begin(c) \/ CookieExpires(c)
  \/ \E k \in Keys : KeyExpires(k)

Spec == Init /\ [][Next]_vars

-----------------------------------------------------------------------------
(* Properties *)

(* Every key in redis has an expiry, except a key whose HSET was not       *)
(* followed by its EXPIRE (work:329-330, 352-353), one that expired while  *)
(* a request was being served and came back with its HMSET (work:372,      *)
(* 377), for good, and one that HMSET, given no session id, has named after*)
(* a field.                                                                *)
KeysExpire ==
  \A k \in DOMAIN redis :
    redis[k].expires \/ k \in immortal \/ (pc = "expire" /\ k = StageKey)

(* A handler finds in the session what a handler stored for the same       *)
(* client, or for one that asked for a session in the same second.         *)
SessionsAreOwn ==
  pc = "handler" /\ req.loaded \notin {Nobody, req.client} =>
    \E t \in 0 .. MaxTime : \A c \in {req.loaded, req.client} : \E id \in Sessions : <<id, c, t>> \in given

(* What a handler stored in words under a client's id is found by its next *)
(* request, unless it has expired: neither crashes nor a broken connection *)
(* lose the session, creating the key again does not overwrite it, and no  *)
(* later HMSET, whatever becomes of its values, takes it away.             *)
StoredIsFound ==
  pc = "handler" /\ req.key # NoKey /\ kept[req.client] = req.key => req.loaded # Nobody
============================================================================
