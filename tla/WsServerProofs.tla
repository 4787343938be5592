--------------------------- MODULE WsServerProofs ---------------------------
(***************************************************************************)
(* Theorems about WsServer for all clients, workers and scripts, whatever  *)
(* json11 makes of a text.                                                 *)
(***************************************************************************)
EXTENDS WsServer, SequenceTheorems, TLAPS

(* A worker past recv holds input or is about to close. A connection has   *)
(* two busy workers only if it is counted as raced, and is closed under    *)
(* one only by another worker or by the event loop.                        *)
Workplace ==
  /\ chunk = [w \in Workers |-> chunk[w]] /\ pc = [w \in Workers |-> pc[w]]
  /\ \A w \in Workers : pc[w] \in {"recv", "work", "close", "del"}
Busy ==
  \A w \in Workers : \A c : Holds(w, c) =>
    /\ c \in Conns \ (waiting \cup adding)
    /\ pc[w] = "del" => c \notin open
    /\ pc[w] # "del" => c \in open \cup raced \cup dropped
    /\ \A v \in Workers \ {w} : Holds(v, c) => c \in raced
Accepted ==
  /\ waiting \cap open = {} /\ adding \subseteq open
  /\ \A c, d \in adding : c = d

RegistryInv == Workplace /\ Busy /\ Accepted /\ RegistryFollowsConnections

(* What Shake and Work have in common, and ShakeKills and WorkKills.       *)
Answers(w) ==
  /\ pc[w] = "work"
  /\ \E reply, id, close : Finish(w, chunk[w].conn, reply, id, close)
Kills(w) == ShakeKills(w) \/ WorkKills(w)

LEMMA AnswersFinish ==
  ASSUME NEW w \in Workers, Shake(w) \/ Work(w)
  PROVE  Answers(w)
BY DEF Shake, Work, Answers

LEMMA StepsOfWs ==
  ASSUME Next
  PROVE  \/ Cast
         \/ \E c \in Conns : Accept(c) \/ AddClient(c) \/ HangUp(c)
         \/ \E w \in Workers, c \in Conns : Recv(w, c) \/ RecvEnd(w, c)
         \/ \E w \in Workers : Answers(w)
         \/ \E w \in Workers : Kills(w)
         \/ \E w \in Workers : CloseFd(w) \/ DelClient(w)
BY AnswersFinish DEF Next, Kills

LEMMA RegistryStep == RegistryInv /\ [Next]_vars => RegistryInv'
<1> SUFFICES ASSUME RegistryInv, [Next]_vars PROVE RegistryInv'
  OBVIOUS
<1> USE DEF RegistryInv
<1>1. CASE UNCHANGED <<connections, pc, chunk, raced, dropped>>
  BY <1>1 DEF connections, Workplace, Busy, Accepted, Holds, RegistryFollowsConnections
<1>2. ASSUME NEW c \in Conns, Accept(c) PROVE RegistryInv'
  <2>1. /\ adding = {} /\ c \in waiting /\ UNCHANGED <<clients, pc, chunk, raced, dropped>>
        /\ waiting' = waiting \ {c} /\ open' = open \cup {c} /\ adding' = {c}
    BY <1>2 DEF Accept, history
  <2>2. \A w \in Workers : \A d : Holds(w, d)' <=> Holds(w, d)
    BY <2>1 DEF Holds
  <2>3. Workplace' /\ Accepted'
    BY <2>1 DEF Workplace, Accepted
  <2>4. Busy'
    BY <2>1, <2>2 DEF Busy
  <2>5. RegistryFollowsConnections'
    BY <2>1, <2>2 DEF RegistryFollowsConnections
  <2>6. QED
    BY <2>3, <2>4, <2>5
<1>3. ASSUME NEW c \in Conns, AddClient(c) PROVE RegistryInv'
  <2>1. /\ c \in adding /\ adding' = {} /\ DOMAIN clients' = DOMAIN clients \cup {c}
        /\ UNCHANGED <<waiting, open, pc, chunk, raced, dropped>>
    BY <1>3 DEF AddClient, history
  <2>2. \A w \in Workers : \A d : Holds(w, d)' <=> Holds(w, d)
    BY <2>1 DEF Holds
  <2>3. Workplace' /\ Accepted'
    BY <2>1 DEF Workplace, Accepted
  <2>4. Busy'
    BY <2>1, <2>2 DEF Busy
  <2>5. RegistryFollowsConnections'
    BY <2>1, <2>2 DEF RegistryFollowsConnections, Accepted
  <2>6. QED
    BY <2>3, <2>4, <2>5
<1>4. ASSUME NEW c \in Conns, HangUp(c) PROVE RegistryInv'
  <2>1. /\ adding = {} /\ open' = open \ {c} /\ dropped' = dropped \cup {c}
        /\ UNCHANGED <<waiting, adding, clients, pc, chunk, raced>>
    BY <1>4 DEF HangUp
  <2>2. \A w \in Workers : \A d : Holds(w, d)' <=> Holds(w, d)
    BY <2>1 DEF Holds
  <2>3. Workplace' /\ Accepted'
    BY <2>1 DEF Workplace, Accepted
  <2>4. Busy'
    BY <2>1, <2>2 DEF Busy
  <2>5. RegistryFollowsConnections'
    BY <2>1, <2>2 DEF RegistryFollowsConnections
  <2>6. QED
    BY <2>3, <2>4, <2>5
<1>5. ASSUME NEW w \in Workers, NEW c \in Conns, Recv(w, c) \/ RecvEnd(w, c) PROVE RegistryInv'
  <2>1. PICK k, next :
          /\ pc[w] = "recv" /\ next \in {"work", "close"} /\ c \in open \ adding
          /\ k.conn = c
          /\ chunk' = [chunk EXCEPT ![w] = k] /\ pc' = [pc EXCEPT ![w] = next]
          /\ raced' = Racing(c) /\ UNCHANGED <<connections, dropped>>
    <3>1. CASE Recv(w, c)
      <4>1. PICK to : chunk' = [chunk EXCEPT ![w] = [conn |-> c, from |-> got[c], to |-> to]]
        BY <3>1 DEF Recv
      <4>2. QED
        BY <3>1, <4>1 DEF Recv
    <3>2. CASE RecvEnd(w, c)
      BY <3>2 DEF RecvEnd
    <3>3. QED
      BY <1>5, <3>1, <3>2
  <2>2. /\ raced \subseteq raced' /\ \A v \in Workers : Holds(v, c) => c \in raced'
        /\ UNCHANGED <<waiting, open, adding, clients>>
    BY <2>1 DEF Racing, connections
  <2>3. /\ \A v \in Workers : pc'[v] = IF v = w THEN next ELSE pc[v]
        /\ \A v \in Workers : chunk'[v] = IF v = w THEN k ELSE chunk[v]
    BY <2>1 DEF Workplace
  <2>4. \A v \in Workers : \A d : Holds(v, d)' <=> IF v = w THEN d = c ELSE Holds(v, d)
    BY <2>1, <2>3 DEF Holds
  <2>5. Workplace' /\ Accepted'
    <3>1. chunk' = [v \in Workers |-> chunk'[v]] /\ pc' = [v \in Workers |-> pc'[v]]
      BY <2>1 DEF Workplace
    <3>2. QED
      BY <2>1, <2>2, <2>3, <3>1 DEF Workplace, Accepted
  <2>6. Busy'
    <3>1. c \in Conns \ (waiting \cup adding)
      BY <2>1 DEF Accepted
    <3>2. QED
      BY <2>1, <2>2, <2>3, <2>4, <3>1 DEF Busy
  <2>7. RegistryFollowsConnections'
    BY <2>1, <2>2, <2>3, <2>4 DEF RegistryFollowsConnections
  <2>8. QED
    BY <2>5, <2>6, <2>7
<1>6. ASSUME NEW w \in Workers, Answers(w) PROVE RegistryInv'
  <2>1. PICK c, next :
          /\ Holds(w, c) /\ pc[w] = "work" /\ next \in {"recv", "close"}
          /\ pc' = [pc EXCEPT ![w] = next]
          /\ chunk' = IF next = "close" THEN chunk ELSE [chunk EXCEPT ![w] = Nobody]
          /\ DOMAIN clients' = DOMAIN clients \cup {c}
          /\ UNCHANGED <<waiting, open, adding, raced, dropped>>
    <3>1. PICK reply, id, close : Finish(w, chunk[w].conn, reply, id, close)
      BY <1>6 DEF Answers
    <3>2. PICK c : c = chunk[w].conn
      OBVIOUS
    <3>3. Holds(w, c) /\ pc[w] = "work"
      BY <1>6, <3>2 DEF Answers, Holds, Workplace
    <3>4. QED
      BY <3>1, <3>2, <3>3 DEF Finish
  <2>2. /\ \A v \in Workers : pc'[v] = IF v = w THEN next ELSE pc[v]
        /\ \A v \in Workers : chunk'[v] = IF v = w /\ next = "recv" THEN Nobody ELSE chunk[v]
    BY <2>1 DEF Workplace
  <2>3. \A v \in Workers : \A d : Holds(v, d)' => Holds(v, d)
    <3>1. ASSUME NEW d, Holds(w, d)' PROVE d = c
      BY <2>1, <2>2, <3>1 DEF Holds
    <3>2. \A v \in Workers \ {w} : \A d : Holds(v, d)' <=> Holds(v, d)
      BY <2>2 DEF Holds
    <3>3. QED
      BY <2>1, <3>1, <3>2
  <2>4. Workplace' /\ Accepted'
    <3>1. chunk' = [v \in Workers |-> chunk'[v]] /\ pc' = [v \in Workers |-> pc'[v]]
      BY <2>1 DEF Workplace
    <3>2. QED
      BY <2>1, <2>2, <3>1 DEF Workplace, Accepted
  <2>5. Busy'
    BY <2>1, <2>2, <2>3 DEF Busy
  <2>6. RegistryFollowsConnections'
    <3>1. c \in open \cup raced \cup dropped
      BY <2>1 DEF Busy
    <3>2. \A v \in Workers : \A d : pc[v] = "del" /\ Holds(v, d) => pc'[v] = "del" /\ Holds(v, d)'
      BY <2>1, <2>2 DEF Holds
    <3>3. QED
      BY <2>1, <3>1, <3>2 DEF RegistryFollowsConnections
  <2>7. QED
    BY <2>4, <2>5, <2>6
<1>7. ASSUME NEW w \in Workers, CloseFd(w) PROVE RegistryInv'
  <2>1. PICK c :
          /\ Holds(w, c) /\ pc[w] = "close" /\ pc' = [pc EXCEPT ![w] = "del"]
          /\ open' = open \ {c} /\ UNCHANGED <<waiting, adding, clients, chunk, raced, dropped>>
    BY <1>7 DEF CloseFd, Holds, Workplace, history
  <2>2. \A v \in Workers : pc'[v] = IF v = w THEN "del" ELSE pc[v]
    BY <2>1 DEF Workplace
  <2>3. \A v \in Workers : \A d : Holds(v, d)' <=> Holds(v, d)
    BY <2>1 DEF Holds
  <2>4. c \notin waiting \cup adding
    BY <2>1 DEF Busy
  <2>5. Workplace' /\ Accepted'
    <3>1. pc' = [v \in Workers |-> pc'[v]]
      BY <2>1 DEF Workplace
    <3>2. QED
      BY <2>1, <2>2, <2>4, <3>1 DEF Workplace, Accepted
  <2>6. \A d : Holds(w, d) => d = c
    BY <2>1 DEF Holds
  <2>7. Busy'
    BY <2>1, <2>2, <2>3, <2>6 DEF Busy
  <2>8. RegistryFollowsConnections'
    BY <2>1, <2>2, <2>3 DEF RegistryFollowsConnections
  <2>9. QED
    BY <2>5, <2>7, <2>8
<1>8. ASSUME NEW w \in Workers, DelClient(w) PROVE RegistryInv'
  <2>1. PICK c :
          /\ Holds(w, c) /\ pc[w] = "del" /\ pc' = [pc EXCEPT ![w] = "recv"]
          /\ chunk' = [chunk EXCEPT ![w] = Nobody]
          /\ DOMAIN clients' = DOMAIN clients \ {c} /\ UNCHANGED <<waiting, open, adding, raced, dropped>>
    BY <1>8 DEF DelClient, Holds, Workplace, Erased, history
  <2>2. /\ \A v \in Workers : pc'[v] = IF v = w THEN "recv" ELSE pc[v]
        /\ \A v \in Workers : chunk'[v] = IF v = w THEN Nobody ELSE chunk[v]
    BY <2>1 DEF Workplace
  <2>3. \A v \in Workers : \A d : Holds(v, d)' <=> v # w /\ Holds(v, d)
    BY <2>2 DEF Holds
  <2>4. Workplace' /\ Accepted'
    <3>1. chunk' = [v \in Workers |-> chunk'[v]] /\ pc' = [v \in Workers |-> pc'[v]]
      BY <2>1 DEF Workplace
    <3>2. QED
      BY <2>1, <2>2, <3>1 DEF Workplace, Accepted
  <2>5. Busy'
    BY <2>1, <2>2, <2>3 DEF Busy
  <2>6. RegistryFollowsConnections'
    <3>1. c \notin open
      BY <2>1 DEF Busy
    <3>2. \A d : Holds(w, d) => d = c
      BY <2>1 DEF Holds
    <3>3. QED
      BY <2>1, <2>2, <2>3, <3>1, <3>2 DEF RegistryFollowsConnections
  <2>7. QED
    BY <2>4, <2>5, <2>6
<1>9. CASE Cast \/ \E w \in Workers : Kills(w)
  BY <1>1, <1>9 DEF Cast, Kills, ShakeKills, WorkKills, history
<1>10. CASE UNCHANGED vars
  BY <1>1, <1>10 DEF vars, history
<1>11. QED
  BY <1>2, <1>3, <1>4, <1>5, <1>6, <1>7, <1>8, <1>9, <1>10, StepsOfWs

LEMMA RegistryAtFirst == Init => RegistryInv
BY DEF Init, RegistryInv, Workplace, Busy, Accepted, Holds, RegistryFollowsConnections

(* The event loop registers a connection after it has accepted it, work    *)
(* registers it once more with clients[fd], and del_client removes it      *)
(* after close: whatever the threads do in between, every open connection  *)
(* but the newest is registered, and an entry without a connection is one  *)
(* whose removal is under way, or one that RegistryFollowsConnections      *)
(* names.                                                                  *)
THEOREM RegistryIsRight == Spec => []RegistryFollowsConnections
<1>1. RegistryInv => RegistryFollowsConnections
  BY DEF RegistryInv
<1>2. QED
  BY <1>1, RegistryAtFirst, RegistryStep, PTL DEF Spec

-----------------------------------------------------------------------------
(* Broadcasts *)

LEMMA RemoveAtFacts ==
  ASSUME NEW S, NEW s \in Seq(S), NEW i \in DOMAIN s
  PROVE  /\ RemoveAt(s, i) \in Seq(S)
         /\ \A j \in DOMAIN RemoveAt(s, i) : \E l \in DOMAIN s : RemoveAt(s, i)[j] = s[l]
<1>1. /\ i \in 1 .. Len(s) /\ Len(s) \in Nat /\ DOMAIN s = 1 .. Len(s)
  BY LenProperties
<1> DEFINE front == SubSeq(s, 1, i - 1)
           back == SubSeq(s, i + 1, Len(s))
<1>2. /\ front \in Seq(S) /\ Len(front) = i - 1
      /\ \A j \in 1 .. i - 1 : front[j] = s[j]
  BY <1>1, SubSeqProperties
<1>3. /\ back \in Seq(S) /\ Len(back) = Len(s) - i
      /\ \A j \in 1 .. Len(s) - i : back[j] = s[i + j]
  BY <1>1, SubSeqProperties
<1> HIDE DEF front, back
<1>4. /\ front \o back \in Seq(S) /\ Len(front \o back) = Len(s) - 1
      /\ \A j \in 1 .. Len(s) - 1 : (front \o back)[j] = IF j <= i - 1 THEN front[j] ELSE back[j - (i - 1)]
  <2>1. /\ front \o back \in Seq(S) /\ Len(front \o back) = Len(front) + Len(back)
        /\ \A j \in 1 .. Len(front) + Len(back) :
             (front \o back)[j] = IF j <= Len(front) THEN front[j] ELSE back[j - Len(front)]
    BY <1>2, <1>3, ConcatProperties
  <2>2. Len(front) + Len(back) = Len(s) - 1
    BY <1>1, <1>2, <1>3
  <2>3. QED
    BY <1>2, <2>1, <2>2
<1>5. DOMAIN (front \o back) = 1 .. Len(s) - 1
  BY <1>4, LenProperties
<1>6. ASSUME NEW j \in 1 .. Len(s) - 1 PROVE \E l \in DOMAIN s : (front \o back)[j] = s[l]
  <2>1. CASE j <= i - 1
    <3>1. j \in 1 .. i - 1 /\ j \in DOMAIN s
      BY <1>1, <2>1
    <3>2. (front \o back)[j] = s[j]
      BY <1>2, <1>4, <2>1, <3>1
    <3>3. QED
      BY <3>1, <3>2
  <2>2. CASE j > i - 1
    <3>1. j - (i - 1) \in 1 .. Len(s) - i
      BY <1>1, <2>2
    <3>2. (front \o back)[j] = s[i + (j - (i - 1))] /\ i + (j - (i - 1)) = j + 1
      BY <1>1, <1>3, <1>4, <2>2, <3>1
    <3>3. QED
      <4>1. j + 1 \in DOMAIN s
        BY <1>1
      <4>2. QED
        BY <3>2, <4>1
  <2>3. QED
    <3>1. j <= i - 1 \/ j > i - 1
      BY <1>1
    <3>2. QED
      BY <2>1, <2>2, <3>1
<1>7. RemoveAt(s, i) = front \o back
  BY DEF RemoveAt, front, back
<1>8. QED
  BY <1>4, <1>5, <1>6, <1>7

(* What a broadcast remembers of a client is still so: whoever has been    *)
(* removed is forgotten, and an identity is set once.                      *)
Remembers(k) ==
  \A c \in DOMAIN k.seen :
    /\ c \in DOMAIN clients
    /\ k.seen[c].gid # 0 => clients[c].gid = k.seen[c].gid
    /\ k.seen[c].uid # 0 => clients[c].uid = k.seen[c].uid

IsCast(k) == \E from, filter, seen : k = [from |-> from, filter |-> filter, seen |-> seen]

CastInv ==
  /\ \E S : casts \in Seq(S)
  /\ \A i \in DOMAIN casts : IsCast(casts[i]) /\ Remembers(casts[i])

LEMMA ForgettingFacts ==
  ASSUME NEW S, NEW s \in Seq(S), NEW c
  PROVE  /\ \E T : Forgetting(c, s) \in Seq(T)
         /\ DOMAIN Forgetting(c, s) = DOMAIN s
         /\ \A i \in DOMAIN s : Forgetting(c, s)[i] = [s[i] EXCEPT !.seen = Erased(@, c)]
<1>1. s \in [1 .. Len(s) -> S] /\ Len(s) \in Nat /\ DOMAIN s = 1 .. Len(s)
  BY LenProperties
<1> DEFINE T == {[s[i] EXCEPT !.seen = Erased(@, c)] : i \in DOMAIN s}
<1>2. Forgetting(c, s) \in [1 .. Len(s) -> T]
  BY <1>1 DEF Forgetting
<1>3. Forgetting(c, s) \in Seq(T)
  BY <1>1, <1>2, IsASeq
<1>4. QED
  BY <1>1, <1>3 DEF Forgetting

(* A worker that answers keeps the identity of its client, once it is set, *)
(* and what it submits remembers the registry as it is then.               *)
KeepsIdentity(old, new) == (old.gid # 0 => new.gid = old.gid) /\ (old.uid # 0 => new.uid = old.uid)

LEMMA AnswerFacts ==
  ASSUME NEW w \in Workers, Shake(w) \/ Work(w)
  PROVE  \E c, id :
           /\ clients' = [d \in DOMAIN clients \cup {c} |-> IF d = c THEN id ELSE clients[d]]
           /\ c \in DOMAIN clients => KeepsIdentity(clients[c], id)
           /\ \/ casts' = casts
              \/ \E f : casts' = Append(casts, [from |-> c, filter |-> f, seen |-> clients'])
<1>1. PICK c : c = chunk[w].conn
  OBVIOUS
<1>2. PICK old : old = Identity(c)
  OBVIOUS
<1>3. \A new : KeepsIdentity(old, Latched(old, new)) /\ KeepsIdentity(old, old)
  BY DEF KeepsIdentity, Latched
<1>4. CASE Shake(w)
  <2>1. /\ clients' = [d \in DOMAIN clients \cup {c} |-> IF d = c THEN old ELSE clients[d]]
        /\ casts' = casts
    BY <1>1, <1>2, <1>4 DEF Shake, Finish
  <2>2. QED
    BY <1>2, <1>3, <2>1 DEF Identity
<1>5. CASE Work(w)
  <2>1. PICK r \in ParseResults(chunk[w]) :
          LET new == IF r.code = 1 /\ IsLogin(r.text) THEN Latched(old, Meaning[r.text[1]].id) ELSE old
          IN /\ Finish(w, c, Reply(r.code, r.text), new, Closes(r.code, r.text))
             /\ casts' = IF r.code = 2 \/ (r.code = 1 /\ IsLogin(r.text))
                         THEN Append(casts, [from |-> c, filter |-> Filter(r.text), seen |-> clients'])
                         ELSE casts
    BY <1>1, <1>2, <1>5 DEF Work
  <2>2. PICK new : new = IF r.code = 1 /\ IsLogin(r.text) THEN Latched(old, Meaning[r.text[1]].id) ELSE old
    OBVIOUS
  <2>3. KeepsIdentity(old, new)
    BY <1>3, <2>2
  <2>4. clients' = [d \in DOMAIN clients \cup {c} |-> IF d = c THEN new ELSE clients[d]]
    BY <2>1, <2>2 DEF Finish
  <2>5. PICK f : f = Filter(r.text)
    OBVIOUS
  <2>6. casts' = IF r.code = 2 \/ (r.code = 1 /\ IsLogin(r.text))
                 THEN Append(casts, [from |-> c, filter |-> f, seen |-> clients'])
                 ELSE casts
    BY <2>1, <2>2, <2>5
  <2>7. QED
    BY <1>2, <2>3, <2>4, <2>6 DEF Identity
<1>6. QED
  BY <1>4, <1>5

LEMMA CastStep == CastInv /\ [Next]_vars => CastInv'
<1> SUFFICES ASSUME CastInv, [Next]_vars PROVE CastInv'
  OBVIOUS
<1>1. PICK S : casts \in Seq(S)
  BY DEF CastInv
<1>2. CASE UNCHANGED <<clients, casts>>
  BY <1>2 DEF CastInv, IsCast, Remembers
<1>3. CASE Cast
  <2>1. PICK i \in DOMAIN casts : casts' = RemoveAt(casts, i) /\ clients' = clients
    BY <1>3 DEF Cast, connections
  <2>2. casts' \in Seq(S) /\ \A j \in DOMAIN casts' : \E l \in DOMAIN casts : casts'[j] = casts[l]
    BY <1>1, <2>1, RemoveAtFacts
  <2>3. \A j \in DOMAIN casts' : IsCast(casts'[j])
    BY <2>2 DEF CastInv
  <2>4. \A k : Remembers(k)' <=> Remembers(k)
    BY <2>1 DEF Remembers
  <2>5. ASSUME NEW j \in DOMAIN casts'
        PROVE  \A c \in DOMAIN casts'[j].seen :
                 /\ c \in DOMAIN clients'
                 /\ casts'[j].seen[c].gid # 0 => clients'[c].gid = casts'[j].seen[c].gid
                 /\ casts'[j].seen[c].uid # 0 => clients'[c].uid = casts'[j].seen[c].uid
    BY <2>1, <2>2 DEF CastInv, Remembers
  <2>6. QED
    BY <2>2, <2>3, <2>5 DEF CastInv, Remembers
<1>4. ASSUME NEW w \in Workers, Shake(w) \/ Work(w) PROVE CastInv'
  <2>1. PICK c, id :
           /\ clients' = [d \in DOMAIN clients \cup {c} |-> IF d = c THEN id ELSE clients[d]]
           /\ c \in DOMAIN clients => KeepsIdentity(clients[c], id)
           /\ \/ casts' = casts
              \/ \E f : casts' = Append(casts, [from |-> c, filter |-> f, seen |-> clients'])
    BY <1>4, AnswerFacts
  <2>2. /\ DOMAIN clients' = DOMAIN clients \cup {c}
        /\ \A d \in DOMAIN clients : KeepsIdentity(clients[d], clients'[d])
    BY <2>1 DEF KeepsIdentity
  <2>3. ASSUME NEW i \in DOMAIN casts
        PROVE  \A d \in DOMAIN casts[i].seen :
               /\ d \in DOMAIN clients'
               /\ casts[i].seen[d].gid # 0 => clients'[d].gid = casts[i].seen[d].gid
               /\ casts[i].seen[d].uid # 0 => clients'[d].uid = casts[i].seen[d].uid
    BY <2>2 DEF CastInv, Remembers, KeepsIdentity
  <2>4. CASE casts' = casts
    BY <1>1, <2>3, <2>4 DEF CastInv, Remembers
  <2>5. ASSUME NEW f, casts' = Append(casts, [from |-> c, filter |-> f, seen |-> clients']) PROVE CastInv'
    <3>1. PICK k : k = [from |-> c, filter |-> f, seen |-> clients']
      OBVIOUS
    <3>2. IsCast(k) /\ k.seen = clients'
      BY <3>1 DEF IsCast
    <3>3. /\ casts' \in Seq(S \cup {k}) /\ DOMAIN casts = 1 .. Len(casts) /\ Len(casts) \in Nat
          /\ DOMAIN casts' = 1 .. Len(casts) + 1
          /\ \A i \in 1 .. Len(casts) : casts'[i] = casts[i]
          /\ casts'[Len(casts) + 1] = k
      <4>1. casts \in Seq(S \cup {k}) /\ k \in S \cup {k}
        BY <1>1, SeqMonotonic
      <4>2. QED
        BY <2>5, <3>1, <4>1, AppendProperties, LenProperties
    <3>4. \A i \in DOMAIN casts' : casts'[i] = k \/ (i \in DOMAIN casts /\ casts'[i] = casts[i])
      BY <3>3
    <3>5. ASSUME NEW i \in DOMAIN casts'
          PROVE  IsCast(casts'[i]) /\ \A d \in DOMAIN casts'[i].seen :
                 /\ d \in DOMAIN clients'
                 /\ casts'[i].seen[d].gid # 0 => clients'[d].gid = casts'[i].seen[d].gid
                 /\ casts'[i].seen[d].uid # 0 => clients'[d].uid = casts'[i].seen[d].uid
      BY <2>3, <3>2, <3>4 DEF CastInv
    <3>6. QED
      BY <3>3, <3>5 DEF CastInv, Remembers
  <2>6. QED
    BY <2>1, <2>4, <2>5
<1>5. ASSUME NEW w \in Workers, DelClient(w) PROVE CastInv'
  <2>1. PICK c : clients' = Erased(clients, c) /\ casts' = Forgetting(c, casts)
    BY <1>5 DEF DelClient
  <2>2. /\ \E T : casts' \in Seq(T)
        /\ DOMAIN casts' = DOMAIN casts
        /\ \A i \in DOMAIN casts : casts'[i] = [casts[i] EXCEPT !.seen = Erased(@, c)]
    BY <1>1, <2>1, ForgettingFacts
  <2>3. DOMAIN clients' = DOMAIN clients \ {c} /\ \A d \in DOMAIN clients' : clients'[d] = clients[d]
    BY <2>1 DEF Erased
  <2>4. ASSUME NEW i \in DOMAIN casts
        PROVE  IsCast(casts'[i]) /\ \A d \in DOMAIN casts'[i].seen :
               /\ d \in DOMAIN clients'
               /\ casts'[i].seen[d].gid # 0 => clients'[d].gid = casts'[i].seen[d].gid
               /\ casts'[i].seen[d].uid # 0 => clients'[d].uid = casts'[i].seen[d].uid
    <3>1. PICK from, filter, seen : casts[i] = [from |-> from, filter |-> filter, seen |-> seen]
      BY DEF CastInv, IsCast
    <3>2. casts'[i] = [from |-> from, filter |-> filter, seen |-> Erased(seen, c)]
      BY <2>2, <3>1
    <3>3. DOMAIN Erased(seen, c) = DOMAIN seen \ {c} /\ \A d \in DOMAIN seen \ {c} : Erased(seen, c)[d] = seen[d]
      BY DEF Erased
    <3>4. Remembers(casts[i]) /\ casts[i].seen = seen
      BY <3>1 DEF CastInv
    <3>5. casts'[i].seen = Erased(seen, c)
      BY <3>2
    <3>6. IsCast(casts'[i])
      BY <3>2 DEF IsCast
    <3>7. \A d \in DOMAIN seen \ {c} :
            /\ d \in DOMAIN clients'
            /\ seen[d].gid # 0 => clients'[d].gid = seen[d].gid
            /\ seen[d].uid # 0 => clients'[d].uid = seen[d].uid
      BY <2>3, <3>4 DEF Remembers
    <3>8. QED
      BY <3>3, <3>5, <3>6, <3>7
  <2>5. QED
    BY <2>2, <2>4 DEF CastInv, Remembers
<1>6. ASSUME NEW c \in Conns, AddClient(c) PROVE CastInv'
  <2>1. /\ DOMAIN clients' = DOMAIN clients \cup {c} /\ \A d \in DOMAIN clients : clients'[d] = clients[d]
        /\ casts' = casts
    BY <1>6 DEF AddClient
  <2>2. \A k : Remembers(k) => Remembers(k)'
    BY <2>1 DEF Remembers
  <2>3. QED
    BY <2>1, <2>2 DEF CastInv, Remembers
<1>7. CASE \E c \in Conns : Accept(c) \/ HangUp(c)
  BY <1>2, <1>7 DEF Accept, HangUp
<1>8. CASE \E w \in Workers : \/ ShakeKills(w) \/ WorkKills(w) \/ CloseFd(w)
                            \/ \E c \in Conns : Recv(w, c) \/ RecvEnd(w, c)
  BY <1>2, <1>8 DEF ShakeKills, WorkKills, CloseFd, Recv, RecvEnd, connections
<1>9. CASE UNCHANGED vars
  BY <1>2, <1>9 DEF vars, connections
<1>10. QED
  BY <1>3, <1>4, <1>5, <1>6, <1>7, <1>8, <1>9 DEF Next

(* send_to_all_client evaluates, in a task of its own, the filter that     *)
(* ws_server::work captured: for a client that had logged in when the      *)
(* broadcast was submitted the answer is the same then as later, whatever  *)
(* the client sends meanwhile and whoever connects or leaves.              *)
THEOREM FiltersAreKept == Spec => []FiltersKeepTheirMeaning
<1>1. Init => CastInv
  <2>1. <<>> \in Seq({}) /\ DOMAIN <<>> = {}
    BY EmptySeq
  <2>2. QED
    BY <2>1 DEF Init, CastInv
<1>2. CastInv => FiltersKeepTheirMeaning
  BY DEF CastInv, Remembers, FiltersKeepTheirMeaning, Audience, Passes
<1>3. QED
  BY <1>1, <1>2, CastStep, PTL DEF Spec

-----------------------------------------------------------------------------
(* Replies and their messages *)

(* What a worker works on: bytes that have been received, and if they are  *)
(* not one whole message that is on record.                                *)
Portion(k) ==
  /\ k \in Chunks
  /\ k.from \in Positions(k.conn) /\ k.to \in Positions(k.conn) /\ Before(k.from, k.to)
  /\ k.to.whole <= got[k.conn].whole
  /\ k.from.part # 0 \/ k.to.part # 0 => k.conn \in cut
  /\ Touched(k.to) > k.from.whole + 1 => k.conn \in joined

Received ==
  /\ script \in [Conns -> Seq(Message)]
  /\ got \in [Conns -> Position]
  /\ \A c \in Conns : got[c] \in Positions(c) /\ (got[c].part # 0 => c \in cut)
  /\ Workplace
  /\ \A w \in Workers : pc[w] = "work" => Portion(chunk[w])

LEMMA PositionFacts ==
  ASSUME Received, NEW c \in Conns, NEW p \in Positions(c)
  PROVE  /\ p \in Position /\ p.whole \in 0 .. Len(script[c]) /\ p.part \in 0 .. 2
         /\ Len(script[c]) \in Nat
         /\ Touched(p) \in p.whole .. Len(script[c])
         /\ \A i \in 1 .. Len(script[c]) : script[c][i] \in Message
<1>1. script[c] \in Seq(Message)
  BY DEF Received
<1>2. Len(script[c]) \in Nat /\ \A i \in 1 .. Len(script[c]) : script[c][i] \in Message
  BY <1>1, LenProperties
<1>3. /\ p \in [whole : 0 .. Len(script[c]), part : 0 .. 2]
      /\ p.part > 0 => p.whole < Len(script[c])
  BY DEF Positions
<1>4. p.whole \in 0 .. Len(script[c]) /\ p.part \in 0 .. 2 /\ p \in Position
  BY <1>2, <1>3 DEF Position
<1>5. Touched(p) \in p.whole .. Len(script[c])
  BY <1>2, <1>3, <1>4 DEF Touched
<1>6. QED
  BY <1>2, <1>4, <1>5

(* A recv brings what follows the last one.                                *)
LEMMA RecvFacts ==
  ASSUME Received, NEW w \in Workers, NEW c \in Conns, Recv(w, c)
  PROVE  \E k :
           /\ k.conn = c /\ k.from = got[c] /\ k.to = got[c]'
           /\ Portion(k)'
           /\ chunk' = [chunk EXCEPT ![w] = k] /\ got' = [got EXCEPT ![c] = k.to]
           /\ k.to \in Position
<1>1. PICK to \in Positions(c) :
        /\ Before(got[c], to)
        /\ chunk' = [chunk EXCEPT ![w] = [conn |-> c, from |-> got[c], to |-> to]]
        /\ got' = [got EXCEPT ![c] = to]
        /\ cut' = IF got[c].part = 0 /\ to.part = 0 THEN cut ELSE cut \cup {c}
        /\ joined' = IF Touched(to) > got[c].whole + 1 THEN joined \cup {c} ELSE joined
        /\ script' = script
  BY DEF Recv
<1>2. PICK k : k = [conn |-> c, from |-> got[c], to |-> to]
  OBVIOUS
<1>3. k.conn = c /\ k.from = got[c] /\ k.to = to
  BY <1>2
<1>4. got[c] \in Positions(c) /\ got'[c] = to
  BY <1>1 DEF Received
<1>5. got[c] \in Position /\ to \in Position
  BY <1>4, PositionFacts
<1>6. k \in Chunks
  BY <1>2, <1>5 DEF Chunks
<1>7. \A p : p \in Positions(c)' <=> p \in Positions(c)
  BY <1>1 DEF Positions
<1>8. to.whole <= to.whole
  BY <1>5 DEF Position
<1>9. Portion(k)'
  BY <1>1, <1>3, <1>4, <1>6, <1>7, <1>8 DEF Portion
<1>10. QED
  BY <1>1, <1>2, <1>3, <1>4, <1>5, <1>9

LEMMA ReceivedStep == Received /\ RegistryInv /\ [Next]_vars => Received'
<1> SUFFICES ASSUME Received, RegistryInv, [Next]_vars PROVE Received'
  OBVIOUS
<1>0. Workplace'
  BY RegistryStep DEF RegistryInv
<1>1. ASSUME UNCHANGED <<script, got, cut, joined>>,
             \A w \in Workers : pc'[w] = "work" => pc[w] = "work" /\ chunk'[w] = chunk[w]
      PROVE  Received'
  BY <1>0, <1>1 DEF Received, Portion, Positions
<1>2. ASSUME NEW w \in Workers, NEW c \in Conns, Recv(w, c) PROVE Received'
  <2>1. PICK k :
          /\ k.conn = c /\ k.from = got[c] /\ k.to = got[c]'
          /\ Portion(k)'
          /\ chunk' = [chunk EXCEPT ![w] = k] /\ got' = [got EXCEPT ![c] = k.to]
          /\ k.to \in Position
    BY <1>2, RecvFacts
  <2>2. script' = script /\ cut \subseteq cut' /\ joined \subseteq joined'
    BY <1>2 DEF Recv
  <2>3. \A d : Positions(d)' = Positions(d)
    BY <2>2 DEF Positions
  <2>4. got' \in [Conns -> Position] /\ \A d \in Conns \ {c} : got'[d] = got[d]
    BY <2>1 DEF Received
  <2>5. ASSUME NEW d \in Conns PROVE got'[d] \in Positions(d)' /\ (got'[d].part # 0 => d \in cut')
    <3>1. CASE d = c
      BY <2>1, <3>1 DEF Portion
    <3>2. CASE d # c
      BY <2>2, <2>3, <2>4, <3>2 DEF Received
    <3>3. QED
      BY <3>1, <3>2
  <2>6. got[c].whole <= got'[c].whole
    <3>1. Before(got[c], got'[c]) /\ got[c] \in Position /\ got'[c] \in Position
      BY <2>1, <2>4 DEF Portion, Received
    <3>2. QED
      BY <3>1 DEF Before, Position
  <2>7. ASSUME NEW v \in Workers, pc'[v] = "work" PROVE Portion(chunk[v])'
    <3>1. CASE v = w
      <4>1. chunk'[v] = k
        BY <2>1, <3>1 DEF Received, Workplace
      <4>2. QED
        BY <2>1, <4>1 DEF Portion
    <3>2. CASE v # w
      <4>1. PICK j : j = chunk[v]
        OBVIOUS
      <4>2. chunk'[v] = j /\ Portion(j)
        BY <1>2, <2>1, <2>7, <3>2, <4>1 DEF Received, Workplace, Recv
      <4>3. j.conn \in Conns /\ j.to.whole \in Nat
        BY <4>2 DEF Portion, Chunks, Position
      <4>4. got[j.conn].whole \in Nat /\ got'[j.conn].whole \in Nat
        BY <2>4, <4>3 DEF Received, Position
      <4>5. j.to.whole <= got'[j.conn].whole
        BY <2>4, <2>6, <4>2, <4>3, <4>4 DEF Portion
      <4>6. Portion(j)'
        BY <2>2, <2>3, <4>2, <4>5 DEF Portion
      <4>7. QED
        BY <4>2, <4>6 DEF Portion
    <3>3. QED
      BY <3>1, <3>2
  <2>8. script' \in [Conns -> Seq(Message)]
    BY <2>2 DEF Received
  <2>9. QED
    BY <1>0, <2>4, <2>5, <2>7, <2>8 DEF Received
<1>3. ASSUME NEW w \in Workers, pc[w] = "recv" \/ pc[w] = "work" \/ pc[w] = "close" \/ pc[w] = "del",
             NEW next \in {"recv", "close", "del"}, NEW k, pc' = [pc EXCEPT ![w] = next],
             chunk' \in {chunk, [chunk EXCEPT ![w] = k]}, UNCHANGED <<script, got, cut, joined>>
      PROVE  Received'
  <2>1. \A v \in Workers : pc'[v] = "work" => pc[v] = "work" /\ chunk'[v] = chunk[v]
    BY <1>3 DEF Received, Workplace
  <2>2. QED
    BY <1>1, <1>3, <2>1
<1>4. ASSUME NEW w \in Workers, Answers(w) PROVE Received'
  <2>1. PICK reply, id, close : Finish(w, chunk[w].conn, reply, id, close) /\ pc[w] = "work"
    BY <1>4 DEF Answers
  <2>2. QED
    BY <1>3, <2>1 DEF Finish
<1>5. ASSUME NEW w \in Workers, CloseFd(w) \/ DelClient(w) \/ \E c \in Conns : RecvEnd(w, c) PROVE Received'
  BY <1>3, <1>5 DEF CloseFd, DelClient, RecvEnd, history
<1>6. CASE Cast \/ \E w \in Workers : Kills(w)
  BY <1>1, <1>6 DEF Cast, Kills, ShakeKills, WorkKills, history
<1>7. CASE \E c \in Conns : Accept(c) \/ AddClient(c) \/ HangUp(c)
  BY <1>1, <1>7 DEF Accept, AddClient, HangUp, history
<1>8. CASE UNCHANGED vars
  BY <1>1, <1>8 DEF vars, history
<1>9. QED
  BY <1>2, <1>4, <1>5, <1>6, <1>7, <1>8, StepsOfWs

(* Input that was neither cut nor joined is one message.                   *)
LEMMA OneMessage ==
  ASSUME Received, NEW k, Portion(k), k.conn \notin cut, k.conn \notin joined
  PROVE  /\ k.from.part = 0 /\ k.to.part = 0
         /\ k.to.whole \in 1 .. Len(script[k.conn])
         /\ k.to.whole = k.from.whole + 1
         /\ script[k.conn][k.to.whole] \in Message
         /\ Ends(k) = {k.to.whole}
         /\ Heads(k) = IF Parts(script[k.conn][k.to.whole]) > 1 THEN {k.to.whole} ELSE {}
         /\ Texts(k) = <<script[k.conn][k.to.whole].text>>
<1>1. k.from.part = 0 /\ k.to.part = 0
  BY DEF Portion
<1>2. /\ k.conn \in Conns /\ k.from \in Position /\ k.to \in Position
      /\ Len(script[k.conn]) \in Nat /\ k.to.whole \in 0 .. Len(script[k.conn])
      /\ k.from.whole \in 0 .. Len(script[k.conn])
      /\ \A i \in 1 .. Len(script[k.conn]) : script[k.conn][i] \in Message
  <2>1. k.conn \in Conns
    BY DEF Portion, Chunks
  <2>2. QED
    BY <2>1, PositionFacts DEF Portion
<1>3. Touched(k.to) = k.to.whole
  BY <1>1 DEF Touched
<1>4. k.to.whole <= k.from.whole + 1
  BY <1>2, <1>3 DEF Portion
<1>5. k.from.whole < k.to.whole
  BY <1>1, <1>2 DEF Portion, Before
<1>6. k.to.whole = k.from.whole + 1 /\ k.to.whole \in 1 .. Len(script[k.conn])
  BY <1>2, <1>4, <1>5
<1>7. k.from.whole + 1 .. k.to.whole = {k.to.whole}
  BY <1>2, <1>6
<1>8. Ends(k) = {k.to.whole}
  BY <1>7 DEF Ends
<1>9. Heads(k) = IF Parts(script[k.conn][k.to.whole]) > 1 THEN {k.to.whole} ELSE {}
  <2>1. \A i : i \in Heads(k) <=> i = k.to.whole /\ Parts(script[k.conn][i]) > 1
    BY <1>1, <1>2, <1>3, <1>7 DEF Heads
  <2>2. QED
    BY <2>1
<1>10. Texts(k) = <<script[k.conn][k.to.whole].text>>
  <2>1. 1 .. k.to.whole - k.from.whole = 1 .. 1 /\ k.from.whole + 1 = k.to.whole
    BY <1>2, <1>6
  <2>2. QED
    BY <2>1 DEF Texts
<1>11. QED
  BY <1>1, <1>2, <1>6, <1>8, <1>9, <1>10

(* The excuses of RepliesInStep.                                           *)
Excused(c) == c \in cut \cup joined \cup raced \/ EmptyFrameFrom(c) \/ BareLineFrom(c)

(* What Shake and Work say of the message that is all a worker has.        *)
LEMMA AnswersTo ==
  ASSUME Received, NEW w \in Workers, Shake(w) \/ Work(w),
         NEW c, NEW n, c = chunk[w].conn, n = chunk[w].to.whole
  PROVE  \E reply, id, close :
           /\ Finish(w, c, reply, id, close)
           /\ c \notin cut \cup joined =>
                /\ script[c][n].text # Empty /\ script[c][n].op # "GETBARE" => reply = ReplyTo(script[c][n])
                /\ close => AsksForClose(script[c][n])
<1>1. PICK k : k = chunk[w]
  OBVIOUS
<1>2. Portion(k) /\ k.conn = c /\ k.to.whole = n
  BY <1>1 DEF Received, Shake, Work
<1>3. PICK m : m = script[c][n]
  OBVIOUS
<1>4. ASSUME c \notin cut \cup joined
      PROVE  /\ k.from.part = 0 /\ script[c][k.from.whole + 1] = m /\ m \in Message
             /\ k.to.whole # k.from.whole
             /\ Ends(k) = {n} /\ Texts(k) = <<m.text>>
             /\ Heads(k) = IF Parts(m) > 1 THEN {n} ELSE {}
  <2>1. Portion(k) /\ k.conn \notin cut /\ k.conn \notin joined
    BY <1>2, <1>4
  <2>2. /\ k.from.part = 0 /\ k.to.whole = k.from.whole + 1 /\ script[c][n] \in Message
        /\ Ends(k) = {n} /\ Texts(k) = <<script[c][n].text>>
        /\ Heads(k) = IF Parts(script[c][n]) > 1 THEN {n} ELSE {}
    BY <1>2, <2>1, OneMessage
  <2>3. k.from.whole \in Nat
    BY <2>1 DEF Portion, Chunks, Position
  <2>4. k.to.whole # k.from.whole
    BY <2>2, <2>3
  <2>5. k.from.whole + 1 = n
    BY <1>2, <2>2
  <2>6. QED
    BY <1>3, <2>2, <2>4, <2>5
<1>5. CASE Shake(w)
  <2>1. PICK r, id :
          /\ r \in Shakes(k) /\ (Handshake(k) \/ k.from.part > 0)
          /\ Finish(w, c, IF r.key THEN Switching ELSE Nothing, id, ~r.key)
    BY <1>1, <1>2, <1>5 DEF Shake
  <2>2. PICK reply, close : reply = (IF r.key THEN Switching ELSE Nothing) /\ close = ~r.key
    OBVIOUS
  <2>3. ASSUME c \notin cut \cup joined
        PROVE  (m.op # "GETBARE" => reply = ReplyTo(m)) /\ (close => AsksForClose(m))
    <3>1. m.op \in {"GET", "GETNOKEY", "GETBARE"}
      BY <1>2, <1>4, <2>1, <2>3 DEF Handshake, Requests, Portion, Chunks, Position
    <3>2. m.fin = TRUE
      BY <1>4, <2>3, <3>1 DEF Message, Frames
    <3>3. CASE m.op = "GETBARE"
      BY <3>3 DEF AsksForClose
    <3>4. CASE m.op = "GETNOKEY"
      <4>1. r.key = FALSE
        <5>1. /\ k.from.part = 0 /\ script[k.conn][k.from.whole + 1] = m
              /\ k.to.whole # k.from.whole
          BY <1>2, <1>4, <2>3
        <5>2. ~(k.from.part > 0)
          BY <5>1
        <5>3. Shakes(k) = [key : {FALSE}, dies : {FALSE}]
          BY <3>4, <5>1, <5>2 DEF Shakes
        <5>4. r \in [key : {FALSE}, dies : {FALSE}]
          BY <2>1, <5>3
        <5>5. r.key \in {FALSE}
          BY <5>4
        <5>6. QED
          BY <5>5
      <4>2. QED
        <5>1. reply = Nothing
          BY <2>2, <4>1
        <5>2. ReplyTo(m) = Nothing
          BY <3>2, <3>4 DEF ReplyTo
        <5>3. QED
          BY <3>4, <5>1, <5>2 DEF AsksForClose
    <3>5. CASE m.op = "GET"
      <4>1. r.key = TRUE
        <5>1. /\ k.from.part = 0 /\ script[k.conn][k.from.whole + 1] = m
              /\ k.to.whole # k.from.whole
          BY <1>2, <1>4, <2>3
        <5>2. ~(k.from.part > 0)
          BY <5>1
        <5>3. Shakes(k) = [key : {TRUE}, dies : {FALSE}]
          BY <3>5, <5>1, <5>2 DEF Shakes
        <5>4. r \in [key : {TRUE}, dies : {FALSE}]
          BY <2>1, <5>3
        <5>5. r.key \in {TRUE}
          BY <5>4
        <5>6. QED
          BY <5>5
      <4>2. QED
        <5>1. reply = Switching /\ ~close
          BY <2>2, <4>1
        <5>2. ReplyTo(m) = Switching
          BY <3>2, <3>5 DEF ReplyTo
        <5>3. QED
          BY <5>1, <5>2
    <3>6. QED
      BY <3>1, <3>3, <3>4, <3>5
  <2>4. QED
    BY <1>3, <2>1, <2>2, <2>3
<1>6. CASE Work(w)
  <2>1. PICK r \in ParseResults(k) :
          /\ ~Handshake(k)
          /\ \E id : Finish(w, c, Reply(r.code, r.text), id, Closes(r.code, r.text))
    <3>1. PICK old : old = Identity(c)
      OBVIOUS
    <3>2. PICK r \in ParseResults(k) :
            LET new == IF r.code = 1 /\ IsLogin(r.text) THEN Latched(old, Meaning[r.text[1]].id) ELSE old
            IN Finish(w, c, Reply(r.code, r.text), new, Closes(r.code, r.text))
      BY <1>1, <1>6, <3>1 DEF Work
    <3>3. ~Handshake(k)
      BY <1>1, <1>6 DEF Work
    <3>4. QED
      BY <3>2, <3>3
  <2>2. ASSUME c \notin cut \cup joined
        PROVE  /\ m.text # Empty /\ m.op # "GETBARE" => Reply(r.code, r.text) = ReplyTo(m)
               /\ Closes(r.code, r.text) => AsksForClose(m)
    <3>1. m \in Message /\ m.op \notin {"GET", "GETNOKEY", "GETBARE"}
      BY <1>2, <1>4, <2>1, <2>2 DEF Handshake, Requests
    <3>2. m.op \in {"TEXT", "BINARY", "CLOSE", "PING", "PONG"} /\ m.fin \in BOOLEAN /\ m.text \in DOMAIN Meaning
      BY <3>1 DEF Message, Requests, Frames
    <3>3. Heads(k) = {n}
      BY <1>4, <2>2, <3>1 DEF Parts
    <3>4. NoBody(k) <=> m.text = Empty
      BY <1>2, <1>3, <1>4, <2>2 DEF NoBody
    <3>5. r.code = OpOf(m) /\ (m.text # Empty => r.text = <<m.text>>)
      <4>1. {OpOf(script[k.conn][i]) : i \in {i \in Heads(k) : \A j \in Heads(k) : j <= i}} \subseteq {OpOf(m)}
        BY <1>2, <1>3, <3>3
      <4>2. r.code \in {OpOf(m)} /\ (m.text # Empty => r.text \in {Texts(k)})
        BY <1>4, <2>1, <2>2, <3>3, <3>4, <4>1 DEF ParseResults
      <4>3. QED
        BY <1>4, <2>2, <4>2
    <3>6. m.text # Empty => Reply(r.code, r.text) = ReplyTo(m)
      BY <3>2, <3>5 DEF OpOf, Reply, ReplyTo
    <3>7. Closes(r.code, r.text) => AsksForClose(m)
      <4>1. OpOf(m) = 0 => ~m.fin
        BY <3>2 DEF OpOf
      <4>2. OpOf(m) = 8 => m.op = "CLOSE"
        BY <3>2 DEF OpOf
      <4>3. OpOf(m) = 1 => m.op = "TEXT"
        BY <3>2 DEF OpOf
      <4>4. m.text # Empty /\ ~IsJson(r.text) => ~Meaning[m.text].json
        BY <3>2, <3>5, TextsAssumption DEF IsJson
      <4>5. ~IsJson(r.text) => ~Meaning[m.text].json
        BY <4>4, TextsAssumption
      <4>6. QED
        BY <3>5, <4>1, <4>2, <4>3, <4>5 DEF Closes, AsksForClose
    <3>8. QED
      BY <3>6, <3>7
  <2>3. QED
    BY <1>3, <2>1, <2>2
<1>7. QED
  BY <1>5, <1>6

(* More is received, and no excuse is taken back.                          *)
LEMMA OnlyMore ==
  ASSUME Received, [Next]_vars
  PROVE  /\ script' = script /\ cut \subseteq cut' /\ joined \subseteq joined' /\ raced \subseteq raced'
         /\ \A c \in Conns : Begun(c) \subseteq Begun(c)'
<1>1. CASE UNCHANGED <<script, got, cut, joined>> /\ raced \subseteq raced'
  BY <1>1 DEF Begun
<1>2. ASSUME NEW w \in Workers, NEW c \in Conns, Recv(w, c)
      PROVE  /\ script' = script /\ cut \subseteq cut' /\ joined \subseteq joined' /\ raced \subseteq raced'
             /\ \A d \in Conns : Begun(d) \subseteq Begun(d)'
  <2>1. /\ script' = script /\ cut \subseteq cut' /\ joined \subseteq joined' /\ raced \subseteq raced'
        /\ Before(got[c], got'[c]) /\ got[c] \in Position /\ got'[c] \in Position
        /\ \A d \in Conns \ {c} : got'[d] = got[d]
    <3>1. PICK k :
            /\ k.conn = c /\ k.from = got[c] /\ k.to = got[c]'
            /\ Portion(k)' /\ got' = [got EXCEPT ![c] = k.to] /\ k.to \in Position
      BY <1>2, RecvFacts
    <3>2. Before(got[c], got'[c]) /\ got[c] \in Position /\ got'[c] \in Position
      BY <3>1 DEF Portion, Received
    <3>3. \A d \in Conns \ {c} : got'[d] = got[d]
      BY <3>1 DEF Received
    <3>4. QED
      BY <1>2, <3>2, <3>3 DEF Recv, Racing
  <2>2. Touched(got[c]) <= Touched(got'[c]) /\ Touched(got[c]) \in Nat /\ Touched(got'[c]) \in Nat
    BY <2>1 DEF Before, Touched, Position
  <2>3. Begun(c) \subseteq Begun(c)'
    BY <2>1, <2>2 DEF Begun
  <2>4. \A d \in Conns \ {c} : Begun(d)' = Begun(d)
    BY <2>1 DEF Begun
  <2>5. QED
    BY <2>1, <2>3, <2>4
<1>3. CASE \E w \in Workers : Answers(w)
  BY <1>1, <1>3 DEF Answers, Finish
<1>4. CASE \E w \in Workers : Kills(w) \/ CloseFd(w) \/ DelClient(w) \/ \E c \in Conns : RecvEnd(w, c)
  BY <1>1, <1>4 DEF Kills, ShakeKills, WorkKills, CloseFd, DelClient, RecvEnd, Racing, history
<1>5. CASE Cast \/ (\E c \in Conns : Accept(c) \/ AddClient(c) \/ HangUp(c)) \/ UNCHANGED vars
  BY <1>1, <1>5 DEF Cast, Accept, AddClient, HangUp, vars, history
<1>6. QED
  BY <1>2, <1>3, <1>4, <1>5, StepsOfWs

(* As long as nothing has gone wrong on the way, a connection has had a    *)
(* reply to each message, except to the one a worker is to answer.         *)
Serves(w, c) == pc[w] = "work" /\ chunk[w].conn = c
Counted ==
  \A c \in open \cup waiting :
    ~Excused(c) =>
      /\ (\A w \in Workers : ~Serves(w, c)) => answered[c] = got[c].whole
      /\ \A w \in Workers :
           Serves(w, c) => chunk[w].to = got[c] /\ answered[c] + 1 = got[c].whole

InStep ==
  /\ open \cup waiting \subseteq Conns
  /\ answered \in [Conns -> Nat]
  /\ Counted
  /\ \A c \in wrong : c \in Conns /\ Excused(c)

LEMMA InStepStep == Received /\ RegistryInv /\ InStep /\ [Next]_vars => InStep'
<1> SUFFICES ASSUME Received, RegistryInv, InStep, [Next]_vars PROVE InStep'
  OBVIOUS
<1>1. \A c \in Conns : Excused(c) => Excused(c)'
  BY OnlyMore DEF Excused, EmptyFrameFrom, BareLineFrom
<1>2. ASSUME UNCHANGED <<script, got, answered, wrong, cut, joined>>, raced \subseteq raced',
             open' \cup waiting' \subseteq open \cup waiting,
             \A w \in Workers, c \in Conns : Serves(w, c)' <=> Serves(w, c),
             \A w \in Workers : pc[w] = "work" => chunk'[w] = chunk[w]
      PROVE  InStep'
  <2>1. ASSUME NEW c \in open' \cup waiting', ~Excused(c)'
        PROVE  /\ (\A w \in Workers : ~Serves(w, c)') => answered'[c] = got'[c].whole
               /\ \A w \in Workers :
                    Serves(w, c)' => chunk'[w].to = got'[c] /\ answered'[c] + 1 = got'[c].whole
    <3>1. c \in open \cup waiting /\ c \in Conns /\ ~Excused(c)
      BY <1>1, <1>2, <2>1 DEF InStep
    <3>2. \A w \in Workers : Serves(w, c) => chunk'[w] = chunk[w]
      BY <1>2 DEF Serves
    <3>3. QED
      BY <1>2, <3>1, <3>2 DEF InStep, Counted
  <2>2. Counted'
    BY <2>1 DEF Counted
  <2>3. QED
    BY <1>1, <1>2, <2>2 DEF InStep
<1>3. ASSUME NEW w \in Workers, NEW c \in Conns, Recv(w, c) PROVE InStep'
  <2>1. PICK k :
          /\ k.conn = c /\ k.from = got[c] /\ k.to = got[c]'
          /\ Portion(k)'
          /\ chunk' = [chunk EXCEPT ![w] = k] /\ got' = [got EXCEPT ![c] = k.to]
          /\ k.to \in Position
    BY <1>3, RecvFacts
  <2>2. /\ UNCHANGED <<open, waiting, answered, wrong>> /\ pc[w] = "recv"
        /\ pc' = [pc EXCEPT ![w] = "work"] /\ raced' = Racing(c)
    BY <1>3 DEF Recv, connections
  <2>3. /\ \A v \in Workers : chunk'[v] = IF v = w THEN k ELSE chunk[v]
        /\ \A v \in Workers : pc'[v] = IF v = w THEN "work" ELSE pc[v]
    BY <2>1, <2>2 DEF Received, Workplace
  <2>4. \A d \in Conns : got'[d] = IF d = c THEN k.to ELSE got[d]
    BY <2>1 DEF Received
  <2>5. ASSUME NEW d \in open \cup waiting, ~Excused(d)'
        PROVE  /\ (\A v \in Workers : ~Serves(v, d)') => answered[d] = got'[d].whole
               /\ \A v \in Workers :
                    Serves(v, d)' => chunk'[v].to = got'[d] /\ answered[d] + 1 = got'[d].whole
    <3>1. d \in Conns /\ ~Excused(d)
      BY <1>1, <2>5 DEF InStep
    <3>2. CASE d = c
      <4>1. c \notin raced' /\ c \notin cut' /\ c \notin joined'
        BY <2>5, <3>2 DEF Excused
      <4>2. \A v \in Workers : ~Serves(v, c)
        BY <2>2, <4>1 DEF Racing, Holds, Serves
      <4>3. answered[c] = got[c].whole
        BY <2>5, <3>1, <3>2, <4>2 DEF InStep, Counted
      <4>4. k.to.whole = got[c].whole + 1
        <5>1. /\ k.from.part = 0 /\ k.to.part = 0 /\ Before(k.from, k.to)
              /\ ~(Touched(k.to) > k.from.whole + 1)
          BY <2>1, <4>1 DEF Portion
        <5>2. k.from \in Position /\ k.to \in Position
          BY <2>1 DEF Received
        <5>3. QED
          BY <2>1, <5>1, <5>2 DEF Touched, Before, Position
      <4>5. \A v \in Workers : Serves(v, c)' => v = w
        BY <2>3, <4>2 DEF Serves
      <4>6. Serves(w, c)'
        BY <2>1, <2>3 DEF Serves
      <4>7. QED
        BY <2>1, <2>3, <2>4, <3>2, <4>3, <4>4, <4>5, <4>6
    <3>3. CASE d # c
      <4>1. \A v \in Workers : Serves(v, d)' <=> Serves(v, d)
        BY <2>1, <2>2, <2>3, <3>3 DEF Serves
      <4>2. \A v \in Workers : Serves(v, d) => chunk'[v] = chunk[v]
        BY <2>2, <2>3 DEF Serves
      <4>3. got'[d] = got[d]
        BY <2>4, <3>1, <3>3
      <4>4. QED
        BY <2>5, <3>1, <4>1, <4>2, <4>3 DEF InStep, Counted
    <3>4. QED
      BY <3>2, <3>3
  <2>6. Counted'
    BY <2>2, <2>5 DEF Counted
  <2>7. QED
    BY <1>1, <2>2, <2>6 DEF InStep
<1>4. ASSUME NEW w \in Workers, Shake(w) \/ Work(w) PROVE InStep'
  <2>1. PICK c, n : c = chunk[w].conn /\ n = chunk[w].to.whole
    OBVIOUS
  <2>2. PICK reply, id, close :
           /\ Finish(w, c, reply, id, close)
           /\ c \notin cut \cup joined =>
                (script[c][n].text # Empty /\ script[c][n].op # "GETBARE" => reply = ReplyTo(script[c][n]))
    BY <1>4, <2>1, AnswersTo
  <2>3. /\ pc' = [pc EXCEPT ![w] = IF close THEN "close" ELSE "recv"]
        /\ chunk' = IF close THEN chunk ELSE [chunk EXCEPT ![w] = Nobody]
        /\ answered' = [answered EXCEPT ![c] = IF c \in open THEN @ + 1 ELSE @]
        /\ wrong' = IF c \in open /\ ~Due(c, reply) THEN wrong \cup {c} ELSE wrong
        /\ UNCHANGED <<script, got, open, waiting, cut, joined, raced>>
    BY <2>2 DEF Finish
  <2>4. Serves(w, c) /\ Holds(w, c) /\ Portion(chunk[w]) /\ c \in Conns \ waiting
    <3>1. pc[w] = "work"
      BY <1>4 DEF Shake, Work
    <3>2. Serves(w, c) /\ Holds(w, c) /\ Portion(chunk[w])
      BY <2>1, <3>1 DEF Serves, Holds, Received
    <3>3. QED
      BY <3>2 DEF RegistryInv, Busy
  <2>5. \A d : Excused(d)' <=> Excused(d)
    BY <2>3 DEF Excused, EmptyFrameFrom, BareLineFrom, Begun
  <2>6. \A v \in Workers : v # w => chunk'[v] = chunk[v] /\ pc'[v] = pc[v]
    BY <2>3 DEF Received, Workplace
  <2>7. pc'[w] # "work"
    BY <2>3 DEF Received, Workplace
  <2>8. \A d \in Conns : answered'[d] = IF d = c /\ c \in open THEN answered[d] + 1 ELSE answered[d]
    BY <2>3 DEF InStep
  <2>9. answered' \in [Conns -> Nat] /\ open' \cup waiting' \subseteq Conns
    <3>1. answered' = [d \in Conns |-> answered'[d]]
      BY <2>3 DEF InStep
    <3>2. \A d \in Conns : answered'[d] \in Nat
      BY <2>8 DEF InStep
    <3>3. QED
      BY <2>3, <3>1, <3>2 DEF InStep
  <2>10. ASSUME NEW d \in open' \cup waiting', ~Excused(d)'
         PROVE  /\ (\A v \in Workers : ~Serves(v, d)') => answered'[d] = got'[d].whole
                /\ \A v \in Workers :
                     Serves(v, d)' => chunk'[v].to = got'[d] /\ answered'[d] + 1 = got'[d].whole
    <3>1. d \in open \cup waiting /\ d \in Conns /\ ~Excused(d)
      BY <2>3, <2>5, <2>10 DEF InStep
    <3>2. CASE d = c
      <4>1. answered[c] + 1 = got[c].whole /\ c \in open
        BY <2>4, <3>1, <3>2 DEF InStep, Counted
      <4>2. \A v \in Workers : Serves(v, c) => v = w
        <5>1. c \notin raced
          BY <3>1, <3>2 DEF Excused
        <5>2. \A v \in Workers : Serves(v, c) => Holds(v, c)
          BY DEF Serves, Holds
        <5>3. QED
          BY <2>4, <5>1, <5>2 DEF RegistryInv, Busy
      <4>3. \A v \in Workers : ~Serves(v, c)'
        BY <2>6, <2>7, <4>2 DEF Serves
      <4>4. QED
        BY <2>3, <2>8, <3>1, <3>2, <4>1, <4>3
    <3>3. CASE d # c
      <4>1. \A v \in Workers : Serves(v, d)' <=> Serves(v, d)
        BY <2>4, <2>6, <2>7, <3>3 DEF Serves
      <4>2. \A v \in Workers : Serves(v, d) => chunk'[v] = chunk[v]
        BY <2>4, <2>6, <3>3 DEF Serves
      <4>3. QED
        BY <2>3, <2>8, <3>1, <3>3, <4>1, <4>2 DEF InStep, Counted
    <3>4. QED
      BY <3>2, <3>3
  <2>11. Counted'
    BY <2>10 DEF Counted
  <2>12. c \in open /\ ~Excused(c) => Due(c, reply)
    <3> SUFFICES ASSUME c \in open, ~Excused(c) PROVE Due(c, reply)
      OBVIOUS
    <3>1. answered[c] + 1 = got[c].whole /\ n = got[c].whole /\ answered[c] \in Nat
      BY <2>1, <2>4 DEF InStep, Counted
    <3>2. /\ n \in 1 .. Len(script[c]) /\ Len(script[c]) \in Nat
          /\ got[c] \in Position /\ n <= Touched(got[c]) /\ Touched(got[c]) \in Nat
      <4>1. got[c] \in Positions(c)
        BY <2>4 DEF Received
      <4>2. got[c] \in Position /\ got[c].whole \in 0 .. Len(script[c]) /\ Len(script[c]) \in Nat
            /\ Touched(got[c]) \in got[c].whole .. Len(script[c])
        BY <2>4, <4>1, PositionFacts
      <4>3. QED
        BY <3>1, <4>2
    <3>3. script[c][n] \in Begun(c)
      BY <3>2 DEF Begun
    <3>4. script[c][n].text # Empty /\ script[c][n].op # "GETBARE"
      BY <3>3 DEF Excused, EmptyFrameFrom, BareLineFrom
    <3>5. reply = ReplyTo(script[c][n])
      BY <2>2, <3>4 DEF Excused
    <3>6. QED
      BY <3>1, <3>2, <3>5 DEF Due
  <2>13. \A d \in wrong' : d \in Conns /\ Excused(d)'
    BY <2>3, <2>4, <2>5, <2>12 DEF InStep
  <2>14. QED
    BY <2>9, <2>11, <2>13 DEF InStep
<1>5. ASSUME NEW w \in Workers, pc[w] # "work", pc'[w] # "work",
             \A v \in Workers \ {w} : pc'[v] = pc[v] /\ chunk'[v] = chunk[v],
             UNCHANGED <<script, got, waiting, answered, wrong, cut, joined>>,
             raced \subseteq raced', open' \subseteq open
      PROVE  InStep'
  <2>1. \A v \in Workers, c \in Conns : Serves(v, c)' <=> Serves(v, c)
    BY <1>5 DEF Serves
  <2>2. \A v \in Workers : pc[v] = "work" => chunk'[v] = chunk[v]
    BY <1>5
  <2>3. QED
    BY <1>2, <1>5, <2>1, <2>2
<1>6. ASSUME NEW w \in Workers, NEW c \in Conns, RecvEnd(w, c) PROVE InStep'
  <2>1. raced \subseteq raced'
    BY OnlyMore
  <2>2. /\ pc[w] # "work" /\ pc'[w] # "work"
        /\ \A v \in Workers \ {w} : pc'[v] = pc[v] /\ chunk'[v] = chunk[v]
    BY <1>6 DEF RecvEnd, Received, Workplace
  <2>3. UNCHANGED <<script, got, open, waiting, answered, wrong, cut, joined>>
    BY <1>6 DEF RecvEnd, connections
  <2>4. QED
    BY <1>5, <2>1, <2>2, <2>3
<1>7. ASSUME NEW w \in Workers, CloseFd(w) \/ DelClient(w) PROVE InStep'
  <2>1. /\ pc[w] # "work" /\ pc'[w] # "work"
        /\ \A v \in Workers \ {w} : pc'[v] = pc[v] /\ chunk'[v] = chunk[v]
    BY <1>7 DEF CloseFd, DelClient, Received, Workplace
  <2>2. QED
    BY <1>5, <1>7, <2>1 DEF CloseFd, DelClient, history
<1>8. CASE UNCHANGED <<script, got, pc, chunk, answered, wrong, cut, joined, raced>>
           /\ open' \cup waiting' \subseteq open \cup waiting
  BY <1>2, <1>8 DEF Serves
<1>9. CASE Cast \/ (\E w \in Workers : Kills(w)) \/ UNCHANGED vars
  BY <1>8, <1>9 DEF Cast, Kills, ShakeKills, WorkKills, vars, history, connections
<1>10. ASSUME NEW c \in Conns, Accept(c) \/ AddClient(c) \/ HangUp(c) PROVE InStep'
  BY <1>8, <1>10 DEF Accept, AddClient, HangUp, history
<1>11. QED
  BY <1>3, <1>4, <1>6, <1>7, <1>9, <1>10 DEF Next, Kills

LEMMA InputIsReceived == Spec => [](Received /\ RegistryInv)
<1>1. Init => Received
  <2> SUFFICES ASSUME Init PROVE Received
    OBVIOUS
  <2>1. /\ script \in [Conns -> Seq(Message)]
        /\ got = [c \in Conns |-> [whole |-> 0, part |-> 0]]
        /\ Workplace /\ \A w \in Workers : pc[w] = "recv"
    BY ScriptsAssumption DEF Init, Workplace
  <2>2. got \in [Conns -> Position]
    BY <2>1 DEF Position
  <2>3. \A c \in Conns : got[c] \in Positions(c) /\ got[c].part = 0
    <3>1. \A c \in Conns : Len(script[c]) \in Nat
      BY <2>1, LenProperties
    <3>2. QED
      BY <2>1, <3>1 DEF Positions
  <2>4. QED
    BY <2>1, <2>2, <2>3 DEF Received
<1>2. QED
  BY <1>1, RegistryAtFirst, ReceivedStep, RegistryStep, PTL DEF Spec

(* ws_server::work answers a message with the reply that belongs to it, in *)
(* the order of the messages, although each recv starts a new parser and   *)
(* nothing orders the workers: what must have happened for it to fail is   *)
(* listed in RepliesInStep.                                                *)
THEOREM RepliesStayInStep == Spec => []RepliesInStep
<1>1. Init => InStep
  <2> SUFFICES ASSUME Init PROVE InStep
    OBVIOUS
  <2>1. /\ open = {} /\ waiting = Conns /\ wrong = {} /\ answered = [c \in Conns |-> 0]
        /\ \A c \in Conns : got[c].whole = 0
        /\ \A w \in Workers : pc[w] = "recv"
    BY DEF Init
  <2>2. answered \in [Conns -> Nat]
    BY <2>1
  <2>3. Counted
    BY <2>1 DEF Counted, Serves
  <2>4. QED
    BY <2>1, <2>2, <2>3 DEF InStep
<1>2. InStep => RepliesInStep
  BY DEF InStep, RepliesInStep, Excused
<1>3. QED
  BY <1>1, <1>2, InStepStep, InputIsReceived, PTL DEF Spec

-----------------------------------------------------------------------------
(* Ends *)

Caused ==
  {c \in Conns : c \in cut \cup joined \cup left \cup dropped \/ \E m \in Begun(c) : AsksForClose(m)}
DeathHasACause == ~alive => \E c \in Conns : c \in cut \/ EmptyFrameFrom(c) \/ BareLineFrom(c)

(* A connection that is about to be closed has a cause already.            *)
EndInv ==
  /\ Conns \ (open \cup waiting) \subseteq Caused
  /\ \A w \in Workers : pc[w] \in {"close", "del"} => chunk[w].conn \in Caused
  /\ DeathHasACause

(* The first message of a portion, and those that end in it, have begun.   *)
LEMMA PortionHasBegun ==
  ASSUME Received, NEW k, Portion(k)
  PROVE  /\ k.conn \in Conns
         /\ k.from.part = 0 => script[k.conn][k.from.whole + 1] \in Begun(k.conn) \/ k.conn \in cut
         /\ \A i \in Ends(k) : script[k.conn][i] \in Begun(k.conn)
<1>1. k.conn \in Conns
  BY DEF Portion, Chunks
<1>2. /\ k.from.whole \in Nat /\ k.to.whole \in Nat /\ k.to.whole <= got[k.conn].whole
      /\ k.from.part \in Nat /\ k.to.part \in Nat
      /\ got[k.conn].whole \in Nat /\ Touched(got[k.conn]) \in Nat
      /\ got[k.conn].whole <= Touched(got[k.conn])
  <2>1. got[k.conn] \in Positions(k.conn)
    BY <1>1 DEF Received
  <2>2. k.from \in Position /\ k.to \in Position /\ got[k.conn] \in Position
        /\ k.to.whole <= got[k.conn].whole
    BY <1>1, <2>1, PositionFacts DEF Portion
  <2>3. QED
    BY <2>2 DEF Position, Touched
<1>3. \A i \in Ends(k) : i \in 1 .. Touched(got[k.conn])
  BY <1>2 DEF Ends
<1>4. \A i \in Ends(k) : script[k.conn][i] \in Begun(k.conn)
  BY <1>3 DEF Begun
<1>5. ASSUME k.from.part = 0, k.conn \notin cut PROVE script[k.conn][k.from.whole + 1] \in Begun(k.conn)
  <2>1. k.to.part = 0 /\ k.from.whole < k.to.whole
    BY <1>2, <1>5 DEF Portion, Before
  <2>2. k.from.whole + 1 \in Ends(k)
    BY <1>2, <2>1 DEF Ends
  <2>3. QED
    BY <1>4, <2>2
<1>6. QED
  BY <1>1, <1>4, <1>5

LEMMA EndStep == Received /\ RegistryInv /\ EndInv /\ [Next]_vars => EndInv'
<1> SUFFICES ASSUME Received, RegistryInv, EndInv, [Next]_vars PROVE EndInv'
  OBVIOUS
<1>1. /\ script' = script /\ cut \subseteq cut' /\ joined \subseteq joined'
      /\ \A c \in Conns : Begun(c) \subseteq Begun(c)'
  BY OnlyMore
<1>2. left \subseteq left' /\ dropped \subseteq dropped'
  <2>1. CASE UNCHANGED <<left, dropped>>
    BY <2>1
  <2>2. CASE \E w \in Workers : Answers(w)
    BY <2>1, <2>2 DEF Answers, Finish
  <2>3. CASE \E w \in Workers : \/ Kills(w) \/ CloseFd(w) \/ DelClient(w)
                                \/ \E c \in Conns : Recv(w, c) \/ RecvEnd(w, c)
    BY <2>3 DEF Kills, ShakeKills, WorkKills, CloseFd, DelClient, Recv, RecvEnd, history
  <2>4. CASE Cast \/ (\E c \in Conns : Accept(c) \/ AddClient(c) \/ HangUp(c)) \/ UNCHANGED vars
    BY <2>4 DEF Cast, Accept, AddClient, HangUp, vars, history
  <2>5. QED
    BY <2>2, <2>3, <2>4, StepsOfWs
<1>3. Caused \subseteq Caused'
  BY <1>1, <1>2 DEF Caused
<1>4. alive' = alive => DeathHasACause'
  BY <1>1 DEF EndInv, DeathHasACause, EmptyFrameFrom, BareLineFrom
<1>5. \A w \in Workers : pc[w] # "recv" => chunk[w].conn \in Conns
  BY DEF RegistryInv, Busy, Holds
<1>6. ASSUME alive' = alive, open \cup waiting \subseteq open' \cup waiting',
             \A w \in Workers : pc'[w] \in {"close", "del"} => pc[w] \in {"close", "del"} /\ chunk'[w] = chunk[w]
      PROVE  EndInv'
  <2>1. \A w \in Workers : pc'[w] \in {"close", "del"} => chunk'[w].conn \in Caused'
    BY <1>3, <1>5, <1>6 DEF EndInv
  <2>2. QED
    BY <1>3, <1>4, <1>6, <2>1 DEF EndInv
<1>7. ASSUME NEW w \in Workers, NEW next, NEW k, NEW c \in Conns, k.conn = c,
             pc' = [pc EXCEPT ![w] = next], chunk' \in {chunk, [chunk EXCEPT ![w] = k]},
             next \in {"close", "del"} => c \in Caused' /\ chunk'[w].conn = c,
             alive' = alive, open \cup waiting \subseteq open' \cup waiting' \cup {c},
             c \in open' \cup waiting' \/ c \in Caused
      PROVE  EndInv'
  <2>1. \A v \in Workers : pc'[v] = IF v = w THEN next ELSE pc[v]
    BY <1>7 DEF Received, Workplace
  <2>2. \A v \in Workers : v # w => chunk'[v] = chunk[v]
    BY <1>7 DEF Received, Workplace
  <2>3. ASSUME NEW v \in Workers, pc'[v] \in {"close", "del"} PROVE chunk'[v].conn \in Caused'
    <3>1. CASE v = w
      BY <1>7, <2>1, <2>3, <3>1
    <3>2. CASE v # w
      BY <1>3, <1>5, <2>1, <2>2, <2>3, <3>2 DEF EndInv
    <3>3. QED
      BY <3>1, <3>2
  <2>4. Conns \ (open' \cup waiting') \subseteq Caused'
    BY <1>3, <1>7 DEF EndInv
  <2>5. QED
    BY <1>4, <1>7, <2>3, <2>4 DEF EndInv
<1>8. ASSUME NEW w \in Workers, Shake(w) \/ Work(w) PROVE EndInv'
  <2>1. PICK c, n : c = chunk[w].conn /\ n = chunk[w].to.whole
    OBVIOUS
  <2>2. PICK reply, id, close :
           /\ Finish(w, c, reply, id, close)
           /\ c \notin cut \cup joined => (close => AsksForClose(script[c][n]))
    BY <1>8, <2>1, AnswersTo
  <2>3. Portion(chunk[w]) /\ c \in Conns
    <3>1. pc[w] = "work"
      BY <1>8 DEF Shake, Work
    <3>2. QED
      BY <1>5, <2>1, <3>1 DEF Received
  <2>4. ASSUME close PROVE c \in Caused
    <3>1. SUFFICES ASSUME c \notin cut \cup joined PROVE \E m \in Begun(c) : AsksForClose(m)
      BY <2>3 DEF Caused
    <3>2. n \in Ends(chunk[w])
      BY <2>1, <2>3, <3>1, OneMessage
    <3>3. QED
      BY <2>1, <2>2, <2>3, <2>4, <3>1, <3>2, PortionHasBegun
  <2>5. PICK next : next = IF close THEN "close" ELSE "recv"
    OBVIOUS
  <2>6. /\ pc' = [pc EXCEPT ![w] = next] /\ alive' = alive /\ UNCHANGED <<open, waiting>>
        /\ chunk' = IF close THEN chunk ELSE [chunk EXCEPT ![w] = Nobody]
    BY <2>2, <2>5 DEF Finish
  <2>7. \A v \in Workers : /\ pc'[v] = IF v = w THEN next ELSE pc[v]
                           /\ v # w \/ close => chunk'[v] = chunk[v]
    BY <2>6 DEF Received, Workplace
  <2>8. ASSUME NEW v \in Workers, pc'[v] \in {"close", "del"} PROVE chunk'[v].conn \in Caused'
    <3>1. CASE v = w
      BY <1>3, <2>1, <2>3, <2>4, <2>5, <2>7, <2>8, <3>1
    <3>2. CASE v # w
      BY <1>3, <1>5, <2>7, <2>8, <3>2 DEF EndInv
    <3>3. QED
      BY <3>1, <3>2
  <2>9. QED
    BY <1>3, <1>4, <2>6, <2>8 DEF EndInv
<1>9. ASSUME NEW w \in Workers, Kills(w) PROVE EndInv'
  <2>1. PICK k : k = chunk[w]
    OBVIOUS
  <2>2. Portion(k) /\ UNCHANGED <<open, waiting, pc, chunk>>
    BY <1>9, <2>1 DEF Kills, ShakeKills, WorkKills, Received, connections
  <2>3. /\ k.conn \in Conns
        /\ k.from.part = 0 => script[k.conn][k.from.whole + 1] \in Begun(k.conn) \/ k.conn \in cut
        /\ \A i \in Ends(k) : script[k.conn][i] \in Begun(k.conn)
    BY <2>2, PortionHasBegun
  <2>4. k.conn \in cut \/ EmptyFrameFrom(k.conn) \/ BareLineFrom(k.conn)
    <3>1. k.from.part > 0 => k.conn \in cut
      BY <2>2 DEF Portion, Chunks, Position
    <3>2. CASE ShakeKills(w)
      <4>1. k.from.part > 0 \/ (k.from.part = 0 /\ script[k.conn][k.from.whole + 1].op = "GETBARE")
        BY <2>1, <3>2 DEF ShakeKills, Shakes, Handshake
      <4>2. QED
        BY <2>3, <3>1, <4>1 DEF BareLineFrom
    <3>3. CASE WorkKills(w)
      <4>1. k.from.part # 0 \/ NoBody(k)
        BY <2>1, <3>3 DEF WorkKills, ParseResults
      <4>2. QED
        BY <2>2, <2>3, <4>1 DEF Portion, NoBody, EmptyFrameFrom
    <3>4. QED
      BY <1>9, <3>2, <3>3 DEF Kills
  <2>5. DeathHasACause'
    BY <1>1, <2>3, <2>4 DEF DeathHasACause, EmptyFrameFrom, BareLineFrom
  <2>6. \A v \in Workers : pc'[v] \in {"close", "del"} => chunk'[v].conn \in Caused'
    BY <1>3, <1>5, <2>2 DEF EndInv
  <2>7. QED
    BY <1>3, <2>2, <2>5, <2>6 DEF EndInv
<1>10. ASSUME NEW w \in Workers, NEW c \in Conns, Recv(w, c) PROVE EndInv'
  <2>1. \A v \in Workers : pc'[v] \in {"close", "del"} => pc[v] \in {"close", "del"} /\ chunk'[v] = chunk[v]
    <3>1. PICK k : chunk' = [chunk EXCEPT ![w] = k]
      BY <1>10 DEF Recv
    <3>2. pc' = [pc EXCEPT ![w] = "work"]
      BY <1>10 DEF Recv
    <3>3. QED
      BY <3>1, <3>2 DEF Received, Workplace
  <2>2. QED
    BY <1>6, <1>10, <2>1 DEF Recv, connections
<1>11. ASSUME NEW w \in Workers, NEW c \in Conns, RecvEnd(w, c) PROVE EndInv'
  <2>1. PICK k : k.conn = c /\ chunk' = [chunk EXCEPT ![w] = k]
    BY <1>11 DEF RecvEnd
  <2>2. c \in Caused' /\ c \in open'
    BY <1>11 DEF RecvEnd, Caused, connections
  <2>3. chunk'[w] = k
    BY <2>1 DEF Received, Workplace
  <2>4. QED
    BY <1>7, <1>11, <2>1, <2>2, <2>3 DEF RecvEnd, connections
<1>12. ASSUME NEW w \in Workers, CloseFd(w) PROVE EndInv'
  <2>1. PICK k : k = chunk[w]
    OBVIOUS
  <2>2. k.conn \in Caused /\ k.conn \in Conns
    BY <1>5, <1>12, <2>1 DEF EndInv, CloseFd
  <2>3. k.conn \in Caused'
    BY <1>3, <2>2
  <2>4. QED
    BY <1>7, <1>12, <2>1, <2>2, <2>3 DEF CloseFd
<1>13. ASSUME NEW w \in Workers, DelClient(w) PROVE EndInv'
  <2>1. \A v \in Workers : pc'[v] \in {"close", "del"} => pc[v] \in {"close", "del"} /\ chunk'[v] = chunk[v]
    BY <1>13 DEF DelClient, Received, Workplace
  <2>2. QED
    BY <1>6, <1>13, <2>1 DEF DelClient
<1>14. ASSUME NEW c \in Conns, HangUp(c) PROVE EndInv'
  <2>1. c \in Caused'
    BY <1>14 DEF HangUp, Caused
  <2>2. \A v \in Workers : pc'[v] \in {"close", "del"} => chunk'[v].conn \in Caused'
    BY <1>3, <1>5, <1>14 DEF HangUp, EndInv
  <2>3. QED
    BY <1>3, <1>4, <1>14, <2>1, <2>2 DEF HangUp, EndInv
<1>15. CASE Cast \/ (\E c \in Conns : Accept(c) \/ AddClient(c)) \/ UNCHANGED vars
  BY <1>6, <1>15 DEF Cast, Accept, AddClient, vars, connections
<1>16. QED
  BY <1>8, <1>9, <1>10, <1>11, <1>12, <1>13, <1>14, <1>15 DEF Next, Kills

(* A connection is closed only over a message that asks for it, over bytes *)
(* that were cut or joined on the way, or because the peer has hung up,    *)
(* between whichever of the four steps (recv, work, close, del_client) the *)
(* other threads go on; and on_frame_end and ws_handshake touch what is    *)
(* not there only over an empty frame, an empty line, or bytes that were   *)
(* cut.                                                                    *)
THEOREM ClosesForACause == Spec => []EndsForACause
<1>1. Init => EndInv
  BY DEF Init, EndInv, DeathHasACause
<1>2. EndInv => EndsForACause
  BY DEF EndInv, DeathHasACause, Caused, EndsForACause
<1>3. QED
  BY <1>1, <1>2, EndStep, InputIsReceived, PTL DEF Spec
=============================================================================
