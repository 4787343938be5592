------------------------------ MODULE WsServer ------------------------------
(***************************************************************************)
(* mongols::ws_server with its own message handler (run()), on top of the  *)
(* workers of tcp_threading_server.                                        *)
(*                                                                         *)
(* A worker receives whatever bytes have arrived, and ws_parse starts a    *)
(* new websocket_parser on them: nothing is kept from one recv to the      *)
(* next.  A message is cut here into the pieces ws_parse tells apart, and  *)
(* a recv takes any number of them, from one position to a later one:      *)
(*   a frame    1 = first byte, 2 = rest of the header, 3 = the body       *)
(*   a request  1 = the first line, 2 = up to the line with the key        *)
(* What the parser finds in whole bytes is checked in WsStream; the reuse  *)
(* of descriptors and lost events in TcpThreadingServer.                   *)
(*                                                                         *)
(* main_mtx is held by work, by add_client and by del_client, each time    *)
(* anew: between accept and add_client, and from the end of work over      *)
(* close to del_client, the other threads go on.                           *)
(***************************************************************************)
EXTENDS Integers, Sequences, FiniteSets, SequencesExt

CONSTANTS
  Conns, Workers,
  Scripts,      \* what a client may send, a handshake first if at all
  Meaning,      \* text -> what json11 makes of it, see MCWsServer
  Empty, Junk,  \* the text of an empty frame; bytes that are not a text that was sent
  Nobody        \* the state of an idle worker

Requests == {"GET", "GETNOKEY", "GETBARE"}   \* the last one has a line of no bytes
Frames == {"TEXT", "BINARY", "CLOSE", "PING", "PONG"}
Message ==
  [op : Requests, fin : {TRUE}, text : DOMAIN Meaning] \cup
  [op : Frames, fin : BOOLEAN, text : DOMAIN Meaning]

Position == [whole : Nat, part : 0 .. 2]
Chunks == [conn : Conns, from : Position, to : Position]

ASSUME ScriptsAssumption ==
  /\ Scripts \subseteq Seq(Message)
  /\ \A s \in Scripts : \A i \in DOMAIN s : s[i].op \in Requests => i = 1
ASSUME TextsAssumption ==
  Junk \notin DOMAIN Meaning /\ Empty \in DOMAIN Meaning /\ ~Meaning[Empty].json
ASSUME NobodyAssumption == Nobody \notin Chunks

VARIABLES
  script,    \* conn -> its messages
  got,       \* conn -> how much of them has been received: [whole, part]
  waiting,   \* connections that have not been accepted
  open,      \* connections the server has accepted and not closed
  adding,    \* the one that the event loop has accepted and not yet registered
  clients,   \* the registry: conn -> identity
  pc,        \* worker -> its next step: "recv", "work", "close" or "del"
  chunk,     \* worker -> what its recv returned, or Nobody
  casts,     \* queued send_to_all_client tasks
  alive      \* FALSE once undefined behaviour has killed the process

(* History: replies sent, and connections of which                         *)
VARIABLES
  answered,  \* conn -> number of replies
  wrong,     \* a reply was not the one to the next message
  cut,       \* a recv began or ended inside a message
  joined,    \* a recv held pieces of several messages
  raced,     \* two workers were busy with it at once
  left,      \* a recv found that the peer has hung up
  dropped    \* the event loop did, and has closed it
history == <<answered, wrong, cut, joined, raced, left, dropped>>

connections == <<waiting, open, adding, clients>>
vars == <<script, got, connections, pc, chunk, casts, alive, history>>

Anonymous == [gid |-> 0, uid |-> 0]

Init ==
  /\ script \in [Conns -> Scripts]
  /\ got = [c \in Conns |-> [whole |-> 0, part |-> 0]]
  /\ waiting = Conns /\ open = {} /\ adding = {}
  /\ clients = <<>>
  /\ pc = [w \in Workers |-> "recv"]
  /\ chunk = [w \in Workers |-> Nobody]
  /\ casts = <<>>
  /\ alive = TRUE
  /\ answered = [c \in Conns |-> 0]
  /\ wrong = {} /\ cut = {} /\ joined = {} /\ raced = {} /\ left = {} /\ dropped = {}

-----------------------------------------------------------------------------
(* The event loop (tcp_server::main_loop) *)

Accept(c) ==
  /\ adding = {} /\ c \in waiting
  /\ waiting' = waiting \ {c} /\ open' = open \cup {c} /\ adding' = {c}
  /\ UNCHANGED <<script, got, clients, pc, chunk, casts, alive, history>>

(* An entry that is there already is kept. *)
AddClient(c) ==
  /\ c \in adding
  /\ adding' = {}
  /\ clients' = [d \in DOMAIN clients \cup {c} |-> IF d \in DOMAIN clients THEN clients[d] ELSE Anonymous]
  /\ UNCHANGED <<script, got, waiting, open, pc, chunk, casts, alive, history>>

(* EPOLLRDHUP, EPOLLHUP or EPOLLERR: closed, and left in the registry.     *)
HangUp(c) ==
  /\ adding = {} /\ c \in open
  /\ open' = open \ {c} /\ dropped' = dropped \cup {c}
  /\ UNCHANGED <<script, got, waiting, adding, clients, pc, chunk, casts, alive,
                 answered, wrong, cut, joined, raced, left>>

-----------------------------------------------------------------------------
(* Bytes on the wire *)

Parts(m) ==
  IF m.op \in {"GETNOKEY", "GETBARE"} THEN 1 ELSE IF m.op = "GET" \/ m.text = Empty THEN 2 ELSE 3

(* A position: whole messages, and pieces of the next one.                 *)
Positions(c) ==
  {p \in [whole : 0 .. Len(script[c]), part : 0 .. 2] :
     p.part > 0 => p.whole < Len(script[c]) /\ p.part < Parts(script[c][p.whole + 1])}
Before(p, q) == p.whole < q.whole \/ (p.whole = q.whole /\ p.part < q.part)
Touched(p) == IF p.part = 0 THEN p.whole ELSE p.whole + 1   \* messages begun

Holds(w, c) == pc[w] # "recv" /\ chunk[w].conn = c
Racing(c) == IF \E w \in Workers : Holds(w, c) THEN raced \cup {c} ELSE raced

(* recv() outside main_mtx: part of what has arrived, at least one byte.   *)
(* There is a task for a connection once the event loop has registered it. *)
Recv(w, c) ==
  /\ pc[w] = "recv" /\ c \in open \ (adding \cup left)
  /\ \E to \in Positions(c) :
       /\ Before(got[c], to)
       /\ chunk' = [chunk EXCEPT ![w] = [conn |-> c, from |-> got[c], to |-> to]]
       /\ got' = [got EXCEPT ![c] = to]
       /\ cut' = IF got[c].part = 0 /\ to.part = 0 THEN cut ELSE cut \cup {c}
       /\ joined' = IF Touched(to) > got[c].whole + 1 THEN joined \cup {c} ELSE joined
  /\ pc' = [pc EXCEPT ![w] = "work"]
  /\ raced' = Racing(c)
  /\ UNCHANGED <<script, connections, casts, alive, answered, wrong, left, dropped>>

(* recv() returns 0: nothing is left to read, and the peer has hung up.    *)
RecvEnd(w, c) ==
  /\ pc[w] = "recv" /\ c \in open \ adding
  /\ chunk' = [chunk EXCEPT ![w] = [conn |-> c, from |-> got[c], to |-> got[c]]]
  /\ pc' = [pc EXCEPT ![w] = "close"]
  /\ raced' = Racing(c) /\ left' = left \cup {c}
  /\ UNCHANGED <<script, got, connections, casts, alive, answered, wrong, cut, joined, dropped>>

-----------------------------------------------------------------------------
(* ws_parse *)

OpOf(m) ==
  CASE ~m.fin -> 0
    [] m.fin /\ m.op = "TEXT" -> 1
    [] m.fin /\ m.op = "BINARY" -> 2
    [] m.fin /\ m.op = "CLOSE" -> 8
    [] m.fin /\ m.op = "PING" -> 9
    [] m.fin /\ m.op = "PONG" -> 10
    [] OTHER -> 0

Codes == {0, 1, 2, 8, 9, 10}

(* The messages of which a chunk has every piece, and those of which it    *)
(* has the second header byte (it begins with a message).                  *)
Ends(k) == k.from.whole + 1 .. k.to.whole
Heads(k) ==
  {i \in k.from.whole + 1 .. Touched(k.to) :
     Parts(script[k.conn][i]) > 1 /\ (i <= k.to.whole \/ k.to.part > 1)}

(* on_frame_header allocates no body for an empty frame, and on_frame_end  *)
(* takes one nevertheless.                                                 *)
NoBody(k) == \E i \in Ends(k) : script[k.conn][i].text = Empty

Texts(k) == [n \in 1 .. k.to.whole - k.from.whole |-> script[k.conn][k.from.whole + n].text]

(* What ws_parse may return.  opcode and is_final are those of the last    *)
(* header and are uninitialised before the first; the message is what the  *)
(* completed frames carried.  To append and free a body that was never     *)
(* allocated, or is already freed, is undefined.  A chunk that begins      *)
(* inside a frame is parsed as if it did not.                              *)
ParseResults(k) ==
  LET full == SelectSeq(Texts(k), LAMBDA t : t # Empty)
  IN IF k.from.part = 0
     THEN [code : {OpOf(script[k.conn][i]) : i \in {i \in Heads(k) : \A j \in Heads(k) : j <= i}}
                  \cup (IF Heads(k) = {} THEN Codes ELSE {}),
           text : IF NoBody(k) THEN {full, Append(full, Junk)} ELSE {Texts(k)},
           dies : IF NoBody(k) THEN BOOLEAN ELSE {FALSE}]
     ELSE [code : Codes, text : {<<>>, <<Junk>>}, dies : BOOLEAN]

(* A chunk goes to ws_handshake if it starts with a G. *)
Handshake(k) ==
  k.from.part = 0 /\ script[k.conn][k.from.whole + 1].op \in Requests

(* ws_handshake reads lines up to the one with the key or the empty one,   *)
(* "\r", of the bytes at hand; nothing behind it is looked at.  It takes   *)
(* the last byte off each line, which is undefined for a line of no bytes. *)
(* The key of a request that was cut may be at hand, or a part of it; and  *)
(* bytes from inside a message may look like any request.                  *)
Shakes(k) ==
  LET m == script[k.conn][k.from.whole + 1] IN
  IF k.from.part > 0 \/ m.op = "GETBARE"
  THEN [key : BOOLEAN, dies : BOOLEAN]
  ELSE [key : IF m.op = "GETNOKEY" THEN {FALSE} ELSE IF k.to.whole = k.from.whole THEN BOOLEAN ELSE {TRUE},
        dies : {FALSE}]

-----------------------------------------------------------------------------
(* work and ws_message_parse, under main_mtx *)

IsJson(text) == Len(text) = 1 /\ text[1] # Junk /\ Meaning[text[1]].json
IsLogin(text) == IsJson(text) /\ Meaning[text[1]].login

LatchedAlways(id, new) == new   \* mutant: the identity can be changed later
Latched(id, new) ==
  [gid |-> IF id.gid = 0 THEN new.gid ELSE id.gid, uid |-> IF id.uid = 0 THEN new.uid ELSE id.uid]

Short(op) == [op |-> op, text |-> <<>>]   \* a frame with a fixed text

ReplyTextOnly(code, text) ==   \* mutant: binary messages come back as text
  CASE code \in {1, 2} -> [op |-> "TEXT", text |-> text]
    [] code = 8 -> Short("CLOSE")
    [] code = 9 -> Short("PONG")
    [] code = 10 -> Short("PING")
    [] code = 0 -> Short("ERROR")
Reply(code, text) ==
  CASE code = 1 -> [op |-> "TEXT", text |-> text]
    [] code = 2 -> [op |-> "BINARY", text |-> text]
    [] code = 8 -> Short("CLOSE")
    [] code = 9 -> Short("PONG")
    [] code = 10 -> Short("PING")
    [] code = 0 -> Short("ERROR")
Switching == Short("101")
Nothing == Short("NOTHING")

(* output.second: CLOSE_CONNECTION *)
ClosesOnPong(code, text) == code \in {0, 8, 10} \/ (code = 1 /\ ~IsJson(text))   \* mutant
Closes(code, text) == code \in {0, 8} \/ (code = 1 /\ ~IsJson(text))

Filter(text) ==   \* of a login, or the default one
  IF IsLogin(text)
  THEN [gfilter |-> Meaning[text[1]].gfilter, ufilter |-> Meaning[text[1]].ufilter]
  ELSE [gfilter |-> {}, ufilter |-> {}]

Passes(f, id) ==
  /\ f.gfilter = {} \/ id.gid \in f.gfilter
  /\ f.ufilter = {} \/ id.uid \in f.ufilter

(* What the code means to answer to a message by itself (work:136-178).    *)
ReplyTo(m) ==
  CASE m.op = "GET" -> Switching
    [] m.op \in {"GETNOKEY", "GETBARE"} -> Nothing
    [] ~m.fin -> Short("ERROR")
    [] m.fin /\ m.op \in {"TEXT", "BINARY"} -> [op |-> m.op, text |-> <<m.text>>]
    [] m.fin /\ m.op = "CLOSE" -> Short("CLOSE")
    [] m.fin /\ m.op = "PING" -> Short("PONG")
    [] m.fin /\ m.op = "PONG" -> Short("PING")

Due(c, reply) ==   \* history: is this the reply to the next message?
  answered[c] < Len(script[c]) /\ reply = ReplyTo(script[c][answered[c] + 1])

NotErased(entries, c) == entries   \* mutant: close without del_client
Erased(entries, c) == [d \in DOMAIN entries \ {c} |-> entries[d]]

(* The end of work, still under main_mtx: clients[fd] has the identity,    *)
(* and the reply is sent if the connection is there.  A worker may hold    *)
(* input of a connection that another has closed and removed: clients[fd]  *)
(* has then made an entry for nobody.                                      *)
Finish(w, c, reply, id, close) ==
  /\ pc' = [pc EXCEPT ![w] = IF close THEN "close" ELSE "recv"]
  /\ chunk' = IF close THEN chunk ELSE [chunk EXCEPT ![w] = Nobody]
  /\ clients' = [d \in DOMAIN clients \cup {c} |-> IF d = c THEN id ELSE clients[d]]
  /\ answered' = [answered EXCEPT ![c] = IF c \in open THEN @ + 1 ELSE @]
  /\ wrong' = IF c \in open /\ ~Due(c, reply) THEN wrong \cup {c} ELSE wrong
  /\ UNCHANGED <<script, got, waiting, open, adding, alive, cut, joined, raced, left, dropped>>

Identity(c) == IF c \in DOMAIN clients THEN clients[c] ELSE Anonymous

Shake(w) ==
  LET c == chunk[w].conn IN
  /\ pc[w] = "work" /\ (Handshake(chunk[w]) \/ chunk[w].from.part > 0)
  /\ \E r \in Shakes(chunk[w]) :
       ~r.dies /\ Finish(w, c, IF r.key THEN Switching ELSE Nothing, Identity(c), ~r.key)
  /\ UNCHANGED casts

Work(w) ==
  LET c == chunk[w].conn
      id == Identity(c)
  IN /\ pc[w] = "work" /\ ~Handshake(chunk[w])
     /\ \E r \in ParseResults(chunk[w]) :
          LET new == IF r.code = 1 /\ IsLogin(r.text) THEN Latched(id, Meaning[r.text[1]].id) ELSE id
              all == r.code = 2 \/ (r.code = 1 /\ IsLogin(r.text))
          IN /\ ~r.dies
             /\ Finish(w, c, Reply(r.code, r.text), new, Closes(r.code, r.text))
             /\ casts' = IF all THEN Append(casts, [from |-> c, filter |-> Filter(r.text), seen |-> clients'])
                         ELSE casts

ShakeKills(w) ==
  /\ pc[w] = "work" /\ (Handshake(chunk[w]) \/ chunk[w].from.part > 0)
  /\ \E r \in Shakes(chunk[w]) : r.dies
  /\ alive' = FALSE
  /\ UNCHANGED <<script, got, connections, pc, chunk, casts, history>>

WorkKills(w) ==
  /\ pc[w] = "work" /\ ~Handshake(chunk[w])
  /\ \E r \in ParseResults(chunk[w]) : r.dies
  /\ alive' = FALSE
  /\ UNCHANGED <<script, got, connections, pc, chunk, casts, history>>

(* main_mtx is free again.  Another worker may have closed c by now.       *)
CloseFd(w) ==
  /\ pc[w] = "close"
  /\ pc' = [pc EXCEPT ![w] = "del"]
  /\ open' = open \ {chunk[w].conn}
  /\ UNCHANGED <<script, got, waiting, adding, clients, chunk, casts, alive, history>>

(* Queued broadcasts know who was registered when they were submitted; a   *)
(* client that leaves is forgotten (history).                              *)
Forgetting(c, queue) ==
  [i \in DOMAIN queue |-> [queue[i] EXCEPT !.seen = Erased(@, c)]]

(* del_client takes main_mtx again. *)
DelClient(w) ==
  /\ pc[w] = "del"
  /\ pc' = [pc EXCEPT ![w] = "recv"] /\ chunk' = [chunk EXCEPT ![w] = Nobody]
  /\ clients' = Erased(clients, chunk[w].conn)
  /\ casts' = Forgetting(chunk[w].conn, casts)
  /\ UNCHANGED <<script, got, waiting, open, adding, alive, history>>

(* send_to_all_client: the filter meets the identities of this moment.     *)
Audience(k) == {c \in DOMAIN clients \ {k.from} : Passes(k.filter, clients[c])}

(* The workers take tasks in order and race for main_mtx.                  *)
Cast ==
  /\ \E i \in DOMAIN casts : i <= Cardinality(Workers) /\ casts' = RemoveAt(casts, i)
  /\ UNCHANGED <<script, got, connections, pc, chunk, alive, history>>

Next ==
  /\ alive
  /\ \/ Cast
     \/ \E c \in Conns : Accept(c) \/ AddClient(c) \/ HangUp(c)
     \/ \E w \in Workers :
          \/ \E c \in Conns : Recv(w, c) \/ RecvEnd(w, c)
          \/ Shake(w) \/ Work(w) \/ ShakeKills(w) \/ WorkKills(w)
          \/ CloseFd(w) \/ DelClient(w)

Spec == Init /\ [][Next]_vars

-----------------------------------------------------------------------------
(* Properties *)

(* Of the messages of c, those whose first byte has been received.         *)
Begun(c) == {script[c][i] : i \in 1 .. Touched(got[c])}
EmptyFrameFrom(c) == \E m \in Begun(c) : m.text = Empty
BareLineFrom(c) == \E m \in Begun(c) : m.op = "GETBARE"

(* Every message is answered with its own reply, in order, unless the      *)
(* connection's bytes reached ws_parse in other portions than messages, or *)
(* two workers served them at once, or a frame or a line of a request was  *)
(* empty: ws_parse keeps nothing between calls, and work orders nothing    *)
(* between workers.                                                        *)
RepliesInStep ==
  \A c \in wrong : c \in cut \cup joined \cup raced \/ EmptyFrameFrom(c) \/ BareLineFrom(c)

(* A client that sends JSON texts, binary frames, pings and pongs, each in *)
(* a frame of its own, is not closed before it hangs up, unless its frames *)
(* were cut or run together on the way; two workers on one connection are  *)
(* no reason.  And undefined behaviour needs an empty frame (on_frame_end),*)
(* an empty line in a request (ws_handshake), or bytes that are taken for  *)
(* one.                                                                    *)
AsksForClose(m) ==
  \/ ~m.fin
  \/ m.op \in {"GETNOKEY", "GETBARE", "CLOSE"}
  \/ m.op = "TEXT" /\ ~Meaning[m.text].json
EndsForACause ==
  /\ \A c \in Conns \ (open \cup waiting) :
       c \in cut \cup joined \cup left \cup dropped \/ \E m \in Begun(c) : AsksForClose(m)
  /\ ~alive => \E c \in Conns : c \in cut \/ EmptyFrameFrom(c) \/ BareLineFrom(c)

(* A broadcast is filtered when it is sent, by a filter captured when it   *)
(* was submitted.  For a client that had its identity by then, and has not *)
(* been removed since, the delay makes no difference.                      *)
FiltersKeepTheirMeaning ==
  \A i \in DOMAIN casts :
    LET k == casts[i] IN
    \A c \in DOMAIN k.seen \ {k.from} :
      k.seen[c].gid # 0 /\ k.seen[c].uid # 0 =>
        (c \in Audience(k) <=> Passes(k.filter, k.seen[c]))

(* Every open connection is registered, but for the one that the event     *)
(* loop is just adding.  And an entry without a connection is one that a   *)
(* worker is about to delete, one of a connection that the event loop has  *)
(* closed (main_loop:162-164, nothing deletes it), or one that was made by *)
(* a worker that came too late.                                            *)
RegistryFollowsConnections ==
  /\ open \ adding \subseteq DOMAIN clients
  /\ \A c \in DOMAIN clients \ open :
       c \in raced \cup dropped \/ \E w \in Workers : pc[w] = "del" /\ Holds(w, c)
=============================================================================
