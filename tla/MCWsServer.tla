----------------------------- MODULE MCWsServer -----------------------------
(* TLC instance of WsServer: texts, and what clients send. *)
EXTENDS WsServer, TLC

Text(json, login, gid, uid, gfilter, ufilter) ==
  [json |-> json, login |-> login, id |-> [gid |-> gid, uid |-> uid],
   gfilter |-> gfilter, ufilter |-> ufilter]

MCMeaning ==
  "hello" :> Text(FALSE, FALSE, 0, 0, {}, {}) @@
  "{}"    :> Text(TRUE, FALSE, 0, 0, {}, {}) @@
  "login1" :> Text(TRUE, TRUE, 1, 1, {1}, {}) @@
  "login2" :> Text(TRUE, TRUE, 2, 2, {2}, {1, 2}) @@
  "" :> Text(FALSE, FALSE, 0, 0, {}, {})

Msg(op, text) == [op |-> op, fin |-> TRUE, text |-> text]

Kinds == {Msg("TEXT", "login1"), Msg("TEXT", "{}"), Msg("TEXT", "hello"), Msg("BINARY", "hello"),
          Msg("CLOSE", "hello"), Msg("PING", "hello"), Msg("PING", ""), Msg("BINARY", ""), Msg("PONG", "hello"),
          [op |-> "TEXT", fin |-> FALSE, text |-> "hello"]}

Later == {Msg("TEXT", "login1"), Msg("TEXT", "hello"), Msg("BINARY", "hello"), Msg("PING", ""), Msg("PONG", "hello"),
          [op |-> "TEXT", fin |-> FALSE, text |-> "hello"]}

(* One client: a handshake or a frame, then a frame.                       *)
SoloScripts ==
  {<<Msg("GETNOKEY", "hello")>>, <<Msg("GETBARE", "hello"), Msg("PING", "hello")>>} \cup {<<m, n>> : m \in Kinds \cup {Msg("GET", "hello")}, n \in Later}

(* Two clients that identify themselves, early or late.                    *)
GroupScripts ==
  {<<Msg("TEXT", "login2"), Msg("TEXT", "login1")>>, <<Msg("BINARY", "hello"), Msg("TEXT", "login1")>>}

(* One client whose messages are cut and joined in every way, or two whose *)
(* messages arrive whole, if not one at a time.                            *)
MCScripts == SoloScripts \cup GroupScripts \cup {<<>>}

Group == \A c \in Conns : script[c] \in GroupScripts

MCInit ==
  /\ Init
  /\ Group \/ \E c \in Conns : script[c] \in SoloScripts /\ \A d \in Conns \ {c} : script[d] = <<>>

(* A client that has nothing to send does not come. *)
MCNext ==
  /\ Next
  /\ Group => cut' = {} /\ left' = {}
  /\ \A c \in Conns : script[c] = <<>> => c \in waiting'

MCSpec == MCInit /\ [][MCNext]_vars

Symmetry == Permutations(Conns) \cup Permutations(Workers)
=============================================================================
