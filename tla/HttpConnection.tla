--------------------------- MODULE HttpConnection ---------------------------
(***************************************************************************)
(* http_server on one connection of tcp_server: whatever one recv returns  *)
(* is taken for a request.  A parser is made for it, the handler is called *)
(* if it reads to the end of the piece, and one answer is sent.  The peer  *)
(* may send requests before it has the answers to earlier ones, and the    *)
(* network may join and cut what it sends.                                 *)
(***************************************************************************)
EXTENDS HttpParser, SequencesExt

CONSTANTS
  Dialogues,      \* sequences of requests that a client may send
  buffer_size,
  max_body_size,
  UrlOffsets      \* number of offsets that struct http_parser_url can hold

VARIABLES
  dialogue,
  written,    \* requests the client has sent
  arrived,    \* characters that have reached the server
  read,       \* characters recv has returned
  edge,       \* epoll has an event to report
  open,
  answers,    \* number of answers sent
  last,       \* the piece answered last, and what came of it
  pipelined   \* history: the client did not wait for an answer

vars == <<dialogue, written, arrived, read, edge, open, answers, last, pipelined>>

-----------------------------------------------------------------------------
(* The client.  A request is its method, path, query, version, headers,    *)
(* body (in chunks, if it is sent so) and trailers.                        *)

Line(h) == h.name \o <<":", SP>> \o h.value \o <<CR, LF>>
Lines(hs) == FlattenSeq([i \in DOMAIN hs |-> Line(hs[i])]) \o <<CR, LF>>
Chunk(b) == <<Numerals[Len(b) + 1], CR, LF>> \o b \o <<CR, LF>>

Wire(r) ==
  <<r.method, SP>> \o r.path \o (IF r.query = <<>> THEN <<>> ELSE <<"?">> \o r.query)
    \o <<SP, r.version, CR, LF>> \o Lines(r.headers)
    \o IF r.chunked THEN FlattenSeq([i \in DOMAIN r.body |-> Chunk(r.body[i])])
                           \o <<"0", CR, LF>> \o Lines(r.trailers)
       ELSE FlattenSeq(r.body)

(* What a client sends, and where in it each request ends. *)
Sent(d) ==
  [requests |-> d,
   wire |-> FlattenSeq([i \in DOMAIN d |-> Wire(d[i])]),
   ends |-> [n \in DOMAIN d |-> Len(FlattenSeq([i \in 1 .. n |-> Wire(d[i])]))]]

EndOf(n) == IF n = 0 THEN 0 ELSE dialogue.ends[n]

-----------------------------------------------------------------------------
(* mongols::request, as the callbacks of http_request_parser::parse fill it *)

NoRequest == [method |-> "", uri |-> <<>>, param |-> <<>>, headers |-> <<>>, body |-> <<>>, name |-> <<>>]

(* http_parser_parse_url, which gives up where parse_url_char does; the    *)
(* offset and the length of a part have 16 bits.                           *)
UrlPart(url, state) ==
  LET Walk(seen, ch) ==
        LET at == UrlNext(seen.at, ch)
        IN [at |-> at, n |-> seen.n + 1,
            off |-> IF at = state /\ seen.at # state THEN seen.n % UrlOffsets ELSE seen.off,
            len |-> IF at # state THEN seen.len
                    ELSE IF seen.at = state THEN (seen.len + 1) % UrlOffsets ELSE 1]
      part == FoldLeft(Walk, [at |-> "s_req_spaces_before_url", n |-> 0, off |-> 0, len |-> 0], url)
  IN SubSeq(url, part.off + 1, part.off + part.len)

With(f, k, v) == [x \in DOMAIN f \cup {k} |-> IF x = k THEN v ELSE f[x]]

OnCall(req, call) ==
  CASE call.is = "url" -> [req EXCEPT !.uri = call.text]
    [] call.is = "header_field" ->
         [req EXCEPT !.name = call.text,
                     !.headers = IF call.text \in DOMAIN @ THEN @ ELSE With(@, call.text, <<>>)]
    [] call.is = "header_value" -> [req EXCEPT !.headers = With(@, req.name, call.text)]
    [] call.is = "headers_complete" ->
         [req EXCEPT !.method = call.text[1],
                     !.uri = UrlPart(@, "s_req_path"),
                     !.param = UrlPart(req.uri, "s_req_query_string")]
    [] call.is = "body" -> [req EXCEPT !.body = call.text]
    [] call.is \in {"message_begin", "message_complete"} -> req

(* f(x, y); TLC computes x once, however often f mentions it. *)
Once(f(_, _), x, y) == CHOOSE v \in {f(u, y) : u \in {x}} : TRUE

Parsed(p, data) == p.used = Len(data)

(* parse_reqeust *)
Parse(data) ==
  LET Read(p, ch) == Once(Step, p, ch)
      Heard(req, call) == Once(OnCall, req, call)
      Result(p, d) == [ok |-> Parsed(p, d), req |-> FoldLeft(Heard, NoRequest, p.calls)]
  IN Once(Result, End(FoldLeft(Read, Begin(Fresh), data)), data)

-----------------------------------------------------------------------------
(* http_server::work *)

Header(req, name) == IF <<name>> \in DOMAIN req.headers THEN req.headers[<<name>>] ELSE <<>>

FormType == <<"urlencoded">>

PostedShort(req) ==   \* mutant: >= for >
  IF Len(req.body) >= max_body_size \/ <<"Content-Type">> \notin DOMAIN req.headers
  THEN [as |-> "none", text |-> <<>>]
  ELSE [as |-> IF Header(req, "Content-Type") = FormType THEN "form" ELSE "upload", text |-> req.body]

(* What becomes of the body: the handler sees it as a form, or through     *)
(* upload(); a body without a Content-Type it never sees.                  *)
Posted(req) ==
  LET body == IF Len(req.body) > max_body_size THEN <<>> ELSE req.body
  IN IF body = <<>> \/ <<"Content-Type">> \notin DOMAIN req.headers THEN [as |-> "none", text |-> <<>>]
     ELSE [as |-> IF Header(req, "Content-Type") = FormType THEN "form" ELSE "upload", text |-> body]

Seen(req) ==
  [method |-> req.method, path |-> req.uri, query |-> req.param, headers |-> req.headers,
   posted |-> Posted(req)]

Nothing == [method |-> "", path |-> <<>>, query |-> <<>>, headers |-> <<>>,
            posted |-> [as |-> "none", text |-> <<>>]]

AsksForAny(req) == "keep-alive" \in Range(Header(req, "Connection"))   \* mutant: a search in the list
AsksToKeep(req) == Header(req, "Connection") = <<"keep-alive">>

KeepsUnlessToldNot(r, handled) == ~handled \/ AsksToKeep(r.req)   \* mutant: conn starts as keep-alive
Keeps(r, handled) == handled /\ AsksToKeep(r.req)

(* req_filter and res_filter are the user's; the former may refuse.        *)
Work(data, accept) ==
  LET r == Parse(data)
      handled == r.ok /\ accept
  IN [handled |-> handled,
      seen |-> IF handled THEN Seen(r.req) ELSE Nothing,
      keep |-> Keeps(r, handled)]

-----------------------------------------------------------------------------
NoAnswer == [from |-> 0, to |-> 0, accept |-> FALSE, handled |-> FALSE, seen |-> Nothing, keep |-> TRUE]

Init ==
  /\ dialogue \in {Sent(d) : d \in Dialogues}
  /\ written = 0 /\ arrived = 0 /\ read = 0
  /\ edge = FALSE /\ open = TRUE
  /\ answers = 0 /\ last = NoAnswer
  /\ pipelined = FALSE

Write ==
  /\ open /\ written < Len(dialogue.requests)
  /\ written' = written + 1
  /\ pipelined' = (pipelined \/ answers < written)
  /\ UNCHANGED <<dialogue, arrived, read, edge, open, answers, last>>

Arrive ==
  /\ arrived < EndOf(written)
  /\ arrived' \in arrived + 1 .. EndOf(written)
  /\ edge' = open
  /\ UNCHANGED <<dialogue, written, read, open, answers, last, pipelined>>

AnswersHandled(w) == IF w.handled THEN answers + 1 ELSE answers   \* mutant: an error closes silently
Answers(w) == answers + 1

(* tcp_server::work: one recv for an event, the handler, one send, and     *)
(* close() unless the connection is to be kept.                            *)
Receive ==
  /\ open /\ edge
  /\ \E accept \in BOOLEAN, n \in {IF arrived - read < buffer_size THEN arrived - read ELSE buffer_size} :
       \E data \in {SubSeq(dialogue.wire, read + 1, read + n)} :
       \E w \in {Work(data, accept)} :
          /\ read' = read + n
          /\ last' = [from |-> read, to |-> read + n, accept |-> accept,
                      handled |-> w.handled, seen |-> w.seen, keep |-> w.keep]
          /\ open' = w.keep
          /\ answers' = Answers(w)
  /\ edge' = FALSE
  /\ UNCHANGED <<dialogue, written, arrived, pipelined>>

Next == Write \/ Arrive \/ Receive

Spec == Init /\ [][Next]_vars

(* The network delivers and the event loop runs; the client need not send. *)
(* Of all steps, only Receive uses an event up.                            *)
UsesEvent == open /\ edge /\ edge' = FALSE

FairSpec == Spec /\ WF_vars(Arrive) /\ WF_edge(UsesEvent)

-----------------------------------------------------------------------------
(* Properties *)

Values(r, names) ==
  LET Is(h) == h.name[1] \in names
  IN [i \in DOMAIN SelectSeq(r.headers, Is) |-> SelectSeq(r.headers, Is)[i].value]

Options(r) == UNION {Range(v) : v \in Range(Values(r, {"Connection", "connection"}))}

(* What the client says about the connection (RFC 7230, 6.3). *)
Persistent(r) ==
  IF r.version = "HTTP/1.1" THEN "close" \notin Options(r) ELSE "keep-alive" \in Options(r)

(* A request whose parts each arrive at the handler through one callback,  *)
(* with a target that 16 bits can measure.                                 *)
Plain(r) ==
  /\ Len(r.path) + Len(r.query) + 1 < UrlOffsets
  /\ r.method # "CONNECT" /\ "Upgrade" \notin Options(r)
  /\ Len(r.body) <= 1 /\ r.trailers = <<>>
  /\ \A i \in DOMAIN r.headers : CR \notin Range(r.headers[i].value)
  /\ Len(Values(r, {"Content-Length", "Transfer-Encoding"})) = Len(r.body)

(* The requests of which the piece answered last consists, whole. *)
Whole == {<<k, m>> \in (DOMAIN dialogue.ends) \X (DOMAIN dialogue.ends) :
            k <= m /\ EndOf(k - 1) = last.from /\ EndOf(m) = last.to}

(* Requests read in one piece make one: the last one's method and target,  *)
(* every header with the value it had last, and the last body there was.   *)
Joined(rs) ==
  LET hs == FlattenSeq([i \in DOMAIN rs |-> rs[i].headers])
      bs == SelectSeq([i \in DOMAIN rs |-> FlattenSeq(rs[i].body)], LAMBDA b : b # <<>>)
      Said(name) == LET i == CHOOSE i \in DOMAIN hs :
                               hs[i].name = name /\ \A j \in i + 1 .. Len(hs) : hs[j].name # name
                    IN hs[i].value
      body == IF bs = <<>> \/ Len(bs[Len(bs)]) > max_body_size THEN <<>> ELSE bs[Len(bs)]
      typed == {i \in DOMAIN hs : hs[i].name = <<"Content-Type">>} # {}
  IN [method |-> Last(rs).method, path |-> Last(rs).path, query |-> Last(rs).query,
      headers |-> [name \in {hs[i].name : i \in DOMAIN hs} |-> Said(name)],
      posted |-> IF body = <<>> \/ ~typed THEN [as |-> "none", text |-> <<>>]
                 ELSE [as |-> IF Said(<<"Content-Type">>) = FormType THEN "form" ELSE "upload",
                       text |-> body]]

(* What is read whole reaches the handler as it was sent, unless the       *)
(* filter refuses it or a request in front of it was to be the             *)
(* connection's last (http_request_parser::parse, http_server::work).      *)
HandlerSeesWhatWasSent ==
  \A w \in Whole :
    LET rs == SubSeq(dialogue.requests, w[1], w[2])
        final == \A i \in 1 .. Len(rs) - 1 : Persistent(rs[i])
    IN (\A i \in DOMAIN rs : Plain(rs[i])) =>
         /\ last.handled <=> last.accept /\ final
         /\ last.handled => last.seen = Joined(rs)

(* work() decides from the text of one header, http_parser from the        *)
(* tokens of all; a connection is never kept against the client's wish,    *)
(* unless it contradicts itself in several Connection headers.             *)
NeverKeptAgainstTheClient ==
  \A w \in Whole :
    w[1] = w[2] /\ last.keep =>
      Persistent(dialogue.requests[w[1]]) \/ Len(Values(dialogue.requests[w[1]], {"Connection", "connection"})) > 1

(* A request cut by the network is answered piece by piece.  A client that *)
(* waits for its answers gets at most one too many, and with it the end of *)
(* the connection; provided that no body is itself a request, which work() *)
(* could not tell from one once it is cut off from its headers.            *)
SurplusAnswerIsTheLast ==
  ~pipelined => answers <= written \/ (answers = written + 1 /\ ~open)

(* A client that waits for its answers gets one for every request, in one  *)
(* piece or not, longer than the buffer or not.                            *)
RequestsAreAnswered ==
  \A n \in UNION {DOMAIN d : d \in Dialogues} :
    (written = n /\ ~pipelined /\ open) ~> (answers >= n \/ pipelined)
=============================================================================
