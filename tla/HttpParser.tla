----------------------------- MODULE HttpParser -----------------------------
(***************************************************************************)
(* http_parser_execute (lib/http_parser.c) on requests, as mongols builds  *)
(* it: HTTP_PARSER_STRICT is 1 and assert is on.                           *)
(*                                                                         *)
(* A character here is a whole name, word or number's digit, or one of the *)
(* separators: what the character automata of the C code do inside a word  *)
(* is taken at once.  A word cut in two is two words.                      *)
(***************************************************************************)
EXTENDS Naturals, Sequences

CONSTANTS
  ULLONG_MAX,            \* no length was announced
  HTTP_MAX_HEADER_SIZE

ASSUME SizesAssumption == ULLONG_MAX \in Nat /\ ULLONG_MAX >= 16 /\ HTTP_MAX_HEADER_SIZE \in Nat

CR == "\r"
LF == "\n"
SP == " "

Numerals == <<"0", "1", "2", "3", "4", "5", "6", "7", "8", "9", "a", "b", "c", "d", "e", "f">>
IsNumeral(ch, base) == \E i \in 1 .. base : Numerals[i] = ch
Unhex(ch, base) == (CHOOSE i \in 1 .. base : Numerals[i] = ch) - 1

Methods == {"GET", "POST", "CONNECT"}
Versions == {"HTTP/1.0", "HTTP/1.1"}
Separators == {SP, CR, LF, "/", "?", "#", "@", ":", ",", ";"}
Dashed == {"Content-Length", "Content-Type", "Transfer-Encoding", "keep-alive"}

IsAlpha(ch) == ch \notin Separators \cup Versions \cup Dashed /\ ~IsNumeral(ch, 10)
IsToken(ch) == ch \notin (Separators \ {"#"}) \cup Versions   \* the table `tokens`

-----------------------------------------------------------------------------
(* The parser: struct http_parser, the *_mark variables of one call, and   *)
(* what that call has done so far.                                         *)

Fresh ==
  [state |-> "s_start_req", header_state |-> "h_general", flags |-> {},
   content_length |-> 0, nread |-> 0, method |-> "", http_1_1 |-> FALSE,
   upgrade |-> FALSE, errno |-> "HPE_OK",
   marks |-> {}, text |-> <<>>,    \* what is being collected, from its mark on
   calls |-> <<>>,                 \* the callbacks made
   used |-> 0, exit |-> FALSE]     \* characters consumed; the call has returned

Go(p, state) == [p EXCEPT !.state = state]
Fail(p, errno) == [p EXCEPT !.errno = errno]
Demand(p, holds, q) == IF holds THEN q ELSE Fail(p, "abort")
Strict(p, holds, q) == IF holds THEN q ELSE Fail(p, "HPE_STRICT")

Notify(p, what, text) == [p EXCEPT !.calls = Append(@, [is |-> what, text |-> text])]

Mark(p, what) ==
  IF what \in p.marks THEN p ELSE [p EXCEPT !.marks = @ \cup {what}, !.text = <<>>]

CallBack(p, what) ==
  IF what \notin p.marks THEN p
  ELSE [p EXCEPT !.marks = @ \ {what}, !.text = <<>>,
                 !.calls = Append(@, [is |-> what, text |-> p.text])]

Flag(p, flags) == [p EXCEPT !.flags = @ \cup flags]

(* The header being read turned out to mean this. *)
Meaning(header_state) ==
  CASE header_state = "h_connection_keep_alive" -> {"F_CONNECTION_KEEP_ALIVE"}
    [] header_state = "h_connection_close" -> {"F_CONNECTION_CLOSE"}
    [] header_state = "h_connection_upgrade" -> {"F_CONNECTION_UPGRADE"}
    [] header_state = "h_transfer_encoding_chunked" -> {"F_CHUNKED"}
    [] OTHER -> {}

(* A further digit, in 64 bits; refused when it might not fit. *)
TooLongNever(length, base) == FALSE   \* mutant: no test
TooLongLate(length, base) == ULLONG_MAX \div base < length   \* mutant: room for the digit forgotten
TooLong(length, base) == (ULLONG_MAX - base) \div base < length

Digit(p, ch, base) ==
  IF TooLong(p.content_length, base) THEN Fail(p, "HPE_INVALID_CONTENT_LENGTH")
  ELSE [p EXCEPT !.content_length = (base * @ + Unhex(ch, base)) % (ULLONG_MAX + 1)]

-----------------------------------------------------------------------------
(* Request line *)

StartReq(p, ch) ==
  LET q == [p EXCEPT !.flags = {}, !.content_length = ULLONG_MAX]
  IN IF ch \in {CR, LF} THEN p
     ELSE IF ch \notin Methods THEN Fail(q, "HPE_INVALID_METHOD")
     ELSE Notify(Go([q EXCEPT !.method = ch], "s_req_method"), "message_begin", <<>>)

ReqMethod(p, ch) ==
  IF ch = SP THEN Go(p, "s_req_spaces_before_url") ELSE Fail(p, "HPE_INVALID_METHOD")

(* parse_url_char *)
UrlNext(state, ch) ==
  IF ch \in {SP, CR, LF} THEN "s_dead"
  ELSE CASE state = "s_req_spaces_before_url" /\ ch = "/" -> "s_req_path"
        [] state \in {"s_req_spaces_before_url", "s_req_schema"} /\ IsAlpha(ch) -> "s_req_schema"
        [] state = "s_req_schema" /\ ch = ":" -> "s_req_schema_slash"
        [] state = "s_req_schema_slash" /\ ch = "/" -> "s_req_schema_slash_slash"
        [] state = "s_req_schema_slash_slash" /\ ch = "/" -> "s_req_server_start"
        [] state \in {"s_req_server_start", "s_req_server", "s_req_server_with_at"} ->
             CASE ch \in {"/"} \cup Versions -> "s_req_path"
               [] ch = "?" -> "s_req_query_string_start"
               [] ch = "@" -> IF state = "s_req_server_with_at" THEN "s_dead" ELSE "s_req_server_with_at"
               [] ch = "#" -> "s_dead"
               [] OTHER -> "s_req_server"
        [] state = "s_req_path" ->
             CASE ch = "?" -> "s_req_query_string_start"
               [] ch = "#" -> "s_req_fragment_start"
               [] OTHER -> "s_req_path"
        [] state \in {"s_req_query_string_start", "s_req_query_string"} ->
             IF ch = "#" THEN "s_req_fragment_start" ELSE "s_req_query_string"
        [] state = "s_req_fragment_start" -> IF ch = "#" THEN state ELSE "s_req_fragment"
        [] state = "s_req_fragment" -> state
        [] OTHER -> "s_dead"

UrlChar(p, ch) ==
  LET q == Go(p, UrlNext(p.state, ch))
  IN IF q.state = "s_dead" THEN Fail(q, "HPE_INVALID_URL") ELSE q

SpacesBeforeUrl(p, ch) ==
  LET q == Mark(p, "url")
  IN IF ch = SP THEN p
     ELSE UrlChar(IF p.method = "CONNECT" THEN Go(q, "s_req_server_start") ELSE q, ch)

OpenUrl == {"s_req_schema", "s_req_schema_slash", "s_req_schema_slash_slash", "s_req_server_start"}
UrlStates == {"s_req_server", "s_req_server_with_at", "s_req_path", "s_req_query_string_start",
              "s_req_query_string", "s_req_fragment_start", "s_req_fragment"}

Url(p, ch) ==
  CASE ch = SP -> CallBack(Go(p, "s_req_http_start"), "url")
    [] ch = CR -> CallBack(Go([p EXCEPT !.http_1_1 = FALSE], "s_req_line_almost_done"), "url")
    [] ch = LF -> CallBack(Go([p EXCEPT !.http_1_1 = FALSE], "s_header_field_start"), "url")
    [] OTHER -> UrlChar(p, ch)

ReqHttpStart(p, ch) ==
  IF ch = SP THEN p
  ELSE IF ch \in Versions THEN Go([p EXCEPT !.http_1_1 = ch = "HTTP/1.1"], "s_req_http_end")
  ELSE Fail(p, "HPE_INVALID_CONSTANT")

ReqHttpEnd(p, ch) ==
  CASE ch = CR -> Go(p, "s_req_line_almost_done")
    [] ch = LF -> Go(p, "s_header_field_start")
    [] OTHER -> Fail(p, "HPE_INVALID_VERSION")

ReqLineAlmostDone(p, ch) ==
  IF ch = LF THEN Go(p, "s_header_field_start") ELSE Fail(p, "HPE_LF_EXPECTED")

-----------------------------------------------------------------------------
(* End of the headers, and of the message *)

http_should_keep_alive(p) ==
  IF p.http_1_1 THEN "F_CONNECTION_CLOSE" \notin p.flags ELSE "F_CONNECTION_KEEP_ALIVE" \in p.flags

NewMessage(p) ==
  Notify(Go(p, IF http_should_keep_alive(p) THEN "s_start_req" ELSE "s_dead"), "message_complete", <<>>)

(* The rest of the input is in a different protocol. *)
Exit(p) == [p EXCEPT !.exit = TRUE]

MessageDone(p) == IF p.upgrade THEN Exit(NewMessage(p)) ELSE NewMessage(p)

HeadersDone(p) ==
  LET q == [p EXCEPT !.nread = 0]
      sized == p.content_length \notin {0, ULLONG_MAX}
      chunked == "F_CHUNKED" \in p.flags
  IN IF p.upgrade /\ (p.method = "CONNECT" \/ ~(chunked \/ sized)) THEN Exit(NewMessage(q))
     ELSE IF chunked THEN Go(q, "s_chunk_size_start")
     ELSE IF sized THEN Go(q, "s_body_identity")
     ELSE NewMessage(q)

HeadersAlmostDone(p, ch) ==
  LET upgrade == {"F_UPGRADE", "F_CONNECTION_UPGRADE"} \subseteq p.flags \/ p.method = "CONNECT"
  IN Strict(p, ch = LF,
       IF "F_TRAILING" \in p.flags THEN MessageDone(p)
       ELSE IF {"F_CHUNKED", "F_CONTENTLENGTH"} \subseteq p.flags
       THEN Fail(p, "HPE_UNEXPECTED_CONTENT_LENGTH")
       ELSE HeadersDone(Notify([p EXCEPT !.upgrade = upgrade], "headers_complete", <<p.method>>)))

-----------------------------------------------------------------------------
(* Headers *)

HeaderNamed(name) ==
  CASE name \in {"Connection", "connection"} -> "h_connection"
    [] name = "Content-Length" -> "h_content_length"
    [] name = "Transfer-Encoding" -> "h_transfer_encoding"
    [] name = "Upgrade" -> "h_upgrade"
    [] OTHER -> "h_general"

HeaderFieldStart(p, ch) ==
  CASE ch = CR -> Go(p, "s_headers_almost_done")
    [] ch = LF -> HeadersAlmostDone(p, ch)
    [] ~IsToken(ch) /\ ch \notin {CR, LF} -> Fail(p, "HPE_INVALID_HEADER_TOKEN")
    [] OTHER -> Go([Mark(p, "header_field") EXCEPT !.header_state = HeaderNamed(ch)], "s_header_field")

HeaderField(p, ch) ==
  IF IsToken(ch) THEN [p EXCEPT !.header_state = "h_general"]
  ELSE IF ch = ":" THEN CallBack(Go(p, "s_header_value_discard_ws"), "header_field")
  ELSE Fail(p, "HPE_INVALID_HEADER_TOKEN")

ConnectionToken(ch) ==
  CASE ch = "keep-alive" -> "h_connection_keep_alive"
    [] ch = "close" -> "h_connection_close"
    [] ch = "Upgrade" -> "h_connection_upgrade"
    [] OTHER -> "h_matching_connection_token"

ContentLength(p, ch) ==
  IF ~IsNumeral(ch, 10) THEN Fail(p, "HPE_INVALID_CONTENT_LENGTH")
  ELSE IF "F_CONTENTLENGTH" \in p.flags THEN Fail(p, "HPE_UNEXPECTED_CONTENT_LENGTH")
  ELSE Flag([p EXCEPT !.content_length = Unhex(ch, 10), !.header_state = "h_content_length_num"],
            {"F_CONTENTLENGTH"})

(* What a value that begins like this may turn out to mean.  A folded line *)
(* begins a value again: only a list of connection options goes on.        *)
HeaderValueStart(p, ch) ==
  LET q == Go(Mark(p, "header_value"), "s_header_value")
      Becomes(header_state) == [q EXCEPT !.header_state = header_state]
  IN CASE p.header_state = "h_upgrade" -> Flag(Becomes("h_general"), {"F_UPGRADE"})
       [] p.header_state = "h_transfer_encoding" ->
            Becomes(IF ch = "chunked" THEN "h_transfer_encoding_chunked" ELSE "h_general")
       [] p.header_state = "h_content_length" -> ContentLength(q, ch)
       [] p.header_state = "h_connection" -> Becomes(ConnectionToken(ch))
       [] p.header_state = "h_matching_connection_token_start" -> q
       [] OTHER -> Becomes("h_general")

HeaderValueDiscardWs(p, ch) ==
  CASE ch = SP -> p
    [] ch = CR -> Go(p, "s_header_value_discard_ws_almost_done")
    [] ch = LF -> Go(p, "s_header_value_discard_lws")
    [] OTHER -> HeaderValueStart(p, ch)

HeaderAlmostDone(p, ch) ==
  IF ch = LF THEN Go(p, "s_header_value_lws") ELSE Fail(p, "HPE_LF_EXPECTED")

(* The value goes on with ch. *)
ValueChar(p, ch) ==
  LET Becomes(header_state) == [p EXCEPT !.header_state = header_state]
  IN CASE p.header_state = "h_general" -> p
       [] p.header_state \in {"h_connection", "h_transfer_encoding"} -> Fail(p, "abort")
       [] p.header_state = "h_content_length_num" ->
            CASE ch = SP -> Becomes("h_content_length_ws")
              [] IsNumeral(ch, 10) -> Digit(p, ch, 10)
              [] OTHER -> Fail(p, "HPE_INVALID_CONTENT_LENGTH")
       [] p.header_state = "h_content_length_ws" ->
            IF ch = SP THEN p ELSE Fail(p, "HPE_INVALID_CONTENT_LENGTH")
       [] p.header_state = "h_matching_connection_token_start" ->
            CASE ch = SP -> p
              [] ch # SP /\ IsToken(ch) -> Becomes(ConnectionToken(ch))
              [] OTHER -> Becomes("h_general")
       [] p.header_state = "h_matching_connection_token" ->
            IF ch = "," THEN Becomes("h_matching_connection_token_start") ELSE p
       [] p.header_state = "h_transfer_encoding_chunked" -> IF ch = SP THEN p ELSE Becomes("h_general")
       [] p.header_state \in {"h_connection_keep_alive", "h_connection_close", "h_connection_upgrade"} ->
            CASE ch = SP -> p
              [] ch = "," -> Flag(Becomes("h_matching_connection_token_start"), Meaning(p.header_state))
              [] OTHER -> Becomes("h_matching_connection_token")
       [] OTHER -> Becomes("h_general")

HeaderValue(p, ch) ==
  LET q == CallBack(Go(p, "s_header_almost_done"), "header_value")
  IN CASE ch = CR -> q
       [] ch = LF -> HeaderAlmostDone(q, ch)
       [] OTHER -> ValueChar(p, ch)

HeaderValueLws(p, ch) ==
  IF ch = SP THEN HeaderValueStart(p, ch)
  ELSE HeaderFieldStart(Go(Flag(p, Meaning(p.header_state)), "s_header_field_start"), ch)

DiscardWsAlmostDone(p, ch) == Strict(p, ch = LF, Go(p, "s_header_value_discard_lws"))

EmptyValueSkipped(p, ch) ==   \* mutant: no callback for an empty value
  LET q == Flag(p, Meaning(p.header_state))
  IN IF ch = SP THEN Go(p, "s_header_value_discard_ws")
     ELSE HeaderFieldStart(Go(q, "s_header_field_start"), ch)

(* The value was empty. *)
HeaderValueDiscardLws(p, ch) ==
  LET q == Mark(Flag(p, Meaning(p.header_state)), "header_value")
  IN IF ch = SP THEN Go(p, "s_header_value_discard_ws")
     ELSE HeaderFieldStart(CallBack(Go(q, "s_header_field_start"), "header_value"), ch)

-----------------------------------------------------------------------------
(* Bodies *)

HasLength(p) == p.content_length \notin {0, ULLONG_MAX}
IsChunked(p) == "F_CHUNKED" \in p.flags

(* One more character of the body; the last one of a sized body is part of *)
(* the text handed over.                                                   *)
BodyIdentity(p, ch) ==
  LET q == [Mark(p, "body") EXCEPT !.content_length = @ - 1]
  IN Demand(p, HasLength(p),
       IF p.content_length > 1 THEN q
       ELSE MessageDone(CallBack([q EXCEPT !.text = Append(@, ch)], "body")))

ChunkSizeStart(p, ch) ==
  Demand(p, p.nread = 1 /\ IsChunked(p),
    IF IsNumeral(ch, 16)
    THEN Go([p EXCEPT !.content_length = Unhex(ch, 16)], "s_chunk_size")
    ELSE Fail(p, "HPE_INVALID_CHUNK_SIZE"))

ChunkSize(p, ch) ==
  Demand(p, IsChunked(p),
    CASE ch = CR -> Go(p, "s_chunk_size_almost_done")
      [] ch \in {";", SP} -> Go(p, "s_chunk_parameters")
      [] IsNumeral(ch, 16) -> Digit(p, ch, 16)
      [] OTHER -> Fail(p, "HPE_INVALID_CHUNK_SIZE"))

ChunkParameters(p, ch) ==
  Demand(p, IsChunked(p), IF ch = CR THEN Go(p, "s_chunk_size_almost_done") ELSE p)

ChunkSizeAlmostDone(p, ch) ==
  LET q == [p EXCEPT !.nread = 0]
  IN Demand(p, IsChunked(p), Strict(p, ch = LF,
       IF p.content_length = 0 THEN Go(Flag(q, {"F_TRAILING"}), "s_header_field_start")
       ELSE Go(q, "s_chunk_data")))

ChunkData(p, ch) ==
  LET q == [Mark(p, "body") EXCEPT !.content_length = @ - 1]
  IN Demand(p, IsChunked(p) /\ HasLength(p),
       IF p.content_length > 1 THEN q ELSE Go(q, "s_chunk_data_almost_done"))

ChunkDataAlmostDone(p, ch) ==
  Demand(p, IsChunked(p) /\ p.content_length = 0, Strict(p, ch = CR,
    CallBack(Go(p, "s_chunk_data_done"), "body")))

ChunkDataDone(p, ch) ==
  Demand(p, IsChunked(p), Strict(p, ch = LF, Go([p EXCEPT !.nread = 0], "s_chunk_size_start")))

-----------------------------------------------------------------------------
(* The loop *)

Dead(p, ch) == IF ch \in {CR, LF} THEN p ELSE Fail(p, "HPE_CLOSED_CONNECTION")

BodyStates == {"s_body_identity", "s_chunk_data", "s_chunk_data_almost_done", "s_chunk_data_done"}

React(p, ch) ==
  CASE p.state = "s_dead" -> Dead(p, ch)
    [] p.state = "s_start_req" -> StartReq(p, ch)
    [] p.state = "s_req_method" -> ReqMethod(p, ch)
    [] p.state = "s_req_spaces_before_url" -> SpacesBeforeUrl(p, ch)
    [] p.state \in OpenUrl -> UrlChar(p, ch)
    [] p.state \in UrlStates -> Url(p, ch)
    [] p.state = "s_req_http_start" -> ReqHttpStart(p, ch)
    [] p.state = "s_req_http_end" -> ReqHttpEnd(p, ch)
    [] p.state = "s_req_line_almost_done" -> ReqLineAlmostDone(p, ch)
    [] p.state = "s_header_field_start" -> HeaderFieldStart(p, ch)
    [] p.state = "s_header_field" -> HeaderField(p, ch)
    [] p.state = "s_header_value_discard_ws" -> HeaderValueDiscardWs(p, ch)
    [] p.state = "s_header_value_discard_ws_almost_done" -> DiscardWsAlmostDone(p, ch)
    [] p.state = "s_header_value_discard_lws" -> HeaderValueDiscardLws(p, ch)
    [] p.state = "s_header_value" -> HeaderValue(p, ch)
    [] p.state = "s_header_almost_done" -> HeaderAlmostDone(p, ch)
    [] p.state = "s_header_value_lws" -> HeaderValueLws(p, ch)
    [] p.state = "s_headers_almost_done" -> HeadersAlmostDone(p, ch)
    [] p.state = "s_body_identity" -> BodyIdentity(p, ch)
    [] p.state = "s_chunk_size_start" -> ChunkSizeStart(p, ch)
    [] p.state = "s_chunk_size" -> ChunkSize(p, ch)
    [] p.state = "s_chunk_parameters" -> ChunkParameters(p, ch)
    [] p.state = "s_chunk_size_almost_done" -> ChunkSizeAlmostDone(p, ch)
    [] p.state = "s_chunk_data" -> ChunkData(p, ch)
    [] p.state = "s_chunk_data_almost_done" -> ChunkDataAlmostDone(p, ch)
    [] p.state = "s_chunk_data_done" -> ChunkDataDone(p, ch)

(* Characters up to the end of the headers are counted. *)
Counted(p) ==
  LET q == [p EXCEPT !.nread = @ + 1]
  IN IF p.state \in BodyStates THEN p
     ELSE IF q.nread > HTTP_MAX_HEADER_SIZE THEN Fail(q, "HPE_HEADER_OVERFLOW") ELSE q

(* One character; an error or an exit leaves the rest of the call's input. *)
Collect(p, ch) == IF p.marks = {} THEN p ELSE [p EXCEPT !.text = Append(@, ch)]

Step(p, ch) ==
  LET c == Counted(p)
      q == IF c.errno = "HPE_OK" THEN React(c, ch) ELSE c
  IN IF p.errno # "HPE_OK" \/ p.exit THEN p
     ELSE IF q.errno # "HPE_OK" THEN q
     ELSE Collect([q EXCEPT !.used = @ + 1], ch)

(* What is half collected goes on in the next call. *)
Resumed(p) ==
  CASE p.state = "s_header_field" -> {"header_field"}
    [] p.state = "s_header_value" -> {"header_value"}
    [] p.state \in OpenUrl \cup UrlStates -> {"url"}
    [] OTHER -> {}

Begin(p) ==
  [p EXCEPT !.marks = Resumed(p), !.text = <<>>, !.calls = <<>>, !.used = 0, !.exit = FALSE]

(* The end of the input hands over what has been collected so far. *)
End(p) ==
  IF p.errno # "HPE_OK" \/ p.exit \/ p.marks = {} THEN p
  ELSE [p EXCEPT !.marks = {}, !.text = <<>>,
                 !.calls = Append(@, [is |-> CHOOSE m \in p.marks : TRUE, text |-> p.text])]
=============================================================================
