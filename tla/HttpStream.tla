----------------------------- MODULE HttpStream -----------------------------
(***************************************************************************)
(* http_parser_execute fed with any input whatsoever, cut anywhere: what   *)
(* the parser's asserts demand, and what its callbacks may rely on.  The   *)
(* texts handed over are left out here.                                    *)
(***************************************************************************)
EXTENDS HttpParser

CONSTANT Chars   \* the characters a peer may send

VARIABLES
  parser,
  made,     \* the callbacks the last step has made
  before    \* the last callback before those

vars == <<parser, made, before>>

Init ==
  /\ parser = Fresh
  /\ made = <<>>
  /\ before = "none"

LastCall == IF made = <<>> THEN before ELSE made[Len(made)]

(* parser becomes p, without the texts. *)
Becomes(p) ==
  /\ parser' = [p EXCEPT !.text = <<>>, !.calls = <<>>, !.used = 0]
  /\ made' = [i \in 1 .. Len(p.calls) |-> p.calls[i].is]
  /\ before' = LastCall

Feed(ch) == Becomes(Step(parser, ch))

(* A call of http_parser_execute ends and the next one begins. *)
Cut == Becomes([Begin(End(parser)) EXCEPT !.calls = End(parser).calls])

Next == Cut \/ \E ch \in Chars : Feed(ch)

Spec == Init /\ [][Next]_vars

-----------------------------------------------------------------------------
(* Properties *)

States ==
  {"s_dead", "s_start_req", "s_req_method", "s_req_spaces_before_url", "s_req_http_start",
   "s_req_http_end", "s_req_line_almost_done", "s_header_field_start", "s_header_field",
   "s_header_value_discard_ws", "s_header_value_discard_ws_almost_done",
   "s_header_value_discard_lws", "s_header_value", "s_header_almost_done", "s_header_value_lws",
   "s_headers_almost_done", "s_chunk_size_start", "s_chunk_size", "s_chunk_parameters",
   "s_chunk_size_almost_done"} \cup BodyStates \cup OpenUrl \cup UrlStates

Flags == {"F_CHUNKED", "F_CONNECTION_KEEP_ALIVE", "F_CONNECTION_CLOSE", "F_CONNECTION_UPGRADE",
          "F_TRAILING", "F_UPGRADE", "F_CONTENTLENGTH"}

Texts == {"url", "header_field", "header_value", "body"}

TypeOK ==
  /\ parser.state \in States
  /\ parser.flags \subseteq Flags
  /\ parser.content_length \in 0 .. ULLONG_MAX
  /\ parser.nread \in 0 .. HTTP_MAX_HEADER_SIZE + 1
  /\ parser.marks \subseteq Texts

(* The asserts of http_parser_execute hold whatever is sent: a chunk's     *)
(* states are entered with F_CHUNKED, a body's with a length, the size of  *)
(* a chunk with nothing counted, and no two texts are collected at once.   *)
NoAssertFails ==
  /\ parser.errno # "abort"
  /\ \A m, n \in parser.marks : m = n

(* A length is never multiplied past 64 bits, nor does one that is         *)
(* accepted read as ULLONG_MAX, which means that there is none.            *)
NumbersAreExact ==
  \A base \in {10, 16}, ch \in Chars :
    LET q == Digit(parser, ch, base)
    IN IsNumeral(ch, base) /\ parser.errno = "HPE_OK" /\ q.errno = "HPE_OK" =>
         /\ q.content_length = base * parser.content_length + Unhex(ch, base)
         /\ q.content_length < ULLONG_MAX

(* What may follow callback c, before or in the trailer.                   *)
(* http_request_parser relies on it: the value of a header goes under the  *)
(* name seen last, and the target is taken apart once it is complete.      *)
After(c, trailing) ==
  CASE c \in {"none", "message_complete"} -> {"message_begin"}
    [] c = "message_begin" -> {"url"}
    [] c = "url" -> {"url", "header_field", "headers_complete"}
    [] c = "header_field" -> {"header_field", "header_value"}
    [] c = "header_value" ->
         {"header_field", "header_value", IF trailing THEN "message_complete" ELSE "headers_complete"}
    [] c \in {"headers_complete", "body"} ->
         {"body", "message_complete"} \cup (IF trailing THEN {"header_field"} ELSE {})

Follows(c) == After(c, "F_TRAILING" \in parser.flags)

CallbacksInOrder ==
  \A i \in DOMAIN made : made[i] \in Follows(IF i = 1 THEN before ELSE made[i - 1])

(* Whatever is sent, no assert of the parser fails, no length is wrong and *)
(* no callback comes out of turn.                                          *)
ParserIsSound == NoAssertFails /\ NumbersAreExact /\ CallbacksInOrder
=============================================================================
