------------------------------ MODULE WsParser ------------------------------
(***************************************************************************)
(* src/lib/websocket_parser.c: the incremental frame parser that ws_server *)
(* feeds, the mask it applies through websocket_parser_decode, and the     *)
(* frame builder.  Bytes are numbers below 256 and chunks are sequences of *)
(* them.  The callbacks are those of ws_server::ws_parse, which always     *)
(* return 0; here they append to a list of events.                         *)
(***************************************************************************)
EXTENDS Integers, Sequences, SequencesExt, Bitwise

OP_CONTINUE == 0
OP_TEXT     == 1
OP_BINARY   == 2
OP_CLOSE    == 8
OP_PING     == 9
OP_PONG     == 10

NoMask == <<>>   \* a frame without WS_HAS_MASK

Least(a, b) == IF a < b THEN a ELSE b

-----------------------------------------------------------------------------
(* websocket_build_frame and websocket_calc_frame_size.  A frame is        *)
(* [op, fin, mask, len]; its data is given separately.                     *)

(* websocket_decode: XOR with the mask, whose position is carried along.   *)
Decode(bytes, mask, mask_offset) ==
  [i \in DOMAIN bytes |-> bytes[i] ^^ mask[((i - 1 + mask_offset) % 4) + 1]]

MaskBit(f) == IF f.mask = NoMask THEN 0 ELSE 128

(* A shift of an int by 24 bits or more is 0 for the lengths TLC counts.   *)
LengthBytes(f) ==
  CASE f.len < 126 -> <<MaskBit(f) + f.len>>
    [] f.len \in 126 .. 65535 -> <<MaskBit(f) + 126, f.len \div 256, f.len % 256>>
    [] f.len > 65535 -> <<MaskBit(f) + 127, 0, 0, 0, 0,
                          f.len \div 16777216, (f.len \div 65536) % 256,
                          (f.len \div 256) % 256, f.len % 256>>

FrameHead(f) ==
  <<(IF f.fin THEN 128 ELSE 0) + f.op>> \o LengthBytes(f) \o f.mask

(* The body as it travels; `plain` is the caller's data. *)
Coded(f, plain) == IF f.mask = NoMask THEN plain ELSE Decode(plain, f.mask, 0)

BuildFrame(f, plain) == FrameHead(f) \o Coded(f, plain)

(* What the builder returns: body_offset + data_len. *)
BuiltSize(f) == Len(FrameHead(f)) + f.len

CalcFrameSize(f) ==
  f.len + 2 + (IF f.len >= 126 THEN IF f.len > 65535 THEN 8 ELSE 2 ELSE 0) + Len(f.mask)

-----------------------------------------------------------------------------
(* websocket_parser_execute.  A run is the parser, the bytes of the chunk  *)
(* that are behind it (p - data), frame_offset and the events so far.      *)

ParserInit ==
  [state |-> "start", op |-> 0, fin |-> FALSE, masked |-> FALSE, mask |-> <<0, 0, 0, 0>>,
   mask_offset |-> 0, length |-> 0, require |-> 0, offset |-> 0]

Header(p) == [is |-> "header", op |-> p.op, fin |-> p.fin, length |-> p.length]
End == [is |-> "end"]

(* The header is complete: on to the body, or to the end of an empty frame. *)
HeaderDone(r) ==
  IF r.parser.length > 0
  THEN [r EXCEPT !.parser.state = "body", !.parser.require = r.parser.length,
                 !.events = Append(@, Header(r.parser))]
  ELSE [r EXCEPT !.parser.state = "start", !.events = @ \o <<Header(r.parser), End>>]

LengthDone(r) ==
  IF r.parser.masked THEN [r EXCEPT !.parser.state = "mask", !.parser.require = 4]
  ELSE HeaderDone(r)

(* Bytes of the chunk that a state that wants `require` of them takes.     *)
Taken(r, chunk) == SubSeq(chunk, r.p + 1, Least(r.p + r.parser.require, Len(chunk)))

Skip(r, n) == [r EXCEPT !.p = @ + n, !.frame_offset = @ + n]

ReadStart(r, byte) ==
  Skip([r EXCEPT !.parser = [@ EXCEPT !.state = "head", !.op = byte % 16, !.fin = byte >= 128,
                                      !.masked = FALSE, !.mask_offset = 0,
                                      !.length = 0, !.offset = 0]], 1)

ReadHead(r, byte) ==
  LET length == byte % 128
      seen == Skip([r EXCEPT !.parser.masked = byte >= 128], 1)
  IN CASE length = 127 -> [seen EXCEPT !.parser.state = "length", !.parser.require = 8]
       [] length = 126 -> [seen EXCEPT !.parser.state = "length", !.parser.require = 2]
       [] length < 126 -> LengthDone([seen EXCEPT !.parser.length = length])

ReadLength(r, got) ==
  LET value == FoldLeft(LAMBDA sum, byte : sum * 256 + byte, r.parser.length, got)
      seen == Skip([r EXCEPT !.parser.length = value, !.parser.require = @ - Len(got)], Len(got))
  IN IF seen.parser.require = 0 THEN LengthDone(seen) ELSE seen

ReadMask(r, got) ==
  LET at == 4 - r.parser.require
      mask == [i \in 1 .. 4 |-> IF i \in at + 1 .. at + Len(got) THEN got[i - at]
                                ELSE r.parser.mask[i]]
      seen == Skip([r EXCEPT !.parser.mask = mask, !.parser.require = @ - Len(got)], Len(got))
  IN IF seen.parser.require = 0 THEN HeaderDone(seen) ELSE seen

(* on_frame_body copies or decodes to body + parser->offset, and decoding  *)
(* moves mask_offset on.                                                   *)
MaskRestarts(p, n) == 0   \* mutant: mask_offset not carried over
MaskMoved(p, n) == (n + p.mask_offset) % 4

BodyEvent(p, got) ==
  [is |-> "body", at |-> p.offset,
   bytes |-> IF p.masked THEN Decode(got, p.mask, p.mask_offset) ELSE got]

OffsetAfterChunk(r, end) == r.parser.offset + end - r.frame_offset

ReadBody(r, got, end) ==
  LET emitted == [r EXCEPT
        !.events = Append(@, BodyEvent(r.parser, got)),
        !.parser.mask_offset = IF r.parser.masked THEN MaskMoved(r.parser, Len(got)) ELSE @,
        !.parser.require = @ - Len(got),
        !.p = @ + Len(got)]
  IN IF emitted.parser.require = 0
     THEN [emitted EXCEPT !.frame_offset = emitted.p,
                          !.parser.state = "start",
                          !.events = Append(@, End)]
     ELSE [emitted EXCEPT !.parser.offset = OffsetAfterChunk(r, end), !.frame_offset = 0]

Step(r, chunk) ==
  CASE r.parser.state = "start"  -> ReadStart(r, chunk[r.p + 1])
    [] r.parser.state = "head"   -> ReadHead(r, chunk[r.p + 1])
    [] r.parser.state = "length" -> ReadLength(r, Taken(r, chunk))
    [] r.parser.state = "mask"   -> ReadMask(r, Taken(r, chunk))
    [] r.parser.state = "body"   -> ReadBody(r, Taken(r, chunk), Len(chunk))

RECURSIVE Run(_, _)
Run(r, chunk) == IF r.p = Len(chunk) THEN r ELSE Run(Step(r, chunk), chunk)

(* One call: what becomes of the parser, and the callbacks it made.        *)
Execute(parser, chunk) ==
  Run([parser |-> parser, p |-> 0, frame_offset |-> 0, events |-> <<>>], chunk)
=============================================================================
