------------------------------ MODULE WsStream ------------------------------
(***************************************************************************)
(* websocket_parser_execute called again and again on the pieces into      *)
(* which the network cut a stream of frames (websocket_build_frame).       *)
(***************************************************************************)
EXTENDS WsParser

CONSTANTS
  Streams,    \* set of sequences of frames
  Shown       \* a longer body is cut off after this many bytes

VARIABLES
  stream,     \* the frames that were sent
  rest,       \* bytes not yet fed to the parser
  parser,
  ended,      \* frames whose on_frame_end has run: [op, fin, body]
  current     \* the frame whose header has been seen: [op, fin, length, body]

vars == <<stream, rest, parser, ended, current>>

NoFrame == [op |-> 0, fin |-> FALSE, length |-> 0, body |-> <<>>]

Data(f, n) == [i \in 1 .. n |-> (7 * i + f.op) % 16]   \* the first n bytes of a body

Wire(f) == BuildFrame(f, Data(f, Least(f.len, Shown)))

Init ==
  /\ stream \in Streams
  /\ rest = FlattenSeq([i \in DOMAIN stream |-> Wire(stream[i])])
  /\ parser = ParserInit
  /\ ended = <<>> /\ current = NoFrame

(* The callbacks' view: a buffer of the announced length, written at an    *)
(* offset, handed over and freed at the end.                               *)
Written(body, at, bytes) ==
  [i \in DOMAIN body \cup (at + 1 .. at + Len(bytes)) |->
     IF i \in at + 1 .. at + Len(bytes) THEN bytes[i - at] ELSE body[i]]

Apply(seen, e) ==
  CASE e.is = "header" -> [seen EXCEPT !.current = [op |-> e.op, fin |-> e.fin,
                                                    length |-> e.length, body |-> <<>>]]
    [] e.is = "body" -> [seen EXCEPT !.current.body = Written(@, e.at, e.bytes)]
    [] e.is = "end" -> [ended |-> Append(seen.ended, seen.current), current |-> NoFrame]

Feed ==
  \E n \in 1 .. Len(rest) :
    LET r == Execute(parser, SubSeq(rest, 1, n))
        seen == FoldLeft(Apply, [ended |-> ended, current |-> current], r.events)
    IN /\ rest' = SubSeq(rest, n + 1, Len(rest))
       /\ parser' = r.parser
       /\ ended' = seen.ended
       /\ current' = seen.current
       /\ UNCHANGED stream

Next == Feed

Spec == Init /\ [][Next]_vars

-----------------------------------------------------------------------------
(* Properties *)

Size(i) == Len(Wire(stream[i]))

RECURSIVE EndOf(_)
EndOf(i) == IF i = 0 THEN 0 ELSE EndOf(i - 1) + Size(i)

Consumed == EndOf(Len(stream)) - Len(rest)

Sent(f, n) == [op |-> f.op, fin |-> f.fin, length |-> f.len, body |-> Data(f, n)]

(* However the stream is cut, the callbacks report exactly the frames that *)
(* have arrived: an end for each complete one, with the body that was      *)
(* sent, and of the next one the header once it is complete and the part   *)
(* of the body that has arrived, unmasked and at its place in the buffer.  *)
(* And websocket_build_frame, which made them, filled exactly the bytes    *)
(* its callers allocate after websocket_calc_frame_size.                   *)
FramesAreThoseSent ==
  /\ \A i \in DOMAIN stream : CalcFrameSize(stream[i]) = BuiltSize(stream[i])
  /\ \E k \in 0 .. Len(stream) :
    LET f == stream[k + 1]
        body == Consumed - EndOf(k) - Len(FrameHead(f))
    IN /\ ended = [i \in 1 .. k |-> Sent(stream[i], stream[i].len)]
       /\ IF k = Len(stream) THEN rest = <<>> /\ current = NoFrame
          ELSE /\ Consumed - EndOf(k) < BuiltSize(f)
               /\ current = IF body < 0 THEN NoFrame ELSE Sent(f, body)

=============================================================================
