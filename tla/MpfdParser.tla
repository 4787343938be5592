----------------------------- MODULE MpfdParser -----------------------------
(***************************************************************************)
(* MPFD::Parser and MPFD::Field: multipart/form-data taken apart, as       *)
(* http_server::upload uses them, with one call of AcceptSomeData.         *)
(*                                                                         *)
(* A character here is a boundary, an attribute of a part's headers, or    *)
(* one byte of anything else.                                              *)
(***************************************************************************)
EXTENDS Integers, Sequences, SequencesExt, FiniteSets

Char(is, v) == [is |-> is, v |-> v]

Boundary == Char("boundary", "")
CR == Char("byte", "\r")
LF == Char("byte", "\n")
Dash == Char("byte", "-")
Byte(v) == Char("byte", v)
FormData == Char("form-data", "")    \* Content-Disposition: form-data;
Name(v) == Char("name", v)           \* name="..."
FileName(v) == Char("filename", v)   \* filename="..."

-----------------------------------------------------------------------------
(* A parser: what is left in DataCollector, and the Field objects made so  *)
(* far.  Fields maps a name to the object made for it last; the objects it *)
(* no longer refers to are never deleted.                                  *)

Fresh(data) ==
  [status |-> "LookingForStartingBoundary", data |-> data, repeat |-> TRUE, outcome |-> "ok",
   objects |-> <<>>, fields |-> <<>>]

NewField(name, file, filename) ==
  [name |-> name, file |-> file, filename |-> filename, content |-> <<>>, written |-> FALSE]

Position(data, pattern) ==
  {i \in 1 .. Len(data) : i + Len(pattern) - 1 <= Len(data)
                            /\ SubSeq(data, i, i + Len(pattern) - 1) = pattern}

First(S) == CHOOSE i \in S : \A j \in S : i <= j

(* TruncateDataCollectorFromTheBeginning *)
Truncated(p, n) == [p EXCEPT !.data = SubSeq(@, n + 1, Len(@))]

Stop(p) == [p EXCEPT !.repeat = FALSE]
Throw(p) == [Stop(p) EXCEPT !.outcome = "thrown"]

(* FindStartingBoundaryAndTruncData *)
FindStartingBoundary(p) ==
  LET at == Position(p.data, <<Boundary>>)
  IN IF at = {} THEN Stop(p)
     ELSE [Truncated(p, First(at)) EXCEPT !.status = "ProcessingHeaders"]

(* _ParseHeaders: `name="' is also found inside `filename="'. *)
ParseHeaders(p, headers) ==
  LET Attributes(kinds) == {i \in DOMAIN headers : headers[i].is \in kinds}
      named == Attributes({"name", "filename"})
      filed == Attributes({"filename"})
      name == headers[First(named)].v
      filename == IF filed = {} THEN "" ELSE headers[First(filed)].v
      field == NewField(name, filed # {}, filename)
      id == Len(p.objects) + 1
  IN IF Attributes({"form-data"}) = {} \/ named = {} THEN Throw(p)
     ELSE [p EXCEPT !.objects = Append(@, field),
                    !.fields = [n \in DOMAIN @ \cup {name} |-> IF n = name THEN id ELSE @[n]]]

(* With fewer than three bytes left, `dl - 3' wraps and the loop reads past *)
(* the end, until it faults or meets an empty line and then no headers.     *)
WaitForHeadersEnd(p) ==
  LET at == Position(p.data, <<CR, LF, CR, LF>>)
  IN IF Len(p.data) < 3 THEN [Stop(p) EXCEPT !.outcome = "past the end"]
     ELSE IF at = {} THEN Stop(p)
     ELSE [Truncated(ParseHeaders(p, SubSeq(p.data, 1, First(at) - 1)), First(at) + 3)
             EXCEPT !.status = "ProcessingContentOfTheField"]

KeptBack == 3        \* Boundary.length() + 2: it may be the beginning of a boundary

SentWithLineEnd(data) ==   \* mutant: a line end taken for content
  LET at == Position(data, <<Boundary>>)
  IN IF at # {} THEN First(at) - 1 ELSE Len(data) - KeptBack

(* How many bytes belong to the field, where a boundary is found or not.   *)
LengthToSend(data) ==
  LET at == Position(data, <<Boundary>>)
  IN IF at # {} THEN First(at) - 1 - 2 ELSE Len(data) - KeptBack

(* The last object made is the one being processed; Field::AcceptSomeData. *)
ProcessContent(p) ==
  LET n == LengthToSend(p.data)
      id == Len(p.objects)
      q == IF n <= 0 THEN p
           ELSE [Truncated(p, n) EXCEPT !.objects[id].content = SubSeq(p.data, 1, n),
                                        !.objects[id].written = TRUE]
  IN IF Position(p.data, <<Boundary>>) = {} THEN Stop(q)
     ELSE [q EXCEPT !.status = "LookingForStartingBoundary"]

(* One round of the loop in _ProcessData, which goes on while `repeat'.    *)
Process(p) ==
  CASE p.status = "LookingForStartingBoundary" -> FindStartingBoundary(p)
    [] p.status = "ProcessingHeaders" -> WaitForHeadersEnd(p)
    [] p.status = "ProcessingContentOfTheField" -> ProcessContent(p)
=============================================================================
