----------------------------- MODULE CJsonText -----------------------------
(***************************************************************************)
(* cJSON (src/lib/cJSON.c) between text and values: cJSON_ParseWithOpts,   *)
(* cJSON_Print and its variants with a buffer of the caller's, and         *)
(* cJSON_Minify; and cJSON_Compare, which tells values apart.              *)
(*                                                                         *)
(* A text is a sequence of tokens: a character outside of words, a word,   *)
(* an escape sequence.  Characters of a string are code points.  What      *)
(* strtod makes of a number is its digits and its exponent, which printf   *)
(* gives back, but for an exponent without a sign: it stands for one that  *)
(* is too large for a double, and the number is infinity.  cJSON_Minify is *)
(* given text without comments.                                            *)
(***************************************************************************)
EXTENDS Integers, Sequences

LOCAL INSTANCE SequencesExt

CONSTANTS
  Kits,                  \* tokens to write texts with, how many, and whether texts
                         \* past mending are made longer too: [tokens, length, any]
  CJSON_NESTING_LIMIT, INT_MAX,
  number_size,           \* bytes of number_c_string, on the stack of parse_number
  default_buffer_size    \* of cJSON_Print

VARIABLES text, kit

-----------------------------------------------------------------------------
Quote == "\""
BOM == "EF BB BF"
Digits == {"1"}
Exponent == "e"
InNumbers == Digits \cup {"-", Exponent}
Words == {"null", "false", "true"}

(* Four hexadecimal digits after \u; parse_hex4 reads what are not as 0.   *)
parse_hex4 ==
  [t \in {"\\u0041", "\\u0001", "\\u00e9", "\\u20ac", "\\ud83d", "\\ude00", "\\uzzzz"} |->
     CASE t = "\\u0041" -> 65 [] t = "\\u0001" -> 1 [] t = "\\u00e9" -> 233 [] t = "\\u20ac" -> 8364
       [] t = "\\ud83d" -> 55357 [] t = "\\ude00" -> 56832 [] t = "\\uzzzz" -> 0]

UTF16 == DOMAIN parse_hex4

(* Escapes of one character, and characters that stand for themselves.     *)
Escaped == [t \in {"\\n", "\\\"", "\\\\"} |-> CASE t = "\\n" -> 10 [] t = "\\\"" -> 34 [] t = "\\\\" -> 92]
Plain ==
  [t \in {"A", "1", " ", ",", "]", "\n", "^A", "e acute", "euro", "grin"} |->
     CASE t = "A" -> 65 [] t = "1" -> 49 [] t = " " -> 32 [] t = "," -> 44 [] t = "]" -> 93
       [] t = "\n" -> 10 [] t = "^A" -> 1
       [] t = "e acute" -> 233 [] t = "euro" -> 8364 [] t = "grin" -> 128512]

utf8_length(code) == IF code < 128 THEN 1 ELSE IF code < 2048 THEN 2 ELSE IF code < 65536 THEN 3 ELSE 4

Space(t) == t \in {" ", "\n", "\t", "^A", "NUL"}

Width(t) ==
  CASE t \in UTF16 -> 6 [] t \in DOMAIN Escaped \cup {"\\x"} -> 2
    [] t = BOM -> 3 [] t \in DOMAIN Plain -> utf8_length(Plain[t])
    [] t = "false" -> 5 [] t = "null" \/ t = "true" -> 4
    [] OTHER -> 1

Length(s) == FoldLeft(LAMBDA n, t : n + Width(t), 0, s)

Item(type) == [type |-> type, number |-> <<>>, valuestring |-> <<>>, string |-> <<>>, child |-> <<>>]

(* A C string ends at the first zero. *)
CString(codes) == SubSeq(codes, 1, SelectInSeq(codes \o <<0>>, LAMBDA c : c = 0) - 1)

-----------------------------------------------------------------------------
(* Parsing.  The character at an offset, counted from 1; after the last    *)
(* there is a null character, which is part of the buffer.                 *)
At(t, at) == IF at \in DOMAIN t THEN t[at] ELSE "NUL"

buffer_skip_whitespace(t, at) ==
  LET black == SelectInSubSeq(t, at, Len(t), LAMBDA c : ~Space(c))
  IN IF black = 0 THEN Len(t) + 1 ELSE black

skip_utf8_bom(t) == IF Len(t) > 1 /\ t[1] = BOM THEN 2 ELSE 1

Parsed(item, at, depth) == [ok |-> TRUE, item |-> item, at |-> at, depth |-> depth]
Failed(at) == [ok |-> FALSE, item |-> Item("invalid"), at |-> at, depth |-> 0]

(* strtod reads as much from the front as is a number. *)
Unsigned(t) == IF t # <<>> /\ t[1] = "-" THEN Tail(t) ELSE t
AllDigits(t) == t # <<>> /\ Range(t) \subseteq Digits
IsNumber(t) ==
  LET u == Unsigned(t)
      e == SelectInSeq(u, LAMBDA c : c = Exponent)
  IN IF e = 0 THEN AllDigits(u)
     ELSE AllDigits(SubSeq(u, 1, e - 1)) /\ AllDigits(Unsigned(SubSeq(u, e + 1, Len(u))))

strtod(t) == Max({0} \cup {n \in DOMAIN t : IsNumber(SubSeq(t, 1, n))})

(* An exponent is too large unless a minus sign makes it a small one.      *)
TooLarge(t) == Contains(t, Exponent) /\ ~Contains(Tail(t), "-")

Number(t) == [Item("number") EXCEPT !.number = IF TooLarge(t) THEN <<"inf">> ELSE t]

(* strtod is given a copy, of what may be in a number and of no more than  *)
(* number_c_string has room for: the rest of a longer number stays behind. *)
parse_number(t, at, depth) ==
  LET other == SelectInSubSeq(t, at, Len(t), LAMBDA c : c \notin InNumbers)
      copied == SubSeq(t, at, Min({IF other = 0 THEN Len(t) ELSE other - 1, at + number_size - 2}))
      length == strtod(copied)
  IN IF length = 0 THEN Failed(at) ELSE Parsed(Number(SubSeq(copied, 1, length)), at + length, depth)

(* The code point of one escape or of two that form a surrogate pair, and  *)
(* how many were read: 0 when they stand for nothing.                      *)
utf16_literal_to_utf8(t, at) ==
  LET first == parse_hex4[t[at]]
      second == IF At(t, at + 1) \in UTF16 THEN parse_hex4[t[at + 1]] ELSE 0
  IN IF first \in 56320 .. 57343 THEN [code |-> 0, length |-> 0]
     ELSE IF first \notin 55296 .. 56319 THEN [code |-> first, length |-> 1]
     ELSE IF second \notin 56320 .. 57343 THEN [code |-> 0, length |-> 0]
     ELSE [code |-> 65536 + (first % 1024) * 1024 + (second % 1024), length |-> 2]

(* What parse_string allocates for the characters up to the closing quote. *)
allocation_length(t, at, end) ==
  LET skipped == Len(SelectSeq(SubSeq(t, at, end - 1), LAMBDA c : c \in UTF16 \cup DOMAIN Escaped \cup {"\\x"}))
  IN Length(SubSeq(t, at, end - 1)) - skipped

RECURSIVE Unescape(_, _, _, _)
Unescape(t, at, end, codes) ==
  CASE at = end -> [ok |-> TRUE, codes |-> codes, at |-> at]
    [] t[at] \in DOMAIN Escaped -> Unescape(t, at + 1, end, Append(codes, Escaped[t[at]]))
    [] t[at] \in DOMAIN Plain -> Unescape(t, at + 1, end, Append(codes, Plain[t[at]]))
    [] t[at] \in UTF16 ->
         LET literal == utf16_literal_to_utf8(t, at)
         IN IF literal.length = 0 THEN [ok |-> FALSE, codes |-> codes, at |-> at]
            ELSE Unescape(t, at + literal.length, end, Append(codes, literal.code))
    [] OTHER -> [ok |-> FALSE, codes |-> codes, at |-> at]

Terminated(out, end, depth) ==
  IF ~out.ok THEN Failed(out.at)
  ELSE Parsed([Item("string") EXCEPT !.valuestring = CString(out.codes)], end + 1, depth)

parse_string(t, at, depth) ==
  LET end == SelectInSubSeq(t, at + 1, Len(t), LAMBDA c : c = Quote)
  IN IF At(t, at) # Quote \/ end = 0 THEN Failed(at + 1)
     ELSE Terminated(Unescape(t, at + 1, end, <<>>), end, depth)

RECURSIVE parse_value(_, _, _)

Closing == [array |-> "]", object |-> "}"]

(* The element at an offset, or the member, and those after it.            *)
RECURSIVE Elements(_, _, _, _)

Separator(t, at, depth, item) ==
  IF At(t, at) = "," THEN Elements(t, buffer_skip_whitespace(t, at + 1), depth, item)
  ELSE IF At(t, at) = Closing[item.type] THEN Parsed(item, at + 1, depth - 1)
  ELSE Failed(at)

Element(t, value, name, item) ==
  IF ~value.ok THEN value
  ELSE Separator(t, buffer_skip_whitespace(t, value.at), value.depth,
                 [item EXCEPT !.child = Append(@, [value.item EXCEPT !.string = name])])

NamedElement(t, name, depth, item) ==
  LET colon == buffer_skip_whitespace(t, name.at)
  IN IF ~name.ok THEN name
     ELSE IF At(t, colon) # ":" THEN Failed(colon)
     ELSE Element(t, parse_value(t, buffer_skip_whitespace(t, colon + 1), depth), name.item.valuestring, item)

Elements(t, at, depth, item) ==
  IF item.type = "array" THEN Element(t, parse_value(t, at, depth), <<>>, item)
  ELSE NamedElement(t, parse_string(t, at, depth), depth, item)

DepthKept(t, at, depth, type) ==   \* mutant: only what has elements gives its level back
  LET first == buffer_skip_whitespace(t, at + 1)
  IN IF depth >= CJSON_NESTING_LIMIT THEN Failed(at)
     ELSE IF At(t, first) = Closing[type] THEN Parsed(Item(type), first + 1, depth + 1)
     ELSE Elements(t, first, depth + 1, Item(type))

parse_list(t, at, depth, type) ==
  LET first == buffer_skip_whitespace(t, at + 1)
  IN IF depth >= CJSON_NESTING_LIMIT THEN Failed(at)
     ELSE IF At(t, first) = Closing[type] THEN Parsed(Item(type), first + 1, depth)
     ELSE Elements(t, first, depth + 1, Item(type))

parse_array(t, at, depth) == parse_list(t, at, depth, "array")
parse_object(t, at, depth) == parse_list(t, at, depth, "object")

parse_value(t, at, depth) ==
  CASE At(t, at) \in Words -> Parsed(Item(At(t, at)), at + 1, depth)
    [] At(t, at) = Quote -> parse_string(t, at, depth)
    [] At(t, at) \in Digits \cup {"-"} -> parse_number(t, at, depth)
    [] At(t, at) = "[" -> parse_array(t, at, depth)
    [] At(t, at) = "{" -> parse_object(t, at, depth)
    [] OTHER -> Failed(at)

(* The value, and where it ends or where the error is.                     *)
NothingAfter(t, value) ==
  LET end == buffer_skip_whitespace(t, value.at)
  IN IF ~value.ok THEN value ELSE IF end > Len(t) THEN [value EXCEPT !.at = end] ELSE Failed(end)

cJSON_ParseWithOpts(t, require_null_terminated) ==
  LET value == parse_value(t, buffer_skip_whitespace(t, skip_utf8_bom(t)), 0)
  IN IF require_null_terminated THEN NothingAfter(t, value) ELSE value

-----------------------------------------------------------------------------
(* Printing.  ok: nothing has failed; inside: nothing was written past the *)
(* end of the buffer.                                                      *)
printbuffer(length, noalloc, format) ==
  [out |-> <<>>, length |-> length, offset |-> 0, depth |-> 0,
   noalloc |-> noalloc, format |-> format, ok |-> TRUE, inside |-> TRUE]

ensure(p, wanted) ==
  LET needed == wanted + p.offset + 1
  IN IF (p.length > 0 /\ p.offset >= p.length) \/ wanted > INT_MAX THEN [p EXCEPT !.ok = FALSE]
     ELSE IF needed <= p.length THEN p
     ELSE IF p.noalloc \/ needed > INT_MAX THEN [p EXCEPT !.ok = FALSE]
     ELSE [p EXCEPT !.length = IF needed > INT_MAX \div 2 THEN INT_MAX ELSE needed * 2]

(* Tokens, and a null character or none, in the space asked for.           *)
Written(p, tokens, null) ==
  LET end == p.offset + Length(tokens)
  IN IF p.ok THEN [p EXCEPT !.out = @ \o tokens, !.offset = end, !.inside = @ /\ end + null <= p.length] ELSE p

Write(p, wanted, tokens, null) == Written(IF p.ok THEN ensure(p, wanted) ELSE p, tokens, null)

print_number(p, item) ==
  LET number == IF item.number = <<"inf">> THEN <<"null">> ELSE item.number
  IN Write(p, Length(number) + 1, number, 1)

Escape(code) ==
  IF code \in {10, 34, 92} THEN CHOOSE t \in DOMAIN Escaped : Escaped[t] = code
  ELSE IF code = 1 THEN "\\u0001"
  ELSE CHOOSE t \in DOMAIN Plain : Plain[t] = code

FourMore(codes) ==   \* mutant: the \ or the u of \u0001 not counted
  FoldLeft(LAMBDA n, c : n + (IF c \in {10, 34, 92} THEN 1 ELSE IF c < 32 THEN 4 ELSE 0), 0, codes)

escape_characters(codes) ==
  FoldLeft(LAMBDA n, c : n + (IF c \in {10, 34, 92} THEN 1 ELSE IF c < 32 THEN 5 ELSE 0), 0, codes)

Bytes(codes) == FoldLeft(LAMBDA n, c : n + utf8_length(c), 0, codes)

print_string_ptr(p, codes) ==
  Write(p, Bytes(codes) + escape_characters(codes) + 3,
        <<Quote>> \o [i \in DOMAIN codes |-> Escape(codes[i])] \o <<Quote>>, 1)

Tabs(n) == [i \in 1 .. n |-> "\t"]
Deeper(p, n) == [p EXCEPT !.depth = @ + n]
If(format, tokens) == IF format THEN tokens ELSE <<>>

RECURSIVE print_value(_, _)

print_array(p, item) ==
  LET Entry(q, i) ==
        LET comma == <<",">> \o If(q.format, <<" ">>)
            value == print_value(q, item.child[i])
        IN IF i = Len(item.child) THEN value ELSE Write(value, Len(comma) + 1, comma, 1)
      opened == Deeper(Write(p, 1, <<"[">>, 0), 1)
  IN Deeper(Write(FoldLeft(Entry, opened, [i \in DOMAIN item.child |-> i]), 2, <<"]">>, 1), -1)

CloseObject(p) ==
  Write(p, IF p.format THEN p.depth + 1 ELSE 2, If(p.format, Tabs(p.depth - 1)) \o <<"}">>, 1)

print_object(p, item) ==
  LET Member(q, i) ==
        LET indented == IF q.format THEN Write(q, q.depth, Tabs(q.depth), 0) ELSE q
            key == print_string_ptr(indented, item.child[i].string)
            colon == <<":">> \o If(q.format, <<"\t">>)
            value == print_value(Write(key, Len(colon), colon, 0), item.child[i])
            last == (IF i = Len(item.child) THEN <<>> ELSE <<",">>) \o If(q.format, <<"\n">>)
        IN Write(value, Len(last) + 1, last, 1)
      brace == <<"{">> \o If(p.format, <<"\n">>)
      opened == Deeper(Write(p, Len(brace) + 1, brace, 0), 1)
  IN Deeper(CloseObject(FoldLeft(Member, opened, [i \in DOMAIN item.child |-> i])), -1)

print_value(p, item) ==
  CASE item.type \in Words -> Write(p, Length(<<item.type>>) + 1, <<item.type>>, 1)
    [] item.type = "number" -> print_number(p, item)
    [] item.type = "string" -> print_string_ptr(p, item.valuestring)
    [] item.type = "array" -> print_array(p, item)
    [] item.type = "object" -> print_object(p, item)

print(item, format) == print_value(printbuffer(default_buffer_size, FALSE, format), item)
cJSON_PrintBuffered(item, prebuffer, format) == print_value(printbuffer(prebuffer, FALSE, format), item)
cJSON_PrintPreallocated(item, len, format) == print_value(printbuffer(len, TRUE, format), item)

-----------------------------------------------------------------------------
(* White space goes, but in strings.                                       *)
cJSON_Minify(t) ==
  LET Step(m, c) ==
        [out |-> IF m.quoted \/ c \notin {" ", "\t", "\n"} THEN Append(m.out, c) ELSE m.out,
         quoted |-> IF c = Quote THEN ~m.quoted ELSE m.quoted]
  IN FoldLeft(Step, [out |-> <<>>, quoted |-> FALSE], t).out

-----------------------------------------------------------------------------
(* Every member of each object is like the first of that name in the other. *)
RECURSIVE cJSON_Compare(_, _)
cJSON_Compare(a, b) ==
  LET First(item, name) == SelectInSeq(item.child, LAMBDA c : c.string = name)
      Within(x, y) ==
        \A i \in DOMAIN x.child : \E n \in {First(y, x.child[i].string)} :
          n > 0 /\ cJSON_Compare(x.child[i], y.child[n])
  IN /\ a.type = b.type
     /\ CASE a.type = "number" -> a.number = b.number
          [] a.type = "string" -> a.valuestring = b.valuestring
          [] a.type = "array" -> /\ Len(a.child) = Len(b.child)
                                 /\ \A i \in DOMAIN a.child : cJSON_Compare(a.child[i], b.child[i])
          [] a.type = "object" -> Within(a, b) /\ Within(b, a)
          [] a.type \in Words -> TRUE

-----------------------------------------------------------------------------
(* Texts that a longer one may still make sense of: those whose error, if  *)
(* they have one, is at their end.                                         *)
Unclosed(result) ==
  ~result.ok /\ At(text, result.at - 1) = Quote /\ ~Contains(SubSeq(text, result.at, Len(text)), Quote)

InString == DOMAIN Plain \cup DOMAIN Escaped \cup UTF16 \cup {"\\x", Quote}

InitText == text = <<>> /\ kit \in Kits

Type ==
  /\ Len(text) < kit.length
  /\ \E result \in {cJSON_ParseWithOpts(text, TRUE)} :
       /\ kit.any \/ result.ok \/ result.at > Len(text) \/ Unclosed(result)
       /\ \E t \in IF Unclosed(result) THEN kit.tokens \cap InString ELSE kit.tokens : text' = Append(text, t)
  /\ kit' = kit

TextSpec == InitText /\ [][Type]_<<text, kit>>

-----------------------------------------------------------------------------
(* What a text means, by the form of what is valid: the values it denotes. *)
Trim(t) ==
  LET black == {i \in DOMAIN t : ~Space(t[i])}
  IN IF black = {} THEN <<>>
     ELSE SubSeq(t, CHOOSE i \in black : \A j \in black : i <= j, CHOOSE i \in black : \A j \in black : j <= i)

High(c) == c \in UTF16 /\ parse_hex4[c] \in 55296 .. 56319
Low(c) == c \in UTF16 /\ parse_hex4[c] \in 56320 .. 57343

Codes(t) ==
  LET Code(i) ==
        IF High(t[i]) THEN 65536 + (parse_hex4[t[i]] - 55296) * 1024 + parse_hex4[t[i + 1]] - 56320
        ELSE IF t[i] \in UTF16 THEN parse_hex4[t[i]]
        ELSE IF t[i] \in DOMAIN Escaped THEN Escaped[t[i]] ELSE Plain[t[i]]
      legal ==
        \A i \in DOMAIN t :
          /\ t[i] \in UTF16 \cup DOMAIN Escaped \cup DOMAIN Plain
          /\ High(t[i]) <=> (i < Len(t) /\ Low(t[i + 1]))
          /\ Low(t[i]) => i > 1
      starts == SelectSeq([i \in DOMAIN t |-> i], LAMBDA i : ~Low(t[i]))
  IN IF legal THEN {CString([n \in DOMAIN starts |-> Code(starts[n])])} ELSE {}

RECURSIVE Denoted(_, _), Series(_, _, _)

Before(t, i) == SubSeq(t, 1, i - 1)
After(t, i) == SubSeq(t, i + 1, Len(t))
Where(t, c) == {i \in DOMAIN t : t[i] = c}

Member(t, type, depth) ==
  IF type = "array" THEN Denoted(t, depth)
  ELSE UNION {{[v EXCEPT !.string = name.valuestring] :
                 v \in Denoted(After(t, i), depth),
                 name \in {n \in Denoted(Before(t, i), depth) : n.type = "string"}} : i \in Where(t, ":")}

Series(t, type, depth) ==
  {<<v>> : v \in Member(t, type, depth)}
    \cup UNION {{<<v>> \o rest : v \in Member(Before(t, i), type, depth), rest \in Series(After(t, i), type, depth)} :
                  i \in Where(t, ",")}

Denoted(t, depth) ==
  LET s == Trim(t)
      inner == SubSeq(s, 2, Len(s) - 1)
      Is(open, close) == Len(s) > 1 /\ s[1] = open /\ s[Len(s)] = close
      List(type) == {[Item(type) EXCEPT !.child = c] :
                       c \in Series(inner, type, depth - 1) \cup IF Trim(inner) = <<>> THEN {<<>>} ELSE {}}
  IN CASE Len(s) = 1 /\ s[1] \in Words -> {Item(s[1])}
       [] Is(Quote, Quote) /\ Where(inner, Quote) = {} ->
            {[Item("string") EXCEPT !.valuestring = codes] : codes \in Codes(inner)}
       [] Is("[", "]") /\ depth > 0 -> List("array")
       [] Is("{", "}") /\ depth > 0 -> List("object")
       [] IsNumber(s) /\ Len(s) < number_size -> {Number(s)}
       [] OTHER -> {}

RECURSIVE OneOfAName(_)
OneOfAName(item) ==
  /\ \A i \in DOMAIN item.child : OneOfAName(item.child[i])
  /\ item.type = "object" => \A i, j \in DOMAIN item.child : item.child[i].string = item.child[j].string => i = j

(* The parser takes every text that denotes a value and no other, and      *)
(* makes that value of it, if no number in it is longer than parse_number  *)
(* copies; a text with one that is it refuses, if the text has to end with *)
(* the value.  What it takes from the front of a text otherwise it takes   *)
(* alone: of a long number, those of its characters that were copied.      *)
(* What is minified or printed is read as what it was, but for numbers     *)
(* that were too large for a double, which are printed as null.            *)
(* cJSON_Compare finds a value like itself, unless it has two members of   *)
(* one name, and unlike what is left without its last element.             *)
Again(t) == cJSON_ParseWithOpts(t, TRUE).item

Recognised(item) ==
  /\ OneOfAName(item) => cJSON_Compare(Again(cJSON_Minify(text)), item)
  /\ OneOfAName(item) /\ item.child # <<>> => ~cJSON_Compare(item, [item EXCEPT !.child = Front(@)])

Overflows == \E i \in Where(text, Exponent) : At(text, i + 1) \in Digits

MeaningIsKept(result) ==
  /\ Denoted(SubSeq(text, skip_utf8_bom(text), Len(text)), CJSON_NESTING_LIMIT)
       = IF result.ok THEN {result.item} ELSE {}
  /\ \E prefix \in {cJSON_ParseWithOpts(text, FALSE)} :
       prefix.ok => Again(Before(text, prefix.at)) = prefix.item
  /\ result.ok =>
       /\ Again(cJSON_Minify(text)) = result.item
       /\ Recognised(result.item)
       /\ \A format \in BOOLEAN : \E p \in {print(result.item, format)} :
            p.ok => \E again \in {cJSON_ParseWithOpts(p.out, TRUE)} :
                      again.ok /\ (Overflows \/ again.item = result.item)

(* A string fits what was allocated for it.  A value is printed inside the *)
(* buffer there is, however small; with the five bytes to spare that the   *)
(* header asks for, or a buffer that may grow, it is printed whole.        *)
Fits(p, q, length) ==
  /\ q.inside
  /\ q.ok /\ q.noalloc => q.out = p.out
  /\ p.ok /\ length = Length(p.out) + 6 => q.ok

NothingPassesTheEnd(result) ==
  /\ \A i \in Where(text, Quote) : \A end \in {j \in Where(text, Quote) : j > i} :
       Where(SubSeq(text, i + 1, end - 1), Quote) = {}
         => \E out \in {Unescape(text, i + 1, end, <<>>)} :
              out.ok => Bytes(out.codes) <= allocation_length(text, i, end)
  /\ result.ok => \A format \in BOOLEAN : \E p \in {print(result.item, format)} :
       /\ p.inside
       /\ \A length \in 0 .. Length(p.out) + 6 :
            /\ Fits(p, cJSON_PrintPreallocated(result.item, length, format), length)
            /\ Fits(p, cJSON_PrintBuffered(result.item, length, format), length)
       /\ Length(p.out) + 6 <= INT_MAX => p.ok

TextAndValueAgree ==
  \E result \in {cJSON_ParseWithOpts(text, TRUE)} : MeaningIsKept(result) /\ NothingPassesTheEnd(result)
=============================================================================
