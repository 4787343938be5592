---------------------------- MODULE MCSequential ----------------------------
(***************************************************************************)
(* TLC instances of the code no client or kernel runs against, one part in *)
(* each behaviour: LruCache, the websocket parser on streams cut anywhere, *)
(* the HTTP parser on any input, uploads on bodies that were cut, and      *)
(* cJSON's values and texts.                                               *)
(***************************************************************************)
EXTENDS LruCache, CJsonText

CONSTANTS Servers, MaxTime, MaxUploads

VARIABLES
  part,                                              \* the part that runs
  stream, rest, frame, ended, current,               \* WsStream
  request, made, before,                             \* HttpStream
  files, now, up, serial, shared, named, left,       \* HttpUpload
  items, strings, held, lost, use                    \* CJson

lru == <<keys_, node, cache_>>
ws == <<stream, rest, frame, ended, current>>
http == <<request, made, before>>
uploads == <<files, now, up, serial, shared, named, left>>
json == <<items, strings, held, lost, use, text, kit>>

-----------------------------------------------------------------------------
(* Pairs of short frames of every kind, and one frame at each of the       *)
(* lengths where the form of the header changes.                           *)

P == INSTANCE WsParser

Mask == <<9, 3, 12, 6>>

Frame(op, fin, mask, len) ==
  [op |-> op, fin |-> fin, mask |-> mask, len |-> len]

Short == {Frame(op, fin, mask, len) :
            op \in {P!OP_CONTINUE, P!OP_TEXT}, fin \in BOOLEAN, mask \in {P!NoMask, Mask}, len \in {0, 1, 5}}

Long == {Frame(P!OP_BINARY, TRUE, mask, len) :
           mask \in {P!NoMask, Mask}, len \in {125, 126, 127, 255, 256, 65535, 65536}}

MCStreams ==
  {<<f, g>> : f \in Short, g \in Short} \cup {<<f>> : f \in Long}
    \cup {<<Frame(P!OP_PING, TRUE, Mask, 0), Frame(P!OP_TEXT, FALSE, Mask, 3),
            Frame(P!OP_CONTINUE, TRUE, Mask, 6)>>}

Ws == INSTANCE WsStream WITH Streams <- MCStreams, Shown <- 5, parser <- frame

-----------------------------------------------------------------------------
(* Requests with every header that means something to the parser.          *)

MCChars ==
  {"GET", "CONNECT", " ", "/", "?", ":", "HTTP/1.0", "HTTP/1.1", "\r", "\n",
   "Connection", "Content-Length", "Transfer-Encoding", "Upgrade", "close", "keep-alive", "chunked",
   ",", ";", "0", "1", "9"}

Http == INSTANCE HttpStream WITH
  ULLONG_MAX <- 16, HTTP_MAX_HEADER_SIZE <- 11, Chars <- MCChars, parser <- request

-----------------------------------------------------------------------------
(* Texts and files under one name and under two, two uploads of them; and  *)
(* one body cut at every byte.                                             *)

M == INSTANCE MpfdParser

Part(name, filename, first, content) ==
  [name |-> name, filename |-> filename, filename_first |-> first,
   content |-> [i \in DOMAIN content |-> M!Byte(content[i])]]

Text == Part("t", "", FALSE, <<"x">>)
FileA == Part("a", "f", FALSE, <<"y", "\r", "\n">>)
FileB == Part("b", "f", FALSE, <<"z">>)
AgainA == Part("a", "g", FALSE, <<"v">>)
EmptyFile == Part("a", "f", FALSE, <<>>)
FileFirst == Part("a", "f", TRUE, <<"u">>)

Body(parts, cut) == [parts |-> parts, cut |-> cut]

Uncut ==
  {Body(parts, 0) : parts \in {<<Text, FileA>>, <<FileA, FileB>>, <<FileA, AgainA>>,
                               <<EmptyFile>>, <<FileFirst, Text>>}}

MCBodies == Uncut \cup {Body(<<FileA, AgainA>>, 5)} \cup {Body(<<Text, FileA>>, cut) : cut \in 1 .. 17}

Upload == INSTANCE HttpUpload WITH Bodies <- MCBodies

-----------------------------------------------------------------------------
(* Values: enough items for three in a list, for names that differ in case *)
(* only, for strings on memory that runs out anywhere, and for references. *)

Use(keys, consts, types, refs, n, memory) ==
  [keys |-> keys, consts |-> consts, types |-> types, refs |-> refs, items |-> n, memory |-> memory]

MCUses ==
  {Use({}, BOOLEAN, {"container"}, FALSE, 4, {4}),
   Use({"a", "A"}, {TRUE}, {"container"}, FALSE, 3, {6}),
   Use({"a"}, {FALSE}, {"container", "string"}, FALSE, 3, {2, 6}),
   Use({"a"}, {FALSE}, {"container"}, TRUE, 3, {1, 6})}

Json == INSTANCE CJson WITH NoKey <- "", lower <- [k \in {"a", "A"} |-> "a"], Uses <- MCUses

(* Texts: deep ones, ones with members, with white space, with strings of  *)
(* two characters of every kind, and with numbers, also such as have a     *)
(* character more than parse_number copies.                                *)

Kit(tokens, length, any) == [tokens |-> tokens, length |-> length, any |-> any]

MCKits ==
  {Kit({"[", "]", "{", "}", ",", "true"}, 8, FALSE),
   Kit({"[", "]", ","}, 8, TRUE),
   Kit({"{", "}", ":", ",", "\"", "1"}, 10, FALSE),
   Kit({BOM, "[", "]", ",", " ", "\n", "^A", "null", "\""}, 5, FALSE),
   Kit({"\"", "e acute", "^A", "\\n", "\\\"", "\\x", " "} \cup UTF16, 4, FALSE),
   Kit({"-", "1", Exponent, "[", "]", ","}, 7, TRUE)}

-----------------------------------------------------------------------------
MCInit ==
  /\ CacheInit /\ Http!Init /\ Upload!Init
  /\ items = <<>> /\ strings = 0 /\ held = {} /\ lost = 0 /\ text = <<>>
  /\ \/ part \in {"lru", "http", "upload", "json", "text"} /\ stream = <<>> /\ rest = <<>> /\ frame = P!ParserInit
        /\ ended = <<>> /\ current = Ws!NoFrame
     \/ part = "ws" /\ Ws!Init
  /\ IF part = "json" THEN Json!Init ELSE use = {}
  /\ IF part = "text" THEN InitText ELSE kit = {}

MCNext ==
  \/ part = "lru" /\ CacheNext /\ UNCHANGED <<part, ws, http, uploads, json>>
  \/ part = "ws" /\ Ws!Next /\ UNCHANGED <<part, lru, http, uploads, json>>
  \/ part = "http" /\ Http!Next /\ UNCHANGED <<part, lru, ws, uploads, json>>
  \/ /\ part = "upload" /\ Upload!Next /\ UNCHANGED <<part, lru, ws, http, json>>
     /\ \A s \in Servers : up'[s].body.cut > 0 => serial' = 1
  \/ part = "json" /\ Json!Next /\ UNCHANGED <<part, lru, ws, http, uploads, text, kit>>
  \/ part = "text" /\ Type /\ UNCHANGED <<part, lru, ws, http, uploads, items, strings, held, lost, use>>

MCSpec == MCInit /\ [][MCNext]_<<part, lru, ws, http, uploads, json>>

FramesAreThoseSent == part = "ws" => Ws!FramesAreThoseSent

ParserIsSound == part = "http" => Http!ParserIsSound

FieldsAreThoseSent == part = "upload" => Upload!FieldsAreThoseSent
FilesAreAccountedFor == part = "upload" => Upload!FilesAreAccountedFor

ImplementsJsonTree == Json!ImplementsJsonTree
TextsKeepTheirMeaning == part = "text" => TextAndValueAgree
=============================================================================
