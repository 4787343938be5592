----------------------------- MODULE HttpUpload -----------------------------
(***************************************************************************)
(* http_server::upload: the parts of a multipart body are stored in files  *)
(* of the directory temp/, and the handler's form names them.  A server    *)
(* handles one request at a time; servers that share a port (SO_REUSEPORT) *)
(* and a working directory also share temp/, one step of one of them       *)
(* between any two of the other.  Nothing sets request::client.            *)
(***************************************************************************)
EXTENDS MpfdParser, FiniteSets, Functions

CONSTANTS
  Servers,
  Bodies,      \* the bodies that clients may send: [parts, cut]
  MaxTime,     \* bound: seconds
  MaxUploads   \* bound: uploads

VARIABLES
  files,     \* temp/: from paths to contents
  now,       \* time(NULL)
  up,        \* what each server is doing
  serial,    \* history: uploads begun
  shared,    \* history: uploads that held one temporary name at the same time
  named,     \* history: the names given to uploaded files
  left       \* history: temporary files nobody has to remove

vars == <<files, now, up, serial, shared, named, left>>

-----------------------------------------------------------------------------
(* The client: the parts it sends, and how much of them arrives.           *)

HeadersOf(part) ==
  <<FormData>> \o (IF part.filename = "" THEN <<Name(part.name)>>
                   ELSE IF part.filename_first THEN <<FileName(part.filename), Name(part.name)>>
                   ELSE <<Name(part.name), FileName(part.filename)>>)

PartOf(part) ==
  <<Boundary, CR, LF>> \o HeadersOf(part) \o <<CR, LF, CR, LF>> \o part.content \o <<CR, LF>>

Multipart(parts) ==
  FlattenSeq([i \in DOMAIN parts |-> PartOf(parts[i])]) \o <<Boundary, Dash, Dash, CR, LF>>

Arrived(body) == SubSeq(Multipart(body.parts), 1, Len(Multipart(body.parts)) - body.cut)

-----------------------------------------------------------------------------
Temp(i) == [temp |-> TRUE, name |-> "MPFD_Temp", number |-> i]

Target(filename, second) == [temp |-> FALSE, name |-> filename, number |-> second]

Idle == [pc |-> "idle", body |-> [parts |-> <<>>, cut |-> 0], id |-> 0, parser |-> Fresh(<<>>),
         found |-> 0, opened |-> <<>>, form |-> <<>>]

Init ==
  /\ files = <<>> /\ now = 0 /\ serial = 0
  /\ up = [s \in Servers |-> Idle]
  /\ shared = {} /\ named = {} /\ left = {}

Busy == {s \in Servers : up[s].pc \notin {"idle", "dead"}}

With(f, k, v) == [x \in DOMAIN f \cup {k} |-> IF x = k THEN v ELSE f[x]]
Without(f, S) == Restrict(f, DOMAIN f \ S)

(* Objects whose file is still to be opened: the one just written, if any. *)
ToStore(u) ==
  {id \in DOMAIN u.parser.objects :
     u.parser.objects[id].file /\ u.parser.objects[id].written /\ id \notin DOMAIN u.opened}

Begin(s) ==
  /\ up[s].pc = "idle" /\ serial < MaxUploads
  /\ serial' = serial + 1
  /\ \E body \in Bodies :
       up' = [up EXCEPT ![s] = [Idle EXCEPT !.pc = "store", !.body = body, !.id = serial',
                                            !.parser = Fresh(Arrived(body))]]
  /\ UNCHANGED <<files, now, shared, named, left>>

(* Parser::AcceptSomeData, round by round; what a round feeds to a field   *)
(* the field writes before the next one.                                   *)
Parse(s) ==
  /\ up[s].pc = "store" /\ ToStore(up[s]) = {} /\ up[s].parser.repeat
  /\ up' = [up EXCEPT ![s].parser = Process(@)]
  /\ UNCHANGED <<files, now, serial, shared, named, left>>

(* Field::AcceptSomeData: the first number that no file has, ...           *)
Probe(s) ==
  /\ up[s].pc = "store" /\ ToStore(up[s]) # {} /\ up[s].found = 0
  /\ up' = [up EXCEPT ![s].found = CHOOSE i \in 1 .. Cardinality(DOMAIN files) + 1 :
                        /\ Temp(i) \notin DOMAIN files
                        /\ \A j \in 1 .. i - 1 : Temp(j) \in DOMAIN files]
  /\ UNCHANGED <<files, now, serial, shared, named, left>>

(* ... and that file made, or emptied, and written.                        *)
Store(s) ==
  /\ up[s].pc = "store" /\ up[s].found # 0
  /\ LET id == First(ToStore(up[s]))
         holders == {t \in Servers \ {s} : up[t].pc = "store" /\ up[s].found \in Range(up[t].opened)}
     IN
       /\ shared' = shared \cup {up[t].id : t \in IF holders = {} THEN {} ELSE holders \cup {s}}
       /\ files' = With(files, Temp(up[s].found), up[s].parser.objects[id].content)
       /\ up' = [up EXCEPT ![s].opened = With(@, id, up[s].found), ![s].found = 0]
  /\ UNCHANGED <<now, serial, named, left>>

ObjectOf(u, name) == u.parser.objects[u.parser.fields[name]]

(* AcceptSomeData has returned or thrown. *)
Parsed(u) == u.pc = "store" /\ ToStore(u) = {} /\ ~u.parser.repeat

(* The path an object's content was written to, if any was. *)
TempFile(u, name) ==
  IF u.parser.fields[name] \in DOMAIN u.opened THEN {Temp(u.opened[u.parser.fields[name]])} ELSE {}

(* The loop over the fields: a text goes into the form as it is, a file is *)
(* renamed.  rename() fails if there is no such file; nobody looks.        *)
Insert(s, name) ==
  LET u == up[s]
      object == ObjectOf(u, name)
      path == Target(object.filename, now)
      there == TempFile(u, name) \cap DOMAIN files
  IN /\ Parsed(u) /\ u.parser.outcome = "ok"
     /\ name \in DOMAIN u.parser.fields \ DOMAIN u.form
     /\ IF object.file
        THEN /\ up' = [up EXCEPT ![s].form = With(@, name, path)]
             /\ files' = IF there = {} THEN files
                         ELSE With(Without(files, there), path, files[CHOOSE temp \in there : TRUE])
             /\ named' = named \cup {[by |-> u.id, name |-> name, filename |-> object.filename,
                                      second |-> now, path |-> path, content |-> object.content]}
        ELSE /\ up' = [up EXCEPT ![s].form = With(@, name, object.content)]
             /\ UNCHANGED <<files, named>>
     /\ UNCHANGED <<now, serial, shared, left>>

DeletedIfOk(u) == IF u.parser.outcome = "ok" THEN DOMAIN u.parser.fields ELSE {}   \* mutant: not on an exception
Deleted(u) == DOMAIN u.parser.fields

(* The parser is deleted, and with it the Fields it refers to; each one    *)
(* removes the file it has open, by the name it had.                       *)
Drop(s) ==
  LET u == up[s] IN
  /\ Parsed(u)
  /\ u.parser.outcome = "ok" => DOMAIN u.form = DOMAIN u.parser.fields
  /\ files' = Without(files, UNION {TempFile(u, name) : name \in Deleted(u)})
  /\ left' = left \cup {Temp(u.opened[id]) : id \in DOMAIN u.opened \ Range(u.parser.fields)}
  /\ up' = [up EXCEPT ![s].pc = "handle"]
  /\ UNCHANGED <<now, serial, shared, named>>

(* Reading past the end, AcceptSomeData meets what it takes for the end of *)
(* the headers and throws (Drop), or it faults.                            *)
Die(s) ==
  LET u == up[s] IN
  /\ Parsed(u) /\ u.parser.outcome = "past the end"
  /\ left' = left \cup {Temp(u.opened[id]) : id \in DOMAIN u.opened}
  /\ up' = [up EXCEPT ![s].pc = "dead"]
  /\ UNCHANGED <<files, now, serial, shared, named>>

(* The handler has seen the form. *)
Handled(s) ==
  /\ up[s].pc = "handle"
  /\ up' = [up EXCEPT ![s] = Idle]
  /\ UNCHANGED <<files, now, serial, shared, named, left>>

Tick ==
  /\ now < MaxTime
  /\ now' = now + 1
  /\ UNCHANGED <<files, up, serial, shared, named, left>>

Next ==
  \/ Tick
  \/ \E s \in Servers :
       \/ Begin(s) \/ Parse(s) \/ Probe(s) \/ Store(s) \/ Drop(s) \/ Die(s) \/ Handled(s)
       \/ \E name \in DOMAIN up[s].parser.fields : Insert(s, name)

Spec == Init /\ [][Next]_vars

-----------------------------------------------------------------------------
(* Properties *)

NamesOf(parts) == {parts[i].name : i \in DOMAIN parts}
LastNamed(parts, name) == parts[CHOOSE i \in DOMAIN parts :
                              parts[i].name = name /\ \A j \in i + 1 .. Len(parts) : parts[j].name # name]

(* A body that has arrived whole yields the fields that were sent, the     *)
(* last one of a name, unless an attribute `filename' comes before `name'  *)
(* and gives the field its own value for a name (_ParseHeaders).  Of a     *)
(* body that was cut, what is taken for a field's content begins the way   *)
(* the content sent does: no part of a line end or boundary, nothing of    *)
(* another field (ProcessContentOfTheField).                               *)
FieldsAreThoseSent ==
  \A s \in Busy :
    LET u == up[s]
        parts == u.body.parts
        objects == u.parser.objects
    IN /\ (~u.parser.repeat /\ u.body.cut = 0 /\ \A i \in DOMAIN parts : ~parts[i].filename_first) =>
            /\ u.parser.outcome = "ok"
            /\ DOMAIN u.parser.fields = NamesOf(parts)
            /\ \A name \in NamesOf(parts) :
                 LET object == ObjectOf(u, name)
                     part == LastNamed(parts, name)
                 IN object.content = part.content /\ object.filename = part.filename
       /\ Len(objects) <= Len(parts)
       /\ \A id \in DOMAIN objects : IsPrefix(objects[id].content, parts[id].content)

(* Once it has its name, an uploaded file stays what was sent, unless the  *)
(* same file name is uploaded within the same second, or another server    *)
(* took the same temporary name in between: it found it free before this   *)
(* one made the file (Field::AcceptSomeData), or after this one renamed it *)
(* and before ~Field() removed whatever had that name by then.             *)
UploadsAreKept ==
  \A n \in named :
    (/\ n.content # <<>> /\ n.by \notin shared
     /\ \A m \in named : m.filename = n.filename /\ m.second = n.second => m = n)
      => n.path \in DOMAIN files /\ files[n.path] = n.content

(* While nobody is in upload(), no temporary file is left, on whatever     *)
(* path upload() was left, except by a name that came twice in one body,   *)
(* whose first Field nobody deletes, and by a process that died.           *)
TempFilesAreRemoved ==
  Busy = {} => {path \in DOMAIN files : path.temp} \subseteq left

(* The files are those that were uploaded, in whole, and no others.        *)
FilesAreAccountedFor == UploadsAreKept /\ TempFilesAreRemoved
=============================================================================
