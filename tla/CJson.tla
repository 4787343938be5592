------------------------------- MODULE CJson -------------------------------
(***************************************************************************)
(* The values of cJSON (src/lib/cJSON.c) as a program builds them: items   *)
(* in memory, the items under one linked by child, next and prev, and the  *)
(* calls that make, link, unlink, copy and delete them.  No call tests     *)
(* whether it is given an array or an object, so both are "container"      *)
(* here; a string and raw text are "string", other scalars "number".       *)
(*                                                                         *)
(* Memory runs out after any number of allocations of a call.  The caller  *)
(* keeps to what the header asks of it (see Frozen), and uses a key of one *)
(* case only to look past items that have a name.                          *)
(***************************************************************************)
EXTENDS Integers, Sequences, FiniteSets, SequencesExt, TLC

CONSTANTS
  NoKey,       \* a null string
  lower,       \* the keys, each with its lower case form
  Uses         \* what a caller works with: keys, whether constant, types
               \* of item, references or none, how many items, how many allocations in a call

NULL == 0

VARIABLES
  items,       \* the items allocated, by address
  strings,     \* how many strings are
  held,        \* items the caller has and must delete or give away
  lost,        \* how many nobody has
  use          \* one of Uses

vars == <<items, strings, held, lost, use>>

(* What a call works on: the heap, the allocations it still has memory for *)
(* and what the last function returned.                                    *)
Start(memory) == [items |-> items, strings |-> strings, memory |-> memory, ret |-> NULL]

Put(h, i, field, v) == IF i = NULL THEN h ELSE [h EXCEPT !.items[i][field] = v]
Get(h, i, field) == h.items[i][field]
Returning(h, r) == [h EXCEPT !.ret = r]

-----------------------------------------------------------------------------
cJSON_New_Item(h, type, ref) ==
  LET free == (1 .. use.items) \ DOMAIN h.items
      i == CHOOSE n \in free : \A m \in free : n <= m
      new == [type |-> type, ref |-> ref, isConst |-> FALSE, key |-> NoKey, text |-> FALSE,
              child |-> NULL, next |-> NULL, prev |-> NULL]
  IN IF h.memory = 0 \/ free = {} THEN Returning(h, NULL)
     ELSE [h EXCEPT !.items = (i :> new) @@ @, !.memory = @ - 1, !.ret = i]

cJSON_strdup(h) ==
  IF h.memory = 0 THEN Returning(h, NULL)
  ELSE [h EXCEPT !.strings = @ + 1, !.memory = @ - 1, !.ret = 1]

OwnKeys(item) == IF item.key # NoKey /\ ~item.isConst THEN 1 ELSE 0

FreeKey(h, i) == [h EXCEPT !.strings = @ - OwnKeys(h.items[i])]

FreeItem(h, i) ==
  LET text == IF h.items[i].text /\ ~h.items[i].ref THEN 1 ELSE 0
  IN [FreeKey(h, i) EXCEPT !.strings = @ - text, !.items = [j \in DOMAIN @ \ {i} |-> @[j]]]

(* The item, those after it and, unless it refers to another's, those      *)
(* under it.                                                               *)
RECURSIVE cJSON_Delete(_, _)
cJSON_Delete(h, i) ==
  IF i = NULL THEN h
  ELSE LET below == IF h.items[i].ref THEN h ELSE cJSON_Delete(h, h.items[i].child)
       IN cJSON_Delete(FreeItem(below, i), h.items[i].next)

(* The list that begins with item i; a list gone round is cut.             *)
RECURSIVE Listed(_, _, _)
Listed(h, i, n) ==
  IF i \notin DOMAIN h.items \/ n = 0 THEN <<>> ELSE <<i>> \o Listed(h, h.items[i].next, n - 1)

List(h, a) == Listed(h, h.items[a].child, use.items)

get_array_item(h, a, which) == IF which < Len(List(h, a)) THEN List(h, a)[which + 1] ELSE NULL

get_object_item(h, a, key, exact) ==
  LET n == SelectInSeq(List(h, a),
             LAMBDA k : /\ Get(h, k, "key") # NoKey
                        /\ IF exact THEN Get(h, k, "key") = key
                           ELSE lower[Get(h, k, "key")] = lower[key])
  IN IF n = 0 THEN NULL ELSE List(h, a)[n]

-----------------------------------------------------------------------------
suffix_object(h, prev, i) == Put(Put(h, prev, "next", i), i, "prev", prev)

add_item_to_array(h, a, i) ==
  IF i = NULL THEN Returning(h, NULL)
  ELSE Returning(IF Get(h, a, "child") = NULL THEN Put(h, a, "child", i)
                 ELSE suffix_object(h, Last(List(h, a)), i), 1)

SetKey(h, i, key, const) == Put(Put(FreeKey(h, i), i, "key", key), i, "isConst", const)

add_item_to_object(h, a, key, i, const) ==
  LET new == IF const THEN h ELSE cJSON_strdup(h)
  IN IF i = NULL \/ (~const /\ new.ret = NULL) THEN Returning(h, NULL)
     ELSE add_item_to_array(SetKey(new, i, key, const), a, i)

create_reference(h, i) ==
  LET new == cJSON_New_Item(h, Get(h, i, "type"), TRUE)
  IN IF new.ret = NULL THEN new
     ELSE [new EXCEPT !.items[new.ret] = [h.items[i] EXCEPT !.ref = TRUE, !.key = NoKey, !.next = NULL, !.prev = NULL]]

DetachNoBackLink(h, parent, i) ==   \* mutant: the item after it still points back to it
  LET prev == Get(h, i, "prev")
      next == Get(h, i, "next")
      unlinked == Put(h, prev, "next", next)
      moved == IF Get(h, parent, "child") = i THEN Put(unlinked, parent, "child", next) ELSE unlinked
  IN IF i = NULL THEN Returning(h, NULL)
     ELSE Returning(Put(Put(moved, i, "prev", NULL), i, "next", NULL), i)

cJSON_DetachItemViaPointer(h, parent, i) ==
  LET prev == Get(h, i, "prev")
      next == Get(h, i, "next")
      unlinked == Put(Put(h, prev, "next", next), next, "prev", prev)
      moved == IF Get(h, parent, "child") = i THEN Put(unlinked, parent, "child", next) ELSE unlinked
  IN IF i = NULL THEN Returning(h, NULL)
     ELSE Returning(Put(Put(moved, i, "prev", NULL), i, "next", NULL), i)

cJSON_InsertItemInArray(h, a, which, i) ==
  LET after == get_array_item(h, a, which)
      prev == Get(h, after, "prev")
      linked == Put(Put(Put(h, i, "next", after), i, "prev", prev), after, "prev", i)
  IN IF after = NULL THEN add_item_to_array(h, a, i)
     ELSE IF after = Get(h, a, "child") THEN Put(linked, a, "child", i)
     ELSE Put(linked, prev, "next", i)

cJSON_ReplaceItemViaPointer(h, parent, i, new) ==
  LET prev == Get(h, i, "prev")
      next == Get(h, i, "next")
      taken == Put(Put(h, new, "next", next), new, "prev", prev)
      linked == Put(Put(taken, next, "prev", new), prev, "next", new)
      moved == IF Get(h, parent, "child") = i THEN Put(linked, parent, "child", new) ELSE linked
  IN IF i = NULL THEN h
     ELSE cJSON_Delete(Put(Put(moved, i, "next", NULL), i, "prev", NULL), i)

(* The new name is given before there is known to be an item to replace.   *)
replace_item_in_object(h, a, key, new, exact) ==
  LET copy == cJSON_strdup(FreeKey(h, new))
      named == Put(Put(copy, new, "key", IF copy.ret = NULL THEN NoKey ELSE key), new, "isConst", FALSE)
  IN cJSON_ReplaceItemViaPointer(named, a, get_object_item(named, a, key, exact), new)

-----------------------------------------------------------------------------
cJSON_CreateString(h) ==
  LET new == cJSON_New_Item(h, "string", FALSE)
      text == cJSON_strdup(new)
  IN IF new.ret = NULL THEN new
     ELSE IF text.ret = NULL THEN Returning(cJSON_Delete(new, new.ret), NULL)
     ELSE Returning(Put(text, new.ret, "text", TRUE), new.ret)

cJSON_Create(h, type) ==
  IF type = "string" THEN cJSON_CreateString(h) ELSE cJSON_New_Item(h, type, FALSE)

(* cJSON_CreateIntArray and the like: what has been made is deleted when   *)
(* one cannot be.                                                          *)
cJSON_CreateArrayOf(h, type, count) ==
  LET a == cJSON_New_Item(h, "container", FALSE)
      Element(built, i) ==
        LET new == cJSON_Create(built.h, type)
        IN IF built.failed THEN built
           ELSE IF new.ret = NULL THEN [built EXCEPT !.h = Returning(cJSON_Delete(new, a.ret), NULL), !.failed = TRUE]
           ELSE [built EXCEPT !.h = IF i = 1 THEN Put(new, a.ret, "child", new.ret)
                                    ELSE suffix_object(new, built.p, new.ret),
                              !.p = new.ret]
      done == FoldLeft(Element, [h |-> a, p |-> NULL, failed |-> a.ret = NULL], [i \in 1 .. count |-> i])
  IN IF done.failed THEN Returning(done.h, NULL) ELSE Returning(done.h, a.ret)

(* fail: of cJSON_Duplicate. *)
Abandon(h, new) == Returning(cJSON_Delete(h, new), NULL)

RECURSIVE cJSON_Duplicate(_, _, _)
cJSON_Duplicate(h, i, recurse) ==
  LET item == h.items[i]
      made == cJSON_New_Item(h, item.type, FALSE)
      new == made.ret
      text == IF item.text THEN Put(cJSON_strdup(made), new, "text", made.memory > 0) ELSE Returning(made, 1)
      key == IF OwnKeys(item) = 1 THEN cJSON_strdup(text) ELSE Returning(text, 1)
      named == Put(Put(key, new, "key", item.key), new, "isConst", item.isConst)
      Child(built, child) ==
        LET copy == cJSON_Duplicate(built.h, child, TRUE)
        IN IF built.failed THEN built
           ELSE IF copy.ret = NULL THEN [built EXCEPT !.h = Abandon(copy, new), !.failed = TRUE]
           ELSE [built EXCEPT !.h = IF built.last = NULL THEN Put(copy, new, "child", copy.ret)
                                    ELSE suffix_object(copy, built.last, copy.ret),
                              !.last = copy.ret]
      done == FoldLeft(Child, [h |-> named, last |-> NULL, failed |-> FALSE], List(h, i))
  IN IF made.ret = NULL THEN made
     ELSE IF text.ret = NULL \/ key.ret = NULL THEN Abandon(text, new)
     ELSE IF ~recurse THEN Returning(named, new)
     ELSE IF done.failed THEN Returning(done.h, NULL)
     ELSE Returning(done.h, new)

(* cJSON_AddNullToObject and the like. *)
cJSON_AddNewToObject(h, a, key, type) ==
  LET new == cJSON_Create(h, type)
      added == add_item_to_object(new, a, key, new.ret, FALSE)
  IN IF added.ret = NULL THEN Returning(cJSON_Delete(new, new.ret), NULL) ELSE added

-----------------------------------------------------------------------------
(* What can be reached from an item, by references too. *)
RECURSIVE Reach(_)
Reach(i) == {i} \cup UNION {Reach(k) : k \in Range(List(Start(0), i))}

RECURSIVE Under(_)
Under(i) == {i} \cup IF items[i].ref THEN {} ELSE UNION {Under(k) : k \in Range(List(Start(0), i))}

(* The list under an item is seen through a reference: it must not change  *)
(* or go while the reference is there.                                     *)
Frozen(a) ==
  /\ items[a].child # NULL
  /\ \E r \in DOMAIN items : (r = a \/ items[r].child = items[a].child) /\ items[r].ref

Needed(i) ==
  \E k \in Under(i), r \in DOMAIN items \ Under(i) :
    items[r].ref /\ items[k].child # NULL /\ items[r].child = items[k].child /\ ~items[k].ref

Open(a) == a \in DOMAIN items /\ items[a].type = "container" /\ ~Frozen(a)
Fits(a, x) == Open(a) /\ a \notin Reach(x)

AllNamed(a) == \A k \in Range(List(Start(0), a)) : items[k].key # NoKey
CanLookUp(a, exact) == exact => AllNamed(a)

(* A call that leaves the caller with what it had, but for these.          *)
Call(h) == items' = h.items /\ strings' = h.strings /\ use' = use
Gives(h, x) == Call(h) /\ held' = held \ {x} /\ lost' = lost
Keeps(h) == Call(h) /\ UNCHANGED <<held, lost>>
Takes(h) == Call(h) /\ held' = held \cup ({h.ret} \ {NULL}) /\ lost' = lost

Create(h) == \E type \in use.types : Takes(cJSON_Create(h, type))

CreateStringReference(h) ==
  /\ "string" \in use.types
  /\ LET new == cJSON_New_Item(h, "string", TRUE) IN Takes(Put(new, new.ret, "text", TRUE))

(* cJSON_CreateArrayReference and cJSON_CreateObjectReference of a list.   *)
CreateReference(h) ==
  \E i \in DOMAIN items :
    /\ items[i].type = "container"
    /\ LET new == cJSON_New_Item(h, "container", TRUE)
       IN Takes(Put(new, new.ret, "child", items[i].child))

CreateArrayOf(h) == \E type \in use.types, count \in 1 .. 2 : Takes(cJSON_CreateArrayOf(h, type, count))

Duplicate(h) == \E i \in DOMAIN items, recurse \in BOOLEAN : Takes(cJSON_Duplicate(h, i, recurse))

AddItemToArray(h) == \E x \in held, a \in DOMAIN items : Fits(a, x) /\ Gives(add_item_to_array(h, a, x), x)

AddItemToObject(h) ==
  \E x \in held, a \in DOMAIN items, key \in use.keys, const \in use.consts :
    /\ Fits(a, x)
    /\ LET added == add_item_to_object(h, a, key, x, const)
       IN IF added.ret = NULL THEN Keeps(added) ELSE Gives(added, x)

AddItemReferenceToArray(h) ==
  \E i \in DOMAIN items, a \in DOMAIN items :
    /\ Fits(a, i)
    /\ LET new == create_reference(h, i) IN Keeps(add_item_to_array(new, a, new.ret))

(* A reference that could not be named is in no list and in no one's hands. *)
AddItemReferenceToObject(h) ==
  \E i \in DOMAIN items, a \in DOMAIN items, key \in use.keys :
    /\ Fits(a, i)
    /\ LET new == create_reference(h, i)
           added == add_item_to_object(new, a, key, new.ret, FALSE)
       IN IF new.ret # NULL /\ added.ret = NULL
          THEN lost = 0 /\ lost' = 1 /\ Call(h) /\ UNCHANGED held
          ELSE Keeps(added)

AddNewToObject(h) ==
  \E a \in DOMAIN items, key \in use.keys, type \in use.types :
    Open(a) /\ Keeps(cJSON_AddNewToObject(h, a, key, type))

(* The item a call is about: by its place, or by its name. *)
Chosen(h, a) ==
  {get_array_item(h, a, which) : which \in 0 .. use.items}
    \cup {get_object_item(h, a, key, exact) : key \in use.keys, exact \in {b \in BOOLEAN : CanLookUp(a, b)}}

DetachItem(h) ==
  \E a \in DOMAIN items : Open(a) /\ \E i \in Chosen(h, a) : Takes(cJSON_DetachItemViaPointer(h, a, i))

DeleteItem(h) ==
  \E a \in DOMAIN items :
    /\ Open(a)
    /\ \E i \in Chosen(h, a) :
         /\ i # NULL => ~Needed(i)
         /\ Keeps(cJSON_Delete(cJSON_DetachItemViaPointer(h, a, i), i))

InsertItemInArray(h) ==
  \E x \in held, a \in DOMAIN items, which \in 0 .. use.items :
    Fits(a, x) /\ Gives(cJSON_InsertItemInArray(h, a, which, x), x)

ReplaceItemInArray(h) ==
  \E x \in held, a \in DOMAIN items, which \in 0 .. use.items :
    LET i == get_array_item(h, a, which)
    IN /\ Fits(a, x) /\ i # NULL /\ ~Needed(i)
       /\ Gives(cJSON_ReplaceItemViaPointer(h, a, i, x), x)

ReplaceItemInObject(h) ==
  \E x \in held, a \in DOMAIN items, key \in use.keys, exact \in BOOLEAN :
    LET i == get_object_item(h, a, key, exact)
        after == replace_item_in_object(h, a, key, x, exact)
    IN /\ Fits(a, x) /\ CanLookUp(a, exact)
       /\ IF i = NULL THEN Keeps(after) ELSE ~Needed(i) /\ Gives(after, x)

Delete(h) == \E x \in held : ~Needed(x) /\ Gives(cJSON_Delete(h, x), x)

-----------------------------------------------------------------------------
Init == items = <<>> /\ strings = 0 /\ held = {} /\ lost = 0 /\ use \in Uses

Next ==
  \/ \E memory \in use.memory : \E h \in {Start(memory)} :
       \/ Create(h) \/ CreateStringReference(h) \/ CreateArrayOf(h) \/ Duplicate(h)
       \/ AddItemToObject(h) \/ AddNewToObject(h) \/ ReplaceItemInObject(h)
       \/ /\ use.refs
          /\ CreateReference(h) \/ AddItemReferenceToArray(h) \/ AddItemReferenceToObject(h)
  \/ \E h \in {Start(0)} :
       \/ AddItemToArray(h) \/ InsertItemInArray(h) \/ ReplaceItemInArray(h)
       \/ DetachItem(h) \/ DeleteItem(h) \/ Delete(h)

Spec == Init /\ [][Next]_vars

-----------------------------------------------------------------------------
T == INSTANCE JsonTree WITH
  tree <- [i \in DOMAIN items |->
             [type |-> items[i].type, ref |-> items[i].ref, key |-> items[i].key,
              isConst |-> items[i].isConst /\ items[i].key # NoKey, kids |-> List(Start(0), i)]]

(* Every call changes the values as JsonTree says, whichever calls went    *)
(* before and wherever memory runs out: no item is in two places or in     *)
(* none, each goes with what it is under, and no string outlives its item. *)
ImplementsJsonTree == T!Spec
=============================================================================
