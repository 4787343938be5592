------------------------------ MODULE JsonTree ------------------------------
(***************************************************************************)
(* What cJSON promises to those who build values with it: an item has a    *)
(* sequence of items under it, a call changes that sequence in one place,  *)
(* and an item is freed together with all that is under it, once.  A       *)
(* reference shows the sequence under another item and owns nothing.       *)
(***************************************************************************)
EXTENDS Integers, Sequences, FiniteSets, SequencesExt

CONSTANTS NoKey, lower

VARIABLES
  tree,      \* the live items: [type, ref, isConst, key, kids]
  held,      \* those that are the caller's to delete
  lost,      \* how many items nobody can delete any more
  strings    \* how many strings are allocated

vars == <<tree, held, lost, strings>>

Strings(t) ==
  Cardinality({i \in DOMAIN t : t[i].type = "string" /\ ~t[i].ref})
    + Cardinality({i \in DOMAIN t : t[i].key # NoKey /\ ~t[i].isConst})

(* What is freed with an item. *)
RECURSIVE Under(_, _)
Under(t, i) ==
  {i} \cup IF t[i].ref THEN {} ELSE UNION {Under(t, k) : k \in Range(t[i].kids)}

Without(t, i) == [j \in DOMAIN t \ Under(t, i) |-> t[j]]

RECURSIVE SameValue(_, _, _)
SameValue(t, i, j) ==
  /\ t[i].type = t[j].type /\ t[i].key = t[j].key /\ t[i].isConst = t[j].isConst /\ ~t[j].ref
  /\ Len(t[i].kids) = Len(t[j].kids)
  /\ \A n \in DOMAIN t[i].kids : SameValue(t, t[i].kids[n], t[j].kids[n])

Shallow(t, i) == [t[i] EXCEPT !.ref = FALSE, !.kids = <<>>]

(* The place of the first item with a name, 0 if there is none. *)
Place(a, key, exact) ==
  SelectInSeq(tree[a].kids,
    LAMBDA k : /\ tree[k].key # NoKey
               /\ IF exact THEN tree[k].key = key ELSE lower[tree[k].key] = lower[key])

Renamed(x, key, isConst) == [tree EXCEPT ![x].key = key, ![x].isConst = isConst]

-----------------------------------------------------------------------------
Made == DOMAIN tree' \ DOMAIN tree

Nameless(i) == tree'[i].key = NoKey /\ (tree'[i].ref => tree'[i].kids = <<>>)

ViewOf(v, i) == v.ref /\ v.type = tree[i].type /\ v.kids = tree[i].kids

(* A call that finds nothing to do, or no memory to do it with. *)
Refuse == UNCHANGED <<tree, held, lost>>

(* A new value, all of it under one item that is the caller's. *)
Make ==
  \E root \in Made :
    /\ held' = held \cup {root} /\ lost' = lost
    /\ Under(tree', root) = Made
    /\ \A i \in DOMAIN tree : tree'[i] = tree[i]
    /\ \/ Nameless(root) /\ \A i \in Made \ {root} : Nameless(i) /\ tree'[i].kids = <<>>
       \/ \E i \in DOMAIN tree : \/ ViewOf(tree'[root], i) /\ tree'[root].key = NoKey
                                 \/ SameValue(tree', i, root)
                                 \/ tree'[root] = Shallow(tree, i)

(* A new item under a, or a reference to another item.                     *)
MakeUnder(a) ==
  \E new \in Made, key \in DOMAIN lower \cup {NoKey} :
    /\ UNCHANGED <<held, lost>>
    /\ DOMAIN tree' = DOMAIN tree \cup {new} /\ tree'[new].key = key
    /\ \A i \in DOMAIN tree \ {a} : tree'[i] = tree[i]
    /\ tree'[a] = [tree[a] EXCEPT !.kids = Append(@, new)]
    /\ \/ ~tree'[new].ref /\ tree'[new].kids = <<>>
       \/ \E i \in DOMAIN tree : ViewOf(tree'[new], i)

(* x becomes the n-th item of a, or its last. *)
Add(a, x, n) ==
  /\ held' = held \ {x} /\ lost' = lost
  /\ tree' = [tree EXCEPT ![a].kids = InsertAt(@, n, x)]

AddNamed(a, x, key, isConst) ==
  /\ held' = held \ {x} /\ lost' = lost
  /\ tree' = [Renamed(x, key, isConst) EXCEPT ![a].kids = Append(@, x)]

Detach(a, n) ==
  /\ held' = held \cup {tree[a].kids[n]} /\ lost' = lost
  /\ tree' = [tree EXCEPT ![a].kids = RemoveAt(@, n)]

DeleteFrom(a, n) ==
  /\ UNCHANGED <<held, lost>> /\ tree[a].kids[n] \notin DOMAIN tree'
  /\ tree' = Without([tree EXCEPT ![a].kids = RemoveAt(@, n)], tree[a].kids[n])

Replace(t, a, n, x) ==
  /\ held' = held \ {x} /\ lost' = lost
  /\ tree' = Without([t EXCEPT ![a].kids = ReplaceAt(@, n, x)], t[a].kids[n])

(* Under the name of the item it replaces, or under none when there is no  *)
(* memory for it.  With none to replace, x is named all the same.          *)
ReplaceNamed(a, x, key, exact) ==
  \E given \in {key, NoKey} :
    LET t == Renamed(x, given, FALSE)
        n == Place(a, key, exact)
    IN IF n = 0 THEN UNCHANGED <<held, lost>> /\ tree' = t ELSE Replace(t, a, n, x)

Delete(x) ==
  /\ held' = held \ {x} /\ lost' = lost
  /\ tree' = Without(tree, x)

(* A reference for which there was no name is no one's.                    *)
Lose == lost' = lost + 1 /\ UNCHANGED <<tree, held>>

-----------------------------------------------------------------------------
Init == tree = <<>> /\ held = {} /\ lost = 0 /\ strings = 0

Next ==
  /\ \/ Refuse
     \/ Make
     \/ Lose
     \/ \E x \in held : Delete(x)
     \/ \E a \in DOMAIN tree :
          \/ MakeUnder(a)
          \/ \E n \in DOMAIN tree[a].kids : Detach(a, n) \/ DeleteFrom(a, n)
          \/ \E x \in held :
               \/ \E n \in 1 .. Len(tree[a].kids) + 1 : Add(a, x, n)
               \/ \E n \in 1 .. Len(tree[a].kids) : Replace(tree, a, n, x)
               \/ \E key \in DOMAIN lower, b \in BOOLEAN : AddNamed(a, x, key, b) \/ ReplaceNamed(a, x, key, b)
  /\ strings' = Strings(tree')

Spec == Init /\ [][Next]_vars
=============================================================================
