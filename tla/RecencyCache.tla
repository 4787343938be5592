---------------------------- MODULE RecencyCache ----------------------------
(***************************************************************************)
(* What lru11::Cache promises to its users: a table whose entries are      *)
(* ordered by their last use, that forgets from the old end only, and only *)
(* when an insertion has made it too big.  Nothing here speaks of list     *)
(* nodes or iterators; LruCache.tla implements this.                       *)
(***************************************************************************)
EXTENDS Naturals, Sequences, SequencesExt

CONSTANTS
  Key, Value,
  Kept,      \* entries that no insertion may push out; 0: nothing is ever pushed out
  Allowed    \* the largest number of entries an insertion may leave

VARIABLES
  order,     \* the keys held, most recently used first
  entries    \* key -> value

vars == <<order, entries>>

Held(s) == {s[i] : i \in DOMAIN s}

Without(s, k) == IF k \in Held(s) THEN RemoveAt(s, CHOOSE i \in DOMAIN s : s[i] = k) ELSE s

Prefix(s, n) == SubSeq(s, 1, n)

Init == order = <<>> /\ entries = <<>>

(* k becomes the most recent; what falls off is a tail of the order, and   *)
(* Kept entries at least remain.                                           *)
Put(k, v) ==
  \E n \in 1 .. Len(order) + 1 :
    LET grown == <<k>> \o Without(order, k)
    IN /\ n <= Len(grown)
       /\ n = Len(grown) \/ (k \notin Held(order) /\ Kept > 0 /\ n >= Kept)
       /\ Kept > 0 => n <= Allowed
       /\ order' = Prefix(grown, n)
       /\ entries' = [j \in Held(order') |-> IF j = k THEN v ELSE entries[j]]

Use(k) ==
  /\ k \in Held(order)
  /\ order' = <<k>> \o Without(order, k)
  /\ UNCHANGED entries

Erase(k) ==
  /\ order' = Without(order, k)
  /\ entries' = [j \in Held(order') |-> entries[j]]

Clear == order' = <<>> /\ entries' = <<>>

Next ==
  \/ Clear
  \/ \E k \in Key : Use(k) \/ Erase(k) \/ \E v \in Value : Put(k, v)

Spec == Init /\ [][Next]_vars
=============================================================================
