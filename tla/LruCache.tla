------------------------------ MODULE LruCache ------------------------------
(***************************************************************************)
(* lru11::Cache (inc/mongols/lib/LRUCache11.hpp), which                    *)
(* mongols::cache::lru_cache wraps: a doubly linked list of (key, value)   *)
(* nodes, most recently used first, and a map from keys to iterators into  *)
(* that list.  Every operation holds lock_ from its first line to its      *)
(* last, so each is one action.                                            *)
(***************************************************************************)
EXTENDS Naturals, Sequences, SequencesExt

CONSTANTS
  Key, Value,
  Node,        \* addresses of list nodes
  maxSize_, elasticity_

ASSUME SizesAssumption == maxSize_ \in Nat /\ elasticity_ \in Nat

VARIABLES
  keys_,    \* the list: node addresses, front first
  node,     \* the contents of the live nodes: address -> [key, value]
  cache_    \* the map: key -> address (an iterator into the list)

cacheVars == <<keys_, node, cache_>>

CacheInit == keys_ = <<>> /\ node = <<>> /\ cache_ = <<>>

-----------------------------------------------------------------------------
(* keys_.erase(it), and keys_.splice(keys_.begin(), keys_, it): the node    *)
(* moves to the front and keeps its address.                               *)
Unlinked(list, it) == RemoveAt(list, CHOOSE i \in DOMAIN list : list[i] = it)
SpliceNothing(list, it) == list   \* mutant: a hit that is not a use
Splice(list, it) == <<it>> \o Unlinked(list, it)

(* prune(): how many entries go.                                           *)
Excess(size) ==
  IF maxSize_ = 0 \/ size < maxSize_ + elasticity_ \/ size <= maxSize_ THEN 0 ELSE size - maxSize_

Unmapped(map, victims) == Restrict(map, DOMAIN map \ victims)

(* Store a list and a map after prune() has cut them back: one by one, the *)
(* key of the last node leaves the map and the node is freed.              *)
Prune(list, contents, map) ==
  LET left == Len(list) - Excess(Cardinality(DOMAIN map))
      victims == {list[i] : i \in left + 1 .. Len(list)}
  IN /\ keys_' = SubSeq(list, 1, left)
     /\ node' = Restrict(contents, DOMAIN contents \ victims)
     /\ cache_' = Unmapped(map, {contents[n].key : n \in victims})

(* insert() of a key the cache holds. *)
Overwrite(k, v) ==
  /\ k \in DOMAIN cache_
  /\ node' = [node EXCEPT ![cache_[k]].value = v]
  /\ keys_' = Splice(keys_, cache_[k])
  /\ UNCHANGED cache_

(* insert() of any other key; the allocator picks the new node's address.  *)
Insert(k, v) ==
  /\ k \notin DOMAIN cache_
  /\ \E n \in Node \ DOMAIN node :
       Prune(<<n>> \o keys_,
             [m \in DOMAIN node \cup {n} |-> IF m = n THEN [key |-> k, value |-> v] ELSE node[m]],
             [j \in DOMAIN cache_ \cup {k} |-> IF j = k THEN n ELSE cache_[j]])

(* tryGet() and get() of a key the cache holds; a miss changes nothing.    *)
Get(k) ==
  /\ k \in DOMAIN cache_
  /\ keys_' = Splice(keys_, cache_[k])
  /\ UNCHANGED <<node, cache_>>

remove(k) ==
  /\ k \in DOMAIN cache_
  /\ keys_' = Unlinked(keys_, cache_[k])
  /\ node' = Restrict(node, DOMAIN node \ {cache_[k]})
  /\ cache_' = Unmapped(cache_, {k})

Clear == keys_' = <<>> /\ node' = <<>> /\ cache_' = <<>>

CacheNext ==
  \/ Clear
  \/ \E k \in Key : Get(k) \/ remove(k) \/ \E v \in Value : Overwrite(k, v) \/ Insert(k, v)

CacheSpec == CacheInit /\ [][CacheNext]_cacheVars

-----------------------------------------------------------------------------
(* Properties *)

(* The order read off the list and the values read through the map behave  *)
(* as RecencyCache promises: what is evicted is what was used least        *)
(* recently, maxSize_ entries survive every prune, and after an insertion  *)
(* there are fewer than maxSize_ + elasticity_ of them, or maxSize_.       *)
Recency == INSTANCE RecencyCache WITH
  Kept <- maxSize_,
  Allowed <- IF elasticity_ = 0 THEN maxSize_ ELSE maxSize_ + elasticity_ - 1,
  order <- [i \in DOMAIN keys_ |-> node[keys_[i]].key],
  entries <- [k \in DOMAIN cache_ |-> node[cache_[k]].value]

ImplementsRecencyCache == Recency!Spec
=============================================================================
