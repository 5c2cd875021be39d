-------------------------------- MODULE Dict --------------------------------
(***************************************************************************)
(* The dictionary of src/runtime/vibert.c: the entries in a dense vector,  *)
(* in insertion order, and a table of slots that points into it, probed    *)
(* linearly.  A slot holds 0, or the position of an entry (from 1).        *)
(*                                                                         *)
(* An operation is one step, but for dict_reindex, whose two loops are     *)
(* steps of their own: nothing else runs until they are done.              *)
(***************************************************************************)
EXTENDS Naturals, Sequences

CONSTANTS Keys, Values,
          Hashes,       \* what hash_seed may make of the keys: [Keys -> Nat]
          MinCap        \* the least capacity, 8 in the source

ASSUME DictAssumption ==
  /\ Hashes \subseteq [Keys -> Nat]
  /\ MinCap \in Nat \ {0}

VARIABLES hash,       \* the hash of this process
          entries,    \* d->e
          cap, slot,  \* the table
          phase,      \* "ready", or the loop of dict_reindex that runs
          size,       \* the capacity being sized
          next,       \* the entry to index next
          answer      \* what the last operation returned

vars == <<hash, entries, cap, slot, phase, size, next, answer>>

Entry(k, v) == [k |-> k, v |-> v]
Nothing     == [is |-> "nothing"]
Found(v)    == [is |-> "found", v |-> v]
Listed(ks)  == [is |-> "keys", ks |-> ks]

Count == Len(entries)

\* The t-th slot from where k is at home.  The capacity is a power of two times
\* MinCap, and the mask of the source is the remainder by it.
Home(k)     == hash[k] % cap
Probe(k, t) == IF Home(k) + t < cap THEN Home(k) + t ELSE Home(k) + t - cap

\* dict_slot stops at the key or at an empty slot; dict_reindex at an empty one.
Empty(k, t) == slot[Probe(k, t)] = 0
Stops(k, t) == Empty(k, t) \/ entries[slot[Probe(k, t)]].k = k

DictSlot(k) ==
  Probe(k, CHOOSE t \in 0..(cap - 1) : Stops(k, t) /\ \A u \in 0..(t - 1) : ~Stops(k, u))
FreeSlot(k) ==
  Probe(k, CHOOSE t \in 0..(cap - 1) : Empty(k, t) /\ \A u \in 0..(t - 1) : ~Empty(k, u))

\* vb_dict: no entries, and a first table.
Init ==
  /\ hash \in Hashes
  /\ entries = <<>>
  /\ cap = 0 /\ slot = [j \in {} |-> 0]
  /\ phase = "sizing" /\ size = MinCap /\ next = 1
  /\ answer = Nothing

Reindex == phase' = "sizing" /\ size' = MinCap /\ next' = 1
NoReindex == UNCHANGED <<phase, size, next>>

Ready == phase = "ready"

\* vb_insert_owned, of a key that is there.
Replace(k, v) ==
  /\ Ready
  /\ slot[DictSlot(k)] # 0
  /\ entries' = [entries EXCEPT ![slot[DictSlot(k)]] = Entry(k, v)]
  /\ answer' = Nothing
  /\ NoReindex
  /\ UNCHANGED <<hash, cap, slot>>

\* Seeded fault: the table never grows.
AddNoGrowth(k, v) ==
  /\ Ready
  /\ slot[DictSlot(k)] = 0
  /\ entries' = Append(entries, Entry(k, v))
  /\ slot' = [slot EXCEPT ![DictSlot(k)] = Count + 1]
  /\ answer' = Nothing
  /\ NoReindex
  /\ UNCHANGED <<hash, cap>>

\* vb_insert_owned, of a new key.
Add(k, v) ==
  /\ Ready
  /\ slot[DictSlot(k)] = 0
  /\ entries' = Append(entries, Entry(k, v))
  /\ slot' = [slot EXCEPT ![DictSlot(k)] = Count + 1]
  /\ IF 2 * (Count + 1) + 2 > cap THEN Reindex ELSE NoReindex
  /\ answer' = Nothing
  /\ UNCHANGED <<hash, cap>>

\* Seeded fault: the last entry takes the place of the one removed.
RemoveSwapping(i) == [j \in 1..(Count - 1) |-> IF j = i THEN entries[Count] ELSE entries[j]]

\* vb_remove_owned: the entries behind it move up.
RemoveAt(i) == [j \in 1..(Count - 1) |-> IF j < i THEN entries[j] ELSE entries[j + 1]]

Remove(k) ==
  /\ Ready
  /\ slot[DictSlot(k)] # 0
  /\ entries' = RemoveAt(slot[DictSlot(k)])
  /\ Reindex
  /\ answer' = Nothing
  /\ UNCHANGED <<hash, cap, slot>>

RemoveNone(k) ==
  /\ Ready
  /\ slot[DictSlot(k)] = 0
  /\ answer' = Nothing
  /\ UNCHANGED <<hash, entries, cap, slot, phase, size, next>>

\* vb_lookup.
Lookup(k) ==
  /\ Ready
  /\ answer' = IF slot[DictSlot(k)] = 0 THEN Nothing
               ELSE Found(entries[slot[DictSlot(k)]].v)
  /\ UNCHANGED <<hash, entries, cap, slot, phase, size, next>>

\* vb_keys.
AllKeys ==
  /\ Ready
  /\ answer' = Listed([i \in DOMAIN entries |-> entries[i].k])
  /\ UNCHANGED <<hash, entries, cap, slot, phase, size, next>>

\* dict_reindex: a table large enough, emptied, and every entry put back.
Double ==
  /\ phase = "sizing"
  /\ size < 2 * Count + 2
  /\ size' = 2 * size
  /\ UNCHANGED <<hash, entries, cap, slot, phase, next, answer>>

Clear ==
  /\ phase = "sizing"
  /\ size >= 2 * Count + 2
  /\ cap' = size
  /\ slot' = [j \in 0..(size - 1) |-> 0]
  /\ phase' = "indexing"
  /\ UNCHANGED <<hash, entries, size, next, answer>>

Index ==
  /\ phase = "indexing"
  /\ next <= Count
  /\ slot' = [slot EXCEPT ![FreeSlot(entries[next].k)] = next]
  /\ next' = next + 1
  /\ UNCHANGED <<hash, entries, cap, phase, size, answer>>

Indexed ==
  /\ phase = "indexing"
  /\ next > Count
  /\ phase' = "ready"
  /\ UNCHANGED <<hash, entries, cap, slot, size, next, answer>>

Next ==
  \/ AllKeys \/ Double \/ Clear \/ Index \/ Indexed
  \/ \E k \in Keys : \/ Remove(k) \/ RemoveNone(k) \/ Lookup(k)
                     \/ \E v \in Values : Replace(k, v) \/ Add(k, v)

Spec == Init /\ [][Next]_vars

(***************************************************************************)
(* Properties.                                                             *)
(***************************************************************************)
TypeOK ==
  /\ hash \in [Keys -> Nat]
  /\ entries \in Seq([k : Keys, v : Values])
  /\ cap \in Nat
  /\ slot \in [0..(cap - 1) -> Nat]
  /\ phase \in {"ready", "sizing", "indexing"}
  /\ size \in Nat \ {0}
  /\ next \in Nat \ {0}

\* A probe for any key, held or not, meets an empty slot or the key: the loop of
\* dict_slot ends, and so does the one that puts an entry back.
ProbesEnd ==
  /\ Ready => \A k \in Keys : \E t \in 0..(cap - 1) : Stops(k, t)
  /\ phase = "indexing" => \A k \in Keys : \E t \in 0..(cap - 1) : Empty(k, t)

\* The first m entries are in the table: each once, and behind its home there
\* is no empty slot before it.
Linked(m) ==
  /\ \A j \in 0..(cap - 1) : slot[j] \in 0..m
  /\ \A i, j \in 0..(cap - 1) : slot[i] = slot[j] /\ slot[i] # 0 => i = j
  /\ \A i \in 1..m : \E t \in 0..(cap - 1) :
       /\ slot[Probe(entries[i].k, t)] = i
       /\ \A u \in 0..(t - 1) : ~Empty(entries[i].k, u)

\* No key twice.
Distinct == \A i, j \in DOMAIN entries : entries[i].k = entries[j].k => i = j

\* What every step keeps: the table is at most half full, and holds all the
\* entries, or those put back so far.
IInv ==
  /\ TypeOK
  /\ Distinct
  /\ IF phase = "sizing" THEN next = 1 ELSE cap >= 2 * Count + 2
  /\ phase = "indexing" => next <= Count + 1 /\ Linked(next - 1)
  /\ Ready => Linked(Count)

\* The program sees the ordered map: no collision, growth, or removal in the
\* middle of a run of slots loses, doubles or moves an entry, and the order
\* does not depend on the hash ("re-inserting a key keeps its place").
Promise == INSTANCE OrderedMap WITH pairs <- entries
Ordered == Promise!Spec
=============================================================================
