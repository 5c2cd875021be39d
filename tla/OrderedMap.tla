----------------------------- MODULE OrderedMap -----------------------------
(***************************************************************************)
(* What a `Dict` promises a program: a map that remembers the order in     *)
(* which its keys first came.  Putting a key in again keeps its place and  *)
(* replaces its value.  There is no hash in it.                            *)
(***************************************************************************)
EXTENDS Naturals, Sequences

CONSTANTS Keys, Values

VARIABLES pairs,    \* the entries, in order
          answer    \* what the last operation returned

pairVars == <<pairs, answer>>

Pair(k, v) == [k |-> k, v |-> v]
Nothing    == [is |-> "nothing"]
Found(v)   == [is |-> "found", v |-> v]
Listed(ks) == [is |-> "keys", ks |-> ks]

IndexesOf(k) == {i \in DOMAIN pairs : pairs[i].k = k}
Without(i)   == [j \in 1..(Len(pairs) - 1) |-> IF j < i THEN pairs[j] ELSE pairs[j + 1]]

Init == pairs = <<>> /\ answer = Nothing

Replace(k, v) == \E i \in IndexesOf(k) : pairs' = [pairs EXCEPT ![i] = Pair(k, v)]
Add(k, v)     == IndexesOf(k) = {} /\ pairs' = Append(pairs, Pair(k, v))
Insert(k, v)  == (Replace(k, v) \/ Add(k, v)) /\ answer' = Nothing

Remove(k) ==
  /\ IF IndexesOf(k) = {} THEN pairs' = pairs ELSE \E i \in IndexesOf(k) : pairs' = Without(i)
  /\ answer' = Nothing

Lookup(k) ==
  /\ IF IndexesOf(k) = {} THEN answer' = Nothing
     ELSE \E i \in IndexesOf(k) : answer' = Found(pairs[i].v)
  /\ UNCHANGED pairs

AllKeys ==
  /\ answer' = Listed([i \in DOMAIN pairs |-> pairs[i].k])
  /\ UNCHANGED pairs

Next ==
  \/ AllKeys
  \/ \E k \in Keys : Remove(k) \/ Lookup(k) \/ \E v \in Values : Insert(k, v)

Spec == Init /\ [][Next]_pairVars
=============================================================================
