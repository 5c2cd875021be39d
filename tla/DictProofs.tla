----------------------------- MODULE DictProofs -----------------------------
(***************************************************************************)
(* The dictionary of the runtime is an ordered map, for any keys, values,  *)
(* hashes and least capacity: every probe ends (EveryProbeEnds), and every *)
(* behaviour is one of OrderedMap (DictIsOrdered).                         *)
(***************************************************************************)
EXTENDS Dict, Induction, FiniteSetTheorems, SequenceTheorems

(***************************************************************************)
(* Probing.                                                                *)
(***************************************************************************)

\* The facts about the table that probing rests on.
Table(m) ==
  /\ hash \in [Keys -> Nat]
  /\ cap \in Nat \ {0}
  /\ slot \in [0..(cap - 1) -> Nat]
  /\ m \in Nat /\ m < cap
  /\ Linked(m)

\* A key is at home inside the table, and so is every slot it probes.
LEMMA ProbeInside ==
  ASSUME NEW m, Table(m), NEW k \in Keys, NEW t \in 0..(cap - 1)
  PROVE  Probe(k, t) \in 0..(cap - 1)
<1>1. hash[k] \in Nat /\ cap \in Nat /\ cap > 0
  BY DEF Table
<1>2. Home(k) \in 0..(cap - 1)
  BY <1>1 DEF Home
<1>3. QED
  BY <1>1, <1>2 DEF Probe

\* Every slot is probed.
LEMMA ProbeReaches ==
  ASSUME NEW m, Table(m), NEW k \in Keys, NEW j \in 0..(cap - 1)
  PROVE  \E t \in 0..(cap - 1) : Probe(k, t) = j
<1>1. hash[k] \in Nat /\ cap \in Nat /\ cap > 0
  BY DEF Table
<1>2. Home(k) \in 0..(cap - 1)
  BY <1>1 DEF Home
<1> DEFINE t == IF Home(k) <= j THEN j - Home(k) ELSE j - Home(k) + cap
<1>3. t \in 0..(cap - 1) /\ Probe(k, t) = j
  BY <1>1, <1>2 DEF Probe
<1>4. QED
  BY <1>3

\* A table with more slots than entries has an empty one.
LEMMA SomeEmpty ==
  ASSUME NEW m, Table(m)
  PROVE  \E j \in 0..(cap - 1) : slot[j] = 0
<1> SUFFICES ASSUME \A j \in 0..(cap - 1) : slot[j] # 0 PROVE FALSE
  OBVIOUS
<1>1. cap \in Nat /\ cap > 0 /\ m \in Nat /\ m < cap
  BY DEF Table
<1>2. \A j \in 0..(cap - 1) : slot[j] \in 1..m
  BY <1>1 DEF Table, Linked
<1>3. slot \in [0..(cap - 1) -> 1..m]
  BY <1>2 DEF Table
<1>4. IsFiniteSet(0..(cap - 1)) /\ Cardinality(0..(cap - 1)) = cap
  BY <1>1, FS_Interval
<1>5. IsFiniteSet(1..m) /\ Cardinality(1..m) = m
  BY <1>1, FS_Interval
<1>6. \E i, j \in 0..(cap - 1) : i # j /\ slot[i] = slot[j]
  BY <1>1, <1>3, <1>4, <1>5, FS_PigeonHole
<1>7. QED
  BY <1>6 DEF Table, Linked

\* Every key meets an empty slot.
LEMMA MeetsEmpty ==
  ASSUME NEW m, Table(m), NEW k \in Keys
  PROVE  \E t \in 0..(cap - 1) : Empty(k, t)
<1>1. PICK j \in 0..(cap - 1) : slot[j] = 0
  BY SomeEmpty
<1>2. QED
  BY <1>1, ProbeReaches DEF Empty

\* The slot a new entry is put in: the first empty one from its home.
LEMMA FreeSlotIsFirst ==
  ASSUME NEW m, Table(m), NEW k \in Keys
  PROVE  \E t \in 0..(cap - 1) :
           /\ FreeSlot(k) = Probe(k, t)
           /\ Empty(k, t)
           /\ \A u \in 0..(t - 1) : ~Empty(k, u)
<1> DEFINE S == {t \in 0..(cap - 1) : Empty(k, t)}
           F(t) == Empty(k, t) /\ \A u \in 0..(t - 1) : ~Empty(k, u)
<1>1. cap \in Nat /\ cap > 0
  BY DEF Table
<1>2. S \in SUBSET Nat /\ S # {}
  BY <1>1, MeetsEmpty
<1>3. PICK t \in S : \A u \in S : ~(u < t)
  BY <1>2, LeastElement
<1>4. t \in 0..(cap - 1) /\ F(t)
  BY <1>1, <1>3
<1>5. FreeSlot(k) = Probe(k, CHOOSE x \in 0..(cap - 1) : F(x))
  BY DEF FreeSlot
<1> HIDE DEF F
<1>6. F(CHOOSE x \in 0..(cap - 1) : F(x)) /\ (CHOOSE x \in 0..(cap - 1) : F(x)) \in 0..(cap - 1)
  BY <1>4
<1>7. QED
  BY <1>5, <1>6 DEF F

\* Where dict_slot stops: at the first slot that holds the key or nothing.
LEMMA DictSlotIsFirst ==
  ASSUME NEW m, Table(m), NEW k \in Keys
  PROVE  \E t \in 0..(cap - 1) :
           /\ DictSlot(k) = Probe(k, t)
           /\ Stops(k, t)
           /\ \A u \in 0..(t - 1) : ~Stops(k, u)
<1> DEFINE S == {t \in 0..(cap - 1) : Stops(k, t)}
           F(t) == Stops(k, t) /\ \A u \in 0..(t - 1) : ~Stops(k, u)
<1>1. cap \in Nat /\ cap > 0
  BY DEF Table
<1>2. S \in SUBSET Nat /\ S # {}
  BY <1>1, MeetsEmpty DEF Stops
<1>3. PICK t \in S : \A u \in S : ~(u < t)
  BY <1>2, LeastElement
<1>4. t \in 0..(cap - 1) /\ F(t)
  BY <1>1, <1>3
<1>5. DictSlot(k) = Probe(k, CHOOSE x \in 0..(cap - 1) : F(x))
  BY DEF DictSlot
<1> HIDE DEF F
<1>6. F(CHOOSE x \in 0..(cap - 1) : F(x)) /\ (CHOOSE x \in 0..(cap - 1) : F(x)) \in 0..(cap - 1)
  BY <1>4
<1>7. QED
  BY <1>5, <1>6 DEF F

\* dict_slot answers: the slot of the entry with the key, or, if there is none,
\* the empty slot it would be put in.
LEMMA DictSlotAnswers ==
  ASSUME Table(Count), entries \in Seq([k : Keys, v : Values]), NEW k \in Keys
  PROVE  /\ slot[DictSlot(k)] # 0 => /\ slot[DictSlot(k)] \in DOMAIN entries
                                     /\ entries[slot[DictSlot(k)]].k = k
         /\ slot[DictSlot(k)] = 0 => /\ \A i \in DOMAIN entries : entries[i].k # k
                                     /\ \E t \in 0..(cap - 1) :
                                          /\ DictSlot(k) = Probe(k, t)
                                          /\ \A u \in 0..(t - 1) : ~Empty(k, u)
<1>1. PICK t \in 0..(cap - 1) : /\ DictSlot(k) = Probe(k, t)
                                /\ Stops(k, t)
                                /\ \A u \in 0..(t - 1) : ~Stops(k, u)
  BY DictSlotIsFirst
<1>2. Probe(k, t) \in 0..(cap - 1)
  BY ProbeInside
<1>3. slot[Probe(k, t)] \in 0..Count /\ Count \in Nat /\ DOMAIN entries = 1..Count
  BY <1>2 DEF Table, Linked, Count
<1>4. CASE slot[DictSlot(k)] # 0
  BY <1>1, <1>3, <1>4 DEF Stops, Empty
<1>5. CASE slot[DictSlot(k)] = 0
  <2>1. ASSUME NEW i \in DOMAIN entries, entries[i].k = k PROVE FALSE
    <3>1. PICK s \in 0..(cap - 1) : /\ slot[Probe(k, s)] = i
                                    /\ \A u \in 0..(s - 1) : ~Empty(k, u)
      BY <1>3, <2>1 DEF Table, Linked
    <3>2. Stops(k, s)
      BY <2>1, <3>1 DEF Stops
    <3>3. t <= s
      BY <1>1, <3>2
    <3>4. t # s
      BY <1>1, <1>3, <1>5, <3>1
    <3>5. t \in 0..(s - 1)
      BY <3>3, <3>4
    <3>6. QED
      BY <1>1, <1>5, <3>1, <3>5 DEF Empty
  <2>2. \A u \in 0..(t - 1) : ~Empty(k, u)
    BY <1>1 DEF Stops
  <2>3. QED
    BY <1>1, <1>5, <2>1, <2>2
<1>6. QED
  BY <1>4, <1>5

\* Putting the next entry in the first empty slot keeps the table linked.
LEMMA PutKeepsLinked ==
  ASSUME NEW m, Table(m), NEW k \in Keys, NEW t \in 0..(cap - 1),
         Empty(k, t), \A u \in 0..(t - 1) : ~Empty(k, u),
         hash' = hash, cap' = cap,
         slot' = [slot EXCEPT ![Probe(k, t)] = m + 1],
         entries \in Seq([k : Keys, v : Values]), m <= Count,
         \A i \in 1..m : entries'[i].k = entries[i].k,
         entries'[m + 1].k = k
  PROVE  Linked(m + 1)'
<1> DEFINE p == Probe(k, t)
<1>1. m \in Nat /\ cap \in Nat /\ cap > 0 /\ slot \in [0..(cap - 1) -> Nat]
  BY DEF Table
<1>2. p \in 0..(cap - 1) /\ slot[p] = 0
  BY ProbeInside DEF Empty
<1>3. /\ slot'[p] = m + 1
      /\ \A j \in 0..(cap - 1) : j # p => slot'[j] = slot[j]
  BY <1>1, <1>2
<1>4. \A x, u : Probe(x, u)' = Probe(x, u)
  BY DEF Probe, Home
<1>5. \A j \in 0..(cap - 1) : slot[j] \in 0..m
  BY DEF Table, Linked
<1>6. \A j \in 0..(cap - 1) : slot'[j] \in 0..(m + 1)
  BY <1>1, <1>3, <1>5
<1>7. \A i, j \in 0..(cap - 1) : slot'[i] = slot'[j] /\ slot'[i] # 0 => i = j
  BY <1>1, <1>3, <1>5 DEF Table, Linked
<1>8. ASSUME NEW x \in Keys, NEW s \in 0..(cap - 1), \A u \in 0..(s - 1) : ~Empty(x, u)
      PROVE  \A u \in 0..(s - 1) : ~Empty(x, u)'
  <2>1. SUFFICES ASSUME NEW u \in 0..(s - 1) PROVE ~Empty(x, u)'
    OBVIOUS
  <2>2. u \in 0..(cap - 1)
    BY <1>1
  <2>5. Probe(x, u) \in 0..(cap - 1)
    BY <2>2, ProbeInside
  <2>3. slot[Probe(x, u)] # 0
    BY <1>8 DEF Empty
  <2>4. QED
    BY <1>1, <1>2, <1>3, <1>4, <2>2, <2>3, <2>5 DEF Empty
<1>9. ASSUME NEW i \in 1..(m + 1), NEW x \in Keys, x = entries'[i].k
      PROVE  \E s \in 0..(cap - 1) : /\ slot'[Probe(x, s)] = i
                                     /\ \A u \in 0..(s - 1) : ~Empty(x, u)'
  <2>1. CASE i = m + 1
    <3>1. x = k
      BY <1>9, <2>1
    <3>2. QED
      BY <1>3, <1>8, <2>1, <3>1
  <2>2. CASE i \in 1..m
    <3>1. x = entries[i].k
      BY <1>9, <2>2
    <3>2. PICK s \in 0..(cap - 1) : /\ slot[Probe(x, s)] = i
                                    /\ \A u \in 0..(s - 1) : ~Empty(x, u)
      BY <2>2, <3>1 DEF Table, Linked
    <3>3. Probe(x, s) \in 0..(cap - 1)
      BY ProbeInside
    <3>4. i # 0
      BY <1>1, <2>2
    <3>5. slot'[Probe(x, s)] = i
      BY <1>2, <1>3, <3>2, <3>3, <3>4
    <3>6. \A u \in 0..(s - 1) : ~Empty(x, u)'
      BY <1>8, <3>2
    <3>7. QED
      BY <3>5, <3>6
  <2>3. QED
    BY <1>1, <2>1, <2>2
<1>11. ASSUME NEW i \in 1..(m + 1)
       PROVE  entries'[i].k \in Keys
  <2>1. CASE i = m + 1
    BY <2>1
  <2>2. CASE i \in 1..m
    <3>1. i \in 1..Len(entries)
      BY <1>1, <2>2 DEF Count
    <3>2. entries[i] \in [k : Keys, v : Values]
      BY <3>1, ElementOfSeq
    <3>3. QED
      BY <2>2, <3>2
  <2>3. QED
    BY <1>1, <2>1, <2>2
<1>12. ASSUME NEW i \in 1..(m + 1)
       PROVE  \E s \in 0..(cap - 1) : /\ slot'[Probe(entries[i].k, s)'] = i
                                      /\ \A u \in 0..(s - 1) : ~Empty(entries[i].k, u)'
  <2>1. PICK x \in Keys : x = entries'[i].k
    BY <1>11
  <2>2. PICK s \in 0..(cap - 1) : /\ slot'[Probe(x, s)] = i
                                  /\ \A u \in 0..(s - 1) : ~Empty(x, u)'
    BY <1>9, <2>1
  <2>3. slot'[Probe(entries[i].k, s)'] = i
    BY <2>1, <2>2 DEF Probe, Home
  <2>4. ASSUME NEW u \in 0..(s - 1) PROVE ~Empty(entries[i].k, u)'
    BY <2>1, <2>2 DEF Empty, Probe, Home
  <2>5. QED
    BY <2>3, <2>4
<1>10. QED
  BY <1>6, <1>7, <1>12 DEF Linked

(***************************************************************************)
(* The invariant.                                                          *)
(***************************************************************************)
Types == [k : Keys, v : Values]

LEMMA InitInvariant == Init => IInv
BY DictAssumption DEF Init, IInv, TypeOK, Distinct, Ready, Linked, Count

\* A dictionary that is ready, and one whose entries are being put back, have a
\* table to probe.
LEMMA ReadyTable ==
  ASSUME IInv, Ready
  PROVE  /\ Table(Count)
         /\ Count \in Nat /\ DOMAIN entries = 1..Count /\ entries \in Seq(Types)
<1>1. Count \in Nat /\ DOMAIN entries = 1..Count /\ entries \in Seq(Types)
  BY DEF IInv, TypeOK, Count, Types
<1>2. cap \in Nat /\ cap >= 2 * Count + 2
  BY DEF IInv, TypeOK, Ready
<1>3. QED
  BY <1>1, <1>2 DEF IInv, TypeOK, Ready, Table

LEMMA IndexingTable ==
  ASSUME IInv, phase = "indexing"
  PROVE  /\ Table(next - 1)
         /\ next - 1 <= Count
         /\ Count \in Nat /\ DOMAIN entries = 1..Count /\ entries \in Seq(Types)
<1>1. Count \in Nat /\ DOMAIN entries = 1..Count /\ entries \in Seq(Types)
  BY DEF IInv, TypeOK, Count, Types
<1>2. cap \in Nat /\ cap >= 2 * Count + 2 /\ next \in Nat \ {0} /\ next <= Count + 1
  BY DEF IInv, TypeOK, Ready
<1>3. QED
  BY <1>1, <1>2 DEF IInv, TypeOK, Table

\* Every probe ends.
LEMMA InvariantProbesEnd == IInv => ProbesEnd
<1> SUFFICES ASSUME IInv PROVE ProbesEnd
  OBVIOUS
<1>1. ASSUME Ready, NEW k \in Keys PROVE \E t \in 0..(cap - 1) : Stops(k, t)
  BY <1>1, ReadyTable, MeetsEmpty DEF Stops
<1>2. ASSUME phase = "indexing", NEW k \in Keys PROVE \E t \in 0..(cap - 1) : Empty(k, t)
  BY <1>2, IndexingTable, MeetsEmpty
<1>3. QED
  BY <1>1, <1>2 DEF ProbesEnd

\* What dict_slot answers for a dictionary that is ready.
LEMMA SlotAnswers ==
  ASSUME IInv, Ready, NEW k \in Keys
  PROVE  /\ slot[DictSlot(k)] # 0 => /\ slot[DictSlot(k)] \in DOMAIN entries
                                     /\ entries[slot[DictSlot(k)]].k = k
         /\ slot[DictSlot(k)] = 0 => /\ \A i \in DOMAIN entries : entries[i].k # k
                                     /\ \E t \in 0..(cap - 1) :
                                          /\ DictSlot(k) = Probe(k, t)
                                          /\ \A u \in 0..(t - 1) : ~Empty(k, u)
BY ReadyTable, DictSlotAnswers DEF Types

\* A step that leaves the table and the entries alone.
LEMMA SameTable ==
  ASSUME IInv, UNCHANGED <<hash, entries, cap, slot, phase, size, next>>
  PROVE  IInv'
<1>1. TypeOK'
  BY DEF IInv, TypeOK
<1>2. Distinct' /\ Count' = Count /\ Ready' = Ready
  BY DEF IInv, Distinct, Count, Ready
<1>3. \A m : Linked(m)' = Linked(m)
  BY DEF Linked, Empty, Probe, Home
<1>4. QED
  BY <1>1, <1>2, <1>3 DEF IInv

LEMMA ReplaceKeeps ==
  ASSUME IInv, NEW k \in Keys, NEW v \in Values, Replace(k, v)
  PROVE  IInv'
<1> DEFINE i == slot[DictSlot(k)]
<1>1. Ready /\ i # 0 /\ entries' = [entries EXCEPT ![i] = Entry(k, v)]
  BY DEF Replace
<1>2. UNCHANGED <<hash, cap, slot, phase, size, next>>
  BY DEF Replace, NoReindex
<1>3. i \in DOMAIN entries /\ entries[i].k = k
  BY <1>1, SlotAnswers
<1>4. entries \in Seq(Types) /\ Entry(k, v) \in Types
  BY DEF Entry, Types, IInv, TypeOK
<1> HIDE DEF i
<1>5. /\ entries' \in Seq(Types) /\ DOMAIN entries' = DOMAIN entries /\ Count' = Count
      /\ \A j \in DOMAIN entries : entries'[j].k = entries[j].k
  BY <1>1, <1>3, <1>4 DEF Entry, Count
<1>6. TypeOK'
  BY <1>2, <1>5 DEF IInv, TypeOK, Types
<1>7. Distinct'
  BY <1>5 DEF IInv, Distinct
<1>8. Linked(Count)'
  <2>1. PICK m \in Nat : m = Count
    BY <1>1, ReadyTable
  <2>2. Linked(m) /\ DOMAIN entries = 1..m
    BY <1>1, <2>1, ReadyTable DEF Table
  <2>3. \A j \in 1..m : entries'[j].k = entries[j].k
    BY <1>5, <2>2
  <2>4. Linked(m)'
    <3>1. ASSUME NEW j \in 1..m
          PROVE  (\E t \in 0..(cap - 1) : /\ slot[Probe(entries[j].k, t)] = j
                                          /\ \A u \in 0..(t - 1) : ~Empty(entries[j].k, u))'
      <4>1. PICK t \in 0..(cap - 1) : /\ slot[Probe(entries[j].k, t)] = j
                                      /\ \A u \in 0..(t - 1) : ~Empty(entries[j].k, u)
        BY <2>2 DEF Linked
      <4>2. QED
        BY <1>2, <2>3, <4>1 DEF Empty, Probe, Home
    <3>2. QED
      BY <1>2, <2>2, <3>1 DEF Linked
  <2>5. QED
    BY <1>5, <2>1, <2>4 DEF Linked
<1>9. QED
  BY <1>1, <1>2, <1>5, <1>6, <1>7, <1>8 DEF IInv, Ready

LEMMA AddKeeps ==
  ASSUME IInv, NEW k \in Keys, NEW v \in Values, Add(k, v)
  PROVE  IInv'
<1>1. /\ Ready /\ slot[DictSlot(k)] = 0
      /\ entries' = Append(entries, Entry(k, v))
      /\ slot' = [slot EXCEPT ![DictSlot(k)] = Count + 1]
      /\ hash' = hash /\ cap' = cap
  BY DEF Add
<1>2. /\ Table(Count)
      /\ Count \in Nat /\ DOMAIN entries = 1..Count /\ entries \in Seq(Types)
  BY <1>1, ReadyTable
<1>3. Entry(k, v) \in Types /\ Entry(k, v).k = k
  BY DEF Entry, Types
<1>4. /\ entries' \in Seq(Types) /\ Count' = Count + 1 /\ DOMAIN entries' = 1..(Count + 1)
      /\ \A i \in 1..Count : entries'[i] = entries[i]
      /\ entries'[Count + 1] = Entry(k, v)
  BY <1>1, <1>2, <1>3 DEF Count
<1>5. \A i \in 1..Count : entries[i].k # k
  BY <1>1, <1>2, SlotAnswers
<1>6. Distinct'
  BY <1>2, <1>3, <1>4, <1>5 DEF IInv, Distinct
<1>7. PICK t \in 0..(cap - 1) : /\ DictSlot(k) = Probe(k, t)
                                /\ \A u \in 0..(t - 1) : ~Empty(k, u)
  BY <1>1, SlotAnswers
<1>8. Empty(k, t)
  BY <1>1, <1>7 DEF Empty
<1>9. PICK m \in Nat : m = Count
  BY <1>2
<1>15. Linked(m + 1)'
  <2>1. Table(m) /\ m <= Count
    BY <1>2, <1>9
  <2>2. slot' = [slot EXCEPT ![Probe(k, t)] = m + 1]
    BY <1>1, <1>7, <1>9
  <2>3. (\A i \in 1..m : entries'[i].k = entries[i].k) /\ entries'[m + 1].k = k
    BY <1>3, <1>4, <1>9
  <2>4. entries \in Seq([k : Keys, v : Values]) /\ hash' = hash /\ cap' = cap
    BY <1>1, <1>2 DEF Types
  <2>5. QED
    BY <1>7, <1>8, <2>1, <2>2, <2>3, <2>4, PutKeepsLinked
<1>10. DictSlot(k) \in 0..(cap - 1)
  BY <1>2, <1>7, ProbeInside
<1>11. slot' \in [0..(cap' - 1) -> Nat]
  BY <1>1, <1>2, <1>10 DEF IInv, TypeOK
<1>12. CASE 2 * (Count + 1) + 2 > cap
  <2>1. phase' = "sizing" /\ size' = MinCap /\ next' = 1
    BY <1>12 DEF Add, Reindex
  <2>2. TypeOK'
    BY <1>1, <1>4, <1>11, <2>1, DictAssumption DEF IInv, TypeOK, Types
  <2>3. QED
    BY <1>6, <2>1, <2>2 DEF IInv, Ready
<1>13. CASE ~(2 * (Count + 1) + 2 > cap)
  <2>1. UNCHANGED <<phase, size, next>>
    BY <1>13 DEF Add, NoReindex
  <2>2. TypeOK'
    BY <1>1, <1>4, <1>11, <2>1 DEF IInv, TypeOK, Types
  <2>3. cap' >= 2 * Count' + 2
    BY <1>1, <1>2, <1>4, <1>13 DEF IInv, TypeOK
  <2>4. Linked(Count)'
    BY <1>4, <1>9, <1>15 DEF Linked
  <2>5. QED
    BY <1>1, <1>6, <2>1, <2>2, <2>3, <2>4 DEF IInv, Ready
<1>14. QED
  BY <1>12, <1>13

LEMMA RemoveKeeps ==
  ASSUME IInv, NEW k \in Keys, Remove(k)
  PROVE  IInv'
<1> DEFINE i == slot[DictSlot(k)]
<1>1. /\ Ready /\ i # 0 /\ entries' = RemoveAt(i)
      /\ phase' = "sizing" /\ size' = MinCap /\ next' = 1
      /\ UNCHANGED <<hash, cap, slot>>
  BY DEF Remove, Reindex
<1>2. Count \in Nat /\ DOMAIN entries = 1..Count /\ entries \in Seq(Types) /\ i \in 1..Count
  BY <1>1, ReadyTable, SlotAnswers
<1> HIDE DEF i
<1>3. /\ DOMAIN entries' = 1..(Count - 1)
      /\ \A j \in 1..(Count - 1) : entries'[j] = IF j < i THEN entries[j] ELSE entries[j + 1]
  BY <1>1 DEF RemoveAt
<1>4. \A j \in 1..(Count - 1) : j \in 1..Count /\ j + 1 \in 1..Count
  BY <1>2
<1>5. entries' \in [1..(Count - 1) -> Types]
  BY <1>1, <1>2, <1>4 DEF RemoveAt
<1>6. entries' \in Seq(Types)
  BY <1>2, <1>5
<1>7. Distinct'
  <2>1. SUFFICES ASSUME NEW a \in 1..(Count - 1), NEW b \in 1..(Count - 1),
                        entries'[a].k = entries'[b].k
                 PROVE  a = b
    BY <1>3 DEF Distinct
  <2> DEFINE A == IF a < i THEN a ELSE a + 1
             B == IF b < i THEN b ELSE b + 1
  <2>2. A \in DOMAIN entries /\ B \in DOMAIN entries
    BY <1>2, <1>4
  <2>3. entries'[a] = entries[A] /\ entries'[b] = entries[B]
    BY <1>3
  <2>4. A = B
    BY <2>1, <2>2, <2>3 DEF IInv, Distinct
  <2>5. QED
    BY <1>2, <2>4
<1>8. TypeOK'
  BY <1>1, <1>6, DictAssumption DEF IInv, TypeOK, Types
<1>9. QED
  BY <1>1, <1>7, <1>8 DEF IInv, Ready

LEMMA DoubleKeeps ==
  ASSUME IInv, Double
  PROVE  IInv'
<1>1. /\ phase = "sizing" /\ size' = 2 * size
      /\ UNCHANGED <<hash, entries, cap, slot, phase, next>>
  BY DEF Double
<1>2. TypeOK' /\ Distinct'
  BY <1>1 DEF IInv, TypeOK, Distinct
<1>3. QED
  BY <1>1, <1>2 DEF IInv, Ready

LEMMA ClearKeeps ==
  ASSUME IInv, Clear
  PROVE  IInv'
<1>1. /\ phase = "sizing" /\ size >= 2 * Count + 2 /\ cap' = size
      /\ slot' = [j \in 0..(size - 1) |-> 0] /\ phase' = "indexing"
      /\ UNCHANGED <<hash, entries, size, next>>
  BY DEF Clear
<1>2. Count' = Count /\ Count \in Nat /\ next \in Nat \ {0} /\ size \in Nat \ {0}
  BY <1>1 DEF IInv, TypeOK, Count
<1>3. TypeOK' /\ Distinct'
  BY <1>1, <1>2 DEF IInv, TypeOK, Distinct
<1>4. QED
  BY <1>1, <1>2, <1>3 DEF IInv, Ready, Linked

LEMMA IndexKeeps ==
  ASSUME IInv, Index
  PROVE  IInv'
<1> DEFINE k == entries[next].k
<1>1. /\ phase = "indexing" /\ next <= Count
      /\ slot' = [slot EXCEPT ![FreeSlot(k)] = next]
      /\ next' = next + 1
      /\ UNCHANGED <<hash, entries, cap, phase, size>>
  BY DEF Index
<1>2. PICK m \in Nat : next = m + 1
  BY DEF IInv, TypeOK
<1>3. /\ Table(m) /\ m <= Count
      /\ Count \in Nat /\ DOMAIN entries = 1..Count /\ entries \in Seq(Types)
  BY <1>1, <1>2, IndexingTable
<1>4. entries[m + 1] \in Types
  BY <1>1, <1>2, <1>3
<1>5. PICK x \in Keys : x = entries[m + 1].k
  BY <1>4 DEF Types
<1>6. PICK t \in 0..(cap - 1) : /\ FreeSlot(x) = Probe(x, t)
                                /\ Empty(x, t)
                                /\ \A u \in 0..(t - 1) : ~Empty(x, u)
  BY <1>3, FreeSlotIsFirst
<1>7. slot' = [slot EXCEPT ![Probe(x, t)] = m + 1]
  BY <1>1, <1>2, <1>5, <1>6
<1>8. Linked(m + 1)'
  <2>1. (\A i \in 1..m : entries'[i].k = entries[i].k) /\ entries'[m + 1].k = x
    BY <1>1, <1>5
  <2>2. entries \in Seq([k : Keys, v : Values]) /\ hash' = hash /\ cap' = cap
    BY <1>1, <1>3 DEF Types
  <2>3. QED
    BY <1>3, <1>6, <1>7, <2>1, <2>2, PutKeepsLinked
<1>9. Probe(x, t) \in 0..(cap - 1)
  BY <1>3, ProbeInside
<1>10. slot' \in [0..(cap - 1) -> Nat]
  BY <1>3, <1>7, <1>9 DEF Table
<1>11. TypeOK' /\ Distinct'
  BY <1>1, <1>10 DEF IInv, TypeOK, Distinct
<1>12. Count' = Count /\ next' - 1 = m + 1 /\ next' <= Count + 1
  BY <1>1, <1>2, <1>3 DEF Count
<1>13. Linked(next - 1)'
  BY <1>8, <1>12 DEF Linked
<1>14. QED
  BY <1>1, <1>11, <1>12, <1>13 DEF IInv, Ready

LEMMA IndexedKeeps ==
  ASSUME IInv, Indexed
  PROVE  IInv'
<1>1. /\ phase = "indexing" /\ next > Count /\ phase' = "ready"
      /\ UNCHANGED <<hash, entries, cap, slot, size, next>>
  BY DEF Indexed
<1>2. next - 1 = Count /\ Linked(next - 1)
  BY <1>1, IndexingTable DEF IInv, TypeOK
<1>3. TypeOK' /\ Distinct' /\ Count' = Count
  BY <1>1 DEF IInv, TypeOK, Distinct, Count
<1>4. PICK m \in Nat : m = Count
  BY <1>1, IndexingTable
<1>5. Linked(m)'
  BY <1>1, <1>2, <1>4 DEF Linked, Empty, Probe, Home
<1>6. Linked(Count)'
  BY <1>3, <1>4, <1>5 DEF Linked
<1>7. QED
  BY <1>1, <1>3, <1>6 DEF IInv, Ready

\* Every step keeps the invariant.
LEMMA StepInvariant == IInv /\ [Next]_vars => IInv'
<1> SUFFICES ASSUME IInv, [Next]_vars PROVE IInv'
  OBVIOUS
<1>1. CASE AllKeys
  BY <1>1, SameTable DEF AllKeys
<1>2. ASSUME NEW k \in Keys, RemoveNone(k) \/ Lookup(k) PROVE IInv'
  BY <1>2, SameTable DEF RemoveNone, Lookup
<1>3. CASE UNCHANGED vars
  BY <1>3, SameTable DEF vars
<1>4. QED
  BY <1>1, <1>2, <1>3, ReplaceKeeps, AddKeeps, RemoveKeeps, DoubleKeeps, ClearKeeps,
     IndexKeeps, IndexedKeeps DEF Next

(***************************************************************************)
(* The map a program sees.                                                 *)
(***************************************************************************)

\* An operation of the dictionary is that operation of the ordered map.
LEMMA ReplaceIsInsert ==
  ASSUME IInv, NEW k \in Keys, NEW v \in Values, Replace(k, v)
  PROVE  Promise!Insert(k, v)
<1> DEFINE i == slot[DictSlot(k)]
<1>1. Ready /\ i # 0 /\ entries' = [entries EXCEPT ![i] = Entry(k, v)] /\ answer' = Nothing
  BY DEF Replace
<1>2. i \in DOMAIN entries /\ entries[i].k = k
  BY <1>1, SlotAnswers
<1> HIDE DEF i
<1>3. i \in Promise!IndexesOf(k)
  BY <1>2 DEF Promise!IndexesOf
<1>4. QED
  BY <1>1, <1>3
  DEF Promise!Insert, Promise!Replace, Promise!Pair, Entry, Promise!Nothing, Nothing

LEMMA AddIsInsert ==
  ASSUME IInv, NEW k \in Keys, NEW v \in Values, Add(k, v)
  PROVE  Promise!Insert(k, v)
<1>1. /\ Ready /\ slot[DictSlot(k)] = 0
      /\ entries' = Append(entries, Entry(k, v)) /\ answer' = Nothing
  BY DEF Add
<1>2. Promise!IndexesOf(k) = {}
  BY <1>1, SlotAnswers DEF Promise!IndexesOf
<1>3. QED
  BY <1>1, <1>2
  DEF Promise!Insert, Promise!Add, Promise!Pair, Entry, Promise!Nothing, Nothing

LEMMA RemoveIsRemove ==
  ASSUME IInv, NEW k \in Keys, Remove(k)
  PROVE  Promise!Remove(k)
<1> DEFINE i == slot[DictSlot(k)]
<1>1. Ready /\ i # 0 /\ entries' = RemoveAt(i) /\ answer' = Nothing
  BY DEF Remove
<1>2. i \in DOMAIN entries /\ entries[i].k = k
  BY <1>1, SlotAnswers
<1> HIDE DEF i
<1>3. i \in Promise!IndexesOf(k)
  BY <1>2 DEF Promise!IndexesOf
<1>4. entries' = Promise!Without(i)
  BY <1>1 DEF RemoveAt, Promise!Without, Count
<1>5. QED
  BY <1>1, <1>3, <1>4 DEF Promise!Remove, Promise!Nothing, Nothing

LEMMA RemoveNoneIsRemove ==
  ASSUME IInv, NEW k \in Keys, RemoveNone(k)
  PROVE  Promise!Remove(k)
<1>1. Ready /\ slot[DictSlot(k)] = 0 /\ entries' = entries /\ answer' = Nothing
  BY DEF RemoveNone
<1>2. Promise!IndexesOf(k) = {}
  BY <1>1, SlotAnswers DEF Promise!IndexesOf
<1>3. QED
  BY <1>1, <1>2 DEF Promise!Remove, Promise!Nothing, Nothing

LEMMA LookupIsLookup ==
  ASSUME IInv, NEW k \in Keys, Lookup(k)
  PROVE  Promise!Lookup(k)
<1> DEFINE i == slot[DictSlot(k)]
<1>1. /\ Ready /\ entries' = entries
      /\ answer' = IF i = 0 THEN Nothing ELSE Found(entries[i].v)
  BY DEF Lookup
<1>2. CASE i = 0
  <2>1. Promise!IndexesOf(k) = {}
    BY <1>1, <1>2, SlotAnswers DEF Promise!IndexesOf
  <2>2. QED
    BY <1>1, <1>2, <2>1 DEF Promise!Lookup, Promise!Nothing, Nothing
<1>3. CASE i # 0
  <2>1. i \in DOMAIN entries /\ entries[i].k = k
    BY <1>1, <1>3, SlotAnswers
  <2> HIDE DEF i
  <2>2. i \in Promise!IndexesOf(k)
    BY <2>1 DEF Promise!IndexesOf
  <2>3. QED
    BY <1>1, <1>3, <2>2 DEF Promise!Lookup, Promise!Found, Found
<1>4. QED
  BY <1>2, <1>3

\* A step of the dictionary is a step of the map, or none.
LEMMA StepIsStep ==
  ASSUME IInv, [Next]_vars
  PROVE  [Promise!Next]_(Promise!pairVars)
<1>1. CASE AllKeys
  BY <1>1 DEF AllKeys, Promise!Next, Promise!AllKeys, Promise!Listed, Listed
<1>2. CASE Double \/ Clear \/ Index \/ Indexed \/ UNCHANGED vars
  BY <1>2 DEF Double, Clear, Index, Indexed, vars, Promise!pairVars
<1>3. ASSUME NEW k \in Keys, Remove(k) \/ RemoveNone(k) \/ Lookup(k)
      PROVE  Promise!Next
  BY <1>3, RemoveIsRemove, RemoveNoneIsRemove, LookupIsLookup DEF Promise!Next
<1>4. ASSUME NEW k \in Keys, NEW v \in Values, Replace(k, v) \/ Add(k, v)
      PROVE  Promise!Next
  BY <1>4, ReplaceIsInsert, AddIsInsert DEF Promise!Next
<1>5. QED
  BY <1>1, <1>2, <1>3, <1>4 DEF Next

(***************************************************************************)
(* The theorems.                                                           *)
(***************************************************************************)

\* The table always holds the entries, each where a probe finds it.
THEOREM InvariantHolds == Spec => []IInv
<1>1. Init => IInv
  BY InitInvariant
<1>2. IInv /\ [Next]_vars => IInv'
  BY StepInvariant
<1>3. QED
  BY <1>1, <1>2, PTL DEF Spec

\* No probe goes round the table for ever: dict_slot and dict_reindex end.
THEOREM EveryProbeEnds == Spec => []ProbesEnd
BY InvariantHolds, InvariantProbesEnd, PTL

\* A program cannot tell the hash table from the ordered map (vibert.c: "the
\* order a program sees does not depend on the hash; re-inserting a key keeps
\* its place and replaces its value").
THEOREM DictIsOrdered == Spec => Ordered
<1>1. Init => Promise!Init
  BY DEF Init, Promise!Init, Nothing, Promise!Nothing
<1>2. IInv /\ [Next]_vars => [Promise!Next]_(Promise!pairVars)
  BY StepIsStep
<1>3. QED
  BY <1>1, <1>2, InvariantHolds, PTL DEF Spec, Ordered, Promise!Spec
=============================================================================
