----------------------------- MODULE Induction -----------------------------
(***************************************************************************)
(* Induction over sets of numbers, for the proofs about searches that stop *)
(* at the first place that will do, and functions defined by recursion.    *)
(***************************************************************************)
EXTENDS Naturals, TLAPS, WellFoundedInduction

\* A nonempty set of natural numbers has a least element.
LEMMA LeastElement ==
  ASSUME NEW S \in SUBSET Nat, S # {}
  PROVE  \E i \in S : \A j \in S : ~(j < i)
<1> DEFINE R == OpToRel(<, Nat)
<1>1. IsWellFoundedOn(R, Nat)
  BY NatLessThanWellFounded
<1>2. PICK i \in S : \A j \in S : <<j, i>> \notin R
  BY <1>1, WFMin
<1>3. ASSUME NEW j \in S PROVE ~(j < i)
  BY <1>2 DEF OpToRel
<1>4. QED
  BY <1>2, <1>3

\* A set that holds a number as soon as it holds all those below has them all.
LEMMA AllBelow ==
  ASSUME NEW P \in SUBSET Nat, \A n \in Nat : (\A m \in Nat : m < n => m \in P) => n \in P
  PROVE  P = Nat
<1> SUFFICES ASSUME Nat \ P # {} PROVE FALSE
  OBVIOUS
<1>1. PICK n \in Nat \ P : \A j \in Nat \ P : ~(j < n)
  BY LeastElement
<1>2. QED
  BY <1>1

\* A set that holds 0, and with each number the next, has them all.
LEMMA OneByOne ==
  ASSUME NEW P \in SUBSET Nat, 0 \in P, \A n \in P : n + 1 \in P
  PROVE  P = Nat
<1>1. ASSUME NEW n \in Nat, \A m \in Nat : m < n => m \in P PROVE n \in P
  <2>1. CASE n = 0
    BY <2>1
  <2>2. CASE n # 0
    <3>1. n - 1 \in Nat /\ n - 1 < n /\ (n - 1) + 1 = n
      BY <2>2
    <3>2. QED
      BY <1>1, <3>1
  <2>3. QED
    BY <2>1, <2>2
<1>2. QED
  BY <1>1, AllBelow

\* G makes the value of a function at each place of its values at places of a
\* lesser depth.
MadeOfLess(S, D, X, G) ==
  /\ D \in [S -> Nat]
  /\ X # {}
  /\ G \in [S -> [[S -> X] -> X]]
  /\ \A e \in S : \A f, g \in [S -> X] :
       (\A s \in S : D[s] < D[e] => f[s] = g[s]) => G[e][f] = G[e][g]

HasSolution(S, X, G) == \E f \in [S -> X] : \A e \in S : f[e] = G[e][f]

\* Then there is such a function.
LEMMA Recursion ==
  ASSUME NEW S, NEW D, NEW X, NEW G, MadeOfLess(S, D, X, G)
  PROVE  HasSolution(S, X, G)
<1> USE DEF MadeOfLess
<1> DEFINE Good(n, f) == f \in [S -> X] /\ \A e \in S : D[e] < n => f[e] = G[e][f]
           P == {n \in Nat : \E f : Good(n, f)}
<1>1. 0 \in P
  <2>1. PICK x \in X : TRUE
    OBVIOUS
  <2>2. Good(0, [e \in S |-> x])
    BY <2>1
  <2>3. QED
    BY <2>2
<1>2. ASSUME NEW n \in P PROVE n + 1 \in P
  <2>1. PICK f : Good(n, f)
    OBVIOUS
  <2> DEFINE g == [e \in S |-> IF D[e] < n THEN f[e] ELSE G[e][f]]
  <2>2. g \in [S -> X]
    BY <2>1
  <2>3. ASSUME NEW e \in S, D[e] < n + 1 PROVE g[e] = G[e][f] /\ G[e][f] = G[e][g]
    <3>1. g[e] = G[e][f]
      BY <2>1
    <3>2. \A s \in S : D[s] < D[e] => f[s] = g[s]
      BY <2>3
    <3>3. QED
      BY <2>1, <2>2, <3>1, <3>2
  <2>4. Good(n + 1, g)
    BY <2>2, <2>3
  <2>5. n + 1 \in Nat
    OBVIOUS
  <2> HIDE DEF Good
  <2>6. QED
    BY <2>4, <2>5
<1>3. P = Nat
  <2> HIDE DEF P
  <2>1. P \in SUBSET Nat
    BY DEF P
  <2>2. QED
    BY <1>1, <1>2, <2>1, OneByOne
<1>4. ASSUME NEW n \in Nat, NEW m \in Nat, n <= m, NEW f, NEW g, Good(n, f), Good(m, g)
      PROVE  \A e \in S : D[e] < n => f[e] = g[e]
  <2> DEFINE Q == {k \in Nat : \A e \in S : D[e] = k /\ k < n => f[e] = g[e]}
  <2>1. ASSUME NEW k \in Nat, \A l \in Nat : l < k => l \in Q PROVE k \in Q
    <3> SUFFICES ASSUME NEW e \in S, D[e] = k, k < n PROVE f[e] = g[e]
      OBVIOUS
    <3>1. \A s \in S : D[s] < D[e] => f[s] = g[s]
      BY <2>1
    <3>2. G[e][f] = G[e][g]
      BY <1>4, <3>1
    <3>3. QED
      BY <1>4, <3>2
  <2>2. Q = Nat
    <3> HIDE DEF Q
    <3>1. Q \in SUBSET Nat
      BY DEF Q
    <3>2. QED
      BY <2>1, <3>1, AllBelow
  <2>3. QED
    BY <2>2
<1> DEFINE at(e) == CHOOSE f : Good(D[e] + 1, f)
           F == [e \in S |-> at(e)[e]]
<1>5. ASSUME NEW e \in S PROVE Good(D[e] + 1, at(e))
  <2> HIDE DEF Good
  <2>1. D[e] + 1 \in P
    BY <1>3
  <2>2. \E f : Good(D[e] + 1, f)
    BY <2>1
  <2>3. QED
    BY <2>2
<1>6. F \in [S -> X]
  <2>1. \A e \in S : at(e)[e] \in X
    BY <1>5
  <2>2. QED
    BY <2>1
<1>7. ASSUME NEW e \in S PROVE F[e] = G[e][F]
  <2> DEFINE f == at(e)
  <2>1. Good(D[e] + 1, f)
    BY <1>5
  <2> HIDE DEF f
  <2>2. ASSUME NEW s \in S, D[s] < D[e] PROVE f[s] = F[s]
    <3> DEFINE h == at(s)
    <3>1. Good(D[s] + 1, h)
      BY <1>5
    <3>2. F[s] = h[s]
      OBVIOUS
    <3> HIDE DEF h, at, F
    <3>3. D[s] + 1 \in Nat /\ D[e] + 1 \in Nat /\ D[s] + 1 <= D[e] + 1 /\ D[s] < D[s] + 1
      BY <2>2
    <3> HIDE DEF Good
    <3>4. \A x \in S : D[x] < D[s] + 1 => h[x] = f[x]
      BY <1>4, <2>1, <3>1, <3>3
    <3>5. QED
      BY <3>2, <3>3, <3>4
  <2>3. F[e] = f[e]
    BY DEF f
  <2>4. f[e] = G[e][f] /\ f \in [S -> X]
    BY <2>1
  <2> HIDE DEF F, at, Good
  <2>5. G[e][f] = G[e][F]
    BY <1>6, <2>2, <2>4
  <2>6. QED
    BY <2>3, <2>4, <2>5
<1>8. QED
  BY <1>6, <1>7 DEF HasSolution
=============================================================================
