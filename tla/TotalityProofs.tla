--------------------------- MODULE TotalityProofs ---------------------------
(***************************************************************************)
(* What the termination check accepts descends: each call inside a group   *)
(* lowers the measure as numbers, for every program and every value.       *)
(***************************************************************************)
EXTENDS Totality, Induction, FiniteSetTheorems, SequenceTheorems

(***************************************************************************)
(* SumTo.                                                                   *)
(***************************************************************************)
LEMMA SumsAre ==
  ASSUME NEW n \in Nat, NEW f \in [1..n -> Int]
  PROVE  /\ SumAll(f) = SumTo(f)[n]
         /\ SumTo(f) \in [0..n -> Int]
         /\ SumTo(f)[0] = 0
         /\ \A i \in 1..n : SumTo(f)[i] = SumTo(f)[i - 1] + f[i]
<1>1. Len(f) = n
  OBVIOUS
<1> DEFINE D == [i \in 0..n |-> i]
           G == [i \in 0..n |-> [s \in [0..n -> Int] |-> IF i = 0 THEN 0 ELSE s[i - 1] + f[i]]]
<1>2. \A i \in 1..n : i - 1 \in 0..n /\ i - 1 < i /\ i \in 0..n
  OBVIOUS
<1>3. D \in [0..n -> Nat] /\ G \in [0..n -> [[0..n -> Int] -> Int]]
  <2>1. ASSUME NEW i \in 0..n, NEW s \in [0..n -> Int] PROVE (IF i = 0 THEN 0 ELSE s[i - 1] + f[i]) \in Int
    BY <1>2
  <2>2. QED
    BY <2>1
<1>4. ASSUME NEW i \in 0..n, NEW s \in [0..n -> Int], NEW t \in [0..n -> Int],
             \A j \in 0..n : D[j] < D[i] => s[j] = t[j]
      PROVE  G[i][s] = G[i][t]
  <2>1. CASE i = 0
    BY <2>1
  <2>2. CASE i # 0
    <3>1. i \in 1..n
      BY <2>2
    <3>2. s[i - 1] = t[i - 1]
      BY <1>2, <1>4, <3>1
    <3>3. QED
      BY <3>2
  <2>3. QED
    BY <2>1, <2>2
<1>5. PICK s \in [0..n -> Int] : \A i \in 0..n : s[i] = G[i][s]
  <2>1. Int # {}
    OBVIOUS
  <2>2. \A e \in 0..n : \A g, h \in [0..n -> Int] :
          (\A j \in 0..n : D[j] < D[e] => g[j] = h[j]) => G[e][g] = G[e][h]
    BY <1>4
  <2> HIDE DEF D, G
  <2>3. MadeOfLess(0..n, D, Int, G)
    BY <1>3, <2>1, <2>2 DEF MadeOfLess
  <2>4. HasSolution(0..n, Int, G)
    BY <2>3, Recursion
  <2>5. QED
    BY <2>4 DEF HasSolution
<1>6. s = [i \in 0..n |-> IF i = 0 THEN 0 ELSE s[i - 1] + f[i]]
  BY <1>5
<1>7. SumTo(f) = [i \in 0..n |-> IF i = 0 THEN 0 ELSE SumTo(f)[i - 1] + f[i]]
  <2>1. SumTo(f) = CHOOSE g : g = [i \in 0..n |-> IF i = 0 THEN 0 ELSE g[i - 1] + f[i]]
    BY <1>1 DEF SumTo
  <2>2. QED
    BY <1>6, <2>1
<1>8. SumAll(f) = SumTo(f)[n]
  BY <1>1 DEF SumAll
<1>9. SumTo(f) \in [0..n -> Int]
  <2> DEFINE P == {i \in Nat : i <= n => SumTo(f)[i] \in Int}
  <2>1. ASSUME NEW i \in Nat, \A j \in Nat : j < i => j \in P PROVE i \in P
    <3> SUFFICES ASSUME i <= n PROVE SumTo(f)[i] \in Int
      OBVIOUS
    <3>1. CASE i = 0
      BY <1>7, <3>1
    <3>2. CASE i # 0
      <4>1. i \in 1..n /\ i - 1 \in Nat /\ i - 1 < i /\ i - 1 <= n
        BY <3>2
      <4>2. SumTo(f)[i - 1] \in Int /\ f[i] \in Int
        BY <2>1, <4>1
      <4>3. SumTo(f)[i] = SumTo(f)[i - 1] + f[i]
        <5> HIDE DEF P
        <5>1. i \in 0..n
          BY <4>1
        <5>2. QED
          BY <1>7, <3>2, <5>1
      <4>4. QED
        BY <4>2, <4>3
    <3>3. QED
      BY <3>1, <3>2
  <2>2. P = Nat
    <3>1. P \in SUBSET Nat
      OBVIOUS
    <3> HIDE DEF P
    <3>2. QED
      BY <2>1, <3>1, AllBelow
  <2>3. \A i \in 0..n : SumTo(f)[i] \in Int
    BY <2>2
  <2>4. QED
    BY <1>7, <2>3
<1>10. QED
  BY <1>7, <1>8, <1>9

\* A sum of numbers is a number, that of none is 0.
LEMMA SumIsNumber ==
  ASSUME NEW n \in Nat, NEW f \in [1..n -> Int]
  PROVE  SumAll(f) \in Int /\ (n = 0 => SumAll(f) = 0)
BY SumsAre

\* What is said of the sum of the first t numbers is shown for one more at a time.
LEMMA SumStep ==
  ASSUME NEW n \in Nat, NEW f \in [1..n -> Int], NEW t \in 0..n, t + 1 <= n
  PROVE  /\ t + 1 \in 1..n /\ f[t + 1] \in Int /\ SumTo(f)[t] \in Int
         /\ SumTo(f)[t + 1] = SumTo(f)[t] + f[t + 1]
<1>1. t + 1 \in 1..n /\ (t + 1) - 1 = t
  OBVIOUS
<1>2. SumTo(f)[t + 1] = SumTo(f)[(t + 1) - 1] + f[t + 1] /\ SumTo(f)[t] \in Int
  BY <1>1, SumsAre
<1>3. QED
  BY <1>1, <1>2

\* The sum of numbers and of multiples of others.
LEMMA SumScaled ==
  ASSUME NEW n \in Nat, NEW f \in [1..n -> Int], NEW g \in [1..n -> Int], NEW k \in Int
  PROVE  SumAll([i \in 1..n |-> f[i] + g[i] * k]) = SumAll(f) + SumAll(g) * k
<1> DEFINE h == [i \in 1..n |-> f[i] + g[i] * k]
           P == {t \in Nat : t <= n => SumTo(h)[t] = SumTo(f)[t] + SumTo(g)[t] * k}
<1>1. h \in [1..n -> Int]
  OBVIOUS
<1>2. 0 \in P
  <2> HIDE DEF h
  <2>1. SumTo(h)[0] = 0 /\ SumTo(f)[0] = 0 /\ SumTo(g)[0] = 0
    BY <1>1, SumsAre
  <2>2. QED
    BY <2>1
<1>3. ASSUME NEW t \in P PROVE t + 1 \in P
  <2> SUFFICES ASSUME t + 1 <= n
               PROVE  SumTo(h)[t + 1] = SumTo(f)[t + 1] + SumTo(g)[t + 1] * k
    OBVIOUS
  <2>1. t \in 0..n /\ t + 1 \in 1..n
    OBVIOUS
  <2>2. h[t + 1] = f[t + 1] + g[t + 1] * k
    BY <2>1
  <2>3. SumTo(h)[t] = SumTo(f)[t] + SumTo(g)[t] * k
    BY <2>1
  <2> HIDE DEF h, P
  <2>4. SumTo(h)[t + 1] = SumTo(h)[t] + h[t + 1]
    BY <1>1, <2>1, SumStep
  <2>5. /\ SumTo(f)[t + 1] = SumTo(f)[t] + f[t + 1]
        /\ f[t + 1] \in Int /\ SumTo(f)[t] \in Int
    BY <2>1, SumStep
  <2>6. /\ SumTo(g)[t + 1] = SumTo(g)[t] + g[t + 1]
        /\ g[t + 1] \in Int /\ SumTo(g)[t] \in Int
    BY <2>1, SumStep
  <2>7. \A x, y \in Int : (x + y) * k = x * k + y * k
    OBVIOUS
  <2>8. SumTo(g)[t + 1] * k = SumTo(g)[t] * k + g[t + 1] * k
    BY <2>6, <2>7
  <2>9. SumTo(g)[t] * k \in Int /\ g[t + 1] * k \in Int
    BY <2>6
  <2>10. QED
    BY <2>2, <2>3, <2>4, <2>5, <2>8, <2>9
<1>4. P = Nat
  <2>1. P \in SUBSET Nat
    OBVIOUS
  <2> HIDE DEF P
  <2>2. QED
    BY <1>2, <1>3, <2>1, OneByOne
<1> HIDE DEF h
<1>5. SumTo(h)[n] = SumTo(f)[n] + SumTo(g)[n] * k
  <2>1. n \in P
    BY <1>4
  <2>2. QED
    BY <2>1
<1>6. SumAll(h) = SumTo(h)[n] /\ SumAll(f) = SumTo(f)[n] /\ SumAll(g) = SumTo(g)[n]
  BY <1>1, SumsAre
<1>7. SumAll(h) = SumAll(f) + SumAll(g) * k
  BY <1>5, <1>6
<1>8. QED
  BY <1>7 DEF h

\* Where all numbers but one are 0, the sum is that one.
LEMMA SumSpike ==
  ASSUME NEW n \in Nat, NEW f \in [1..n -> Int], NEW k \in Int,
         \A i \in 1..n : i # k => f[i] = 0
  PROVE  SumAll(f) = IF k \in 1..n THEN f[k] ELSE 0
<1> DEFINE P == {t \in Nat : t <= n => SumTo(f)[t] = IF k \in 1..t THEN f[k] ELSE 0}
<1>1. 0 \in P
  BY SumsAre
<1>2. ASSUME NEW t \in P PROVE t + 1 \in P
  <2> SUFFICES ASSUME t + 1 <= n
               PROVE  SumTo(f)[t + 1] = IF k \in 1..(t + 1) THEN f[k] ELSE 0
    OBVIOUS
  <2>1. t \in 0..n /\ t + 1 \in 1..n
    OBVIOUS
  <2>2. SumTo(f)[t] = IF k \in 1..t THEN f[k] ELSE 0
    BY <2>1
  <2> HIDE DEF P
  <2>3. SumTo(f)[t + 1] = SumTo(f)[t] + f[t + 1] /\ f[t + 1] \in Int /\ SumTo(f)[t] \in Int
    BY <2>1, SumStep
  <2>4. CASE k = t + 1
    BY <2>1, <2>2, <2>3, <2>4
  <2>5. CASE k # t + 1
    <3>1. f[t + 1] = 0
      BY <2>1, <2>5
    <3>2. k \in 1..(t + 1) <=> k \in 1..t
      BY <2>1, <2>5
    <3>3. QED
      BY <2>2, <2>3, <3>1, <3>2
  <2>6. QED
    BY <2>4, <2>5
<1>3. P = Nat
  <2>1. P \in SUBSET Nat
    OBVIOUS
  <2> HIDE DEF P
  <2>2. QED
    BY <1>1, <1>2, <2>1, OneByOne
<1>4. SumTo(f)[n] = IF k \in 1..n THEN f[k] ELSE 0
  BY <1>3
<1>5. QED
  BY <1>4, SumsAre

\* Where all are 0, so is the sum.
LEMMA SumNothing ==
  ASSUME NEW n \in Nat, NEW f \in [1..n -> Int], \A i \in 1..n : f[i] = 0
  PROVE  SumAll(f) = 0
<1>1. SumAll(f) = IF 0 \in 1..n THEN f[0] ELSE 0
  BY SumSpike
<1>2. QED
  BY <1>1

\* The sum over the rows of a table is the sum over its columns.
LEMMA SumSwap ==
  ASSUME NEW a \in Nat, NEW b \in Nat, NEW m \in [1..a -> [1..b -> Int]]
  PROVE  SumAll([i \in 1..a |-> SumAll(m[i])])
           = SumAll([j \in 1..b |-> SumAll([i \in 1..a |-> m[i][j]])])
<1> DEFINE col(j) == [i \in 1..a |-> m[i][j]]
           rows == [i \in 1..a |-> SumAll(m[i])]
           upTo(t) == [j \in 1..b |-> SumTo(col(j))[t]]
           P == {t \in Nat : t <= a => SumTo(rows)[t] = SumAll(upTo(t))}
<1>1. \A j \in 1..b : col(j) \in [1..a -> Int]
  OBVIOUS
<1>2. rows \in [1..a -> Int]
  BY SumIsNumber
<1>3. ASSUME NEW t \in 0..a PROVE upTo(t) \in [1..b -> Int]
  <2>1. ASSUME NEW j \in 1..b PROVE SumTo(col(j))[t] \in Int
    <3> HIDE DEF col
    <3>1. QED
      BY <1>1, SumsAre
  <2>2. QED
    BY <2>1
<1>4. 0 \in P
  <2>1. SumTo(rows)[0] = 0
    BY <1>2, SumsAre
  <2>2. ASSUME NEW j \in 1..b PROVE upTo(0)[j] = 0
    <3>1. col(j) \in [1..a -> Int]
      BY <1>1
    <3>2. SumTo(col(j))[0] = 0
      BY <3>1, SumsAre
    <3>3. QED
      BY <3>2
  <2>3. upTo(0) \in [1..b -> Int]
    BY <1>3
  <2> HIDE DEF upTo
  <2>4. SumAll(upTo(0)) = 0
    BY <2>2, <2>3, SumNothing
  <2>5. QED
    BY <2>1, <2>4
<1>5. ASSUME NEW t \in P PROVE t + 1 \in P
  <2> SUFFICES ASSUME t + 1 <= a PROVE SumTo(rows)[t + 1] = SumAll(upTo(t + 1))
    OBVIOUS
  <2>1. t \in 0..a /\ t + 1 \in 1..a /\ t + 1 \in 0..a
    OBVIOUS
  <2>2. SumTo(rows)[t] = SumAll(upTo(t))
    BY <2>1
  <2>3. rows[t + 1] = SumAll(m[t + 1])
    BY <2>1
  <2>4. SumTo(rows)[t + 1] = SumTo(rows)[t] + rows[t + 1]
    <3> HIDE DEF rows, P
    <3>1. QED
      BY <1>2, <2>1, SumStep
  <2>5. upTo(t) \in [1..b -> Int] /\ upTo(t + 1) \in [1..b -> Int] /\ m[t + 1] \in [1..b -> Int]
    BY <1>3, <2>1
  <2>6. ASSUME NEW j \in 1..b PROVE upTo(t + 1)[j] = upTo(t)[j] + m[t + 1][j] * 1
    <3>1. col(j) \in [1..a -> Int]
      BY <1>1
    <3>2. SumTo(col(j))[t + 1] = SumTo(col(j))[t] + col(j)[t + 1] /\ col(j)[t + 1] \in Int
      <4> HIDE DEF col, P
      <4>1. QED
        BY <2>1, <3>1, SumStep
    <3>3. col(j)[t + 1] = m[t + 1][j]
      BY <2>1
    <3> HIDE DEF col
    <3>4. QED
      BY <3>2, <3>3
  <2> HIDE DEF upTo, P
  <2>7. upTo(t + 1) = [j \in 1..b |-> upTo(t)[j] + m[t + 1][j] * 1]
    BY <2>5, <2>6
  <2>8. SumAll(upTo(t + 1)) = SumAll(upTo(t)) + SumAll(m[t + 1]) * 1
    <3> DEFINE u == upTo(t)
               v == m[t + 1]
    <3>1. u \in [1..b -> Int] /\ v \in [1..b -> Int] /\ 1 \in Int
      BY <2>5
    <3> HIDE DEF u, v
    <3>2. SumAll([j \in 1..b |-> u[j] + v[j] * 1]) = SumAll(u) + SumAll(v) * 1
      BY <3>1, SumScaled
    <3>3. QED
      BY <2>7, <3>2 DEF u, v
  <2>9. SumAll(m[t + 1]) \in Int
    BY <2>5, SumIsNumber
  <2>10. QED
    BY <2>2, <2>3, <2>4, <2>8, <2>9
<1>6. P = Nat
  <2>1. P \in SUBSET Nat
    OBVIOUS
  <2> HIDE DEF P
  <2>2. QED
    BY <1>4, <1>5, <2>1, OneByOne
<1>7. SumTo(rows)[a] = SumAll(upTo(a))
  <2> HIDE DEF rows, upTo
  <2>1. a \in P
    BY <1>6
  <2>2. QED
    BY <2>1
<1>8. SumAll(rows) = SumTo(rows)[a]
  BY <1>2, SumsAre
<1>9. ASSUME NEW j \in 1..b PROVE upTo(a)[j] = SumAll(col(j))
  <2>1. col(j) \in [1..a -> Int]
    BY <1>1
  <2>2. SumTo(col(j))[a] = SumAll(col(j))
    BY <2>1, SumsAre
  <2>3. QED
    BY <2>2
<1>10. upTo(a) = [j \in 1..b |-> SumAll(col(j))]
  BY <1>9
<1>11. QED
  BY <1>7, <1>8, <1>10

(***************************************************************************)
(* Expressions and linear forms.                                           *)
(***************************************************************************)
Deep  == [e \in Exprs |-> Depth[e]]
Forms == [terms : UNION {[S -> Int] : S \in SUBSET Exprs}, c : Int]

LEMMA Parts ==
  ASSUME NEW e \in Exprs
  PROVE  /\ e = Node(e.k, e.n, e.c, e.xs) /\ e.c \in Int /\ e.xs \in Seq(Exprs)
         /\ \A j \in DOMAIN e.xs : e.xs[j] \in Exprs /\ Depth[e.xs[j]] < Depth[e]
         /\ Depth[e] \in Nat
         /\ e.k = "neg" => 1 \in DOMAIN e.xs
         /\ e.k \in {"+", "-", "*"} => 1 \in DOMAIN e.xs /\ 2 \in DOMAIN e.xs
<1>1. e = Node(e.k, e.n, e.c, e.xs) /\ e.c \in Int /\ e.xs \in Seq(Exprs) /\ Depth[e] \in Nat
  BY TotalityAssumption
<1>2. \A j \in DOMAIN e.xs : Depth[e.xs[j]] < Depth[e]
  BY TotalityAssumption
<1>3. \A j \in DOMAIN e.xs : e.xs[j] \in Exprs
  BY <1>1
<1>4. e.k = "neg" => Len(e.xs) = 1
  BY TotalityAssumption
<1>5. e.k \in {"+", "-", "*"} => Len(e.xs) = 2
  BY TotalityAssumption
<1>6. DOMAIN e.xs = 1..Len(e.xs)
  BY <1>1
<1>7. e.k = "neg" => 1 \in DOMAIN e.xs
  <2>1. ASSUME e.k = "neg" PROVE DOMAIN e.xs = 1..1
    BY <1>4, <1>6, <2>1
  <2>2. 1 \in 1..1
    OBVIOUS
  <2>3. QED
    BY <2>1, <2>2
<1>8. e.k \in {"+", "-", "*"} => 1 \in DOMAIN e.xs /\ 2 \in DOMAIN e.xs
  <2>1. ASSUME e.k \in {"+", "-", "*"} PROVE DOMAIN e.xs = 1..2
    BY <1>5, <1>6, <2>1
  <2>2. 1 \in 1..2 /\ 2 \in 1..2
    OBVIOUS
  <2>3. QED
    BY <2>1, <2>2
<1>9. QED
  BY <1>1, <1>2, <1>3, <1>7, <1>8

LEMMA DeepIs == Deep \in [Exprs -> Nat]
BY Parts DEF Deep

\* What is so of an expression if it is of its parts is so of all.
LEMMA ByParts ==
  ASSUME NEW Q \in SUBSET Exprs,
         \A e \in Exprs : (\A j \in DOMAIN e.xs : e.xs[j] \in Q) => e \in Q
  PROVE  Q = Exprs
<1> DEFINE P == {n \in Nat : \A e \in Exprs : Depth[e] = n => e \in Q}
<1>1. ASSUME NEW n \in Nat, \A m \in Nat : m < n => m \in P PROVE n \in P
  <2> SUFFICES ASSUME NEW e \in Exprs, Depth[e] = n PROVE e \in Q
    OBVIOUS
  <2>1. ASSUME NEW j \in DOMAIN e.xs PROVE e.xs[j] \in Q
    <3>1. e.xs[j] \in Exprs /\ Depth[e.xs[j]] < n
      BY Parts
    <3>2. Depth[e.xs[j]] \in Nat
      BY <3>1, Parts
    <3>3. Depth[e.xs[j]] \in P
      BY <1>1, <3>1, <3>2
    <3>4. QED
      BY <3>1, <3>3
  <2>2. QED
    BY <2>1
<1>2. P = Nat
  <2>1. P \in SUBSET Nat
    OBVIOUS
  <2> HIDE DEF P
  <2>2. QED
    BY <1>1, <2>1, AllBelow
<1>3. ASSUME NEW e \in Exprs PROVE e \in Q
  <2>1. Depth[e] \in P
    BY <1>2, Parts
  <2>2. QED
    BY <2>1
<1>4. QED
  BY <1>3

LEMMA Form ==
  ASSUME NEW l \in Forms
  PROVE  /\ DOMAIN l.terms \subseteq Exprs /\ l.c \in Int
         /\ \A a : Coef(l, a) \in Int
         /\ \A a : a \notin DOMAIN l.terms => Coef(l, a) = 0
<1>1. PICK S \in SUBSET Exprs : l.terms \in [S -> Int]
  BY DEF Forms
<1>2. QED
  BY <1>1 DEF Forms, Coef

LEMMA FormMade ==
  ASSUME NEW S \in SUBSET Exprs, NEW t \in [S -> Int], NEW k \in Int
  PROVE  [terms |-> t, c |-> k] \in Forms
BY DEF Forms

LEMMA NumForm ==
  ASSUME NEW k \in Int
  PROVE  LinNum(k) \in Forms /\ LinNum(k).c = k /\ \A a : Coef(LinNum(k), a) = 0
<1> DEFINE t == [a \in {} |-> 0]
<1>1. t \in [{} -> Int] /\ DOMAIN t = {}
  OBVIOUS
<1>2. LinNum(k) = [terms |-> t, c |-> k]
  BY DEF LinNum
<1> HIDE DEF t
<1>3. {} \in SUBSET Exprs
  OBVIOUS
<1>4. [terms |-> t, c |-> k] \in Forms
  BY <1>1, <1>3, FormMade
<1>5. \A a : Coef([terms |-> t, c |-> k], a) = 0
  BY <1>1 DEF Coef
<1>6. QED
  BY <1>2, <1>4, <1>5

LEMMA ZeroIs == Zero \in Forms /\ Zero.c = 0 /\ \A a : Coef(Zero, a) = 0
<1>1. LinNum(0) \in Forms /\ LinNum(0).c = 0 /\ \A a : Coef(LinNum(0), a) = 0
  BY NumForm
<1>2. QED
  BY <1>1 DEF Zero

LEMMA VarForm ==
  ASSUME NEW x \in Exprs
  PROVE  /\ LinVar(x) \in Forms /\ LinVar(x).c = 0
         /\ \A a : Coef(LinVar(x), a) = IF a = x THEN 1 ELSE 0
<1>1. {x} \in SUBSET Exprs /\ [y \in {x} |-> 1] \in [{x} -> Int]
  OBVIOUS
<1>2. LinVar(x) \in Forms
  BY <1>1, FormMade DEF LinVar
<1>3. QED
  BY <1>2 DEF LinVar, Coef

LEMMA AddedForm ==
  ASSUME NEW l \in Forms, NEW o \in Forms, NEW k \in Int
  PROVE  /\ AddScaled(l, o, k) \in Forms
         /\ AddScaled(l, o, k).c = l.c + o.c * k
         /\ \A a : Coef(AddScaled(l, o, k), a) = Coef(l, a) + Coef(o, a) * k
<1> DEFINE coef(a) == Coef(l, a) + Coef(o, a) * k
           S == {a \in DOMAIN l.terms \cup DOMAIN o.terms : coef(a) # 0}
           t == [a \in S |-> coef(a)]
<1>1. AddScaled(l, o, k) = [terms |-> t, c |-> l.c + o.c * k]
  BY DEF AddScaled
<1>2. \A a : Coef(l, a) \in Int /\ Coef(o, a) \in Int
  BY Form
<1>3. \A a : coef(a) \in Int
  BY <1>2
<1>4. S \in SUBSET Exprs /\ t \in [S -> Int]
  <2>1. DOMAIN l.terms \subseteq Exprs /\ DOMAIN o.terms \subseteq Exprs
    BY Form
  <2>2. QED
    BY <1>3, <2>1
<1>5. l.c + o.c * k \in Int
  BY Form
<1>6. ASSUME NEW a PROVE (IF a \in S THEN coef(a) ELSE 0) = coef(a)
  <2>1. CASE a \in DOMAIN l.terms \cup DOMAIN o.terms
    BY <2>1
  <2>2. CASE a \notin DOMAIN l.terms \cup DOMAIN o.terms
    <3>1. Coef(l, a) = 0 /\ Coef(o, a) = 0
      BY <2>2, Form
    <3>2. QED
      BY <3>1
  <2>3. QED
    BY <2>1, <2>2
<1>7. DOMAIN t = S /\ \A a \in S : t[a] = coef(a)
  OBVIOUS
<1> HIDE DEF S, t
<1>8. AddScaled(l, o, k) \in Forms
  BY <1>1, <1>4, <1>5, FormMade
<1>9. \A a : Coef(AddScaled(l, o, k), a) = IF a \in S THEN t[a] ELSE 0
  BY <1>1, <1>7 DEF Coef
<1>10. \A a : Coef(AddScaled(l, o, k), a) = coef(a)
  BY <1>6, <1>7, <1>9
<1>11. QED
  BY <1>1, <1>8, <1>10

LEMMA LinOfLocal ==
  ASSUME NEW e \in Exprs, NEW f, NEW g, \A j \in DOMAIN e.xs : f[e.xs[j]] = g[e.xs[j]]
  PROVE  LinOf(e, f) = LinOf(e, g)
<1>1. e.k = "neg" => f[e.xs[1]] = g[e.xs[1]]
  BY Parts
<1>2. e.k \in {"+", "-", "*"} => f[e.xs[1]] = g[e.xs[1]] /\ f[e.xs[2]] = g[e.xs[2]]
  BY Parts
<1>3. QED
  BY <1>1, <1>2 DEF LinOf

LEMMA LinOfForm ==
  ASSUME NEW e \in Exprs, NEW f, \A j \in DOMAIN e.xs : f[e.xs[j]] \in Forms
  PROVE  LinOf(e, f) \in Forms
<1>1. CASE e.k = "Num"
  BY <1>1, Parts, NumForm DEF LinOf
<1>2. CASE e.k = "neg"
  <2>1. f[e.xs[1]] \in Forms
    BY <1>2, Parts
  <2>2. \A k \in Int : AddScaled(Zero, f[e.xs[1]], k) \in Forms
    BY <2>1, ZeroIs, AddedForm
  <2>3. -1 \in Int
    OBVIOUS
  <2>4. QED
    BY <1>2, <2>2, <2>3 DEF LinOf
<1>3. CASE e.k \in {"+", "-", "*"}
  <2>1. f[e.xs[1]] \in Forms /\ f[e.xs[2]] \in Forms
    BY <1>3, Parts
  <2>2. e.xs[1].c \in Int /\ e.xs[2].c \in Int
    <3>1. e.xs[1] \in Exprs /\ e.xs[2] \in Exprs
      BY <1>3, Parts
    <3>2. QED
      BY <3>1, Parts
  <2>3. \A k \in Int : /\ AddScaled(f[e.xs[1]], f[e.xs[2]], k) \in Forms
                       /\ AddScaled(Zero, f[e.xs[1]], k) \in Forms
                       /\ AddScaled(Zero, f[e.xs[2]], k) \in Forms
    BY <2>1, ZeroIs, AddedForm
  <2>4. LinVar(e) \in Forms
    BY VarForm
  <2>5. 1 \in Int /\ -1 \in Int
    OBVIOUS
  <2>6. QED
    BY <1>3, <2>2, <2>3, <2>4, <2>5 DEF LinOf
<1>4. CASE e.k \notin {"Num", "neg", "+", "-", "*"}
  BY <1>4, VarForm DEF LinOf
<1>5. QED
  BY <1>1, <1>2, <1>3, <1>4

LEMMA LinIs == Lin \in [Exprs -> Forms] /\ \A e \in Exprs : Lin[e] = LinOf(e, Lin)
<1> DEFINE G == [e \in Exprs |-> [f \in [Exprs -> Forms] |-> LinOf(e, f)]]
<1>1. MadeOfLess(Exprs, Deep, Forms, G)
  <2>1. ASSUME NEW e \in Exprs, NEW f \in [Exprs -> Forms] PROVE LinOf(e, f) \in Forms
    BY LinOfForm, Parts
  <2>2. G \in [Exprs -> [[Exprs -> Forms] -> Forms]]
    BY <2>1
  <2>3. ASSUME NEW e \in Exprs, NEW f \in [Exprs -> Forms], NEW g \in [Exprs -> Forms],
               \A s \in Exprs : Deep[s] < Deep[e] => f[s] = g[s]
        PROVE  G[e][f] = G[e][g]
    <3>1. \A j \in DOMAIN e.xs : f[e.xs[j]] = g[e.xs[j]]
      BY <2>3, Parts DEF Deep
    <3>2. LinOf(e, f) = LinOf(e, g)
      BY <3>1, LinOfLocal
    <3>3. QED
      BY <3>2
  <2> HIDE DEF G
  <2>4. Forms # {}
    BY ZeroIs
  <2>5. QED
    BY <2>2, <2>3, <2>4, DeepIs DEF MadeOfLess
<1>2. HasSolution(Exprs, Forms, G)
  <2> HIDE DEF G
  <2>1. QED
    BY <1>1, Recursion
<1>3. PICK f : f = [e \in Exprs |-> LinOf(e, f)]
  <2>1. PICK f \in [Exprs -> Forms] : \A e \in Exprs : f[e] = G[e][f]
    BY <1>2 DEF HasSolution
  <2>2. QED
    BY <2>1
<1>4. Lin = CHOOSE g : g = [e \in Exprs |-> LinOf(e, g)]
  BY DEF Lin
<1>5. Lin = [e \in Exprs |-> LinOf(e, Lin)]
  BY <1>3, <1>4
<1>6. \A e \in Exprs : Lin[e] \in Forms
  <2> DEFINE Q == {e \in Exprs : Lin[e] \in Forms}
  <2>1. ASSUME NEW e \in Exprs, \A j \in DOMAIN e.xs : e.xs[j] \in Q PROVE e \in Q
    <3>1. LinOf(e, Lin) \in Forms
      BY <2>1, LinOfForm
    <3>2. QED
      BY <1>5, <3>1
  <2>2. Q = Exprs
    <3>1. Q \in SUBSET Exprs
      OBVIOUS
    <3> HIDE DEF Q
    <3>2. QED
      BY <2>1, <3>1, ByParts
  <2>3. QED
    BY <2>2
<1>7. QED
  BY <1>5, <1>6

\* What an expression is worth, where names and unknowns are numbers.
LEMMA ValueIs ==
  ASSUME NEW env, NEW given,
         \A n \in DOMAIN env : env[n] \in Int, \A x \in DOMAIN given : given[x] \in Int
  PROVE  /\ Value(env, given) \in [Exprs -> Int]
         /\ \A e \in Exprs : Value(env, given)[e] = Evaluated(e, Value(env, given), env, given)
<1> DEFINE Of(e, f) == Evaluated(e, f, env, given)
           G == [e \in Exprs |-> [f \in [Exprs -> Int] |-> Of(e, f)]]
<1>1. ASSUME NEW e \in Exprs, NEW f, NEW g, \A j \in DOMAIN e.xs : f[e.xs[j]] = g[e.xs[j]]
      PROVE  Of(e, f) = Of(e, g)
  <2>1. e.k = "neg" => f[e.xs[1]] = g[e.xs[1]]
    BY <1>1, Parts
  <2>2. e.k \in {"+", "-", "*"} => f[e.xs[1]] = g[e.xs[1]] /\ f[e.xs[2]] = g[e.xs[2]]
    BY <1>1, Parts
  <2>3. QED
    BY <2>1, <2>2 DEF Evaluated
<1>2. ASSUME NEW e \in Exprs, NEW f, \A j \in DOMAIN e.xs : f[e.xs[j]] \in Int
      PROVE  Of(e, f) \in Int
  <2>1. e.k = "neg" => f[e.xs[1]] \in Int
    BY <1>2, Parts
  <2>2. e.k \in {"+", "-", "*"} => f[e.xs[1]] \in Int /\ f[e.xs[2]] \in Int
    BY <1>2, Parts
  <2>3. e.c \in Int
    BY Parts
  <2>4. QED
    BY <2>1, <2>2, <2>3 DEF Evaluated
<1> HIDE DEF Of
<1>3. MadeOfLess(Exprs, Deep, Int, G)
  <2>1. G \in [Exprs -> [[Exprs -> Int] -> Int]]
    BY <1>2, Parts
  <2>2. ASSUME NEW e \in Exprs, NEW f \in [Exprs -> Int], NEW g \in [Exprs -> Int],
               \A s \in Exprs : Deep[s] < Deep[e] => f[s] = g[s]
        PROVE  G[e][f] = G[e][g]
    <3>1. \A j \in DOMAIN e.xs : f[e.xs[j]] = g[e.xs[j]]
      BY <2>2, Parts DEF Deep
    <3>2. Of(e, f) = Of(e, g)
      BY <1>1, <3>1
    <3>3. QED
      BY <3>2
  <2> HIDE DEF G
  <2>3. Int # {}
    OBVIOUS
  <2>4. QED
    BY <2>1, <2>2, <2>3, DeepIs DEF MadeOfLess
<1>4. HasSolution(Exprs, Int, G)
  <2> HIDE DEF G
  <2>1. QED
    BY <1>3, Recursion
<1>5. PICK f : f = [e \in Exprs |-> Of(e, f)]
  <2>1. PICK f \in [Exprs -> Int] : \A e \in Exprs : f[e] = G[e][f]
    BY <1>4 DEF HasSolution
  <2>2. QED
    BY <2>1
<1> DEFINE val == Value(env, given)
<1>6. val = CHOOSE g : g = [e \in Exprs |-> Of(e, g)]
  BY DEF Value, Of
<1>7. val = [e \in Exprs |-> Of(e, val)]
  BY <1>5, <1>6
<1> HIDE DEF val
<1>8. \A e \in Exprs : val[e] \in Int
  <2> DEFINE Q == {e \in Exprs : val[e] \in Int}
  <2>1. ASSUME NEW e \in Exprs, \A j \in DOMAIN e.xs : e.xs[j] \in Q PROVE e \in Q
    <3>1. Of(e, val) \in Int
      BY <1>2, <2>1
    <3>2. QED
      BY <1>7, <3>1
  <2>2. Q = Exprs
    <3>1. Q \in SUBSET Exprs
      OBVIOUS
    <3> HIDE DEF Q
    <3>2. QED
      BY <2>1, <3>1, ByParts
  <2>3. QED
    BY <2>2
<1>9. QED
  BY <1>7, <1>8 DEF val, Of

(***************************************************************************)
(* What a linear form is worth.                                            *)
(***************************************************************************)
Count == Cardinality(Exprs)
At    == CHOOSE f : f \in Bijection(1..Count, Exprs)

LEMMA AtIs ==
  /\ Count \in Nat
  /\ At \in [1..Count -> Exprs]
  /\ \A x \in Exprs : \E k \in 1..Count : At[k] = x
  /\ \A i, k \in 1..Count : At[i] = At[k] => i = k
<1>1. IsFiniteSet(Exprs)
  BY TotalityAssumption
<1>2. Count \in Nat /\ ExistsBijection(1..Count, Exprs)
  BY <1>1, FS_CardinalityType DEF Count
<1>3. At \in Bijection(1..Count, Exprs)
  BY <1>2 DEF At, ExistsBijection
<1>4. QED
  BY <1>2, <1>3 DEF Bijection, Injection, Surjection, IsInjective

Weights(l, val) == [i \in 1..Count |-> Coef(l, At[i]) * val[At[i]]]
Weigh(l, val)   == SumAll(Weights(l, val))
Worth(l, val)   == l.c + Weigh(l, val)

LEMMA WeightsAre ==
  ASSUME NEW l \in Forms, NEW val \in [Exprs -> Int]
  PROVE  Weights(l, val) \in [1..Count -> Int] /\ Weigh(l, val) \in Int /\ Worth(l, val) \in Int
<1>1. ASSUME NEW i \in 1..Count PROVE Coef(l, At[i]) * val[At[i]] \in Int
  <2>1. Coef(l, At[i]) \in Int /\ val[At[i]] \in Int
    BY AtIs, Form
  <2>2. QED
    BY <2>1
<1>2. Weights(l, val) \in [1..Count -> Int]
  BY <1>1 DEF Weights
<1>3. Weigh(l, val) \in Int
  BY <1>2, AtIs, SumIsNumber DEF Weigh
<1>4. QED
  BY <1>2, <1>3, Form DEF Worth

LEMMA WeighAdded ==
  ASSUME NEW l \in Forms, NEW o \in Forms, NEW k \in Int, NEW val \in [Exprs -> Int]
  PROVE  Weigh(AddScaled(l, o, k), val) = Weigh(l, val) + Weigh(o, val) * k
<1> DEFINE m == AddScaled(l, o, k)
           f == Weights(l, val)
           g == Weights(o, val)
<1>1. f \in [1..Count -> Int] /\ g \in [1..Count -> Int] /\ Count \in Nat
  BY WeightsAre, AtIs
<1>2. ASSUME NEW i \in 1..Count PROVE Weights(m, val)[i] = f[i] + g[i] * k
  <2>1. Coef(m, At[i]) = Coef(l, At[i]) + Coef(o, At[i]) * k
    BY AddedForm
  <2>2. Coef(l, At[i]) \in Int /\ Coef(o, At[i]) \in Int /\ val[At[i]] \in Int
    BY AtIs, Form
  <2>3. \A x, y, v \in Int : (x + y * k) * v = x * v + (y * v) * k
    OBVIOUS
  <2>4. QED
    BY <2>1, <2>2, <2>3 DEF Weights
<1>3. Weights(m, val) = [i \in 1..Count |-> f[i] + g[i] * k]
  BY <1>2 DEF Weights
<1> HIDE DEF f, g, m
<1>4. SumAll([i \in 1..Count |-> f[i] + g[i] * k]) = SumAll(f) + SumAll(g) * k
  BY <1>1, SumScaled
<1>5. QED
  BY <1>3, <1>4 DEF Weigh, f, g, m

LEMMA WeighNum ==
  ASSUME NEW k \in Int, NEW val \in [Exprs -> Int]
  PROVE  Weigh(LinNum(k), val) = 0
<1> DEFINE l == LinNum(k)
<1>1. l \in Forms /\ \A a : Coef(l, a) = 0
  BY NumForm
<1>2. Weights(l, val) \in [1..Count -> Int] /\ Count \in Nat
  BY <1>1, WeightsAre, AtIs
<1>3. \A i \in 1..Count : Weights(l, val)[i] = 0
  BY <1>1, AtIs DEF Weights
<1>4. SumAll(Weights(l, val)) = 0
  BY <1>2, <1>3, SumNothing
<1>5. QED
  BY <1>4 DEF Weigh

LEMMA WeighVar ==
  ASSUME NEW x \in Exprs, NEW val \in [Exprs -> Int]
  PROVE  Weigh(LinVar(x), val) = val[x]
<1> DEFINE l == LinVar(x)
           f == Weights(l, val)
<1>1. l \in Forms /\ \A a : Coef(l, a) = IF a = x THEN 1 ELSE 0
  BY VarForm
<1>2. f \in [1..Count -> Int] /\ Count \in Nat
  BY <1>1, WeightsAre, AtIs
<1>3. PICK k \in 1..Count : At[k] = x
  BY AtIs
<1>4. ASSUME NEW i \in 1..Count, i # k PROVE f[i] = 0
  <2>1. At[i] # x /\ val[At[i]] \in Int
    BY <1>3, <1>4, AtIs
  <2>2. Coef(l, At[i]) = 0
    BY <1>1, <2>1
  <2>3. QED
    BY <2>1, <2>2 DEF Weights
<1>5. f[k] = val[x]
  <2>1. Coef(l, At[k]) = 1 /\ val[x] \in Int
    BY <1>1, <1>3
  <2>2. QED
    BY <1>3, <2>1 DEF Weights
<1> HIDE DEF f
<1>6. k \in Int
  OBVIOUS
<1>7. SumAll(f) = f[k]
  BY <1>2, <1>3, <1>4, <1>6, SumSpike
<1>8. QED
  BY <1>5, <1>7 DEF Weigh, f

LEMMA WorthAdded ==
  ASSUME NEW l \in Forms, NEW o \in Forms, NEW k \in Int, NEW val \in [Exprs -> Int]
  PROVE  Worth(AddScaled(l, o, k), val) = Worth(l, val) + Worth(o, val) * k
<1>1. Weigh(AddScaled(l, o, k), val) = Weigh(l, val) + Weigh(o, val) * k
  BY WeighAdded
<1>2. AddScaled(l, o, k).c = l.c + o.c * k
  BY AddedForm
<1>3. Weigh(l, val) \in Int /\ Weigh(o, val) \in Int /\ l.c \in Int /\ o.c \in Int
  BY WeightsAre, Form
<1>4. \A x, y \in Int : (x + y) * k = x * k + y * k
  OBVIOUS
<1>5. (o.c + Weigh(o, val)) * k = o.c * k + Weigh(o, val) * k
  BY <1>3, <1>4
<1>6. o.c * k \in Int /\ Weigh(o, val) * k \in Int
  BY <1>3
<1>7. QED
  BY <1>1, <1>2, <1>3, <1>5, <1>6 DEF Worth

\* An expression is worth what its linear form is.
LEMMA LinWorth ==
  ASSUME NEW env, NEW given, NEW val,
         \A n \in DOMAIN env : env[n] \in Int, \A x \in DOMAIN given : given[x] \in Int,
         val = Value(env, given)
  PROVE  \A e \in Exprs : Worth(Lin[e], val) = val[e]
<1> DEFINE Q == {e \in Exprs : Worth(Lin[e], val) = val[e]}
<1>1. val \in [Exprs -> Int] /\ \A e \in Exprs : val[e] = Evaluated(e, val, env, given)
  BY ValueIs
<1>2. ASSUME NEW x \in Exprs PROVE Worth(LinVar(x), val) = val[x]
  <2>1. Weigh(LinVar(x), val) = val[x] /\ LinVar(x).c = 0 /\ val[x] \in Int
    BY <1>1, VarForm, WeighVar
  <2>2. QED
    BY <2>1 DEF Worth
<1>3. ASSUME NEW k \in Int PROVE Worth(LinNum(k), val) = k
  <2>1. Weigh(LinNum(k), val) = 0 /\ LinNum(k).c = k
    BY <1>1, NumForm, WeighNum
  <2>2. QED
    BY <2>1 DEF Worth
<1>4. ASSUME NEW o \in Forms, NEW k \in Int
      PROVE  Worth(AddScaled(Zero, o, k), val) = Worth(o, val) * k
  <2>1. Zero \in Forms /\ Worth(Zero, val) = 0
    BY <1>3, ZeroIs DEF Zero
  <2>2. Worth(AddScaled(Zero, o, k), val) = 0 + Worth(o, val) * k
    BY <1>1, <2>1, WorthAdded
  <2>3. Worth(o, val) * k \in Int
    BY <1>1, WeightsAre
  <2>4. QED
    BY <2>2, <2>3
<1>5. ASSUME NEW e \in Exprs, \A j \in DOMAIN e.xs : e.xs[j] \in Q PROVE e \in Q
  <2> DEFINE a == e.xs[1]
             b == e.xs[2]
  <2>1. Lin[e] = LinOf(e, Lin)
    BY LinIs
  <2>2. val[e] = Evaluated(e, val, env, given)
    BY <1>1
  <2>3. CASE e.k = "Num"
    <3>1. Lin[e] = LinNum(e.c) /\ val[e] = e.c /\ e.c \in Int
      BY <2>1, <2>2, <2>3, Parts DEF LinOf, Evaluated
    <3>2. QED
      BY <1>3, <3>1
  <2>4. CASE e.k = "neg"
    <3>1. a \in Exprs /\ Worth(Lin[a], val) = val[a]
      BY <1>5, <2>4, Parts
    <3>2. Lin[e] = AddScaled(Zero, Lin[a], -1)
      BY <2>1, <2>4 DEF LinOf
    <3>3. val[e] = -val[a]
      BY <2>2, <2>4 DEF Evaluated
    <3>4. Lin[a] \in Forms /\ val[a] \in Int /\ -1 \in Int
      BY <1>1, <3>1, LinIs
    <3>5. Worth(Lin[e], val) = val[a] * (-1)
      BY <1>4, <3>1, <3>2, <3>4
    <3>6. val[a] * (-1) = -val[a]
      BY <3>4
    <3>7. QED
      BY <3>3, <3>5, <3>6
  <2>5. CASE e.k \in {"+", "-", "*"}
    <3>1. a \in Exprs /\ Worth(Lin[a], val) = val[a] /\ b \in Exprs /\ Worth(Lin[b], val) = val[b]
      BY <1>5, <2>5, Parts
    <3>2. Lin[a] \in Forms /\ Lin[b] \in Forms /\ val[a] \in Int /\ val[b] \in Int
      BY <1>1, <3>1, LinIs
    <3>3. CASE e.k \in {"+", "-"}
      <4> DEFINE k == IF e.k = "+" THEN 1 ELSE -1
      <4>1. Lin[e] = AddScaled(Lin[a], Lin[b], k)
        BY <2>1, <3>3 DEF LinOf
      <4>2. val[e] = IF e.k = "+" THEN val[a] + val[b] ELSE val[a] - val[b]
        BY <2>2, <3>3 DEF Evaluated
      <4>3. k \in Int
        OBVIOUS
      <4>4. Worth(Lin[e], val) = val[a] + val[b] * k
        <5> HIDE DEF k
        <5>1. QED
          BY <1>1, <3>1, <3>2, <4>1, <4>3, WorthAdded
      <4>5. val[b] * 1 = val[b] /\ val[a] + val[b] * (-1) = val[a] - val[b]
        BY <3>2
      <4>6. QED
        BY <4>2, <4>4, <4>5
    <3>4. CASE e.k = "*"
      <4>1. val[e] = val[a] * val[b]
        BY <2>2, <3>4 DEF Evaluated
      <4>2. \A x \in Exprs : x.k = "Num" => val[x] = x.c /\ x.c \in Int
        BY <1>1, Parts DEF Evaluated
      <4>3. CASE a.k = "Num"
        <5>1. Lin[e] = AddScaled(Zero, Lin[b], a.c)
          BY <2>1, <3>4, <4>3 DEF LinOf
        <5>2. val[a] = a.c /\ a.c \in Int
          BY <3>1, <4>2, <4>3
        <5>3. Worth(Lin[e], val) = val[b] * a.c
          BY <1>4, <3>1, <3>2, <5>1, <5>2
        <5>4. val[b] * val[a] = val[a] * val[b]
          BY <3>2
        <5>5. QED
          BY <4>1, <5>2, <5>3, <5>4
      <4>4. CASE a.k # "Num" /\ b.k = "Num"
        <5>1. Lin[e] = AddScaled(Zero, Lin[a], b.c)
          BY <2>1, <3>4, <4>4 DEF LinOf
        <5>2. val[b] = b.c /\ b.c \in Int
          BY <3>1, <4>2, <4>4
        <5>3. Worth(Lin[e], val) = val[a] * b.c
          BY <1>4, <3>1, <3>2, <5>1, <5>2
        <5>4. QED
          BY <4>1, <5>2, <5>3
      <4>5. CASE a.k # "Num" /\ b.k # "Num"
        <5>1. Lin[e] = LinVar(e)
          BY <2>1, <3>4, <4>5 DEF LinOf
        <5>2. QED
          BY <1>2, <5>1
      <4>6. QED
        BY <4>3, <4>4, <4>5
    <3>5. QED
      BY <2>5, <3>3, <3>4
  <2>6. CASE e.k \notin {"Num", "neg", "+", "-", "*"}
    <3>1. Lin[e] = LinVar(e)
      BY <2>1, <2>6 DEF LinOf
    <3>2. QED
      BY <1>2, <3>1
  <2>7. QED
    BY <2>3, <2>4, <2>5, <2>6
<1>6. Q = Exprs
  <2>1. Q \in SUBSET Exprs
    OBVIOUS
  <2> HIDE DEF Q
  <2>2. QED
    BY <1>5, <2>1, ByParts
<1>7. QED
  BY <1>6

LEMMA SumTimes ==
  ASSUME NEW n \in Nat, NEW g \in [1..n -> Int], NEW k \in Int
  PROVE  SumAll([i \in 1..n |-> g[i] * k]) = SumAll(g) * k
<1> DEFINE f == [i \in 1..n |-> 0]
<1>1. f \in [1..n -> Int]
  OBVIOUS
<1>2. SumAll(f) = 0
  <2>1. \A i \in 1..n : f[i] = 0
    OBVIOUS
  <2> HIDE DEF f
  <2>2. QED
    BY <1>1, <2>1, SumNothing
<1>3. [i \in 1..n |-> g[i] * k] = [i \in 1..n |-> f[i] + g[i] * k]
  <2>1. \A i \in 1..n : g[i] * k \in Int
    OBVIOUS
  <2>2. QED
    BY <2>1
<1> HIDE DEF f
<1>4. SumAll([i \in 1..n |-> f[i] + g[i] * k]) = SumAll(f) + SumAll(g) * k
  BY <1>1, SumScaled
<1>5. SumAll([i \in 1..n |-> g[i] * k]) = SumAll(f) + SumAll(g) * k
  BY <1>3, <1>4, Zenon
<1>6. SumAll(g) * k \in Int
  <2>1. SumAll(g) \in Int
    BY SumIsNumber
  <2>2. QED
    BY <2>1
<1>7. QED
  BY <1>2, <1>5, <1>6

\* A form whose coefficients are sums of multiples of those of others weighs as
\* much as the sum of the multiples of what those weigh.
LEMMA Combined ==
  ASSUME NEW l \in Forms, NEW n \in Nat, NEW w \in [1..n -> Int], NEW F \in [1..n -> Forms],
         NEW val \in [Exprs -> Int],
         \A a \in Exprs : Coef(l, a) = SumAll([p \in 1..n |-> w[p] * Coef(F[p], a)])
  PROVE  Weigh(l, val) = SumAll([p \in 1..n |-> w[p] * Weigh(F[p], val)])
<1> DEFINE m == [p \in 1..n |-> [i \in 1..Count |-> Weights(F[p], val)[i] * w[p]]]
           each(a) == [p \in 1..n |-> w[p] * Coef(F[p], a)]
<1>1. Count \in Nat /\ \A p \in 1..n : Weights(F[p], val) \in [1..Count -> Int]
  BY AtIs, WeightsAre
<1>2. m \in [1..n -> [1..Count -> Int]]
  <2>1. \A p \in 1..n : \A i \in 1..Count : Weights(F[p], val)[i] * w[p] \in Int
    <3>1. \A p \in 1..n : w[p] \in Int
      OBVIOUS
    <3>2. \A p \in 1..n : \A i \in 1..Count : Weights(F[p], val)[i] \in Int
      BY <1>1
    <3>3. QED
      BY <3>1, <3>2
  <2>2. QED
    BY <2>1
<1>3. ASSUME NEW p \in 1..n PROVE SumAll(m[p]) = w[p] * Weigh(F[p], val)
  <2> DEFINE g == Weights(F[p], val)
             k == w[p]
  <2>1. g \in [1..Count -> Int] /\ k \in Int
    BY <1>1
  <2>2. m[p] = [i \in 1..Count |-> g[i] * k]
    OBVIOUS
  <2> HIDE DEF g, k, m
  <2>3. SumAll([i \in 1..Count |-> g[i] * k]) = SumAll(g) * k
    BY <1>1, <2>1, SumTimes
  <2>4. SumAll(g) * k = k * SumAll(g)
    <3>1. SumAll(g) \in Int
      BY <1>1, <2>1, SumIsNumber
    <3>2. QED
      BY <2>1, <3>1
  <2>5. QED
    BY <2>2, <2>3, <2>4 DEF g, k, Weigh
<1>4. ASSUME NEW i \in 1..Count
      PROVE  SumAll([p \in 1..n |-> m[p][i]]) = Weights(l, val)[i]
  <2> DEFINE a == At[i]
             k == val[a]
             g == each(a)
  <2>1. a \in Exprs /\ k \in Int
    BY AtIs
  <2>2. ASSUME NEW p \in 1..n
        PROVE  Coef(F[p], a) \in Int /\ w[p] * Coef(F[p], a) \in Int /\ m[p][i] = g[p] * k
    <3>1. Coef(F[p], a) \in Int /\ w[p] \in Int
      BY Form
    <3>2. m[p][i] = (Coef(F[p], a) * k) * w[p]
      BY DEF Weights
    <3>3. \A x, y, z \in Int : (x * z) * y = (y * x) * z
      OBVIOUS
    <3>4. (Coef(F[p], a) * k) * w[p] = (w[p] * Coef(F[p], a)) * k
      BY <2>1, <3>1, <3>3
    <3>5. g[p] = w[p] * Coef(F[p], a)
      OBVIOUS
    <3>6. QED
      BY <3>1, <3>2, <3>4, <3>5
  <2>3. g \in [1..n -> Int]
    BY <2>2
  <2>4. [p \in 1..n |-> m[p][i]] = [p \in 1..n |-> g[p] * k]
    BY <2>2
  <2>5. SumAll(g) = Coef(l, a)
    BY <2>1
  <2>6. Weights(l, val)[i] = Coef(l, a) * k
    BY DEF Weights
  <2> HIDE DEF a, k, g, m
  <2>7. SumAll([p \in 1..n |-> g[p] * k]) = SumAll(g) * k
    BY <2>1, <2>3, SumTimes
  <2>8. QED
    BY <2>4, <2>5, <2>6, <2>7
<1>5. Weights(l, val) = [i \in 1..Count |-> SumAll([p \in 1..n |-> m[p][i]])]
  BY <1>4 DEF Weights
<1>6. [p \in 1..n |-> SumAll(m[p])] = [p \in 1..n |-> w[p] * Weigh(F[p], val)]
  BY <1>3
<1> HIDE DEF m
<1>7. SumAll([p \in 1..n |-> SumAll(m[p])])
        = SumAll([i \in 1..Count |-> SumAll([p \in 1..n |-> m[p][i]])])
  BY <1>1, <1>2, SumSwap
<1>8. QED
  BY <1>5, <1>6, <1>7 DEF Weigh

(***************************************************************************)
(* The calls of a body, as they are made and as calls_in finds them.       *)
(***************************************************************************)
LEMMA Flat ==
  ASSUME NEW X, NEW seqs \in Seq(Seq(X))
  PROVE  /\ FlattenSeq(seqs) \in Seq(X)
         /\ \A j \in DOMAIN seqs : Range(seqs[j]) \subseteq Range(FlattenSeq(seqs))
<1> DEFINE n == Len(seqs)
           S == 1..n
           Of(i, f) == IF i = 1 THEN seqs[i] ELSE f[i - 1] \o seqs[i]
           D == [i \in S |-> i]
           G == [i \in S |-> [f \in [S -> Seq(X)] |-> Of(i, f)]]
           flat == CHOOSE g : g = [i \in S |-> Of(i, g)]
<1>1. n \in Nat /\ DOMAIN seqs = S /\ \A i \in S : seqs[i] \in Seq(X)
  OBVIOUS
<1>2. CASE n = 0
  <2>1. FlattenSeq(seqs) = seqs /\ seqs = <<>>
    BY <1>2 DEF FlattenSeq
  <2>2. QED
    BY <2>1
<1>3. CASE n # 0
  <2>1. FlattenSeq(seqs) = flat[n]
    BY <1>3 DEF FlattenSeq
  <2>2. \A i \in S : i # 1 => i - 1 \in S /\ i - 1 < i
    BY <1>1
  <2>3. ASSUME NEW i \in S, NEW f, i # 1 => f[i - 1] \in Seq(X)
        PROVE  /\ Of(i, f) \in Seq(X) /\ Range(seqs[i]) \subseteq Range(Of(i, f))
               /\ i # 1 => Range(f[i - 1]) \subseteq Range(Of(i, f))
    <3>1. CASE i = 1
      BY <1>1, <3>1
    <3>2. CASE i # 1
      <4> DEFINE s == f[i - 1]
                 t == seqs[i]
      <4>1. s \in Seq(X) /\ t \in Seq(X) /\ Of(i, f) = s \o t
        BY <1>1, <2>3, <3>2
      <4> HIDE DEF s, t, Of
      <4>2. /\ s \o t \in Seq(X) /\ DOMAIN (s \o t) = 1..(Len(s) + Len(t))
            /\ DOMAIN s = 1..Len(s) /\ DOMAIN t = 1..Len(t) /\ Len(s) \in Nat /\ Len(t) \in Nat
            /\ \A k \in DOMAIN s : (s \o t)[k] = s[k]
            /\ \A k \in DOMAIN t : (s \o t)[Len(s) + k] = t[k]
        BY <4>1
      <4>3. Range(s) \subseteq Range(s \o t)
        BY <4>2 DEF Range
      <4>4. Range(t) \subseteq Range(s \o t)
        <5>1. \A k \in DOMAIN t : Len(s) + k \in DOMAIN (s \o t)
          BY <4>2
        <5>2. QED
          BY <4>2, <5>1 DEF Range
      <4>5. QED
        BY <4>1, <4>2, <4>3, <4>4 DEF s, t
    <3>3. QED
      BY <3>1, <3>2
  <2> HIDE DEF S
  <2>4. MadeOfLess(S, D, Seq(X), G)
    <3>1. D \in [S -> Nat]
      BY DEF S
    <3>2. G \in [S -> [[S -> Seq(X)] -> Seq(X)]]
      <4>1. \A i \in S, f \in [S -> Seq(X)] : Of(i, f) \in Seq(X)
        BY <2>2, <2>3
      <4> HIDE DEF Of
      <4>2. QED
        BY <4>1
    <3>3. ASSUME NEW i \in S, NEW f \in [S -> Seq(X)], NEW g \in [S -> Seq(X)],
                 \A j \in S : D[j] < D[i] => f[j] = g[j]
          PROVE  G[i][f] = G[i][g]
      <4>1. i # 1 => f[i - 1] = g[i - 1]
        BY <2>2, <3>3
      <4>2. QED
        BY <4>1
    <3> HIDE DEF D, G
    <3>4. Seq(X) # {}
      <4>1. <<>> \in Seq(X)
        OBVIOUS
      <4>2. QED
        BY <4>1
    <3>5. QED
      BY <3>1, <3>2, <3>3, <3>4 DEF MadeOfLess
  <2>5. PICK h : h = [i \in S |-> Of(i, h)]
    <3> HIDE DEF G
    <3>1. HasSolution(S, Seq(X), G)
      BY <2>4, Recursion
    <3>2. PICK h \in [S -> Seq(X)] : \A i \in S : h[i] = G[i][h]
      BY <3>1 DEF HasSolution
    <3>3. \A i \in S : h[i] = Of(i, h)
      <4> HIDE DEF Of
      <4>1. QED
        BY <3>2 DEF G
    <3> HIDE DEF Of
    <3>4. h = [i \in S |-> Of(i, h)]
      BY <3>2, <3>3
    <3>5. QED
      BY <3>4
  <2> HIDE DEF Of
  <2>6. flat = [i \in S |-> Of(i, flat)]
    BY <2>5
  <2> HIDE DEF flat
  <2> DEFINE Whole(i) == /\ flat[i] \in Seq(X)
                         /\ \A j \in S : j <= i => Range(seqs[j]) \subseteq Range(flat[i])
             P == {i \in Nat : i \in S => Whole(i)}
  <2>7. ASSUME NEW i \in Nat, \A j \in Nat : j < i => j \in P PROVE i \in P
    <3> SUFFICES ASSUME i \in S PROVE Whole(i)
      OBVIOUS
    <3>1. flat[i] = Of(i, flat)
      BY <2>6
    <3>2. i # 1 => i - 1 \in S /\ Whole(i - 1)
      <4>1. i # 1 => i - 1 \in Nat /\ i - 1 < i /\ i - 1 \in S
        BY <1>1, <2>2 DEF S
      <4> HIDE DEF Whole
      <4>2. QED
        BY <2>7, <4>1
    <3>3. i # 1 => flat[i - 1] \in Seq(X)
      BY <3>2
    <3>4. /\ flat[i] \in Seq(X) /\ Range(seqs[i]) \subseteq Range(flat[i])
          /\ i # 1 => Range(flat[i - 1]) \subseteq Range(flat[i])
      BY <2>3, <3>1, <3>3
    <3>5. \A j \in S : j <= i => j = i \/ (i # 1 /\ j <= i - 1)
      BY <1>1 DEF S
    <3>6. QED
      BY <3>2, <3>4, <3>5
  <2>8. P = Nat
    <3>1. P \in SUBSET Nat
      OBVIOUS
    <3> HIDE DEF P
    <3>2. QED
      BY <2>7, <3>1, AllBelow
  <2>9. n \in S /\ \A j \in S : j <= n
    BY <1>1, <1>3 DEF S
  <2>10. Whole(n)
    <3> HIDE DEF Whole
    <3>1. QED
      BY <1>1, <2>8, <2>9
  <2>11. QED
    BY <1>1, <2>1, <2>9, <2>10
<1>4. QED
  BY <1>2, <1>3

Names == {e.n : e \in Exprs}
SitesOf(e, sites) ==
  {<<e, {}>>} \cup UNION {{<<s[1], s[2] \cup BoundOver(e, j)>> : s \in sites[e.xs[j]]}
                         : j \in DOMAIN e.xs}

LEMMA SitesAre ==
  /\ Sites \in [Exprs -> SUBSET (Exprs \X SUBSET Names)]
  /\ \A e \in Exprs : Sites[e] = SitesOf(e, Sites)
<1> DEFINE X == SUBSET (Exprs \X SUBSET Names)
           G == [e \in Exprs |-> [f \in [Exprs -> X] |-> SitesOf(e, f)]]
<1>1. ASSUME NEW e \in Exprs, NEW f, NEW g, \A j \in DOMAIN e.xs : f[e.xs[j]] = g[e.xs[j]]
      PROVE  SitesOf(e, f) = SitesOf(e, g)
  BY <1>1 DEF SitesOf
<1>2. ASSUME NEW e \in Exprs, NEW f, \A j \in DOMAIN e.xs : f[e.xs[j]] \in X
      PROVE  SitesOf(e, f) \in X
  <2>1. <<e, {}>> \in Exprs \X SUBSET Names
    OBVIOUS
  <2>2. ASSUME NEW j \in DOMAIN e.xs, NEW s \in f[e.xs[j]]
        PROVE  <<s[1], s[2] \cup BoundOver(e, j)>> \in Exprs \X SUBSET Names
    <3>1. s \in Exprs \X SUBSET Names
      BY <1>2
    <3>2. BoundOver(e, j) \subseteq Names
      BY DEF BoundOver, Names
    <3>3. QED
      BY <3>1, <3>2
  <2>3. QED
    BY <2>1, <2>2 DEF SitesOf
<1>3. MadeOfLess(Exprs, Deep, X, G)
  <2> HIDE DEF X
  <2>1. G \in [Exprs -> [[Exprs -> X] -> X]]
    BY <1>2, Parts
  <2>2. ASSUME NEW e \in Exprs, NEW f \in [Exprs -> X], NEW g \in [Exprs -> X],
               \A s \in Exprs : Deep[s] < Deep[e] => f[s] = g[s]
        PROVE  G[e][f] = G[e][g]
    <3>1. \A j \in DOMAIN e.xs : f[e.xs[j]] = g[e.xs[j]]
      BY <2>2, Parts DEF Deep
    <3>2. SitesOf(e, f) = SitesOf(e, g)
      BY <1>1, <3>1
    <3>3. QED
      BY <3>2
  <2> HIDE DEF G
  <2>3. X # {}
    BY DEF X
  <2>4. QED
    BY <2>1, <2>2, <2>3, DeepIs DEF MadeOfLess
<1>4. HasSolution(Exprs, X, G)
  <2> HIDE DEF G, X
  <2>1. QED
    BY <1>3, Recursion
<1> HIDE DEF X
<1>5. PICK f : f = [e \in Exprs |-> SitesOf(e, f)]
  <2>1. PICK f \in [Exprs -> X] : \A e \in Exprs : f[e] = G[e][f]
    BY <1>4 DEF HasSolution
  <2>2. QED
    BY <2>1
<1>6. Sites = CHOOSE g : g = [e \in Exprs |-> SitesOf(e, g)]
  BY DEF Sites, SitesOf
<1>7. Sites = [e \in Exprs |-> SitesOf(e, Sites)]
  BY <1>5, <1>6
<1>8. \A e \in Exprs : Sites[e] \in X
  <2> DEFINE Q == {e \in Exprs : Sites[e] \in X}
  <2>1. ASSUME NEW e \in Exprs, \A j \in DOMAIN e.xs : e.xs[j] \in Q PROVE e \in Q
    <3>1. SitesOf(e, Sites) \in X
      BY <1>2, <2>1
    <3>2. QED
      BY <1>7, <3>1
  <2>2. Q = Exprs
    <3>1. Q \in SUBSET Exprs
      OBVIOUS
    <3> HIDE DEF Q
    <3>2. QED
      BY <2>1, <3>1, ByParts
  <2>3. QED
    BY <2>2
<1>9. QED
  BY <1>7, <1>8 DEF X

Calling(prog) == [callee : DOMAIN prog, args : Seq(Exprs)]
Named(prog, n) == {i \in DOMAIN prog : prog[i].name = n}
ScanOf(prog, e, scan) ==
  LET inner == FlattenSeq([j \in DOMAIN e.xs |-> scan[e.xs[j]]])
  IN  IF e.k \notin {"App", "Var"} \/ Named(prog, e.n) = {} THEN inner
      ELSE <<Call(CHOOSE i \in Named(prog, e.n) : TRUE, e.xs)>> \o inner

\* What is found in an expression are calls; what is found in its parts is among
\* them, and so is the call or the mention it is.
LEMMA ScanOfIs ==
  ASSUME NEW prog, NEW e \in Exprs, NEW f, \A j \in DOMAIN e.xs : f[e.xs[j]] \in Seq(Calling(prog))
  PROVE  /\ ScanOf(prog, e, f) \in Seq(Calling(prog))
         /\ \A j \in DOMAIN e.xs : Range(f[e.xs[j]]) \subseteq Range(ScanOf(prog, e, f))
         /\ e.k \in {"App", "Var"} /\ Named(prog, e.n) # {} =>
              \E i \in Named(prog, e.n) : Call(i, e.xs) \in Range(ScanOf(prog, e, f))
<1> DEFINE X == Calling(prog)
           seqs == [j \in DOMAIN e.xs |-> f[e.xs[j]]]
           inner == FlattenSeq(seqs)
<1>1. seqs \in Seq(Seq(X)) /\ DOMAIN seqs = DOMAIN e.xs
  <2>1. DOMAIN e.xs = 1..Len(e.xs) /\ Len(e.xs) \in Nat /\ e.xs \in Seq(Exprs)
    <3>1. e.xs \in Seq(Exprs)
      BY Parts
    <3>2. QED
      BY <3>1
  <2>2. seqs \in [1..Len(e.xs) -> Seq(X)]
    BY <2>1
  <2>3. QED
    BY <2>1, <2>2, SeqDef
<1>2. inner \in Seq(X) /\ \A j \in DOMAIN e.xs : Range(f[e.xs[j]]) \subseteq Range(inner)
  <2>1. \A j \in DOMAIN e.xs : seqs[j] = f[e.xs[j]]
    OBVIOUS
  <2> HIDE DEF seqs, X
  <2>2. QED
    BY <1>1, <2>1, Flat
<1>3. CASE e.k \notin {"App", "Var"} \/ Named(prog, e.n) = {}
  <2>1. ScanOf(prog, e, f) = inner
    BY <1>3 DEF ScanOf
  <2>2. QED
    BY <1>2, <1>3, <2>1
<1>4. CASE ~(e.k \notin {"App", "Var"} \/ Named(prog, e.n) = {})
  <2> DEFINE i == CHOOSE i \in Named(prog, e.n) : TRUE
             c == Call(i, e.xs)
  <2>1. ScanOf(prog, e, f) = <<c>> \o inner
    BY <1>4 DEF ScanOf
  <2>2. i \in Named(prog, e.n)
    BY <1>4
  <2>3. c \in X
    <3>1. i \in DOMAIN prog /\ e.xs \in Seq(Exprs)
      BY <2>2, Parts DEF Named
    <3>2. QED
      BY <3>1 DEF Call, Calling
  <2> HIDE DEF i, c, inner, X
  <2>4. /\ <<c>> \o inner \in Seq(X) /\ DOMAIN (<<c>> \o inner) = 1..(1 + Len(inner))
        /\ (<<c>> \o inner)[1] = c /\ DOMAIN inner = 1..Len(inner) /\ Len(inner) \in Nat
        /\ \A k \in DOMAIN inner : (<<c>> \o inner)[1 + k] = inner[k]
    BY <1>2, <2>3
  <2>5. c \in Range(<<c>> \o inner)
    <3>1. 1 \in DOMAIN (<<c>> \o inner)
      BY <2>4
    <3>2. QED
      BY <2>4, <3>1 DEF Range
  <2>6. Range(inner) \subseteq Range(<<c>> \o inner)
    <3>1. \A k \in DOMAIN inner : 1 + k \in DOMAIN (<<c>> \o inner)
      BY <2>4
    <3>2. QED
      BY <2>4, <3>1 DEF Range
  <2>7. ScanOf(prog, e, f) \in Seq(X)
    BY <2>1, <2>4
  <2>8. \A j \in DOMAIN e.xs : Range(f[e.xs[j]]) \subseteq Range(ScanOf(prog, e, f))
    BY <1>2, <2>1, <2>6
  <2>9. Call(i, e.xs) \in Range(ScanOf(prog, e, f))
    BY <2>1, <2>5 DEF c
  <2>10. QED
    BY <2>2, <2>7, <2>8, <2>9 DEF X
<1>5. QED
  BY <1>3, <1>4

LEMMA ScanIs ==
  ASSUME NEW prog
  PROVE  /\ Scan(prog) \in [Exprs -> Seq(Calling(prog))]
         /\ \A e \in Exprs : Scan(prog)[e] = ScanOf(prog, e, Scan(prog))
<1> DEFINE X == Seq(Calling(prog))
           Of(e, f) == ScanOf(prog, e, f)
           G == [e \in Exprs |-> [f \in [Exprs -> X] |-> Of(e, f)]]
           scan == Scan(prog)
<1>1. ASSUME NEW e \in Exprs, NEW f, NEW g, \A j \in DOMAIN e.xs : f[e.xs[j]] = g[e.xs[j]]
      PROVE  Of(e, f) = Of(e, g)
  <2>1. [j \in DOMAIN e.xs |-> f[e.xs[j]]] = [j \in DOMAIN e.xs |-> g[e.xs[j]]]
    BY <1>1
  <2>2. QED
    BY <2>1 DEF ScanOf
<1>2. ASSUME NEW e \in Exprs, NEW f, \A j \in DOMAIN e.xs : f[e.xs[j]] \in X
      PROVE  Of(e, f) \in X
  BY <1>2, ScanOfIs
<1>3. scan = CHOOSE g : g = [e \in Exprs |-> Of(e, g)]
  BY DEF Scan, ScanOf, Named
<1> HIDE DEF Of
<1>4. MadeOfLess(Exprs, Deep, X, G)
  <2>1. X # {}
    <3>1. <<>> \in X
      OBVIOUS
    <3>2. QED
      BY <3>1
  <2> HIDE DEF X
  <2>2. G \in [Exprs -> [[Exprs -> X] -> X]]
    BY <1>2, Parts
  <2>3. ASSUME NEW e \in Exprs, NEW f \in [Exprs -> X], NEW g \in [Exprs -> X],
               \A s \in Exprs : Deep[s] < Deep[e] => f[s] = g[s]
        PROVE  G[e][f] = G[e][g]
    <3>1. \A j \in DOMAIN e.xs : f[e.xs[j]] = g[e.xs[j]]
      BY <2>3, Parts DEF Deep
    <3>2. Of(e, f) = Of(e, g)
      BY <1>1, <3>1
    <3>3. QED
      BY <3>2
  <2> HIDE DEF G
  <2>4. QED
    BY <2>1, <2>2, <2>3, DeepIs DEF MadeOfLess
<1> HIDE DEF X, scan
<1>5. HasSolution(Exprs, X, G)
  <2> HIDE DEF G
  <2>1. QED
    BY <1>4, Recursion
<1>6. PICK f : f = [e \in Exprs |-> Of(e, f)]
  <2>1. PICK f \in [Exprs -> X] : \A e \in Exprs : f[e] = G[e][f]
    BY <1>5 DEF HasSolution
  <2>2. QED
    BY <2>1
<1>7. scan = [e \in Exprs |-> Of(e, scan)]
  BY <1>3, <1>6
<1>8. \A e \in Exprs : scan[e] \in X
  <2> DEFINE Q == {e \in Exprs : scan[e] \in X}
  <2>1. ASSUME NEW e \in Exprs, \A j \in DOMAIN e.xs : e.xs[j] \in Q PROVE e \in Q
    <3>1. Of(e, scan) \in X
      BY <1>2, <2>1
    <3>2. QED
      BY <1>7, <3>1
  <2>2. Q = Exprs
    <3>1. Q \in SUBSET Exprs
      OBVIOUS
    <3> HIDE DEF Q
    <3>2. QED
      BY <2>1, <3>1, ByParts
  <2>3. QED
    BY <2>2
<1>9. QED
  BY <1>7, <1>8 DEF X, Of, scan

\* Each call, and each mention, inside an expression is found.
LEMMA Found ==
  ASSUME NEW prog, NEW e \in Exprs, NEW s \in Sites[e],
         s[1].k \in {"App", "Var"}, Named(prog, s[1].n) # {}
  PROVE  s[1] \in Exprs /\ \E i \in Named(prog, s[1].n) : Call(i, s[1].xs) \in Range(Scan(prog)[e])
<1> DEFINE Heard(x, y) == y.k \in {"App", "Var"} /\ Named(prog, y.n) # {} =>
                            \E i \in Named(prog, y.n) : Call(i, y.xs) \in Range(Scan(prog)[x])
           Q == {x \in Exprs : \A t \in Sites[x] : Heard(x, t[1])}
<1>1. \A x \in Exprs : Scan(prog)[x] \in Seq(Calling(prog)) /\ Scan(prog)[x] = ScanOf(prog, x, Scan(prog))
  BY ScanIs
<1>2. ASSUME NEW x \in Exprs, \A j \in DOMAIN x.xs : x.xs[j] \in Q PROVE x \in Q
  <2> SUFFICES ASSUME NEW t \in Sites[x] PROVE Heard(x, t[1])
    OBVIOUS
  <2>1. /\ \A j \in DOMAIN x.xs : Range(Scan(prog)[x.xs[j]]) \subseteq Range(Scan(prog)[x])
        /\ Heard(x, x)
    <3>1. \A j \in DOMAIN x.xs : Scan(prog)[x.xs[j]] \in Seq(Calling(prog))
      BY <1>1, Parts
    <3>2. QED
      BY <1>1, <3>1, ScanOfIs
  <2>2. t \in SitesOf(x, Sites)
    BY SitesAre
  <2>3. CASE t = <<x, {}>>
    BY <2>1, <2>3
  <2>4. ASSUME NEW j \in DOMAIN x.xs, NEW u \in Sites[x.xs[j]], t[1] = u[1] PROVE Heard(x, t[1])
    <3>1. Heard(x.xs[j], u[1])
      BY <1>2
    <3>2. QED
      BY <2>1, <2>4, <3>1
  <2>5. QED
    BY <2>2, <2>3, <2>4 DEF SitesOf
<1>3. Q = Exprs
  <2>1. Q \in SUBSET Exprs
    OBVIOUS
  <2> HIDE DEF Q
  <2>2. QED
    BY <1>2, <2>1, ByParts
<1>4. s[1] \in Exprs
  <2>1. Sites[e] \in SUBSET (Exprs \X SUBSET Names)
    BY SitesAre
  <2>2. QED
    BY <2>1
<1>5. QED
  BY <1>3, <1>4

(***************************************************************************)
(* What delta says of forms is so of numbers.                              *)
(***************************************************************************)
Atom(i, p) == Var(Params(i)[p])

LEMMA ParamsAre ==
  ASSUME program \in Programs, NEW i \in DOMAIN program
  PROVE  /\ Len(Params(i)) \in Nat /\ DOMAIN Params(i) = 1..Len(Params(i))
         /\ \A p \in DOMAIN Params(i) : Atom(i, p) \in Exprs
         /\ \A p, q \in DOMAIN Params(i) : Params(i)[p] = Params(i)[q] => p = q
         /\ \A p, q \in DOMAIN Params(i) : Atom(i, p) = Atom(i, q) => p = q
<1>1. /\ Params(i) \in Seq(Range(Params(i))) /\ Distinct(Params(i))
      /\ \A p \in DOMAIN Params(i) : Atom(i, p) \in Exprs
  BY TotalityAssumption DEF Params, Atom
<1>2. \A x, y : Var(x) = Var(y) => x = y
  <2>1. \A x : Var(x).n = x
    BY DEF Var, Node
  <2>2. QED
    BY <2>1
<1>3. \A p, q \in DOMAIN Params(i) : Params(i)[p] = Params(i)[q] => p = q
  BY <1>1 DEF Distinct
<1>4. QED
  BY <1>1, <1>2, <1>3 DEF Atom

\* A form over the parameters of a function is worth its value.
LEMMA OwnWorth ==
  ASSUME program \in Programs, NEW i \in DOMAIN program,
         NEW l \in Forms, DOMAIN l.terms \subseteq AtomsOf(i), NEW val \in [Exprs -> Int]
  PROVE  Worth(l, val) =
           l.c + SumAll([p \in DOMAIN Params(i) |-> Coef(l, Atom(i, p)) * val[Atom(i, p)]])
<1> DEFINE n == Len(Params(i))
           w == [p \in 1..n |-> Coef(l, Atom(i, p))]
           F == [p \in 1..n |-> LinVar(Atom(i, p))]
           each(a) == [p \in 1..n |-> w[p] * Coef(F[p], a)]
<1>1. /\ n \in Nat /\ DOMAIN Params(i) = 1..n /\ \A p \in 1..n : Atom(i, p) \in Exprs
      /\ \A p, q \in 1..n : Atom(i, p) = Atom(i, q) => p = q
  BY ParamsAre
<1> HIDE DEF n
<1>2. w \in [1..n -> Int] /\ F \in [1..n -> Forms]
  BY <1>1, Form, VarForm
<1>3. ASSUME NEW a \in Exprs, NEW p \in 1..n
      PROVE  each(a)[p] = IF a = Atom(i, p) THEN Coef(l, a) ELSE 0
  <2>1. Coef(F[p], a) = IF a = Atom(i, p) THEN 1 ELSE 0
    BY <1>1, VarForm
  <2>2. w[p] = Coef(l, Atom(i, p)) /\ w[p] \in Int
    BY <1>2
  <2>3. each(a)[p] = w[p] * Coef(F[p], a)
    OBVIOUS
  <2> HIDE DEF w, F, each
  <2>4. QED
    BY <2>1, <2>2, <2>3
<1>4. ASSUME NEW a \in Exprs PROVE Coef(l, a) = SumAll(each(a))
  <2>1. Coef(l, a) \in Int
    BY Form
  <2>2. each(a) \in [1..n -> Int]
    <3>1. \A p \in 1..n : each(a)[p] \in Int
      BY <1>3, <2>1
    <3>2. QED
      BY <3>1
  <2>3. CASE \E p \in 1..n : a = Atom(i, p)
    <3>1. PICK k \in 1..n : a = Atom(i, k)
      BY <2>3
    <3>2. each(a)[k] = Coef(l, a)
      BY <1>3, <3>1
    <3>3. \A p \in 1..n : p # k => each(a)[p] = 0
      BY <1>1, <1>3, <3>1
    <3> HIDE DEF each
    <3>4. k \in Int
      OBVIOUS
    <3>5. SumAll(each(a)) = each(a)[k]
      BY <1>1, <2>2, <3>3, <3>4, SumSpike
    <3>6. QED
      BY <3>2, <3>5
  <2>4. CASE ~\E p \in 1..n : a = Atom(i, p)
    <3>1. \A p \in 1..n : each(a)[p] = 0
      BY <1>3, <2>4
    <3>2. a \notin DOMAIN l.terms
      BY <1>1, <2>4 DEF AtomsOf, Atom
    <3> HIDE DEF each
    <3>3. SumAll(each(a)) = 0
      BY <1>1, <2>2, <3>1, SumNothing
    <3>4. QED
      BY <3>2, <3>3, Form
  <2>5. QED
    BY <2>3, <2>4
<1>5. Weigh(l, val) = SumAll([p \in 1..n |-> w[p] * Weigh(F[p], val)])
  <2>1. n \in Nat
    BY <1>1
  <2>2. \A a \in Exprs : Coef(l, a) = SumAll([p \in 1..n |-> w[p] * Coef(F[p], a)])
    BY <1>4
  <2> HIDE DEF w, F
  <2>3. QED
    BY <1>2, <2>1, <2>2, Combined
<1>6. [p \in 1..n |-> w[p] * Weigh(F[p], val)]
        = [p \in DOMAIN Params(i) |-> Coef(l, Atom(i, p)) * val[Atom(i, p)]]
  <2>1. \A p \in 1..n : Weigh(F[p], val) = val[Atom(i, p)]
    BY <1>1, WeighVar
  <2>2. QED
    BY <1>1, <2>1
<1>7. QED
  BY <1>5, <1>6 DEF Worth

\* What the callee's form is worth with the arguments put in, and the gap, are what
\* the caller's is worth.
LEMMA Gap ==
  ASSUME program \in Programs, NEW j \in DOMAIN program,
         NEW l \in Forms, NEW m \in Forms, NEW args \in Seq(Exprs),
         NEW d \in Nat, d = Delta(l, m, j, args),
         NEW env, NEW given, NEW val,
         \A n \in DOMAIN env : env[n] \in Int, \A x \in DOMAIN given : given[x] \in Int,
         val = Value(env, given)
  PROVE  /\ DOMAIN m.terms \subseteq AtomsOf(j) /\ Len(args) = Len(Params(j))
         /\ Worth(l, val) =
              d + (m.c + SumAll([p \in DOMAIN Params(j) |-> Coef(m, Atom(j, p)) * val[args[p]]]))
<1> DEFINE n == Len(Params(j))
           w == [p \in 1..n |-> Coef(m, Atom(j, p))]
           F == [p \in 1..n |-> Lin[args[p]]]
           each(a) == [p \in 1..n |-> w[p] * Coef(F[p], a)]
           consts == [p \in 1..n |-> w[p] * F[p].c]
           weighs == [p \in 1..n |-> w[p] * Weigh(F[p], val)]
           worths == [p \in 1..n |-> w[p] * val[args[p]]]
<1>1. n \in Nat /\ DOMAIN Params(j) = 1..n
  BY ParamsAre
<1>2. Substitutes(m, j, args) /\ Cancel(l, m, j, args)
  BY DEF Delta, NoGap
<1>3. DOMAIN m.terms \subseteq AtomsOf(j) /\ Len(args) = n /\ DOMAIN args = 1..n
  BY <1>2 DEF Substitutes
<1> HIDE DEF n
<1>4. \A p \in 1..n : args[p] \in Exprs
  BY <1>3
<1>5. w \in [1..n -> Int] /\ F \in [1..n -> Forms]
  BY <1>4, Form, LinIs
<1>6. \A a \in DOMAIN l.terms \cup UNION {DOMAIN Lin[args[p]].terms : p \in DOMAIN args} :
        Coef(l, a) = SumAll(each(a))
  <2>1. ASSUME NEW a PROVE [p \in DOMAIN args |-> Coef(m, Var(Params(j)[p])) * Coef(Lin[args[p]], a)] = each(a)
    BY <1>3 DEF Atom
  <2>2. QED
    BY <1>2, <2>1 DEF Cancel, AtomIn
<1>7. l.c - SumAll(consts) - m.c = d
  <2>1. [p \in DOMAIN args |-> Coef(m, Var(Params(j)[p])) * Lin[args[p]].c] = consts
    BY <1>3 DEF Atom
  <2>2. Delta(l, m, j, args) = l.c - ConstIn(m, j, args) - m.c
    BY <1>2 DEF Delta
  <2>3. ConstIn(m, j, args) = SumAll(consts)
    BY <2>1 DEF ConstIn
  <2> HIDE DEF consts
  <2>4. QED
    BY <2>2, <2>3
<1>8. val \in [Exprs -> Int] /\ \A e \in Exprs : Worth(Lin[e], val) = val[e]
  BY ValueIs, LinWorth
<1>9. ASSUME NEW a \in Exprs PROVE Coef(l, a) = SumAll(each(a))
  <2>1. CASE a \in DOMAIN l.terms \cup UNION {DOMAIN Lin[args[p]].terms : p \in DOMAIN args}
    BY <1>6, <2>1
  <2>2. CASE a \notin DOMAIN l.terms \cup UNION {DOMAIN Lin[args[p]].terms : p \in DOMAIN args}
    <3>1. Coef(l, a) = 0
      BY <2>2, Form
    <3>2. ASSUME NEW p \in 1..n PROVE each(a)[p] = 0
      <4>1. F[p] = Lin[args[p]] /\ F[p] \in Forms /\ w[p] \in Int
        BY <1>5
      <4>2. a \notin DOMAIN F[p].terms
        BY <1>3, <2>2, <4>1
      <4>3. Coef(F[p], a) = 0
        BY <4>1, <4>2, Form
      <4>4. QED
        BY <4>1, <4>3
    <3>3. each(a) \in [1..n -> Int]
      BY <3>2
    <3> HIDE DEF each
    <3>4. SumAll(each(a)) = 0
      BY <1>1, <3>2, <3>3, SumNothing
    <3>5. QED
      BY <3>1, <3>4
  <2>3. QED
    BY <2>1, <2>2
<1>10. Weigh(l, val) = SumAll(weighs)
  <2> HIDE DEF w, F
  <2>1. QED
    BY <1>1, <1>5, <1>8, <1>9, Combined
<1>11. ASSUME NEW p \in 1..n
       PROVE  /\ consts[p] \in Int /\ weighs[p] \in Int
              /\ worths[p] = consts[p] + weighs[p] * 1
  <2> DEFINE x == w[p]
             y == F[p].c
             z == Weigh(F[p], val)
  <2>1. x \in Int /\ y \in Int /\ z \in Int
    BY <1>5, <1>8, Form, WeightsAre
  <2>2. val[args[p]] = y + z
    BY <1>4, <1>8 DEF Worth
  <2>3. consts[p] = x * y /\ weighs[p] = x * z /\ worths[p] = x * (y + z)
    BY <2>2
  <2> HIDE DEF x, y, z, consts, weighs, worths
  <2>4. \A a, b, c \in Int : a * (b + c) = a * b + a * c
    OBVIOUS
  <2>5. x * (y + z) = x * y + x * z /\ x * y \in Int /\ x * z \in Int
    BY <2>1, <2>4
  <2>6. QED
    BY <2>3, <2>5
<1>12. /\ consts \in [1..n -> Int] /\ weighs \in [1..n -> Int]
       /\ worths = [p \in 1..n |-> consts[p] + weighs[p] * 1]
  BY <1>11
<1>13. worths = [p \in DOMAIN Params(j) |-> Coef(m, Atom(j, p)) * val[args[p]]]
  BY <1>1
<1> HIDE DEF consts, weighs, worths
<1>14. SumAll(worths) = SumAll(consts) + SumAll(weighs) * 1
  <2>1. n \in Nat /\ 1 \in Int
    BY <1>1
  <2>2. SumAll([p \in 1..n |-> consts[p] + weighs[p] * 1]) = SumAll(consts) + SumAll(weighs) * 1
    BY <1>12, <2>1, SumScaled
  <2>3. QED
    BY <1>12, <2>2
<1>15. SumAll(consts) \in Int /\ SumAll(weighs) \in Int /\ l.c \in Int /\ m.c \in Int
  BY <1>1, <1>12, SumIsNumber, Form
<1>16. l.c + SumAll(weighs) = d + (m.c + SumAll(worths))
  BY <1>7, <1>14, <1>15
<1>17. QED
  BY <1>3, <1>10, <1>13, <1>16 DEF Worth, n

(***************************************************************************)
(* The invariant: the calls are those of the program, and what runs was    *)
(* accepted.                                                               *)
(***************************************************************************)
Scanned  == program \in Programs /\ calls = [i \in DOMAIN program |-> Scan(program)[program[i].body]]
Accepted == stage \in {"accepted", "running", "returned"} => ~Refused
RunsIn   == stage = "running" => at.f \in Funs /\ at \in AnyFrames(at.f)
TotalInv == Scanned /\ Accepted /\ RunsIn

\* A measure is a tuple of forms over the parameters.
LEMMA MeasureIs ==
  ASSUME program \in Programs, NEW i \in DOMAIN program
  PROVE  /\ Measure(i) \in Seq(Forms)
         /\ \A p \in DOMAIN Measure(i) : DOMAIN Measure(i)[p].terms \subseteq AtomsOf(i)
<1> DEFINE Good(ms) == /\ ms \in Seq(Forms)
                       /\ \A p \in DOMAIN ms : DOMAIN ms[p].terms \subseteq AtomsOf(i)
<1>0. Good(NoMeasure)
  BY DEF NoMeasure
<1>1. CASE ~Needs(i)
  <2>1. Measure(i) = NoMeasure
    BY <1>1 DEF Measure
  <2>2. QED
    BY <1>0, <2>1
<1>2. CASE Needs(i) /\ program[i].measure # <<>>
  <2>1. program[i].measure \in Seq(Exprs)
    BY TotalityAssumption
  <2>2. Written(i) \in Seq(Forms)
    <3> DEFINE s == program[i].measure
               n == Len(s)
    <3>1. n \in Nat /\ DOMAIN s = 1..n /\ \A p \in 1..n : s[p] \in Exprs
      BY <2>1
    <3>2. Written(i) = [p \in 1..n |-> Lin[s[p]]]
      BY <3>1 DEF Written
    <3> HIDE DEF s, n
    <3>3. Written(i) \in [1..n -> Forms]
      BY <3>1, <3>2, LinIs
    <3>4. QED
      BY <3>1, <3>3, SeqDef
  <2>3. Measure(i) = IF \A p \in DOMAIN Written(i) : DOMAIN Written(i)[p].terms \subseteq AtomsOf(i)
                       THEN Written(i) ELSE NoMeasure
    BY <1>2 DEF Measure
  <2>4. QED
    BY <1>0, <2>2, <2>3
<1>3. CASE Needs(i) /\ program[i].measure = <<>>
  <2>1. CASE Inferred(i) = {}
    <3>1. Measure(i) = NoMeasure
      BY <1>3, <2>1 DEF Measure
    <3>2. QED
      BY <1>0, <3>1
  <2>2. CASE Inferred(i) # {}
    <3> DEFINE k == CHOOSE p \in Inferred(i) : \A q \in Inferred(i) : p <= q
               l == LinVar(Atom(i, k))
    <3>1. Inferred(i) \subseteq DOMAIN Params(i) /\ DOMAIN Params(i) = 1..Len(Params(i))
      BY ParamsAre DEF Inferred
    <3>2. Inferred(i) \in SUBSET Nat
      BY <3>1
    <3>3. \E p \in Inferred(i) : \A q \in Inferred(i) : p <= q
      <4>1. PICK p \in Inferred(i) : \A q \in Inferred(i) : ~(q < p)
        BY <2>2, <3>2, LeastElement
      <4>2. QED
        BY <3>2, <4>1
    <3>4. k \in DOMAIN Params(i)
      BY <3>1, <3>3
    <3>5. Measure(i) = <<l>>
      BY <1>3, <2>2 DEF Measure, Atom
    <3>6. l \in Forms /\ DOMAIN l.terms \subseteq AtomsOf(i)
      <4> HIDE DEF k
      <4>1. Atom(i, k) \in Exprs /\ Atom(i, k) \in AtomsOf(i)
        BY <3>4, ParamsAre DEF AtomsOf, Atom
      <4>2. QED
        BY <4>1, VarForm DEF LinVar
    <3> HIDE DEF l
    <3>7. QED
      BY <3>5, <3>6
  <2>3. QED
    BY <2>1, <2>2
<1>4. QED
  BY <1>1, <1>2, <1>3

LEMMA NumbersAre == ASSUME NEW i PROVE Numbers(i) \subseteq Int
BY TotalityAssumption DEF Numbers

LEMMA FramesAre ==
  ASSUME program \in Programs, NEW i \in DOMAIN program,
         NEW vals \in [DOMAIN Params(i) -> Numbers(i)]
  PROVE  /\ Frames(i, vals).f = i
         /\ DOMAIN Frames(i, vals).env = Range(Params(i))
         /\ \A p \in DOMAIN Params(i) : Frames(i, vals).env[Params(i)[p]] = vals[p]
         /\ \A n \in Range(Params(i)) : Frames(i, vals).env[n] \in Numbers(i)
<1> DEFINE place(n) == CHOOSE p \in DOMAIN Params(i) : Params(i)[p] = n
<1>1. ASSUME NEW n \in Range(Params(i)) PROVE place(n) \in DOMAIN Params(i) /\ Params(i)[place(n)] = n
  BY DEF Range
<1>2. ASSUME NEW p \in DOMAIN Params(i) PROVE Params(i)[p] \in Range(Params(i)) /\ place(Params(i)[p]) = p
  <2>1. Params(i)[p] \in Range(Params(i))
    BY DEF Range
  <2>2. QED
    BY <1>1, <2>1, ParamsAre
<1>3. Frames(i, vals) = [f |-> i, env |-> [n \in Range(Params(i)) |-> vals[place(n)]]]
  BY DEF Frames
<1> HIDE DEF place
<1>4. QED
  BY <1>1, <1>2, <1>3

\* A call of j with args, from i: the arguments have their values where the names
\* have those of inner, and the parameters of i among them those of env, and the
\* unknowns those given; so have the parameters of j, now.
Agree(i, j, args, env, inner, given, now) ==
  /\ \A n \in DOMAIN inner : inner[n] \in Int
  /\ \A x \in DOMAIN given : given[x] \in Int
  /\ \A n \in Range(Params(i)) : n \in DOMAIN inner /\ inner[n] = env[n]
  /\ \A p \in DOMAIN Params(j) : now[Params(j)[p]] \in Int
  /\ \A p \in DOMAIN Params(j) \cap DOMAIN args :
       now[Params(j)[p]] = Value(inner, given)[args[p]]

\* Then the gap of the forms is that of the values.
LEMMA GapOfValues ==
  ASSUME program \in Programs, NEW i \in DOMAIN program, NEW j \in DOMAIN program,
         NEW l \in Forms, DOMAIN l.terms \subseteq AtomsOf(i), NEW m \in Forms,
         NEW args \in Seq(Exprs), Delta(l, m, j, args) \in Nat,
         NEW env, NEW inner, NEW given, NEW now, Agree(i, j, args, env, inner, given, now)
  PROVE  /\ ValueOf(i, l, env) = Delta(l, m, j, args) + ValueOf(j, m, now)
         /\ ValueOf(j, m, now) \in Int
<1> USE DEF Agree
<1> DEFINE val == Value(inner, given)
           d == Delta(l, m, j, args)
<1>1. /\ val \in [Exprs -> Int]
      /\ \A e \in Exprs : val[e] = Evaluated(e, val, inner, given)
  BY ValueIs
<1>2. /\ Len(args) = Len(Params(j))
      /\ Worth(l, val) =
           d + (m.c + SumAll([p \in DOMAIN Params(j) |-> Coef(m, Atom(j, p)) * val[args[p]]]))
  <2> HIDE DEF d
  <2>1. d \in Nat /\ d = Delta(l, m, j, args)
    BY DEF d
  <2>2. val = Value(inner, given)
    OBVIOUS
  <2> HIDE DEF val
  <2>3. QED
    BY <2>1, <2>2, Gap
<1>3. Worth(l, val) =
        l.c + SumAll([p \in DOMAIN Params(i) |-> Coef(l, Atom(i, p)) * val[Atom(i, p)]])
  BY <1>1, OwnWorth
<1>4. ASSUME NEW p \in DOMAIN Params(i) PROVE val[Atom(i, p)] = env[Params(i)[p]]
  <2> DEFINE n == Params(i)[p]
  <2>1. n \in Range(Params(i))
    BY DEF Range
  <2>2. Atom(i, p) \in Exprs /\ Atom(i, p).k = "Var" /\ Atom(i, p).n = n
    BY ParamsAre DEF Atom, Var, Node
  <2>3. val[Atom(i, p)] = Evaluated(Atom(i, p), val, inner, given)
    BY <1>1, <2>2
  <2> HIDE DEF val, n
  <2>4. val[Atom(i, p)] = inner[n]
    BY <2>1, <2>2, <2>3 DEF Evaluated
  <2>5. QED
    BY <2>1, <2>4 DEF n
<1>5. ValueOf(i, l, env) = Worth(l, val)
  <2>1. [p \in DOMAIN Params(i) |-> Coef(l, Var(Params(i)[p])) * env[Params(i)[p]]]
          = [p \in DOMAIN Params(i) |-> Coef(l, Atom(i, p)) * val[Atom(i, p)]]
    BY <1>4 DEF Atom
  <2>2. QED
    BY <1>3, <2>1 DEF ValueOf
<1>6. ValueOf(j, m, now) =
        m.c + SumAll([p \in DOMAIN Params(j) |-> Coef(m, Atom(j, p)) * val[args[p]]])
  <2>1. DOMAIN args = DOMAIN Params(j)
    BY <1>2, ParamsAre
  <2>2. [p \in DOMAIN Params(j) |-> Coef(m, Var(Params(j)[p])) * now[Params(j)[p]]]
          = [p \in DOMAIN Params(j) |-> Coef(m, Atom(j, p)) * val[args[p]]]
    BY <2>1 DEF Atom
  <2>3. QED
    BY <2>2 DEF ValueOf
<1>7. ValueOf(j, m, now) \in Int
  <2> DEFINE s == [p \in DOMAIN Params(j) |-> Coef(m, Var(Params(j)[p])) * now[Params(j)[p]]]
  <2>1. Len(Params(j)) \in Nat /\ DOMAIN Params(j) = 1..Len(Params(j))
    BY ParamsAre
  <2>2. \A p \in DOMAIN Params(j) : Coef(m, Var(Params(j)[p])) \in Int
    BY Form
  <2>3. s \in [1..Len(Params(j)) -> Int]
    BY <2>1, <2>2
  <2>4. SumAll(s) \in Int
    <3> HIDE DEF s
    <3>1. QED
      BY <2>1, <2>3, SumIsNumber
  <2>5. QED
    BY <2>4, Form DEF ValueOf
<1>8. QED
  BY <1>2, <1>5, <1>6, <1>7

\* What runs is in the program, and its parameters have their values.
LEMMA RunningIs ==
  ASSUME TotalInv, stage = "running"
  PROVE  /\ ~Refused /\ Funs = DOMAIN program /\ at.f \in Funs
         /\ program[at.f].body \in Exprs
         /\ \A n \in Range(Params(at.f)) : n \in DOMAIN at.env /\ at.env[n] \in Numbers(at.f)
         /\ DOMAIN at.env = Range(Params(at.f))
<1>1. program \in Programs /\ Funs = DOMAIN program /\ at.f \in Funs /\ ~Refused
  BY DEF TotalInv, Scanned, Accepted, RunsIn, Funs
<1>2. PICK vals \in [DOMAIN Params(at.f) -> Numbers(at.f)] : at = Frames(at.f, vals)
  BY DEF TotalInv, RunsIn, AnyFrames
<1>3. /\ DOMAIN at.env = Range(Params(at.f))
      /\ \A n \in Range(Params(at.f)) : at.env[n] \in Numbers(at.f)
  BY <1>1, <1>2, FramesAre
<1>4. program[at.f].body \in Exprs
  BY <1>1, TotalityAssumption
<1>5. QED
  BY <1>1, <1>3, <1>4

\* The call that runs makes the call new, of j, found with args.
Makes(new, j, args, inner, given) ==
  /\ new \in AnyFrames(j) /\ new.f = j
  /\ \E k \in DOMAIN calls[at.f] : calls[at.f][k] = Call(j, args)
  /\ Agree(at.f, j, args, at.env, inner, given, new.env)

LEMMA MadeAt ==
  ASSUME NEW i, NEW env, NEW exact, NEW new \in Made(i, env, exact)
  PROVE  \E s \in Sites[program[i].body] : \E inner \in Inside(i, env, s[2]) :
           new \in CallsAt(i, s[1], inner, exact)
BY DEF Made

LEMMA MadeIs ==
  ASSUME TotalInv, stage = "running", Untouched, NEW new \in Made(at.f, at.env, TRUE)
  PROVE  \E j \in DOMAIN program, args \in Seq(Exprs) : \E inner, given :
           Makes(new, j, args, inner, given)
<1> DEFINE i == at.f
           body == program[i].body
<1>1. /\ program \in Programs /\ i \in DOMAIN program /\ body \in Exprs
      /\ \A j : Numbers(j) \subseteq Int
      /\ calls[i] = Scan(program)[body]
      /\ \A n \in Range(Params(i)) : n \in DOMAIN at.env /\ at.env[n] \in Numbers(i)
      /\ DOMAIN at.env = Range(Params(i))
  <2>1. Scanned
    BY DEF TotalInv
  <2>2. i \in DOMAIN program
    BY RunningIs
  <2>3. calls[i] = Scan(program)[body]
    BY <2>1, <2>2 DEF Scanned
  <2>4. QED
    BY <2>1, <2>2, <2>3, RunningIs, NumbersAre DEF Scanned
<1> HIDE DEF body
<1>2. PICK s \in Sites[body] :
        \E inner \in Inside(i, at.env, s[2]) : new \in CallsAt(i, s[1], inner, TRUE)
  BY MadeAt DEF body
<1>3. PICK inner \in Inside(i, at.env, s[2]) : new \in CallsAt(i, s[1], inner, TRUE)
  BY <1>2
<1> DEFINE e == s[1]
<1>4. s[2] \cap Range(Params(i)) = {}
  BY <1>1 DEF Untouched, Params, body
<1>5. /\ \A n \in DOMAIN inner : inner[n] \in Int
      /\ \A n \in Range(Params(i)) : n \in DOMAIN inner /\ inner[n] = at.env[n]
  <2>1. PICK bound \in [s[2] -> Numbers(i)] :
          inner = [n \in DOMAIN at.env \cup s[2] |-> IF n \in s[2] THEN bound[n] ELSE at.env[n]]
    BY <1>3 DEF Inside
  <2>2. QED
    BY <1>1, <1>4, <2>1
<1>6. PICK j, given, vals :
        /\ j \in IndexOf(e.n) /\ vals \in [DOMAIN Params(j) -> Numbers(j)]
        /\ e.k \in {"App", "Var"}
        /\ \A x \in DOMAIN given : given[x] \in Int
        /\ new = Frames(j, vals)
        /\ \A p \in DOMAIN Params(j) \cap DOMAIN e.xs : vals[p] = Value(inner, given)[e.xs[p]]
  <2>1. CASE e.k = "App"
    <3>1. PICK j \in IndexOf(e.n) :
            new \in {Frames(j, vals) : vals \in
                      {vs \in [DOMAIN Params(j) -> Numbers(j)] :
                         \E given \in [Unknown(e, inner) -> Numbers(i)] :
                           Passed(i, e.xs, vs, inner, given, TRUE)}}
      BY <1>3, <2>1 DEF CallsAt
    <3>2. PICK vals \in [DOMAIN Params(j) -> Numbers(j)] :
            /\ new = Frames(j, vals)
            /\ \E given \in [Unknown(e, inner) -> Numbers(i)] :
                 Passed(i, e.xs, vals, inner, given, TRUE)
      BY <3>1
    <3>3. PICK given \in [Unknown(e, inner) -> Numbers(i)] :
            \A p \in DOMAIN vals \cap DOMAIN e.xs : vals[p] = Value(inner, given)[e.xs[p]]
      BY <3>2 DEF Passed
    <3>4. \A x \in DOMAIN given : given[x] \in Int
      BY <1>1
    <3>5. QED
      BY <2>1, <3>2, <3>3, <3>4
  <2>2. CASE e.k = "Var" /\ e.n \notin DOMAIN inner
    <3>1. PICK j \in IndexOf(e.n) : new \in AnyFrames(j)
      BY <1>3, <2>2 DEF CallsAt
    <3>2. PICK vals \in [DOMAIN Params(j) -> Numbers(j)] : new = Frames(j, vals)
      BY <3>1 DEF AnyFrames
    <3> DEFINE given == [x \in {} |-> 0]
    <3>3. \A x \in DOMAIN given : given[x] \in Int
      OBVIOUS
    <3>4. DOMAIN e.xs = {}
      <4>1. e \in Exprs
        BY <1>1, SitesAre
      <4>2. e = Var(e.n)
        BY <2>2, <4>1, TotalityAssumption
      <4>3. \A n : Var(n).xs = <<>>
        BY DEF Var, Node
      <4>4. e.xs = <<>>
        BY <4>2, <4>3
      <4>5. QED
        BY <4>4
    <3>5. QED
      BY <2>2, <3>2, <3>3, <3>4
  <2>3. CASE e.k # "App" /\ ~(e.k = "Var" /\ e.n \notin DOMAIN inner)
    BY <1>3, <2>3 DEF CallsAt
  <2>4. QED
    BY <2>1, <2>2, <2>3
<1>7. j \in DOMAIN program /\ program[j].name = e.n
  BY <1>6 DEF IndexOf
<1>8. e \in Exprs /\ e.xs \in Seq(Exprs)
  <2>1. e \in Exprs
    BY <1>1, SitesAre
  <2>2. QED
    BY <2>1, Parts
<1>9. \E k \in DOMAIN calls[i] : calls[i][k] = Call(j, e.xs)
  <2>1. j \in Named(program, e.n)
    BY <1>7 DEF Named
  <2>2. PICK h \in Named(program, e.n) : Call(h, e.xs) \in Range(Scan(program)[body])
    BY <1>1, <1>2, <1>6, <2>1, Found
  <2>3. h = j
    <3>1. Distinct([k \in DOMAIN program |-> program[k].name])
      BY <1>1, TotalityAssumption
    <3>2. h \in DOMAIN program /\ program[h].name = e.n
      BY <2>2 DEF Named
    <3>3. QED
      BY <1>7, <3>1, <3>2 DEF Distinct
  <2>4. QED
    BY <1>1, <2>2, <2>3 DEF Range
<1>10. /\ new.f = j /\ new \in AnyFrames(j)
       /\ \A p \in DOMAIN Params(j) : new.env[Params(j)[p]] = vals[p] /\ vals[p] \in Int
  <2>1. new \in AnyFrames(j)
    BY <1>6 DEF AnyFrames
  <2>2. \A p \in DOMAIN Params(j) : vals[p] \in Int
    BY <1>1, <1>6
  <2>3. QED
    BY <1>1, <1>6, <1>7, <2>1, <2>2, FramesAre
<1> HIDE DEF e
<1>11. \A p \in DOMAIN Params(j) \cap DOMAIN e.xs :
         new.env[Params(j)[p]] = Value(inner, given)[e.xs[p]]
  BY <1>6, <1>10
<1>12. \A p \in DOMAIN Params(j) : new.env[Params(j)[p]] \in Int
  BY <1>10
<1>13. Makes(new, j, e.xs, inner, given)
  BY <1>5, <1>6, <1>9, <1>10, <1>11, <1>12 DEF Makes, Agree
<1>14. QED
  BY <1>7, <1>8, <1>13

\* Whatever the numbers in it do: what is called is in the program.
LEMMA MadeIn ==
  ASSUME TotalInv, NEW i, NEW env, NEW exact, NEW new \in Made(i, env, exact)
  PROVE  \E j \in DOMAIN program : new \in AnyFrames(j) /\ new.f = j
<1>1. PICK e, inner : new \in CallsAt(i, e, inner, exact)
  BY MadeAt
<1>2. PICK j \in IndexOf(e.n) : new \in AnyFrames(j)
  <2>1. CASE e.k = "App"
    <3>1. PICK j \in IndexOf(e.n) :
            new \in {Frames(j, vals) : vals \in
                      {vs \in [DOMAIN Params(j) -> Numbers(j)] :
                         \E given \in [Unknown(e, inner) -> Numbers(i)] :
                           Passed(i, e.xs, vs, inner, given, exact)}}
      BY <1>1, <2>1 DEF CallsAt
    <3>2. QED
      BY <3>1 DEF AnyFrames
  <2>2. CASE e.k = "Var" /\ e.n \notin DOMAIN inner /\ exact
    BY <1>1, <2>2 DEF CallsAt
  <2>3. QED
    BY <1>1, <2>1, <2>2 DEF CallsAt
<1>3. PICK vals : new = Frames(j, vals)
  BY <1>2 DEF AnyFrames
<1>4. QED
  BY <1>2, <1>3 DEF IndexOf, Frames

\* Each call inside a group that is made lowers the measure.
LEMMA Lowers ==
  ASSUME TotalInv, stage = "running", Untouched, PureCallsPure,
         NEW new \in Made(at.f, at.env, TRUE),
         SameGroup(at.f, new.f), Measure(at.f) # NoMeasure
  PROVE  LexLess(ValuesOf(new), ValuesOf(at))
<1> DEFINE i == at.f
<1>0. PICK j \in DOMAIN program, args \in Seq(Exprs) :
         \E inner, given : Makes(new, j, args, inner, given)
  BY MadeIs
<1>1. PICK inner, given : Makes(new, j, args, inner, given)
  BY <1>0
<1>2. /\ program \in Programs /\ i \in DOMAIN program /\ Funs = DOMAIN program /\ ~Refused
      /\ calls[i] = Scan(program)[program[i].body]
  BY RunningIs DEF TotalInv, Scanned
<1>3. PICK k \in DOMAIN calls[i] : calls[i][k].callee = j /\ calls[i][k].args = args
  BY <1>1 DEF Makes, Call
<1>4. Needs(i)
  BY DEF Measure
<1>5. new.f = j /\ SameGroup(i, j)
  BY <1>1 DEF Makes
<1>6. Needs(j)
  <2>1. ~program[i].effect /\ Recursive(i)
    BY <1>4 DEF Needs
  <2>2. ~program[j].effect
    BY <1>2, <1>3, <2>1 DEF PureCallsPure
  <2>3. Recursive(j)
    <3>1. CASE j = i
      BY <2>1, <3>1
    <3>2. CASE j # i
      <4>1. i \in Funs \ {j} /\ SameGroup(j, i)
        BY <1>2, <1>5, <3>2 DEF SameGroup
      <4>2. QED
        BY <4>1 DEF Recursive
    <3>3. QED
      BY <3>1, <3>2
  <2>4. QED
    BY <2>2, <2>3 DEF Needs
<1>7. Measure(j) # NoMeasure
  BY <1>2, <1>6 DEF Refused
<1>8. LexDecreases(Measure(i), Measure(j), j, args)
  BY <1>2, <1>3, <1>5, <1>7 DEF Refused
<1>9. /\ Measure(i) \in Seq(Forms) /\ Measure(j) \in Seq(Forms)
      /\ \A p \in DOMAIN Measure(i) : DOMAIN Measure(i)[p].terms \subseteq AtomsOf(i)
  BY <1>2, MeasureIs
<1>10. /\ Len(Measure(i)) \in Nat /\ DOMAIN Measure(i) = 1..Len(Measure(i))
       /\ DOMAIN Measure(j) = DOMAIN Measure(i)
       /\ \A p \in DOMAIN Measure(i) : Measure(i)[p] \in Forms /\ Measure(j)[p] \in Forms
  <2>1. Len(Measure(i)) = Len(Measure(j))
    BY <1>8 DEF LexDecreases
  <2>2. QED
    BY <1>9, <2>1
<1> DEFINE gap(p) == Delta(Measure(i)[p], Measure(j)[p], j, args)
           old(p) == ValueOf(i, Measure(i)[p], at.env)
           next(p) == ValueOf(j, Measure(j)[p], new.env)
<1>11. ASSUME NEW p \in DOMAIN Measure(i), gap(p) \in Nat
       PROVE  old(p) = gap(p) + next(p) /\ next(p) \in Int
  <2> DEFINE l == Measure(i)[p]
             m == Measure(j)[p]
             env == at.env
             now == new.env
  <2>1. l \in Forms /\ m \in Forms /\ DOMAIN l.terms \subseteq AtomsOf(i) /\ Delta(l, m, j, args) \in Nat
    BY <1>9, <1>10, <1>11
  <2>2. Agree(i, j, args, env, inner, given, now)
    BY <1>1 DEF Makes
  <2> HIDE DEF l, m, env, now, i
  <2>3. /\ ValueOf(i, l, env) = Delta(l, m, j, args) + ValueOf(j, m, now)
        /\ ValueOf(j, m, now) \in Int
    BY <1>2, <2>1, <2>2, GapOfValues
  <2>4. QED
    BY <2>3 DEF l, m, env, now
<1>12. PICK p \in DOMAIN Measure(i) : gap(p) \in Nat \ {0} /\ \A q \in 1..(p - 1) : gap(q) = 0
  BY <1>8 DEF LexDecreases
<1>13. /\ DOMAIN ValuesOf(new) = DOMAIN Measure(i)
       /\ \A q \in DOMAIN Measure(i) : ValuesOf(new)[q] = next(q) /\ ValuesOf(at)[q] = old(q)
  BY <1>5, <1>10 DEF ValuesOf
<1> HIDE DEF i, gap, old, next
<1>14. ValuesOf(new)[p] < ValuesOf(at)[p]
  BY <1>11, <1>12, <1>13
<1>15. ASSUME NEW q \in 1..(p - 1) PROVE ValuesOf(new)[q] = ValuesOf(at)[q]
  <2>1. q \in DOMAIN Measure(i) /\ gap(q) = 0
    BY <1>10, <1>12
  <2>2. QED
    BY <1>11, <1>13, <2>1
<1>16. QED
  BY <1>13, <1>14, <1>15 DEF LexLess

LEMMA TotalInit == Init => TotalInv
BY DEF Init, TotalInv, Scanned, Accepted, RunsIn

LEMMA StillRefused ==
  ASSUME UNCHANGED <<tarjanVars, program>>
  PROVE  Refused' <=> Refused
<1>1. /\ calls' = calls /\ program' = program /\ comp' = comp
      /\ Funs' = Funs /\ \A j : Params(j)' = Params(j)
  BY DEF tarjanVars, Funs, Params
<1>2. \A j : AtomsOf(j)' = AtomsOf(j)
  BY <1>1 DEF AtomsOf
<1>3. \A l, m, j, args : Delta(l, m, j, args)' = Delta(l, m, j, args)
  <2>1. \A m, j, args, a : AtomIn(m, j, args, a)' = AtomIn(m, j, args, a)
    BY <1>1 DEF AtomIn
  <2>2. \A m, j, args : ConstIn(m, j, args)' = ConstIn(m, j, args)
    BY <1>1 DEF ConstIn
  <2>3. \A l, m, j, args : Cancel(l, m, j, args)' <=> Cancel(l, m, j, args)
    BY <2>1 DEF Cancel
  <2>4. \A m, j, args : Substitutes(m, j, args)' <=> Substitutes(m, j, args)
    BY <1>1, <1>2 DEF Substitutes
  <2>5. QED
    BY <2>2, <2>3, <2>4 DEF Delta
<1>4. \A ls, ms, j, args : LexDecreases(ls, ms, j, args)' <=> LexDecreases(ls, ms, j, args)
  BY <1>3 DEF LexDecreases
<1>5. \A i, j : SameGroup(i, j)' <=> SameGroup(i, j)
  BY <1>1 DEF SameGroup
<1>6. \A i : Needs(i)' <=> Needs(i)
  BY <1>1, <1>5 DEF Needs, Recursive
<1>7. \A i : Inferred(i)' = Inferred(i)
  <2>1. \A i : Solo(i)' <=> Solo(i)
    BY <1>1, <1>5 DEF Solo
  <2>2. \A i, p : Shrinks(i, p)' <=> Shrinks(i, p)
    BY <1>1, <1>3 DEF Shrinks
  <2>3. QED
    BY <1>1, <2>1, <2>2 DEF Inferred
<1>8. \A i : Measure(i)' = Measure(i)
  <2>1. \A i : Written(i)' = Written(i)
    BY <1>1 DEF Written
  <2>2. ASSUME NEW i PROVE Measure(i)' = Measure(i)
    <3>1. /\ program' = program /\ (Needs(i)' <=> Needs(i)) /\ Written(i)' = Written(i)
          /\ AtomsOf(i)' = AtomsOf(i) /\ Params(i)' = Params(i) /\ Inferred(i)' = Inferred(i)
      BY <1>1, <1>2, <1>6, <1>7, <2>1
    <3>2. CASE ~Needs(i)
      BY <3>1, <3>2 DEF Measure
    <3>3. CASE Needs(i) /\ program[i].measure # <<>>
      BY <3>1, <3>3 DEF Measure
    <3>4. CASE Needs(i) /\ program[i].measure = <<>>
      BY <3>1, <3>4 DEF Measure
    <3>5. QED
      BY <3>2, <3>3, <3>4
  <2>3. QED
    BY <2>2
<1>9. QED
  BY <1>1, <1>4, <1>5, <1>6, <1>8 DEF Refused

LEMMA TotalNext == ASSUME Untouched, TotalInv, [Next]_vars PROVE TotalInv'
<1>1. CASE Group
  <2>1. UNCHANGED <<calls, program, stage, at>> /\ stage = "components"
    BY <1>1 DEF Group, ComponentsNext, NextRoot, Meet, Descend, Back, Across, Leave
  <2>2. QED
    BY <2>1 DEF TotalInv, Scanned, Accepted, RunsIn
<1>2. CASE Check
  <2>1. /\ UNCHANGED <<tarjanVars, program>>
        /\ stage' = IF Refused THEN "refused" ELSE "accepted"
    BY <1>2 DEF Check
  <2>2. Refused' <=> Refused
    BY <2>1, StillRefused
  <2>3. QED
    BY <2>1, <2>2 DEF TotalInv, Scanned, Accepted, RunsIn, tarjanVars
<1>3. CASE Run
  <2>1. UNCHANGED <<tarjanVars, program>> /\ stage = "accepted"
    BY <1>3 DEF Run
  <2>2. Refused' <=> Refused
    BY <2>1, StillRefused
  <2>3. Scanned' /\ Accepted'
    BY <2>1, <2>2 DEF TotalInv, Scanned, Accepted, tarjanVars
  <2>4. PICK j \in Funs : at' \in AnyFrames(j)
    BY <1>3 DEF Run
  <2>5. at'.f = j
    <3>1. PICK vals : at' = Frames(j, vals)
      BY <2>4 DEF AnyFrames
    <3>2. QED
      BY <3>1 DEF Frames
  <2>6. j \in Funs' /\ at' \in AnyFrames(j)'
    BY <2>1, <2>4 DEF AnyFrames, Frames, Params, Numbers, Funs, tarjanVars
  <2>7. RunsIn'
    BY <2>5, <2>6 DEF RunsIn, AnyFrames, Frames, Params, Numbers
  <2>8. QED
    BY <2>3, <2>7 DEF TotalInv
<1>4. CASE Return
  <2>1. UNCHANGED <<tarjanVars, program>> /\ stage = "running" /\ stage' = "returned"
    BY <1>4 DEF Return
  <2>2. Refused' <=> Refused
    BY <2>1, StillRefused
  <2>3. QED
    BY <2>1, <2>2 DEF TotalInv, Scanned, Accepted, RunsIn, tarjanVars
<1>5. CASE UNCHANGED vars
  <2>1. UNCHANGED <<tarjanVars, program, stage, at>>
    BY <1>5 DEF vars
  <2>2. Refused' <=> Refused
    BY <2>1, StillRefused
  <2>3. RunsIn'
    BY <2>1 DEF TotalInv, RunsIn, AnyFrames, Frames, Params, Numbers, Funs, tarjanVars
  <2>4. QED
    BY <2>1, <2>2, <2>3 DEF TotalInv, Scanned, Accepted, tarjanVars
<1>6. ASSUME NEW exact, Step(exact) PROVE TotalInv'
  <2>1. /\ UNCHANGED <<tarjanVars, program, stage>> /\ stage = "running"
        /\ at' \in Made(at.f, at.env, exact)
    BY <1>6 DEF Step
  <2>2. Refused' <=> Refused
    BY <2>1, StillRefused
  <2>3. Scanned' /\ Accepted'
    BY <2>1, <2>2 DEF TotalInv, Scanned, Accepted, tarjanVars
  <2>4. PICK j \in DOMAIN program : at' \in AnyFrames(j) /\ at'.f = j
    <3> DEFINE new == at'
    <3>1. new \in Made(at.f, at.env, exact)
      BY <2>1
    <3> HIDE DEF new
    <3>2. \E j \in DOMAIN program : new \in AnyFrames(j) /\ new.f = j
      BY <3>1, MadeIn
    <3>3. QED
      BY <3>2 DEF new
  <2>5. j \in Funs
    BY DEF TotalInv, Scanned, Funs
  <2>6. j \in Funs' /\ at' \in AnyFrames(j)'
    BY <2>1, <2>4, <2>5 DEF AnyFrames, Frames, Params, Numbers, Funs, tarjanVars
  <2>7. RunsIn'
    BY <2>4, <2>6 DEF RunsIn, AnyFrames, Frames, Params, Numbers
  <2>8. QED
    BY <2>3, <2>7 DEF TotalInv
<1>7. QED
  BY <1>1, <1>2, <1>3, <1>4, <1>5, <1>6 DEF Next, Enter, Overflow

\* A call inside a group of functions that was accepted lowers their measure as
\* numbers, for every program, every value and whatever the unknown parts of the
\* arguments are, as long as no parameter is bound again and what is pure calls
\* nothing that is not (total.rs, delta: the gap "holds for every value they
\* take").
THEOREM MeasuresDescend == ASSUME Untouched, PureCallsPure PROVE Spec => Descends
<1>1. Init => TotalInv
  BY TotalInit
<1>2. TotalInv /\ [Next]_vars => TotalInv'
  BY TotalNext
<1> DEFINE Lowered == Enter /\ SameGroup(at.f, at'.f) /\ Measure(at.f) # NoMeasure
                        => LexLess(ValuesOf(at'), ValuesOf(at))
<1>3. ASSUME TotalInv, [Next]_vars PROVE [Lowered]_vars
  <2> SUFFICES ASSUME Enter, SameGroup(at.f, at'.f), Measure(at.f) # NoMeasure
               PROVE  LexLess(ValuesOf(at'), ValuesOf(at))
    OBVIOUS
  <2> DEFINE new == at'
  <2>1. stage = "running" /\ new \in Made(at.f, at.env, TRUE) /\ SameGroup(at.f, new.f)
    BY DEF Enter, Step
  <2> HIDE DEF new
  <2>2. LexLess(ValuesOf(new), ValuesOf(at))
    BY <1>3, <2>1, Lowers
  <2>3. QED
    BY <2>2 DEF new
<1>4. QED
  BY <1>1, <1>2, <1>3, PTL DEF Spec, Descends
=============================================================================
