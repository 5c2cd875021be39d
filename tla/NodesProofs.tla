---------------------------- MODULE NodesProofs ----------------------------
(***************************************************************************)
(* Where the nodes of a source are, and where they are after one of them   *)
(* is replaced: for any tokens, sources and replacements.                  *)
(***************************************************************************)
EXTENDS Nodes, SequenceTheorems, Induction

(***************************************************************************)
(* Numbers, and where nodes are.                                           *)
(***************************************************************************)

\* A set of numbers below a bound has a greatest, and Max is in it.
LEMMA MaxIsMember ==
  ASSUME NEW m \in Nat, NEW X \in SUBSET (0..m), X # {}
  PROVE  Max(X) \in X /\ \A y \in X : Max(X) >= y
<1> DEFINE D == {m - x : x \in X}
<1>1. D \in SUBSET Nat /\ D # {}
  <2>1. \A x \in X : x \in Nat /\ x <= m
    OBVIOUS
  <2>2. \A x \in X : m - x \in Nat
    BY <2>1
  <2>3. QED
    BY <2>2
<1>2. PICK d \in D : \A j \in D : ~(j < d)
  BY <1>1, LeastElement
<1>3. PICK x \in X : d = m - x
  BY <1>2
<1>4. ASSUME NEW y \in X PROVE x >= y
  <2>1. m - y \in D
    OBVIOUS
  <2>2. ~(m - y < m - x)
    BY <1>2, <1>3, <2>1
  <2>3. QED
    BY <2>2
<1>5. QED
  BY <1>4 DEF Max

\* A set of natural numbers has a least, and Min is in it.
LEMMA MinIsMember ==
  ASSUME NEW X \in SUBSET Nat, X # {}
  PROVE  Min(X) \in X /\ \A y \in X : Min(X) <= y
<1>1. PICK i \in X : \A j \in X : ~(j < i)
  BY LeastElement
<1>2. \A j \in X : i <= j
  BY <1>1
<1>3. QED
  BY <1>1, <1>2 DEF Min

\* A declaration ends where it begins or later, and within the source.
LEMMA DeclEndIsIn ==
  ASSUME NEW T, NEW src \in Seq(T), NEW i \in Starts(src)
  PROVE  i \in 1..Len(src) /\ DeclEnd(src, i) \in i..Len(src)
<1>1. i \in 1..Len(src) /\ src[i].k \in DeclKinds /\ Len(src) \in Nat
  BY DEF Starts
<1>2. src[i] # NL
  BY <1>1 DEF NL, DeclKinds
<1> DEFINE N == {j \in Starts(src) : j > i} \cup {Len(src) + 1}
<1>3. N \in SUBSET Nat /\ N # {} /\ \A j \in N : i < j /\ j <= Len(src) + 1
  BY <1>1 DEF Starts
<1>4. NextDecl(src, i) \in N
  BY <1>3, MinIsMember DEF NextDecl
<1>5. NextDecl(src, i) \in Nat /\ i < NextDecl(src, i) /\ NextDecl(src, i) <= Len(src) + 1
  BY <1>3, <1>4
<1> DEFINE E == {j \in i..(NextDecl(src, i) - 1) : src[j] # NL}
<1>6. E \in SUBSET (0..Len(src)) /\ i \in E /\ E \subseteq i..Len(src)
  BY <1>1, <1>2, <1>5
<1>7. Max(E) \in E
  BY <1>1, <1>6, MaxIsMember
<1>8. QED
  BY <1>1, <1>6, <1>7 DEF DeclEnd

\* A node that is there is a stretch of the source, which may be empty.
LEMMA NodeIsIn ==
  ASSUME NEW T, NEW src \in Seq(T), NEW decl, NEW part \in Parts, NEW x \in NodesAt(src, decl, part)
  PROVE  /\ x.first \in 1..(Len(src) + 1)
         /\ x.last \in 0..Len(src)
<1>1. PICK i \in Starts(src) : HasPart(src, i, part) /\ x = PartOf(src, i, part)
  BY DEF NodesAt
<1>2. i \in 1..Len(src) /\ DeclEnd(src, i) \in i..Len(src) /\ Len(src) \in Nat
  BY DeclEndIsIn
<1>3. CASE part = "whole"
  BY <1>1, <1>2, <1>3 DEF PartOf, Extent
<1>4. CASE part # "whole"
  <2>1. src[i].k = "fun" /\ Equals(src, i) # {}
    BY <1>1, <1>4 DEF HasPart
  <2>2. src[i] # EQ /\ src[i] # NL /\ src[i] # SP
    BY <2>1 DEF EQ, NL, SP
  <2>3. Equals(src, i) \in SUBSET Nat /\ \A e \in Equals(src, i) : i < e /\ e <= DeclEnd(src, i)
    BY <1>2, <2>2 DEF Equals
  <2>4. Split(src, i) \in Nat /\ i < Split(src, i) /\ Split(src, i) <= DeclEnd(src, i)
    BY <2>1, <2>3, MinIsMember DEF Split
  <2>5. CASE part = "sig"
    <3> DEFINE H == {j \in i..(Split(src, i) - 1) : src[j] \notin {NL, SP}}
    <3>1. H \in SUBSET (0..Len(src)) /\ i \in H
      BY <1>2, <2>2, <2>4
    <3>2. SigEnd(src, i) \in 0..Len(src)
      BY <1>2, <3>1, MaxIsMember DEF SigEnd
    <3>3. x = Extent(i, SigEnd(src, i))
      BY <1>1, <2>5 DEF PartOf
    <3>4. QED
      BY <1>2, <3>2, <3>3 DEF Extent
  <2>6. CASE part = "body"
    <3> DEFINE B == {j \in (Split(src, i) + 1)..DeclEnd(src, i) : src[j] # SP} \cup {DeclEnd(src, i) + 1}
    <3>1. B \in SUBSET Nat /\ B # {} /\ \A j \in B : 1 <= j /\ j <= Len(src) + 1
      BY <1>2, <2>4
    <3>2. BodyAt(src, i) \in B
      BY <3>1, MinIsMember DEF BodyAt
    <3>3. x = Extent(BodyAt(src, i), DeclEnd(src, i))
      BY <1>1, <2>6 DEF PartOf
    <3>4. BodyAt(src, i) \in 1..(Len(src) + 1)
      BY <1>2, <3>1, <3>2
    <3>5. QED
      BY <1>2, <3>3, <3>4 DEF Extent
  <2>7. QED
    BY <1>4, <2>5, <2>6 DEF Parts
<1>5. QED
  BY <1>3, <1>4

\* The first node that answers to a path is one of those that do.
LEMMA FindIsNode ==
  ASSUME NEW T, NEW src \in Seq(T), NEW decl, NEW part \in Parts, Has(src, decl, part)
  PROVE  Find(src, decl, part) \in NodesAt(src, decl, part)
<1> DEFINE F == {x.first : x \in NodesAt(src, decl, part)}
<1>1. \A x \in NodesAt(src, decl, part) : x.first \in Nat
  <2>1. ASSUME NEW x \in NodesAt(src, decl, part) PROVE x.first \in 1..(Len(src) + 1)
    BY NodeIsIn
  <2>2. QED
    BY <2>1
<1>2. F \in SUBSET Nat /\ F # {}
  BY <1>1 DEF Has
<1>3. PICK m \in F : \A j \in F : ~(j < m)
  BY <1>2, LeastElement
<1>4. PICK x \in NodesAt(src, decl, part) : x.first = m
  BY <1>3
<1>5. \A y \in NodesAt(src, decl, part) : ~(y.first < x.first)
  BY <1>3, <1>4
<1>6. \A y \in NodesAt(src, decl, part) : x.first <= y.first
  BY <1>1, <1>5
<1>7. QED
  BY <1>4, <1>6 DEF Find

\* A replacement without its last newlines is a text.
LEMMA TrimIsText ==
  ASSUME NEW T, NEW new \in Seq(T)
  PROVE  Trim(new) \in Seq(T)
<1> DEFINE K == {j \in DOMAIN new : new[j] # NL} \cup {0}
<1>1. Len(new) \in Nat /\ K \in SUBSET (0..Len(new)) /\ K # {}
  OBVIOUS
<1>2. Max(K) \in 0..Len(new)
  BY <1>1, MaxIsMember
<1>3. \A j \in 1..Max(K) : new[j] \in T
  BY <1>1, <1>2
<1>4. QED
  BY <1>1, <1>2, <1>3, SubSeqProperties DEF Trim

\* What is left of it does not end with a newline.
LEMMA TrimEnds ==
  ASSUME NEW T, NEW new \in Seq(T), NEW r, r = Trim(new), r # <<>>
  PROVE  r[Len(r)] # NL
<1> DEFINE K == {j \in DOMAIN new : new[j] # NL} \cup {0}
<1> PICK k : k = Max(K)
  OBVIOUS
<1>1. Len(new) \in Nat /\ K \in SUBSET (0..Len(new)) /\ K # {}
  OBVIOUS
<1>2. k \in K
  BY <1>1, MaxIsMember
<1> HIDE DEF K
<1>3. r = SubSeq(new, 1, k) /\ k \in 0..Len(new)
  BY <1>1, <1>2 DEF Trim, K
<1>4. k # 0
  BY <1>3
<1>5. Len(r) = k /\ r[k] = new[k]
  BY <1>1, <1>3, <1>4, SubSeqProperties
<1>6. QED
  BY <1>2, <1>4, <1>5 DEF K

(***************************************************************************)
(* What the places in a declaration are: each is the only one that is as   *)
(* follows.                                                                *)
(***************************************************************************)
LEMMA LeastIs ==
  ASSUME NEW X \in SUBSET Int, NEW x \in X, \A y \in X : x <= y
  PROVE  Min(X) = x
<1> PICK m : m = Min(X)
  OBVIOUS
<1>1. m \in X /\ \A y \in X : m <= y
  BY DEF Min
<1>2. m <= x /\ x <= m /\ m \in Int /\ x \in Int
  BY <1>1
<1>3. m = x
  BY <1>2
<1>4. QED
  BY <1>3

LEMMA GreatestIs ==
  ASSUME NEW X \in SUBSET Int, NEW x \in X, \A y \in X : x >= y
  PROVE  Max(X) = x
<1> PICK m : m = Max(X)
  OBVIOUS
<1>1. m \in X /\ \A y \in X : m >= y
  BY DEF Max
<1>2. m >= x /\ x >= m /\ m \in Int /\ x \in Int
  BY <1>1
<1>3. m = x
  BY <1>2
<1>4. QED
  BY <1>3

\* The next declaration is the first one that comes later, or the end.
IsNext(src, i, n) ==
  /\ n \in (i + 1)..(Len(src) + 1)
  /\ n \in Starts(src) \/ n = Len(src) + 1
  /\ \A j \in Starts(src) : j > i => n <= j

LEMMA StartIsIn ==
  ASSUME NEW T, NEW src \in Seq(T)
  PROVE  /\ Len(src) \in Nat /\ DOMAIN src = 1..Len(src)
         /\ \A i \in Starts(src) : /\ i \in 1..Len(src)
                                   /\ src[i] # NL /\ src[i] # SP /\ src[i] # EQ
BY DEF Starts, DeclKinds, NL, SP, EQ

LEMMA NextDeclIs ==
  ASSUME NEW T, NEW src \in Seq(T), NEW i \in Starts(src)
  PROVE  /\ IsNext(src, i, NextDecl(src, i))
         /\ \A n : IsNext(src, i, n) => NextDecl(src, i) = n
<1> DEFINE N == {j \in Starts(src) : j > i} \cup {Len(src) + 1}
<1>1. /\ Len(src) \in Nat /\ i \in 1..Len(src) /\ Starts(src) \subseteq 1..Len(src)
  BY StartIsIn
<1>2. N \in SUBSET Nat /\ N # {} /\ \A j \in N : i < j /\ j <= Len(src) + 1
  BY <1>1
<1>3. NextDecl(src, i) \in N /\ \A y \in N : NextDecl(src, i) <= y
  BY <1>2, MinIsMember DEF NextDecl
<1>4. IsNext(src, i, NextDecl(src, i))
  BY <1>1, <1>2, <1>3 DEF IsNext
<1>5. ASSUME NEW n, IsNext(src, i, n) PROVE NextDecl(src, i) = n
  <2>1. n \in N /\ \A y \in N : n <= y
    BY <1>1, <1>2, <1>5 DEF IsNext
  <2>2. N \in SUBSET Int
    BY <1>2
  <2>3. QED
    BY <2>1, <2>2, LeastIs DEF NextDecl
<1>6. QED
  BY <1>4, <1>5

\* A declaration ends with the last token before the next that is no newline.
IsEnd(src, i, n, e) ==
  /\ e \in i..(n - 1)
  /\ src[e] # NL
  /\ \A j \in (e + 1)..(n - 1) : src[j] = NL

LEMMA DeclEndIs ==
  ASSUME NEW T, NEW src \in Seq(T), NEW i \in Starts(src), NEW n, n = NextDecl(src, i)
  PROVE  /\ IsEnd(src, i, n, DeclEnd(src, i))
         /\ \A e : IsEnd(src, i, n, e) => DeclEnd(src, i) = e
<1> DEFINE E == {j \in i..(n - 1) : src[j] # NL}
<1>1. /\ Len(src) \in Nat /\ i \in 1..Len(src) /\ src[i] # NL
      /\ n \in (i + 1)..(Len(src) + 1)
  BY StartIsIn, NextDeclIs DEF IsNext
<1>2. E \in SUBSET (0..Len(src)) /\ i \in E
  BY <1>1
<1>3. DeclEnd(src, i) \in E /\ \A y \in E : DeclEnd(src, i) >= y
  BY <1>1, <1>2, MaxIsMember DEF DeclEnd
<1>4. IsEnd(src, i, n, DeclEnd(src, i))
  <2> PICK e : e = DeclEnd(src, i)
    OBVIOUS
  <2>1. e \in i..(n - 1) /\ src[e] # NL
    BY <1>3
  <2>2. ASSUME NEW j \in (e + 1)..(n - 1), src[j] # NL PROVE FALSE
    <3>1. j \in E
      BY <1>1, <2>1, <2>2
    <3>2. QED
      BY <1>1, <1>3, <2>1, <3>1
  <2>3. QED
    BY <2>1, <2>2 DEF IsEnd
<1>5. ASSUME NEW e, IsEnd(src, i, n, e) PROVE DeclEnd(src, i) = e
  <2>1. e \in E
    BY <1>5 DEF IsEnd
  <2>2. ASSUME NEW y \in E PROVE e >= y
    BY <1>1, <1>5, <2>1 DEF IsEnd
  <2>3. E \in SUBSET Int
    BY <1>2
  <2>4. QED
    BY <2>1, <2>2, <2>3, GreatestIs DEF DeclEnd
<1>6. QED
  BY <1>4, <1>5

\* The head ends with the first equals sign,
IsSplit(src, i, e, s) ==
  /\ s \in (i + 1)..e
  /\ src[s] = EQ
  /\ \A j \in i..(s - 1) : src[j] # EQ

LEMMA SplitIs ==
  ASSUME NEW T, NEW src \in Seq(T), NEW i \in Starts(src), NEW e, e = DeclEnd(src, i)
  PROVE  /\ Equals(src, i) # {} => IsSplit(src, i, e, Split(src, i))
         /\ \A s : IsSplit(src, i, e, s) => Equals(src, i) # {} /\ Split(src, i) = s
<1> DEFINE E == Equals(src, i)
<1>1. i \in Nat /\ e \in Nat /\ src[i] # EQ
  BY StartIsIn, DeclEndIsIn
<1>2. E \in SUBSET Nat /\ \A j \in E : j \in (i + 1)..e /\ src[j] = EQ
  BY <1>1 DEF Equals
<1>3. ASSUME E # {} PROVE IsSplit(src, i, e, Split(src, i))
  <2> PICK s : s = Split(src, i)
    OBVIOUS
  <2>1. s \in E /\ \A y \in E : s <= y
    BY <1>2, <1>3, MinIsMember DEF Split
  <2>2. ASSUME NEW j \in i..(s - 1), src[j] = EQ PROVE FALSE
    <3>1. j \in E
      BY <1>1, <1>2, <2>1, <2>2 DEF Equals
    <3>2. QED
      BY <1>1, <1>2, <2>1, <2>2, <3>1
  <2>3. QED
    BY <1>2, <2>1, <2>2 DEF IsSplit
<1>4. ASSUME NEW s, IsSplit(src, i, e, s) PROVE E # {} /\ Split(src, i) = s
  <2>1. s \in E
    BY <1>1, <1>4 DEF IsSplit, Equals
  <2>2. ASSUME NEW y \in E PROVE s <= y
    BY <1>1, <1>2, <1>4, <2>1 DEF IsSplit
  <2>3. QED
    BY <1>2, <2>1, <2>2, LeastIs DEF Split
<1>5. QED
  BY <1>3, <1>4

\* without the space before that,
IsSigEnd(src, i, s, g) ==
  /\ g \in i..(s - 1)
  /\ src[g] \notin {NL, SP}
  /\ \A j \in (g + 1)..(s - 1) : src[j] \in {NL, SP}

LEMMA SigEndIs ==
  ASSUME NEW T, NEW src \in Seq(T), NEW i \in Starts(src), NEW s, s = Split(src, i),
         Equals(src, i) # {}
  PROVE  /\ IsSigEnd(src, i, s, SigEnd(src, i))
         /\ \A g : IsSigEnd(src, i, s, g) => SigEnd(src, i) = g
<1> DEFINE G == {j \in i..(s - 1) : src[j] \notin {NL, SP}}
<1>1. /\ Len(src) \in Nat /\ i \in 1..Len(src) /\ src[i] # NL /\ src[i] # SP
      /\ s \in (i + 1)..Len(src)
  <2>1. DeclEnd(src, i) \in i..Len(src)
    BY DeclEndIsIn
  <2>2. s \in (i + 1)..DeclEnd(src, i)
    BY SplitIs DEF IsSplit
  <2>3. QED
    BY <2>1, <2>2, StartIsIn
<1>2. G \in SUBSET (0..Len(src)) /\ i \in G
  BY <1>1
<1>3. SigEnd(src, i) \in G /\ \A y \in G : SigEnd(src, i) >= y
  BY <1>1, <1>2, MaxIsMember DEF SigEnd
<1>4. IsSigEnd(src, i, s, SigEnd(src, i))
  <2> PICK g : g = SigEnd(src, i)
    OBVIOUS
  <2>1. g \in i..(s - 1) /\ src[g] \notin {NL, SP}
    BY <1>3
  <2>2. ASSUME NEW j \in (g + 1)..(s - 1), src[j] \notin {NL, SP} PROVE FALSE
    <3>1. j \in G
      BY <1>1, <2>1, <2>2
    <3>2. QED
      BY <1>1, <1>3, <2>1, <3>1
  <2>3. QED
    BY <2>1, <2>2 DEF IsSigEnd
<1>5. ASSUME NEW g, IsSigEnd(src, i, s, g) PROVE SigEnd(src, i) = g
  <2>1. g \in G
    BY <1>5 DEF IsSigEnd
  <2>2. ASSUME NEW y \in G PROVE g >= y
    BY <1>1, <1>5, <2>1 DEF IsSigEnd
  <2>3. G \in SUBSET Int
    BY <1>2
  <2>4. QED
    BY <2>1, <2>2, <2>3, GreatestIs DEF SigEnd
<1>6. QED
  BY <1>4, <1>5

\* and the body begins after the space behind it, if there is a body.
IsBodyAt(src, e, s, b) ==
  /\ b \in (s + 1)..(e + 1)
  /\ b <= e => src[b] # SP
  /\ \A j \in (s + 1)..(b - 1) : src[j] = SP

LEMMA BodyAtIs ==
  ASSUME NEW T, NEW src \in Seq(T), NEW i \in Starts(src), NEW s, s = Split(src, i),
         NEW e, e = DeclEnd(src, i), Equals(src, i) # {}
  PROVE  /\ IsBodyAt(src, e, s, BodyAt(src, i))
         /\ \A b : IsBodyAt(src, e, s, b) => BodyAt(src, i) = b
<1> DEFINE B == {j \in (s + 1)..e : src[j] # SP} \cup {e + 1}
<1>1. i \in Nat /\ e \in Nat /\ s \in (i + 1)..e
  BY DeclEndIsIn, SplitIs DEF IsSplit
<1>2. B \in SUBSET Nat /\ B # {} /\ \A j \in B : s + 1 <= j /\ j <= e + 1
  BY <1>1
<1>3. BodyAt(src, i) \in B /\ \A y \in B : BodyAt(src, i) <= y
  BY <1>2, MinIsMember DEF BodyAt
<1>4. IsBodyAt(src, e, s, BodyAt(src, i))
  <2> PICK b : b = BodyAt(src, i)
    OBVIOUS
  <2>1. b \in (s + 1)..(e + 1) /\ (b <= e => src[b] # SP)
    BY <1>1, <1>2, <1>3
  <2>2. ASSUME NEW j \in (s + 1)..(b - 1), src[j] # SP PROVE FALSE
    <3>1. j \in B
      BY <1>1, <2>1, <2>2
    <3>2. QED
      BY <1>1, <1>3, <2>1, <3>1
  <2>3. QED
    BY <2>1, <2>2 DEF IsBodyAt
<1>5. ASSUME NEW b, IsBodyAt(src, e, s, b) PROVE BodyAt(src, i) = b
  <2>1. b \in B
    BY <1>1, <1>5 DEF IsBodyAt
  <2>2. ASSUME NEW y \in B PROVE b <= y
    BY <1>1, <1>5, <2>1 DEF IsBodyAt
  <2>3. B \in SUBSET Int
    BY <1>2
  <2>4. QED
    BY <2>1, <2>2, <2>3, LeastIs DEF BodyAt
<1>6. QED
  BY <1>4, <1>5

(***************************************************************************)
(* The nodes of a declaration lie in it, and the first of a name is meant. *)
(***************************************************************************)
LEMMA PartIsIn ==
  ASSUME NEW T, NEW src \in Seq(T), NEW i \in Starts(src), NEW part \in Parts,
         HasPart(src, i, part), NEW x, x = PartOf(src, i, part)
  PROVE  /\ x = Extent(x.first, x.last)
         /\ x.first \in i..(DeclEnd(src, i) + 1)
         /\ x.last \in i..DeclEnd(src, i)
         /\ x.first <= x.last + 1
         /\ x.first = i <=> part # "body"
<1> DEFINE e == DeclEnd(src, i)
<1>1. i \in Nat /\ e \in i..Len(src) /\ Len(src) \in Nat
  BY DeclEndIsIn, StartIsIn
<1>2. CASE part = "whole"
  BY <1>1, <1>2 DEF PartOf, Extent
<1>3. CASE part = "sig"
  <2>1. Equals(src, i) # {}
    BY <1>3 DEF HasPart
  <2>2. Split(src, i) \in (i + 1)..e /\ SigEnd(src, i) \in i..(Split(src, i) - 1)
    BY <2>1, SplitIs, SigEndIs DEF IsSplit, IsSigEnd
  <2>3. x = Extent(i, SigEnd(src, i))
    BY <1>3 DEF PartOf
  <2>4. QED
    BY <1>1, <1>3, <2>2, <2>3 DEF Extent
<1>4. CASE part = "body"
  <2>1. Equals(src, i) # {}
    BY <1>4 DEF HasPart
  <2>2. Split(src, i) \in (i + 1)..e /\ BodyAt(src, i) \in (Split(src, i) + 1)..(e + 1)
    BY <2>1, SplitIs, BodyAtIs DEF IsSplit, IsBodyAt
  <2>3. x = Extent(BodyAt(src, i), e)
    BY <1>4 DEF PartOf
  <2>4. QED
    BY <1>1, <1>4, <2>2, <2>3 DEF Extent
<1>5. QED
  BY <1>2, <1>3, <1>4 DEF Parts

\* The nodes of a later declaration begin later.
LEMMA LaterBegins ==
  ASSUME NEW T, NEW src \in Seq(T), NEW i \in Starts(src), NEW j \in Starts(src), i < j,
         NEW part \in Parts, HasPart(src, i, part), HasPart(src, j, part)
  PROVE  PartOf(src, i, part).first < PartOf(src, j, part).first
<1>1. i \in Nat /\ j \in Nat /\ DeclEnd(src, j) \in Nat
  BY StartIsIn, DeclEndIsIn
<1>2. NextDecl(src, i) \in Nat /\ NextDecl(src, i) <= j
  BY <1>1, NextDeclIs DEF IsNext
<1>3. DeclEnd(src, i) \in i..(NextDecl(src, i) - 1)
  BY DeclEndIs DEF IsEnd
<1>4. /\ PartOf(src, i, part).first \in i..(DeclEnd(src, i) + 1)
      /\ PartOf(src, i, part).first = i <=> part # "body"
      /\ PartOf(src, j, part).first \in j..(DeclEnd(src, j) + 1)
      /\ PartOf(src, j, part).first = j <=> part # "body"
  BY PartIsIn
<1>5. QED
  BY <1>1, <1>2, <1>3, <1>4

\* A path means the node of the first declaration of that name and kind.
IsFirst(src, decl, part, i) ==
  /\ i \in Starts(src) /\ src[i].n = decl /\ HasPart(src, i, part)
  /\ \A j \in Starts(src) : src[j].n = decl /\ HasPart(src, j, part) => i <= j

LEMMA FindIs ==
  ASSUME NEW T, NEW src \in Seq(T), NEW decl, NEW part \in Parts, NEW i, IsFirst(src, decl, part, i)
  PROVE  Has(src, decl, part) /\ Find(src, decl, part) = PartOf(src, i, part)
<1> DEFINE N == NodesAt(src, decl, part)
<1>1. i \in Starts(src) /\ HasPart(src, i, part) /\ i \in Nat
  BY StartIsIn DEF IsFirst
<1> PICK x : x = PartOf(src, i, part)
  OBVIOUS
<1>2. x \in N
  BY <1>1 DEF IsFirst, NodesAt
<1>3. \A y \in N : \E j \in Starts(src) :
        /\ y = PartOf(src, j, part) /\ HasPart(src, j, part) /\ (i = j \/ i < j)
  <2>1. ASSUME NEW y \in N
        PROVE  \E j \in Starts(src) :
                 /\ y = PartOf(src, j, part) /\ HasPart(src, j, part) /\ (i = j \/ i < j)
    <3>1. PICK j \in Starts(src) : /\ src[j].n = decl /\ HasPart(src, j, part)
                                   /\ y = PartOf(src, j, part)
      BY DEF NodesAt
    <3>2. i <= j /\ j \in Nat
      BY <3>1, StartIsIn DEF IsFirst
    <3>3. QED
      BY <1>1, <3>1, <3>2
  <2>2. QED
    BY <2>1
<1>4. \A y \in N : y = x \/ x.first < y.first
  BY <1>1, <1>3, LaterBegins
<1>5. \A y \in N : y.first \in Nat
  <2>1. ASSUME NEW y \in N PROVE y.first \in 1..(Len(src) + 1)
    BY NodeIsIn
  <2>2. QED
    BY <2>1
<1>6. \A y \in N : x.first <= y.first
  BY <1>2, <1>4, <1>5
<1> PICK f : f = Find(src, decl, part)
  OBVIOUS
<1>7. f \in N /\ \A y \in N : f.first <= y.first
  BY <1>2, <1>6 DEF Find
<1>8. f = x
  BY <1>2, <1>4, <1>5, <1>7
<1>9. QED
  BY <1>2, <1>8 DEF Has

LEMMA FindFirst ==
  ASSUME NEW T, NEW src \in Seq(T), NEW decl, NEW part \in Parts, Has(src, decl, part)
  PROVE  \E i : IsFirst(src, decl, part, i)
<1> DEFINE C == {j \in Starts(src) : src[j].n = decl /\ HasPart(src, j, part)}
<1>1. \A j \in Starts(src) : j \in Nat
  BY StartIsIn
<1>2. C \in SUBSET Nat /\ C # {}
  BY <1>1 DEF Has, NodesAt
<1>3. PICK i \in C : \A j \in C : ~(j < i)
  BY <1>2, LeastElement
<1>4. \A j \in C : i <= j
  BY <1>2, <1>3
<1>5. IsFirst(src, decl, part, i)
  BY <1>4 DEF IsFirst
<1>6. QED
  BY <1>5

(***************************************************************************)
(* What a declaration is depends on its own tokens, wherever they are.     *)
(***************************************************************************)

\* Tokens that are moved by d, and the places among them.
LEMMA MovedPlaces ==
  ASSUME NEW src, NEW dst, NEW i \in Nat, NEW n \in Nat, NEW e \in Nat, NEW d \in Int,
         \A k \in i..(n - 1) : dst[k + d] = src[k], IsEnd(src, i, n, e)
  PROVE  /\ IsEnd(dst, i + d, n + d, e + d)
         /\ \A s \in Nat : IsSplit(src, i, e, s) =>
              /\ IsSplit(dst, i + d, e + d, s + d)
              /\ \A g \in Nat : IsSigEnd(src, i, s, g) => IsSigEnd(dst, i + d, s + d, g + d)
              /\ \A b \in Nat : IsBodyAt(src, e, s, b) => IsBodyAt(dst, e + d, s + d, b + d)
<1>1. e \in i..(n - 1)
  BY DEF IsEnd
<1>2. \A k \in (i + d)..(n + d - 1) : dst[k] = src[k - d] /\ k - d \in i..(n - 1)
  <2>1. ASSUME NEW k \in (i + d)..(n + d - 1) PROVE dst[k] = src[k - d] /\ k - d \in i..(n - 1)
    <3>1. k - d \in i..(n - 1) /\ (k - d) + d = k
      OBVIOUS
    <3>2. QED
      BY <3>1
  <2>2. QED
    BY <2>1
<1>3. IsEnd(dst, i + d, n + d, e + d)
  <2>1. \A k \in (e + d + 1)..(n + d - 1) : dst[k] = NL
    BY <1>1, <1>2 DEF IsEnd
  <2>2. dst[e + d] # NL /\ e + d \in (i + d)..(n + d - 1)
    BY <1>1 DEF IsEnd
  <2>3. QED
    BY <2>1, <2>2 DEF IsEnd
<1>4. ASSUME NEW s \in Nat, IsSplit(src, i, e, s)
      PROVE  /\ IsSplit(dst, i + d, e + d, s + d)
             /\ \A g \in Nat : IsSigEnd(src, i, s, g) => IsSigEnd(dst, i + d, s + d, g + d)
             /\ \A b \in Nat : IsBodyAt(src, e, s, b) => IsBodyAt(dst, e + d, s + d, b + d)
  <2>1. s \in (i + 1)..e
    BY <1>4 DEF IsSplit
  <2>2. IsSplit(dst, i + d, e + d, s + d)
    <3>1. \A k \in (i + d)..(s + d - 1) : dst[k] # EQ
      BY <1>1, <1>2, <1>4, <2>1 DEF IsSplit
    <3>2. dst[s + d] = EQ /\ s + d \in (i + d + 1)..(e + d)
      BY <1>1, <1>4, <2>1 DEF IsSplit
    <3>3. QED
      BY <3>1, <3>2 DEF IsSplit
  <2>3. ASSUME NEW g \in Nat, IsSigEnd(src, i, s, g)
        PROVE  IsSigEnd(dst, i + d, s + d, g + d)
    <3>1. g \in i..(s - 1)
      BY <2>3 DEF IsSigEnd
    <3>2. \A k \in (g + d + 1)..(s + d - 1) : dst[k] \in {NL, SP}
      BY <1>1, <1>2, <2>1, <2>3, <3>1 DEF IsSigEnd
    <3>3. dst[g + d] \notin {NL, SP} /\ g + d \in (i + d)..(s + d - 1)
      BY <1>1, <2>1, <2>3, <3>1 DEF IsSigEnd
    <3>4. QED
      BY <3>2, <3>3 DEF IsSigEnd
  <2>4. ASSUME NEW b \in Nat, IsBodyAt(src, e, s, b)
        PROVE  IsBodyAt(dst, e + d, s + d, b + d)
    <3>1. b \in (s + 1)..(e + 1)
      BY <2>4 DEF IsBodyAt
    <3>2. \A k \in (s + d + 1)..(b + d - 1) : dst[k] = SP
      BY <1>1, <1>2, <2>1, <2>4, <3>1 DEF IsBodyAt
    <3>3. (b + d <= e + d => dst[b + d] # SP) /\ b + d \in (s + d + 1)..(e + d + 1)
      BY <1>1, <2>1, <2>4, <3>1 DEF IsBodyAt
    <3>4. QED
      BY <3>2, <3>3 DEF IsBodyAt
  <2>5. QED
    BY <2>2, <2>3, <2>4
<1>5. QED
  BY <1>3, <1>4

\* The same stretch of two sequences, moved by d.
LEMMA MovedStretch ==
  ASSUME NEW T, NEW src \in Seq(T), NEW dst \in Seq(T), NEW a \in Nat, NEW b \in Nat, NEW d \in Int,
         1 <= a, a <= b + 1, b <= Len(src), 1 <= a + d, b + d <= Len(dst),
         \A k \in a..b : dst[k + d] = src[k]
  PROVE  SubSeq(dst, a + d, b + d) = SubSeq(src, a, b)
<1>1. Len(src) \in Nat /\ Len(dst) \in Nat
  OBVIOUS
<1>2. CASE a = b + 1
  <2>1. SubSeq(src, a, b) = <<>> /\ SubSeq(dst, a + d, b + d) = <<>>
    BY <1>2, SubSeqEmpty
  <2>2. QED
    BY <2>1
<1>3. CASE a <= b
  <2>1. /\ Len(SubSeq(src, a, b)) = b - a + 1 /\ SubSeq(src, a, b) \in Seq(T)
        /\ \A k \in 1..(b - a + 1) : SubSeq(src, a, b)[k] = src[a + k - 1]
    BY <1>1, <1>3
  <2>2. /\ Len(SubSeq(dst, a + d, b + d)) = b - a + 1 /\ SubSeq(dst, a + d, b + d) \in Seq(T)
        /\ \A k \in 1..(b - a + 1) : SubSeq(dst, a + d, b + d)[k] = dst[a + d + k - 1]
    BY <1>1, <1>3
  <2>3. ASSUME NEW k \in 1..(b - a + 1) PROVE dst[a + d + k - 1] = src[a + k - 1]
    <3>1. a + k - 1 \in a..b /\ a + d + k - 1 = (a + k - 1) + d
      OBVIOUS
    <3>2. QED
      BY <3>1
  <2>4. QED
    BY <2>1, <2>2, <2>3, SeqEqual
<1>4. QED
  BY <1>1, <1>2, <1>3

\* The declaration at i in src is the one at i + d in dst.
Moved(src, dst, i, d) ==
  /\ i \in Starts(src) /\ d \in Int /\ i + d \in Starts(dst)
  /\ NextDecl(dst, i + d) = NextDecl(src, i) + d
  /\ \A k \in i..(NextDecl(src, i) - 1) : dst[k + d] = src[k]

LEMMA MovedParts ==
  ASSUME NEW T, NEW src \in Seq(T), NEW dst \in Seq(T), NEW i, NEW d, Moved(src, dst, i, d),
         NEW part \in Parts
  PROVE  /\ HasPart(src, i, part) => HasPart(dst, i + d, part)
         /\ HasPart(src, i, part) =>
              PartOf(dst, i + d, part)
                = Extent(PartOf(src, i, part).first + d, PartOf(src, i, part).last + d)
<1>1. /\ i \in Starts(src) /\ i \in Nat /\ d \in Int /\ i + d \in Starts(dst)
      /\ NextDecl(src, i) \in Nat /\ i <= NextDecl(src, i) - 1 /\ DeclEnd(src, i) \in Nat
      /\ IsEnd(src, i, NextDecl(src, i), DeclEnd(src, i))
  <2>1. i \in Starts(src) /\ d \in Int /\ i + d \in Starts(dst)
    BY DEF Moved
  <2>2. i \in Nat /\ DeclEnd(src, i) \in i..Len(src) /\ Len(src) \in Nat
    BY <2>1, StartIsIn, DeclEndIsIn
  <2>3. NextDecl(src, i) \in (i + 1)..(Len(src) + 1)
    BY <2>1, NextDeclIs DEF IsNext
  <2>4. IsEnd(src, i, NextDecl(src, i), DeclEnd(src, i))
    BY <2>1, DeclEndIs
  <2>5. QED
    BY <2>1, <2>2, <2>3, <2>4
<1>2. DeclEnd(dst, i + d) = DeclEnd(src, i) + d
  <2>1. IsEnd(dst, i + d, NextDecl(src, i) + d, DeclEnd(src, i) + d)
    BY <1>1, MovedPlaces DEF Moved
  <2>2. QED
    BY <1>1, <2>1, DeclEndIs DEF Moved
<1>3. dst[i + d] = src[i]
  BY <1>1 DEF Moved
<1>4. ASSUME Equals(src, i) # {}
      PROVE  /\ Equals(dst, i + d) # {}
             /\ SigEnd(src, i) \in Nat /\ SigEnd(dst, i + d) = SigEnd(src, i) + d
             /\ BodyAt(src, i) \in Nat /\ BodyAt(dst, i + d) = BodyAt(src, i) + d
  <2>1. /\ IsSplit(src, i, DeclEnd(src, i), Split(src, i))
        /\ IsSigEnd(src, i, Split(src, i), SigEnd(src, i))
        /\ IsBodyAt(src, DeclEnd(src, i), Split(src, i), BodyAt(src, i))
    BY <1>1, <1>4, SplitIs, SigEndIs, BodyAtIs
  <2>2. Split(src, i) \in Nat /\ SigEnd(src, i) \in Nat /\ BodyAt(src, i) \in Nat
    <3>1. /\ Split(src, i) \in (i + 1)..DeclEnd(src, i)
          /\ SigEnd(src, i) \in i..(Split(src, i) - 1)
          /\ BodyAt(src, i) \in (Split(src, i) + 1)..(DeclEnd(src, i) + 1)
      BY <2>1 DEF IsSplit, IsSigEnd, IsBodyAt
    <3>2. QED
      BY <1>1, <3>1
  <2>3. /\ IsSplit(dst, i + d, DeclEnd(src, i) + d, Split(src, i) + d)
        /\ IsSigEnd(dst, i + d, Split(src, i) + d, SigEnd(src, i) + d)
        /\ IsBodyAt(dst, DeclEnd(src, i) + d, Split(src, i) + d, BodyAt(src, i) + d)
    BY <1>1, <2>1, <2>2, MovedPlaces DEF Moved
  <2>4. Equals(dst, i + d) # {} /\ Split(dst, i + d) = Split(src, i) + d
    BY <1>1, <1>2, <2>3, SplitIs
  <2>5. SigEnd(dst, i + d) = SigEnd(src, i) + d
    BY <1>1, <2>3, <2>4, SigEndIs
  <2>6. BodyAt(dst, i + d) = BodyAt(src, i) + d
    BY <1>1, <1>2, <2>3, <2>4, BodyAtIs
  <2>7. QED
    BY <2>2, <2>4, <2>5, <2>6
<1>5. ASSUME HasPart(src, i, part)
      PROVE  /\ HasPart(dst, i + d, part)
             /\ PartOf(dst, i + d, part)
                  = Extent(PartOf(src, i, part).first + d, PartOf(src, i, part).last + d)
  <2>1. CASE part = "whole"
    BY <1>2, <2>1 DEF HasPart, PartOf, Extent
  <2>2. CASE part = "sig"
    BY <1>3, <1>4, <1>5, <2>2 DEF HasPart, PartOf, Extent
  <2>3. CASE part = "body"
    BY <1>2, <1>3, <1>4, <1>5, <2>3 DEF HasPart, PartOf, Extent
  <2>4. QED
    BY <2>1, <2>2, <2>3 DEF Parts
<1>6. QED
  BY <1>5

\* A stretch of it says the same.
LEMMA MovedText ==
  ASSUME NEW T, NEW src \in Seq(T), NEW dst \in Seq(T), NEW i \in Nat, NEW d \in Int,
         Moved(src, dst, i, d), NEW a \in Nat, NEW b \in Nat, i <= a, a <= b + 1, b < NextDecl(src, i)
  PROVE  SubSeq(dst, a + d, b + d) = SubSeq(src, a, b)
<1>1. /\ i \in Starts(src) /\ d \in Int /\ i + d \in Starts(dst)
      /\ \A k \in i..(NextDecl(src, i) - 1) : dst[k + d] = src[k]
  BY DEF Moved
<1>2. i \in 1..Len(src) /\ i + d \in 1..Len(dst) /\ Len(src) \in Nat /\ Len(dst) \in Nat
  BY <1>1, StartIsIn
<1>3. /\ NextDecl(src, i) \in (i + 1)..(Len(src) + 1)
      /\ NextDecl(src, i) + d <= Len(dst) + 1
  <2>1. NextDecl(dst, i + d) = NextDecl(src, i) + d
    BY DEF Moved
  <2>2. NextDecl(dst, i + d) \in (i + d + 1)..(Len(dst) + 1)
    BY <1>1, NextDeclIs DEF IsNext
  <2>3. NextDecl(src, i) \in (i + 1)..(Len(src) + 1)
    BY <1>1, NextDeclIs DEF IsNext
  <2>4. QED
    BY <2>1, <2>2, <2>3
<1>4. 1 <= a /\ b <= Len(src) /\ 1 <= a + d /\ b + d <= Len(dst)
  BY <1>1, <1>2, <1>3
<1>5. \A k \in a..b : dst[k + d] = src[k]
  <2>1. ASSUME NEW k \in a..b PROVE k \in i..(NextDecl(src, i) - 1)
    BY <1>2, <1>3
  <2>2. QED
    BY <1>1, <2>1
<1>6. QED
  BY <1>1, <1>4, <1>5, MovedStretch

(***************************************************************************)
(* Replacing a stretch of a declaration.                                   *)
(***************************************************************************)

Spliced(src, a, b, r) == SubSeq(src, 1, a - 1) \o r \o SubSeq(src, b + 1, Len(src))

\* In dst, r stands for the tokens from a to b of the declaration at i of src;
\* it is all of that declaration's head that names it, or none, and d longer.
Splice(src, dst, i, a, b, r, d) ==
  /\ i \in Starts(src) /\ a \in Nat /\ b \in Nat /\ d \in Int
  /\ i <= a /\ a <= b + 1 /\ i <= b /\ b <= DeclEnd(src, i)
  /\ r # <<>> /\ Starts(r) = IF a = i THEN {1} ELSE {}
  /\ d = Len(r) - (b - a + 1)
  /\ dst = Spliced(src, a, b, r)

\* The tokens then are those before it, those of r, and those behind.
Replaced(src, dst, a, b, r, d) ==
  /\ \A k \in 1..(a - 1) : dst[k] = src[k]
  /\ \A k \in 1..Len(r) : dst[k + (a - 1)] = r[k]
  /\ \A k \in (b + 1)..Len(src) : dst[k + d] = src[k]

LEMMA SpliceIs ==
  ASSUME NEW T, NEW src \in Seq(T), NEW r \in Seq(T), NEW dst, NEW i \in Nat,
         NEW a \in Nat, NEW b \in Nat, NEW d \in Int, Splice(src, dst, i, a, b, r, d)
  PROVE  /\ i \in Starts(src) /\ i \in 1..Len(src) /\ a \in Nat /\ b \in Nat /\ d \in Int
         /\ Len(r) \in Nat /\ Len(r) >= 1 /\ d = Len(r) - (b - a + 1)
         /\ i <= a /\ a <= b + 1 /\ i <= b /\ b < NextDecl(src, i)
         /\ Len(src) \in Nat /\ NextDecl(src, i) \in (i + 1)..(Len(src) + 1)
         /\ dst \in Seq(T) /\ Len(dst) = Len(src) + d /\ Len(dst) \in Nat
         /\ Replaced(src, dst, a, b, r, d)
<1>1. /\ i \in Starts(src) /\ a \in Nat /\ b \in Nat /\ d \in Int
      /\ i <= a /\ a <= b + 1 /\ i <= b /\ b <= DeclEnd(src, i)
      /\ r # <<>> /\ d = Len(r) - (b - a + 1)
  BY DEF Splice
<1>2. i \in 1..Len(src) /\ Len(src) \in Nat
  BY <1>1, StartIsIn
<1>3. NextDecl(src, i) \in (i + 1)..(Len(src) + 1)
  BY <1>1, NextDeclIs DEF IsNext
<1>4. DeclEnd(src, i) \in i..(NextDecl(src, i) - 1)
  BY <1>1, DeclEndIs DEF IsEnd
<1>5. b < NextDecl(src, i) /\ b <= Len(src) /\ 1 <= a
  BY <1>1, <1>2, <1>3, <1>4
<1>6. Len(r) \in Nat /\ Len(r) >= 1
  BY <1>1
<1>7. /\ dst \in Seq(T) /\ Len(dst) = Len(src) + d
      /\ Replaced(src, dst, a, b, r, d)
  <2> DEFINE n == Len(src)
             m == Len(r)
             p == SubSeq(src, 1, a - 1)
             q == SubSeq(src, b + 1, n)
             t == p \o r
             w == t \o q
             e == m - (b - a + 1)
  <2>0. n \in Nat /\ m \in Nat /\ b <= n /\ 1 <= a /\ a <= b + 1
    BY <1>1, <1>5, <1>6
  <2>1. p \in Seq(T) /\ Len(p) = a - 1 /\ \A k \in 1..(a - 1) : p[k] = src[k]
    BY <2>0
  <2>2. q \in Seq(T) /\ Len(q) = n - b /\ \A k \in 1..(n - b) : q[k] = src[b + k]
    <3>1. CASE b = n
      <4>1. q = <<>> /\ n - b = 0
        BY <2>0, <3>1, SubSeqEmpty
      <4>2. QED
        BY <4>1
    <3>2. CASE b < n
      BY <2>0, <3>2
    <3>3. QED
      BY <2>0, <3>1, <3>2
  <2>3. /\ t \in Seq(T) /\ Len(t) = a - 1 + m
        /\ \A k \in 1..(a - 1) : t[k] = p[k]
        /\ \A k \in 1..m : t[k + (a - 1)] = r[k]
    <3> HIDE DEF p, q
    <3>1. t \in Seq(T) /\ Len(t) = Len(p) + m
          /\ \A k \in 1..(Len(p) + m) : t[k] = IF k <= Len(p) THEN p[k] ELSE r[k - Len(p)]
      <4>1. p \in Seq(T) /\ r \in Seq(T)
        BY <2>1
      <4>2. QED
        BY <4>1, ConcatProperties
    <3>2. ASSUME NEW k \in 1..m PROVE t[k + (a - 1)] = r[k]
      <4>1. k + (a - 1) \in 1..(a - 1 + m) /\ ~(k + (a - 1) <= a - 1) /\ (k + (a - 1)) - (a - 1) = k
        BY <2>0
      <4>2. QED
        BY <2>1, <3>1, <4>1
    <3>3. ASSUME NEW k \in 1..(a - 1) PROVE t[k] = p[k]
      BY <2>0, <2>1, <3>1
    <3>4. QED
      BY <2>1, <3>1, <3>2, <3>3
  <2> HIDE DEF p, q, t, n, m
  <2>4. /\ w \in Seq(T) /\ Len(w) = Len(t) + Len(q)
        /\ \A k \in 1..Len(w) : w[k] = IF k <= Len(t) THEN t[k] ELSE q[k - Len(t)]
    <3>1. t \in Seq(T) /\ q \in Seq(T)
      BY <2>2, <2>3
    <3>2. QED
      BY <3>1, ConcatProperties
  <2> HIDE DEF w, e
  <2>5. e = m - (b - a + 1) /\ e \in Int /\ Len(w) = n + e /\ Len(w) = a - 1 + m + (n - b)
    BY <2>0, <2>2, <2>3, <2>4 DEF e
  <2>6. ASSUME NEW k \in 1..(a - 1) PROVE w[k] = src[k]
    <3>1. k \in 1..Len(w) /\ k <= a - 1 + m
      BY <2>0, <2>5
    <3>2. w[k] = t[k]
      BY <2>3, <2>4, <3>1
    <3>3. QED
      BY <2>1, <2>3, <3>2
  <2>7. ASSUME NEW k \in 1..m PROVE w[k + (a - 1)] = r[k]
    <3>1. k + (a - 1) \in 1..Len(w) /\ k + (a - 1) <= a - 1 + m
      BY <2>0, <2>5
    <3>2. w[k + (a - 1)] = t[k + (a - 1)]
      BY <2>3, <2>4, <3>1
    <3>3. QED
      BY <2>3, <3>2
  <2>8. ASSUME NEW k \in (b + 1)..n PROVE w[k + e] = src[k]
    <3>1. k + e \in 1..Len(w) /\ ~(k + e <= a - 1 + m) /\ (k + e) - (a - 1 + m) = k - b
      BY <2>0, <2>5
    <3>2. k - b \in 1..(n - b) /\ b + (k - b) = k
      BY <2>0
    <3>3. w[k + e] = q[k - b]
      BY <2>3, <2>4, <3>1
    <3>4. QED
      BY <2>2, <3>2, <3>3
  <2>9. w \in Seq(T) /\ Len(w) = n + e
    BY <2>4, <2>5
  <2>10. dst = w /\ d = e /\ m = Len(r) /\ n = Len(src)
    BY <1>1 DEF Splice, Spliced, w, e, t, p, q, n, m
  <2>11. \A k \in 1..(a - 1) : dst[k] = src[k]
    BY <2>6, <2>10
  <2>12. \A k \in 1..Len(r) : dst[k + (a - 1)] = r[k]
    BY <2>7, <2>10
  <2>13. \A k \in (b + 1)..Len(src) : dst[k + d] = src[k]
    BY <2>8, <2>10
  <2>14. dst \in Seq(T) /\ Len(dst) = Len(src) + d
    BY <2>9, <2>10
  <2>15. QED
    BY <2>11, <2>12, <2>13, <2>14 DEF Replaced
<1>8. QED
  BY <1>1, <1>2, <1>3, <1>5, <1>6, <1>7

\* Declarations begin where they did, those behind it moved by d.
LEMMA SpliceStarts ==
  ASSUME NEW T, NEW src \in Seq(T), NEW r \in Seq(T), NEW dst, NEW i \in Nat,
         NEW a \in Nat, NEW b \in Nat, NEW d \in Int, Splice(src, dst, i, a, b, r, d)
  PROVE  /\ \A j \in Starts(src) : j <= i => j \in Starts(dst)
         /\ \A j \in Starts(src) : j > i => j >= NextDecl(src, i) /\ j + d \in Starts(dst) /\ j + d > i
         /\ \A j \in Starts(dst) : \/ j \in Starts(src) /\ j <= i
                                   \/ j - d \in Starts(src) /\ j - d > i
<1>1. /\ i \in Starts(src) /\ i \in 1..Len(src) /\ a \in Nat /\ b \in Nat /\ d \in Int
      /\ Len(r) \in Nat /\ Len(r) >= 1 /\ d = Len(r) - (b - a + 1)
      /\ i <= a /\ a <= b + 1 /\ i <= b /\ b < NextDecl(src, i)
      /\ Len(src) \in Nat /\ NextDecl(src, i) \in (i + 1)..(Len(src) + 1)
      /\ dst \in Seq(T) /\ Len(dst) = Len(src) + d /\ Len(dst) \in Nat
  BY SpliceIs
<1>2. Replaced(src, dst, a, b, r, d)
  BY SpliceIs
<1>3. /\ Starts(r) = IF a = i THEN {1} ELSE {}
      /\ DOMAIN src = 1..Len(src) /\ DOMAIN dst = 1..Len(dst) /\ DOMAIN r = 1..Len(r)
  BY <1>1 DEF Splice
<1>4. \A j \in Starts(src) : j \in 1..Len(src) /\ (j > i => j >= NextDecl(src, i))
  BY <1>1, StartIsIn, NextDeclIs DEF IsNext
<1>5. ASSUME NEW j \in Starts(src), j <= i PROVE j \in Starts(dst)
  <2>1. CASE j < a
    <3>1. j \in 1..Len(src) /\ j \in 1..(a - 1) /\ j \in 1..Len(dst)
      BY <1>1, <1>4, <2>1
    <3>2. dst[j] = src[j]
      BY <1>2, <3>1 DEF Replaced
    <3>3. QED
      BY <1>3, <3>1, <3>2 DEF Starts
  <2>2. CASE j = i /\ a = i
    <3>1. dst[i] = r[1] /\ r[1].k \in DeclKinds /\ i \in 1..Len(dst)
      <4>1. 1 \in Starts(r) /\ 1 \in 1..Len(r) /\ 1 + (a - 1) = i /\ i \in 1..Len(dst)
        BY <1>1, <1>3, <2>2
      <4>2. QED
        BY <1>2, <4>1 DEF Starts, Replaced
    <3>2. QED
      BY <1>3, <2>2, <3>1 DEF Starts
  <2>3. QED
    BY <1>1, <1>4, <1>5, <2>1, <2>2
<1>6. ASSUME NEW j \in Starts(src), j > i
      PROVE  j >= NextDecl(src, i) /\ j + d \in Starts(dst) /\ j + d > i
  <2>1. j >= NextDecl(src, i) /\ j \in (b + 1)..Len(src) /\ j + d \in 1..Len(dst) /\ j + d > i
    BY <1>1, <1>4, <1>6
  <2>2. dst[j + d] = src[j]
    BY <1>2, <2>1 DEF Replaced
  <2>3. QED
    BY <1>3, <2>1, <2>2 DEF Starts
<1>7. ASSUME NEW j \in Starts(dst)
      PROVE  \/ j \in Starts(src) /\ j <= i
             \/ j - d \in Starts(src) /\ j - d > i
  <2>1. j \in 1..Len(dst) /\ dst[j].k \in DeclKinds
    BY <1>3 DEF Starts
  <2>2. CASE j < a
    <3>1. j \in 1..(a - 1) /\ j \in 1..Len(src)
      BY <1>1, <2>1, <2>2
    <3>2. j \in Starts(src)
      <4>1. dst[j] = src[j]
        BY <1>2, <3>1 DEF Replaced
      <4>2. QED
        BY <1>3, <2>1, <3>1, <4>1 DEF Starts
    <3>3. j <= i
      BY <1>1, <1>4, <2>2, <3>1, <3>2
    <3>4. QED
      BY <3>2, <3>3
  <2>3. CASE a <= j /\ j < a + Len(r)
    <3>1. j - (a - 1) \in 1..Len(r) /\ (j - (a - 1)) + (a - 1) = j
      BY <1>1, <2>1, <2>3
    <3>2. j - (a - 1) \in Starts(r)
      <4>1. dst[(j - (a - 1)) + (a - 1)] = r[j - (a - 1)]
        BY <1>2, <3>1 DEF Replaced
      <4>2. dst[j] = r[j - (a - 1)]
        BY <3>1, <4>1
      <4>3. QED
        BY <1>3, <2>1, <3>1, <4>2 DEF Starts
    <3>3. a = i /\ j - (a - 1) = 1
      BY <1>3, <3>2
    <3>4. j = i
      BY <1>1, <2>1, <3>3
    <3>5. QED
      BY <1>1, <3>4
  <2>4. CASE a + Len(r) <= j
    <3>1. j - d \in (b + 1)..Len(src) /\ (j - d) + d = j /\ j - d \in 1..Len(src) /\ j - d > i
      BY <1>1, <2>1, <2>4
    <3>2. j - d \in Starts(src)
      <4>1. dst[(j - d) + d] = src[j - d]
        BY <1>2, <3>1 DEF Replaced
      <4>2. dst[j] = src[j - d]
        BY <3>1, <4>1
      <4>3. QED
        BY <1>3, <2>1, <3>1, <4>2 DEF Starts
    <3>3. QED
      BY <3>1, <3>2
  <2>5. QED
    BY <1>1, <2>1, <2>2, <2>3, <2>4
<1>8. QED
  BY <1>5, <1>6, <1>7

\* What is moved can be moved back.
LEMMA MovedBack ==
  ASSUME NEW T, NEW src \in Seq(T), NEW dst \in Seq(T), NEW i \in Nat, NEW d \in Int,
         Moved(src, dst, i, d)
  PROVE  Moved(dst, src, i + d, -d)
<1>1. i \in Starts(src) /\ i + d \in Starts(dst) /\ (i + d) + (-d) = i /\ -d \in Int
  BY DEF Moved
<1>2. NextDecl(src, i) \in Nat /\ NextDecl(dst, i + d) = NextDecl(src, i) + d
  <2>1. NextDecl(src, i) \in (i + 1)..(Len(src) + 1) /\ Len(src) \in Nat
    BY <1>1, NextDeclIs, StartIsIn DEF IsNext
  <2>2. QED
    BY <2>1 DEF Moved
<1>3. ASSUME NEW k \in (i + d)..(NextDecl(src, i) + d - 1) PROVE src[k + (-d)] = dst[k]
  <2>1. k - d \in i..(NextDecl(src, i) - 1) /\ (k - d) + d = k /\ k + (-d) = k - d
    BY <1>2
  <2>2. dst[(k - d) + d] = src[k - d]
    BY <2>1 DEF Moved
  <2>3. QED
    BY <2>1, <2>2
<1>4. NextDecl(src, (i + d) + (-d)) = NextDecl(dst, i + d) + (-d)
  BY <1>1, <1>2
<1>5. QED
  BY <1>1, <1>2, <1>3, <1>4 DEF Moved

LEMMA MovedHas ==
  ASSUME NEW T, NEW src \in Seq(T), NEW dst \in Seq(T), NEW i \in Nat, NEW d \in Int,
         Moved(src, dst, i, d), NEW part \in Parts
  PROVE  /\ HasPart(dst, i + d, part) <=> HasPart(src, i, part)
         /\ dst[i + d] = src[i]
<1>1. HasPart(src, i, part) => HasPart(dst, i + d, part)
  BY MovedParts
<1>2. HasPart(dst, i + d, part) => HasPart(src, i, part)
  <2>1. Moved(dst, src, i + d, -d)
    BY MovedBack
  <2>2. HasPart(dst, i + d, part) => HasPart(src, (i + d) + (-d), part)
    BY <2>1, MovedParts
  <2>3. (i + d) + (-d) = i
    OBVIOUS
  <2>4. QED
    BY <2>2, <2>3
<1>3. dst[i + d] = src[i]
  <2>1. i \in Starts(src)
    BY DEF Moved
  <2>2. NextDecl(src, i) \in (i + 1)..(Len(src) + 1) /\ Len(src) \in Nat
    BY <2>1, NextDeclIs, StartIsIn DEF IsNext
  <2>3. i \in i..(NextDecl(src, i) - 1)
    BY <2>2
  <2>4. QED
    BY <2>3 DEF Moved
<1>4. QED
  BY <1>1, <1>2, <1>3

\* A splice moves the declarations behind it, and leaves those before it.
LEMMA SpliceMoves ==
  ASSUME NEW T, NEW src \in Seq(T), NEW r \in Seq(T), NEW dst, NEW i \in Nat,
         NEW a \in Nat, NEW b \in Nat, NEW d \in Int, Splice(src, dst, i, a, b, r, d)
  PROVE  /\ \A j \in Starts(src) : j < i => Moved(src, dst, j, 0)
         /\ \A j \in Starts(src) : j > i => Moved(src, dst, j, d)
         /\ i \in Starts(dst) /\ NextDecl(dst, i) = NextDecl(src, i) + d
<1>1. /\ i \in Starts(src) /\ i \in 1..Len(src) /\ a \in Nat /\ b \in Nat /\ d \in Int
      /\ Len(r) \in Nat /\ Len(r) >= 1 /\ d = Len(r) - (b - a + 1)
      /\ i <= a /\ a <= b + 1 /\ i <= b /\ b < NextDecl(src, i)
      /\ Len(src) \in Nat /\ NextDecl(src, i) \in (i + 1)..(Len(src) + 1)
      /\ dst \in Seq(T) /\ Len(dst) = Len(src) + d /\ Len(dst) \in Nat
      /\ Replaced(src, dst, a, b, r, d)
  BY SpliceIs
<1>2. Replaced(src, dst, a, b, r, d)
  BY <1>1
<1>3. /\ \A j \in Starts(src) : j <= i => j \in Starts(dst)
      /\ \A j \in Starts(src) : j > i => j >= NextDecl(src, i) /\ j + d \in Starts(dst) /\ j + d > i
      /\ \A j \in Starts(dst) : \/ j \in Starts(src) /\ j <= i
                                \/ j - d \in Starts(src) /\ j - d > i
  BY SpliceStarts
<1>4. /\ \A j \in Starts(src) : j \in 1..Len(src)
      /\ \A j \in Starts(dst) : j \in 1..Len(dst)
  BY <1>1, StartIsIn
<1>5. \A j \in Starts(dst) : j - d \in Starts(src) /\ j - d > i => j > i
  <2>1. ASSUME NEW j \in Starts(dst), j - d \in Starts(src), j - d > i PROVE j > i
    <3>1. (j - d) + d > i
      BY <1>3, <2>1
    <3>2. (j - d) + d = j
      BY <1>4
    <3>3. QED
      BY <3>1, <3>2
  <2>2. QED
    BY <2>1
<1>6. ASSUME NEW j \in Starts(src), j < i PROVE Moved(src, dst, j, 0)
  <2> DEFINE n == NextDecl(src, j)
  <2>1. IsNext(src, j, n)
    BY NextDeclIs
  <2> HIDE DEF n
  <2>2. n <= i /\ n \in Nat /\ n \in Starts(src) /\ j \in Nat /\ j < n
    BY <1>1, <1>4, <1>6, <2>1 DEF IsNext
  <2>3. n \in Starts(dst) /\ j \in Starts(dst) /\ n \in (j + 1)..(Len(dst) + 1)
    BY <1>1, <1>3, <1>4, <1>6, <2>2
  <2>4. ASSUME NEW l \in Starts(dst), l > j PROVE n <= l
    <3>1. CASE l \in Starts(src) /\ l <= i
      BY <2>1, <2>4, <3>1 DEF IsNext
    <3>2. CASE l > i
      BY <1>4, <2>2, <3>2
    <3>3. QED
      BY <1>3, <1>5, <3>1, <3>2
  <2>5. IsNext(dst, j, n)
    BY <2>3, <2>4 DEF IsNext
  <2>6. NextDecl(dst, j) = n
    BY <1>1, <2>3, <2>5, NextDeclIs
  <2>7. ASSUME NEW k \in j..(n - 1) PROVE dst[k] = src[k]
    <3>1. k \in 1..(a - 1)
      BY <1>1, <1>4, <2>2
    <3>2. QED
      BY <1>2, <3>1 DEF Replaced
  <2>8. \A k \in j..(n - 1) : dst[k + 0] = src[k]
    BY <2>2, <2>7
  <2>9. j + 0 = j /\ n + 0 = n
    BY <2>2
  <2>10. QED
    BY <2>3, <2>6, <2>8, <2>9 DEF Moved, n
<1>7. ASSUME NEW j \in Starts(src), j > i PROVE Moved(src, dst, j, d)
  <2> DEFINE n == NextDecl(src, j)
  <2>1. IsNext(src, j, n)
    BY NextDeclIs
  <2> HIDE DEF n
  <2>2. n \in Nat /\ n <= Len(src) + 1 /\ j \in Nat /\ j < n /\ j >= NextDecl(src, i)
    BY <1>1, <1>3, <1>4, <1>7, <2>1 DEF IsNext
  <2>3. j + d \in Starts(dst) /\ j + d > i /\ n + d \in (j + d + 1)..(Len(dst) + 1)
    <3>1. j + d \in Starts(dst) /\ j + d > i
      BY <1>3, <1>7
    <3>2. Len(dst) + 1 = (Len(src) + 1) + d /\ Len(src) \in Nat
      BY <1>1
    <3>3. n + d \in (j + d + 1)..(Len(dst) + 1)
      BY <2>2, <3>2
    <3>4. QED
      BY <3>1, <3>3
  <2>4. n + d \in Starts(dst) \/ n + d = Len(dst) + 1
    <3>1. CASE n \in Starts(src)
      BY <1>3, <1>7, <2>2, <3>1
    <3>2. CASE n = Len(src) + 1
      BY <1>1, <3>2
    <3>3. QED
      BY <2>1, <3>1, <3>2 DEF IsNext
  <2>5. ASSUME NEW l \in Starts(dst), l > j + d PROVE n + d <= l
    <3>1. l \in Int /\ ~(l <= i)
      BY <1>4, <2>2, <2>3, <2>5
    <3>2. l - d \in Starts(src) /\ l - d > j
      BY <1>3, <2>2, <2>5, <3>1
    <3>3. n <= l - d /\ n \in Nat
      BY <2>1, <2>2, <3>2 DEF IsNext
    <3>4. QED
      BY <3>1, <3>3
  <2>6. IsNext(dst, j + d, n + d)
    BY <2>3, <2>4, <2>5 DEF IsNext
  <2>7. NextDecl(dst, j + d) = n + d
    BY <1>1, <2>3, <2>6, NextDeclIs
  <2>8. ASSUME NEW k \in j..(n - 1) PROVE dst[k + d] = src[k]
    <3>1. k \in (b + 1)..Len(src)
      BY <1>1, <2>2
    <3>2. QED
      BY <1>2, <3>1 DEF Replaced
  <2>9. QED
    BY <2>3, <2>7, <2>8 DEF Moved, n
<1>8. i \in Starts(dst) /\ NextDecl(dst, i) = NextDecl(src, i) + d
  <2> DEFINE n == NextDecl(src, i)
  <2>1. IsNext(src, i, n)
    BY <1>1, NextDeclIs
  <2>2. i \in Starts(dst) /\ i \in 1..Len(dst)
    BY <1>1, <1>3, <1>4
  <2> HIDE DEF n
  <2>3. n \in (i + 1)..(Len(src) + 1)
    BY <2>1 DEF IsNext
  <2>4. n + d > i /\ (n + d \in Starts(dst) \/ n + d = Len(dst) + 1)
    <3>1. CASE n \in Starts(src)
      BY <1>3, <2>3, <3>1
    <3>2. CASE n = Len(src) + 1
      BY <1>1, <2>2, <3>2
    <3>3. QED
      BY <2>1, <3>1, <3>2 DEF IsNext
  <2>5. ASSUME NEW l \in Starts(dst), l > i PROVE n + d <= l
    <3>1. l \in Int /\ ~(l <= i)
      BY <1>4, <2>5
    <3>2. l - d \in Starts(src) /\ l - d > i
      BY <1>3, <3>1
    <3>3. n <= l - d
      BY <2>1, <3>2 DEF IsNext
    <3>4. QED
      BY <2>3, <3>1, <3>3
  <2>6. n + d \in (i + 1)..(Len(dst) + 1)
    <3>1. Len(dst) + 1 = (Len(src) + 1) + d /\ Len(src) \in Nat
      BY <1>1
    <3>2. n + d > i
      BY <2>4
    <3>3. QED
      BY <2>3, <3>1, <3>2
  <2>7. IsNext(dst, i, n + d)
    BY <2>4, <2>5, <2>6 DEF IsNext
  <2>8. NextDecl(dst, i) = n + d
    BY <1>1, <2>2, <2>7, NextDeclIs
  <2>9. QED
    BY <2>2, <2>8 DEF n
<1>9. QED
  BY <1>6, <1>7, <1>8

\* The extent of a node lies in its declaration.
LEMMA NodeExtent ==
  ASSUME NEW T, NEW src \in Seq(T), NEW i \in Starts(src), NEW part \in Parts,
         HasPart(src, i, part)
  PROVE  \E f, l \in Nat : /\ PartOf(src, i, part) = Extent(f, l)
                           /\ i <= f /\ f <= l + 1 /\ i <= l
                           /\ l <= DeclEnd(src, i) /\ l < NextDecl(src, i)
                           /\ f = i <=> part # "body"
<1>1. ASSUME NEW x, x = PartOf(src, i, part)
      PROVE  /\ x = Extent(x.first, x.last)
             /\ x.first \in i..(DeclEnd(src, i) + 1)
             /\ x.last \in i..DeclEnd(src, i)
             /\ x.first <= x.last + 1
             /\ x.first = i <=> part # "body"
  BY <1>1, PartIsIn
<1>2. /\ i \in Nat /\ DeclEnd(src, i) \in i..(NextDecl(src, i) - 1)
      /\ NextDecl(src, i) \in Nat
  <2>1. i \in 1..Len(src) /\ Len(src) \in Nat
    BY StartIsIn
  <2>2. NextDecl(src, i) \in (i + 1)..(Len(src) + 1)
    BY NextDeclIs DEF IsNext
  <2>3. DeclEnd(src, i) \in i..(NextDecl(src, i) - 1)
    BY DeclEndIs DEF IsEnd
  <2>4. QED
    BY <2>1, <2>2, <2>3
<1>3. ASSUME NEW f, NEW l, f \in i..(DeclEnd(src, i) + 1), l \in i..DeclEnd(src, i), f <= l + 1
      PROVE  f \in Nat /\ l \in Nat /\ i <= f /\ i <= l /\ l <= DeclEnd(src, i) /\ l < NextDecl(src, i)
  BY <1>2, <1>3
<1>4. QED
  BY <1>1, <1>3

\* A node of a declaration that was moved is there, and says what it said.
LEMMA MovedNode ==
  ASSUME NEW T, NEW src \in Seq(T), NEW dst \in Seq(T), NEW i \in Nat, NEW d \in Int,
         Moved(src, dst, i, d), NEW part \in Parts, HasPart(src, i, part)
  PROVE  \E f, l \in Nat : /\ PartOf(src, i, part) = Extent(f, l)
                           /\ PartOf(dst, i + d, part) = Extent(f + d, l + d)
                           /\ SubSeq(dst, f + d, l + d) = SubSeq(src, f, l)
<1>1. i \in Starts(src)
  BY DEF Moved
<1>2. PICK f, l \in Nat : /\ PartOf(src, i, part) = Extent(f, l)
                          /\ i <= f /\ f <= l + 1 /\ i <= l
                          /\ l <= DeclEnd(src, i) /\ l < NextDecl(src, i)
                          /\ f = i <=> part # "body"
  BY <1>1, NodeExtent
<1>3. \A g, h \in Nat : i <= g /\ g <= h + 1 /\ h < NextDecl(src, i)
                        => SubSeq(dst, g + d, h + d) = SubSeq(src, g, h)
  <2>1. ASSUME NEW g \in Nat, NEW h \in Nat, i <= g, g <= h + 1, h < NextDecl(src, i)
        PROVE  SubSeq(dst, g + d, h + d) = SubSeq(src, g, h)
    BY <2>1, MovedText
  <2>2. QED
    BY <2>1
<1>4. PartOf(dst, i + d, part)
        = Extent(PartOf(src, i, part).first + d, PartOf(src, i, part).last + d)
  BY MovedParts
<1>5. PartOf(src, i, part).first = f /\ PartOf(src, i, part).last = l
  BY <1>2 DEF Extent
<1>6. QED
  BY <1>2, <1>3, <1>4, <1>5

\* The declarations behind a splice, and before it, are those of the source.
LEMMA SpliceWhence ==
  ASSUME NEW T, NEW src \in Seq(T), NEW r \in Seq(T), NEW dst, NEW i \in Nat,
         NEW a \in Nat, NEW b \in Nat, NEW d \in Int, Splice(src, dst, i, a, b, r, d),
         NEW k \in Starts(dst), k # i
  PROVE  \/ k \in Starts(src) /\ k < i /\ Moved(src, dst, k, 0)
         \/ k - d \in Starts(src) /\ k - d > i /\ Moved(src, dst, k - d, d) /\ k > i
<1>1. /\ i \in Starts(src) /\ i \in 1..Len(src) /\ a \in Nat /\ b \in Nat /\ d \in Int
      /\ Len(r) \in Nat /\ Len(r) >= 1 /\ d = Len(r) - (b - a + 1)
      /\ i <= a /\ a <= b + 1 /\ i <= b /\ b < NextDecl(src, i)
      /\ Len(src) \in Nat /\ NextDecl(src, i) \in (i + 1)..(Len(src) + 1)
      /\ dst \in Seq(T) /\ Len(dst) = Len(src) + d /\ Len(dst) \in Nat
      /\ Replaced(src, dst, a, b, r, d)
  BY SpliceIs
<1>2. k \in Nat
  BY <1>1, StartIsIn
<1>3. /\ \A j \in Starts(src) : j > i => j >= NextDecl(src, i) /\ j + d \in Starts(dst) /\ j + d > i
      /\ \A j \in Starts(dst) : \/ j \in Starts(src) /\ j <= i
                                \/ j - d \in Starts(src) /\ j - d > i
  BY SpliceStarts
<1>4. /\ \A j \in Starts(src) : j < i => Moved(src, dst, j, 0)
      /\ \A j \in Starts(src) : j > i => Moved(src, dst, j, d)
  BY SpliceMoves
<1>5. CASE k \in Starts(src) /\ k <= i
  <2>1. k < i
    BY <1>2, <1>5
  <2>2. QED
    BY <1>4, <1>5, <2>1
<1>6. CASE k - d \in Starts(src) /\ k - d > i
  <2>1. (k - d) + d > i /\ (k - d) + d = k
    BY <1>2, <1>3, <1>6
  <2>2. Moved(src, dst, k - d, d)
    BY <1>4, <1>6
  <2>3. QED
    BY <1>6, <2>1, <2>2
<1>7. QED
  BY <1>3, <1>5, <1>6

\* A node of another declaration is found where its declaration is moved to,
\* and says what it said.
LEMMA OthersStay ==
  ASSUME NEW T, NEW src \in Seq(T), NEW r \in Seq(T), NEW dst, NEW i \in Nat,
         NEW a \in Nat, NEW b \in Nat, NEW d \in Int, Splice(src, dst, i, a, b, r, d),
         NEW decl, decl # src[i].n, decl # dst[i].n, NEW part \in Parts, Has(src, decl, part)
  PROVE  Has(dst, decl, part) /\ TextAt(dst, decl, part) = TextAt(src, decl, part)
<1>1. /\ i \in Starts(src) /\ i \in 1..Len(src) /\ a \in Nat /\ b \in Nat /\ d \in Int
      /\ Len(r) \in Nat /\ Len(r) >= 1 /\ d = Len(r) - (b - a + 1)
      /\ i <= a /\ a <= b + 1 /\ i <= b /\ b < NextDecl(src, i)
      /\ Len(src) \in Nat /\ NextDecl(src, i) \in (i + 1)..(Len(src) + 1)
      /\ dst \in Seq(T) /\ Len(dst) = Len(src) + d /\ Len(dst) \in Nat
      /\ Replaced(src, dst, a, b, r, d)
  BY SpliceIs
<1>2. PICK j : IsFirst(src, decl, part, j)
  BY FindFirst
<1>3. /\ j \in Starts(src) /\ j \in Nat /\ j # i /\ src[j].n = decl /\ HasPart(src, j, part)
      /\ \A l \in Starts(src) : src[l].n = decl /\ HasPart(src, l, part) => j <= l
  BY <1>2, StartIsIn DEF IsFirst
<1>4. \E e \in Int : Moved(src, dst, j, e) /\ e = IF j < i THEN 0 ELSE d
  <2>1. /\ \A l \in Starts(src) : l < i => Moved(src, dst, l, 0)
        /\ \A l \in Starts(src) : l > i => Moved(src, dst, l, d)
    BY SpliceMoves
  <2>2. CASE j < i
    BY <1>3, <2>1, <2>2
  <2>3. CASE j > i
    BY <1>3, <2>1, <2>3
  <2>4. QED
    BY <1>3, <2>2, <2>3
<1>5. PICK e \in Int : Moved(src, dst, j, e) /\ e = IF j < i THEN 0 ELSE d
  BY <1>4
<1>6. dst \in Seq(T) /\ j \in Nat /\ Moved(src, dst, j, e) /\ HasPart(src, j, part)
  BY <1>1, <1>3, <1>5
<1>7. /\ HasPart(dst, j + e, part) /\ dst[j + e].n = decl /\ j + e \in Starts(dst)
  <2>1. /\ HasPart(dst, j + e, part) <=> HasPart(src, j, part)
        /\ dst[j + e] = src[j]
    BY <1>6, MovedHas
  <2>2. QED
    BY <1>3, <1>5, <2>1 DEF Moved
<1>8. ASSUME NEW k \in Starts(dst), dst[k].n = decl, HasPart(dst, k, part) PROVE j + e <= k
  <2>1. k # i /\ k \in Nat
    BY <1>1, <1>8, StartIsIn
  <2>2. CASE k \in Starts(src) /\ k < i /\ Moved(src, dst, k, 0)
    <3>1. dst[k + 0] = src[k] /\ (HasPart(dst, k + 0, part) <=> HasPart(src, k, part))
      BY <1>1, <2>1, <2>2, MovedHas
    <3>2. k + 0 = k
      BY <2>1
    <3>3. j <= k
      BY <1>3, <1>8, <2>2, <3>1, <3>2
    <3>4. QED
      BY <1>3, <1>5, <2>1, <2>2, <3>3
  <2>3. CASE k - d \in Starts(src) /\ k - d > i /\ Moved(src, dst, k - d, d) /\ k > i
    <3>1. k - d \in Nat /\ (k - d) + d = k
      BY <2>1, <2>3
    <3>2. dst[(k - d) + d] = src[k - d] /\ (HasPart(dst, (k - d) + d, part) <=> HasPart(src, k - d, part))
      <4> DEFINE m == k - d
      <4>1. m \in Nat /\ Moved(src, dst, m, d) /\ dst \in Seq(T)
        BY <1>1, <2>3, <3>1
      <4> HIDE DEF m
      <4>2. dst[m + d] = src[m] /\ (HasPart(dst, m + d, part) <=> HasPart(src, m, part))
        BY <4>1, MovedHas
      <4>3. QED
        BY <4>2 DEF m
    <3>3. j <= k - d
      BY <1>3, <1>8, <2>3, <3>1, <3>2
    <3>4. QED
      BY <1>3, <1>5, <2>1, <2>3, <3>3
  <2>4. QED
    BY <2>1, <2>2, <2>3, SpliceWhence
<1>9. IsFirst(dst, decl, part, j + e)
  BY <1>7, <1>8 DEF IsFirst
<1>10. /\ Has(src, decl, part) /\ Find(src, decl, part) = PartOf(src, j, part)
      /\ Has(dst, decl, part) /\ Find(dst, decl, part) = PartOf(dst, j + e, part)
  BY <1>1, <1>2, <1>9, FindIs
<1>11. PICK f, l \in Nat : /\ PartOf(src, j, part) = Extent(f, l)
                           /\ PartOf(dst, j + e, part) = Extent(f + e, l + e)
                           /\ SubSeq(dst, f + e, l + e) = SubSeq(src, f, l)
  BY <1>6, MovedNode
<1>12. /\ Find(src, decl, part).first = f /\ Find(src, decl, part).last = l
       /\ Find(dst, decl, part).first = f + e /\ Find(dst, decl, part).last = l + e
  BY <1>10, <1>11 DEF Extent
<1>13. QED
  BY <1>10, <1>11, <1>12 DEF TextAt

(***************************************************************************)
(* The declaration a node was replaced in.                                 *)
(***************************************************************************)

\* The new node, m tokens, is at a to z; what was behind b is d further on, as
\* far as the declaration goes, which ended before n.
Placed(src, dst, r, m, a, b, z, n, d) ==
  /\ \A k \in 1..(a - 1) : dst[k] = src[k]
  /\ \A k \in a..z : \E l \in DOMAIN r : dst[k] = r[l]
  /\ \A k \in (z + 1)..(n + d - 1) : k - d \in (b + 1)..(n - 1) /\ dst[k] = src[k - d]
  /\ dst[a] = r[1] /\ dst[z] = r[m]

\* Replaced, of sequences of h and m tokens.
ReplacedBy(src, dst, r, h, m, a, b, d) ==
  /\ DOMAIN r = 1..m
  /\ \A k \in 1..(a - 1) : dst[k] = src[k]
  /\ \A k \in 1..m : dst[k + (a - 1)] = r[k]
  /\ \A k \in (b + 1)..h : dst[k + d] = src[k]

LEMMA PlacedIs ==
  ASSUME NEW src, NEW dst, NEW r, NEW a \in Nat, NEW b \in Nat, NEW d \in Int, NEW m \in Nat,
         NEW z \in Nat, NEW n \in Nat, NEW h \in Nat, m >= 1, z = b + d, z = m + (a - 1), n <= h + 1,
         ReplacedBy(src, dst, r, h, m, a, b, d)
  PROVE  Placed(src, dst, r, m, a, b, z, n, d)
<1>0. /\ DOMAIN r = 1..m
      /\ \A k \in 1..(a - 1) : dst[k] = src[k]
      /\ \A k \in 1..m : dst[k + (a - 1)] = r[k]
      /\ \A k \in (b + 1)..h : dst[k + d] = src[k]
  BY DEF ReplacedBy
<1>1. ASSUME NEW k \in a..z PROVE \E l \in DOMAIN r : dst[k] = r[l]
  <2>1. k - (a - 1) \in 1..m /\ (k - (a - 1)) + (a - 1) = k
    OBVIOUS
  <2>2. dst[(k - (a - 1)) + (a - 1)] = r[k - (a - 1)]
    BY <1>0, <2>1
  <2>3. QED
    BY <1>0, <2>1, <2>2
<1>2. ASSUME NEW k \in (z + 1)..(n + d - 1)
      PROVE  k - d \in (b + 1)..(n - 1) /\ dst[k] = src[k - d]
  <2>1. k - d \in (b + 1)..(n - 1) /\ k - d \in (b + 1)..h /\ (k - d) + d = k
    OBVIOUS
  <2>2. dst[(k - d) + d] = src[k - d]
    BY <1>0, <2>1
  <2>3. QED
    BY <1>0, <2>1, <2>2
<1>3. dst[a] = r[1] /\ dst[z] = r[m]
  <2>1. 1 \in 1..m /\ m \in 1..m /\ 1 + (a - 1) = a
    OBVIOUS
  <2>2. dst[1 + (a - 1)] = r[1] /\ dst[m + (a - 1)] = r[m]
    BY <1>0, <2>1
  <2>3. QED
    BY <1>0, <2>1, <2>2
<1>4. QED
  BY <1>0, <1>1, <1>2, <1>3 DEF Placed

\* The whole of a declaration,
LEMMA WholePlaces ==
  ASSUME NEW src, NEW dst, NEW r, NEW m, NEW i \in Nat, NEW b \in Nat, NEW z \in Nat, NEW n \in Nat,
         NEW d \in Int, z = b + d, i <= z, Placed(src, dst, r, m, i, b, z, n, d),
         IsEnd(src, i, n, b), r[m] # NL
  PROVE  IsEnd(dst, i, n + d, z)
<1>1. b < n /\ \A k \in (b + 1)..(n - 1) : src[k] = NL
  BY DEF IsEnd
<1>2. \A k \in (z + 1)..(n + d - 1) : dst[k] = NL
  BY <1>1 DEF Placed
<1>3. z \in i..(n + d - 1)
  BY <1>1
<1>4. dst[z] # NL
  BY DEF Placed
<1>5. QED
  BY <1>2, <1>3, <1>4 DEF IsEnd

\* the signature of a function,
LEMMA SigPlaces ==
  ASSUME NEW src, NEW dst, NEW r, NEW m, NEW i \in Nat, NEW b \in Nat, NEW z \in Nat, NEW n \in Nat,
         NEW d \in Int, z = b + d, i <= z, Placed(src, dst, r, m, i, b, z, n, d),
         NEW e \in Nat, NEW s \in Nat,
         IsEnd(src, i, n, e), IsSplit(src, i, e, s), IsSigEnd(src, i, s, b),
         r[m] # NL, m \in DOMAIN r, \A k \in DOMAIN r : r[k] \notin {EQ, SP}
  PROVE  /\ IsEnd(dst, i, n + d, e + d)
         /\ IsSplit(dst, i, e + d, s + d)
         /\ IsSigEnd(dst, i, s + d, z)
<1>1. /\ b < s /\ s <= e /\ e < n /\ src[e] # NL /\ src[s] = EQ
      /\ \A k \in (e + 1)..(n - 1) : src[k] = NL
      /\ \A k \in (b + 1)..(s - 1) : src[k] \in {NL, SP}
  BY DEF IsEnd, IsSplit, IsSigEnd
<1>2. \A k \in (z + 1)..(n + d - 1) : k - d \in (b + 1)..(n - 1) /\ dst[k] = src[k - d]
  BY DEF Placed
<1>3. ASSUME NEW k \in (e + d + 1)..(n + d - 1) PROVE dst[k] = NL
  <2>1. k \in (z + 1)..(n + d - 1) /\ k - d \in (e + 1)..(n - 1)
    BY <1>1
  <2>2. QED
    BY <1>1, <1>2, <2>1
<1>4. dst[e + d] # NL /\ dst[s + d] = EQ
  <2>1. /\ e + d \in (z + 1)..(n + d - 1) /\ (e + d) - d = e
        /\ s + d \in (z + 1)..(n + d - 1) /\ (s + d) - d = s
    BY <1>1
  <2>2. dst[e + d] = src[(e + d) - d] /\ dst[s + d] = src[(s + d) - d]
    BY <1>2, <2>1
  <2>3. QED
    BY <1>1, <2>1, <2>2
<1>5. ASSUME NEW k \in (z + 1)..(s + d - 1) PROVE dst[k] \in {NL, SP}
  <2>1. k \in (z + 1)..(n + d - 1) /\ k - d \in (b + 1)..(s - 1)
    BY <1>1
  <2>2. QED
    BY <1>1, <1>2, <2>1
<1>6. ASSUME NEW k \in i..(s + d - 1) PROVE dst[k] # EQ
  <2>1. CASE k <= z
    <3>1. k \in i..z
      BY <2>1
    <3>2. PICK l \in DOMAIN r : dst[k] = r[l]
      BY <3>1 DEF Placed
    <3>3. QED
      BY <3>2
  <2>2. CASE k > z
    <3>1. k \in (z + 1)..(s + d - 1)
      BY <2>2
    <3>2. dst[k] \in {NL, SP}
      BY <1>5, <3>1
    <3>3. QED
      BY <3>2 DEF NL, SP, EQ
  <2>3. QED
    BY <2>1, <2>2
<1>7. dst[z] \notin {NL, SP}
  BY DEF Placed
<1>8. /\ e + d \in i..(n + d - 1) /\ s + d \in (i + 1)..(e + d) /\ z \in i..(s + d - 1)
  BY <1>1
<1>9. IsEnd(dst, i, n + d, e + d)
  BY <1>3, <1>4, <1>8 DEF IsEnd
<1>10. IsSplit(dst, i, e + d, s + d)
  BY <1>4, <1>6, <1>8 DEF IsSplit
<1>11. IsSigEnd(dst, i, s + d, z)
  BY <1>5, <1>7, <1>8 DEF IsSigEnd
<1>12. QED
  BY <1>9, <1>10, <1>11

\* and its body.
LEMMA BodyPlaces ==
  ASSUME NEW src, NEW dst, NEW r, NEW m, NEW a \in Nat, NEW b \in Nat, NEW z \in Nat, NEW n \in Nat,
         NEW d \in Int, z = b + d, a <= z, Placed(src, dst, r, m, a, b, z, n, d),
         NEW i \in Nat, i >= 1, NEW s \in Nat,
         IsEnd(src, i, n, b), IsSplit(src, i, b, s), IsBodyAt(src, b, s, a),
         r[m] # NL, r[1] # SP
  PROVE  /\ IsEnd(dst, i, n + d, z)
         /\ IsSplit(dst, i, z, s)
         /\ IsBodyAt(dst, z, s, a)
<1>1. /\ i < s /\ s < a /\ b < n
      /\ \A k \in (b + 1)..(n - 1) : src[k] = NL
      /\ src[s] = EQ /\ \A k \in i..(s - 1) : src[k] # EQ
      /\ \A k \in (s + 1)..(a - 1) : src[k] = SP
  BY DEF IsEnd, IsSplit, IsBodyAt
<1>2. \A k \in 1..(a - 1) : dst[k] = src[k]
  BY DEF Placed
<1>3. \A k \in (z + 1)..(n + d - 1) : dst[k] = NL
  BY <1>1 DEF Placed
<1>4. ASSUME NEW k \in i..(s - 1) PROVE dst[k] # EQ
  <2>1. k \in 1..(a - 1)
    BY <1>1
  <2>2. QED
    BY <1>1, <1>2, <2>1
<1>5. ASSUME NEW k \in (s + 1)..(a - 1) PROVE dst[k] = SP
  <2>1. k \in 1..(a - 1)
    BY <1>1
  <2>2. QED
    BY <1>1, <1>2, <2>1
<1>6. dst[s] = EQ
  <2>1. s \in 1..(a - 1)
    BY <1>1
  <2>2. QED
    BY <1>1, <1>2, <2>1
<1>7. /\ z \in i..(n + d - 1) /\ s \in (i + 1)..z /\ a \in (s + 1)..(z + 1)
  BY <1>1
<1>8. dst[z] # NL /\ dst[a] # SP
  BY DEF Placed
<1>9. IsEnd(dst, i, n + d, z)
  BY <1>3, <1>7, <1>8 DEF IsEnd
<1>10. IsSplit(dst, i, z, s)
  BY <1>4, <1>6, <1>7 DEF IsSplit
<1>11. IsBodyAt(dst, z, s, a)
  BY <1>5, <1>7, <1>8 DEF IsBodyAt
<1>12. QED
  BY <1>9, <1>10, <1>11

\* The text of an extent.
Stretch(src, x) == SubSeq(src, x.first, x.last)

\* Where the new node is after a splice, and what is there.
LEMMA SplicePlaced ==
  ASSUME NEW T, NEW src \in Seq(T), NEW r \in Seq(T), NEW dst, NEW i \in Nat,
         NEW a \in Nat, NEW b \in Nat, NEW d \in Int, Splice(src, dst, i, a, b, r, d)
  PROVE  /\ b + d \in Nat /\ a <= b + d /\ i <= b + d
         /\ Placed(src, dst, r, Len(r), a, b, b + d, NextDecl(src, i), d)
         /\ Stretch(dst, Extent(a, b + d)) = r
<1>1. /\ i \in Starts(src) /\ i \in 1..Len(src) /\ a \in Nat /\ b \in Nat /\ d \in Int
      /\ Len(r) \in Nat /\ Len(r) >= 1 /\ d = Len(r) - (b - a + 1)
      /\ i <= a /\ a <= b + 1 /\ i <= b /\ b < NextDecl(src, i)
      /\ Len(src) \in Nat /\ NextDecl(src, i) \in (i + 1)..(Len(src) + 1)
      /\ dst \in Seq(T) /\ Len(dst) = Len(src) + d /\ Len(dst) \in Nat
      /\ Replaced(src, dst, a, b, r, d)
  BY SpliceIs
<1>2. /\ b + d \in Nat /\ b + d = Len(r) + (a - 1) /\ a <= b + d /\ i <= b + d
      /\ b + d <= Len(dst) /\ 1 <= a
  BY <1>1
<1>3. DOMAIN r = 1..Len(r)
  OBVIOUS
<1>4. /\ \A k \in 1..(a - 1) : dst[k] = src[k]
      /\ \A k \in 1..Len(r) : dst[k + (a - 1)] = r[k]
      /\ \A k \in (b + 1)..Len(src) : dst[k + d] = src[k]
  BY <1>1 DEF Replaced
<1>5. ReplacedBy(src, dst, r, Len(src), Len(r), a, b, d)
  BY <1>3, <1>4 DEF ReplacedBy
<1>6. NextDecl(src, i) \in Nat /\ NextDecl(src, i) <= Len(src) + 1
  BY <1>1
<1>7. \A m, n, h, z \in Nat : /\ m >= 1 /\ z = b + d /\ z = m + (a - 1) /\ n <= h + 1
                             /\ ReplacedBy(src, dst, r, h, m, a, b, d)
                             => Placed(src, dst, r, m, a, b, z, n, d)
  BY PlacedIs
<1>8. Placed(src, dst, r, Len(r), a, b, b + d, NextDecl(src, i), d)
  BY <1>1, <1>2, <1>5, <1>6, <1>7
<1>9. SubSeq(dst, 1 + (a - 1), Len(r) + (a - 1)) = SubSeq(r, 1, Len(r))
  <2> DEFINE h == a - 1
  <2>1. /\ h \in Int /\ 1 \in Nat /\ Len(r) \in Nat /\ 1 <= Len(r) + 1
        /\ 1 <= 1 + h /\ Len(r) + h <= Len(dst)
    BY <1>1, <1>2
  <2>2. dst \in Seq(T) /\ \A k \in 1..Len(r) : dst[k + h] = r[k]
    BY <1>1, <1>4
  <2> HIDE DEF h
  <2>3. SubSeq(dst, 1 + h, Len(r) + h) = SubSeq(r, 1, Len(r))
    BY <2>1, <2>2, MovedStretch
  <2>4. QED
    BY <2>3 DEF h
<1>10. SubSeq(dst, a, b + d) = r
  <2>1. SubSeq(r, 1, Len(r)) = r
    OBVIOUS
  <2>2. 1 + (a - 1) = a
    OBVIOUS
  <2>3. QED
    BY <1>2, <1>9, <2>1, <2>2
<1>11. Stretch(dst, Extent(a, b + d)) = r
  BY <1>10 DEF Stretch, Extent
<1>12. QED
  BY <1>2, <1>8, <1>11

\* One node that can stand for a part of a declaration.
OneNode(r, decl, part) ==
  /\ r # <<>> /\ r[Len(r)] # NL
  /\ part \in {"whole", "sig"} => Starts(r) = {1} /\ r[1].n = decl
  /\ part = "sig" => r[1].k = "fun" /\ \A k \in DOMAIN r : r[k] \notin {EQ, SP}
  /\ part = "body" => Starts(r) = {} /\ r[1] # SP

\* The node that was put in is that part of the declaration.
LEMMA NewPart ==
  ASSUME NEW T, NEW src \in Seq(T), NEW r \in Seq(T), NEW dst, NEW i \in Nat,
         NEW a \in Nat, NEW b \in Nat, NEW d \in Int, Splice(src, dst, i, a, b, r, d),
         NEW decl, NEW part \in Parts, IsFirst(src, decl, part, i),
         PartOf(src, i, part) = Extent(a, b), OneNode(r, decl, part)
  PROVE  HasPart(dst, i, part) /\ PartOf(dst, i, part) = Extent(a, b + d) /\ dst[i].n = decl
<1>0. /\ b + d \in Nat /\ a <= b + d /\ i <= b + d
      /\ Placed(src, dst, r, Len(r), a, b, b + d, NextDecl(src, i), d)
  BY SplicePlaced
<1>1. /\ i \in Starts(src) /\ i >= 1 /\ dst \in Seq(T) /\ i <= a
      /\ NextDecl(src, i) \in Nat /\ Len(r) \in DOMAIN r
  <2>1. /\ i \in Starts(src) /\ i \in 1..Len(src) /\ a \in Nat /\ b \in Nat /\ d \in Int
        /\ Len(r) \in Nat /\ Len(r) >= 1 /\ d = Len(r) - (b - a + 1)
        /\ i <= a /\ a <= b + 1 /\ i <= b /\ b < NextDecl(src, i)
        /\ Len(src) \in Nat /\ NextDecl(src, i) \in (i + 1)..(Len(src) + 1)
        /\ dst \in Seq(T) /\ Len(dst) = Len(src) + d /\ Len(dst) \in Nat
        /\ Replaced(src, dst, a, b, r, d)
    BY SpliceIs
  <2>2. i >= 1 /\ NextDecl(src, i) \in Nat
    BY <2>1
  <2>3. Len(r) \in DOMAIN r
    BY <2>1
  <2>4. QED
    BY <2>1, <2>2, <2>3
<1>2. i \in Starts(dst) /\ NextDecl(dst, i) = NextDecl(src, i) + d
  BY SpliceMoves
<1>3. /\ IsEnd(src, i, NextDecl(src, i), DeclEnd(src, i))
      /\ \A e : IsEnd(dst, i, NextDecl(dst, i), e) => DeclEnd(dst, i) = e
  BY <1>1, <1>2, DeclEndIs
<1>4. PartOf(src, i, part).first = a /\ PartOf(src, i, part).last = b
  BY DEF Extent
<1>5. /\ HasPart(src, i, part) /\ src[i].n = decl
      /\ part # "whole" => src[i].k = "fun" /\ Equals(src, i) # {}
  BY DEF IsFirst, HasPart
<1>6. CASE part = "whole"
  <2>1. a = i /\ b = DeclEnd(src, i)
    BY <1>4, <1>6 DEF PartOf, Extent
  <2>2. r[Len(r)] # NL /\ r[1].n = decl
    BY <1>6 DEF OneNode
  <2>3. IsEnd(src, i, NextDecl(src, i), b) /\ i <= b + d /\ Placed(src, dst, r, Len(r), i, b, b + d, NextDecl(src, i), d)
    BY <1>0, <1>3, <2>1
  <2>4. IsEnd(dst, i, NextDecl(src, i) + d, b + d)
    <3>1. \A n, z \in Nat :
             /\ z = b + d /\ i <= z /\ Placed(src, dst, r, Len(r), i, b, z, n, d)
             /\ IsEnd(src, i, n, b)
             => IsEnd(dst, i, n + d, z)
      BY <2>2, WholePlaces
    <3>2. QED
      BY <1>0, <1>1, <2>3, <3>1
  <2>5. DeclEnd(dst, i) = b + d
    BY <1>2, <1>3, <2>4
  <2>6. dst[i] = r[1]
    BY <1>0, <2>1 DEF Placed
  <2>7. QED
    BY <1>6, <2>1, <2>2, <2>5, <2>6 DEF PartOf, HasPart
<1>7. CASE part = "sig"
  <2>1. a = i /\ b = SigEnd(src, i)
    BY <1>4, <1>7 DEF PartOf, Extent
  <2>2. /\ r[Len(r)] # NL /\ r[1].n = decl /\ r[1].k = "fun"
        /\ \A k \in DOMAIN r : r[k] \notin {EQ, SP}
    BY <1>7 DEF OneNode
  <2>3. /\ IsSplit(src, i, DeclEnd(src, i), Split(src, i))
        /\ IsSigEnd(src, i, Split(src, i), b)
    BY <1>1, <1>5, <1>7, <2>1, SplitIs, SigEndIs
  <2>4. DeclEnd(src, i) \in Nat /\ Split(src, i) \in Nat
    <3>1. DeclEnd(src, i) \in i..Len(src) /\ Len(src) \in Nat
      BY <1>1, DeclEndIsIn, StartIsIn
    <3>2. Split(src, i) \in (i + 1)..DeclEnd(src, i)
      BY <2>3 DEF IsSplit
    <3>3. QED
      BY <3>1, <3>2
  <2>5. Placed(src, dst, r, Len(r), i, b, b + d, NextDecl(src, i), d)
    BY <1>0, <2>1
  <2>6. /\ IsEnd(dst, i, NextDecl(src, i) + d, DeclEnd(src, i) + d)
        /\ IsSplit(dst, i, DeclEnd(src, i) + d, Split(src, i) + d)
        /\ IsSigEnd(dst, i, Split(src, i) + d, b + d)
    <3>1. \A n, z, e, s \in Nat :
             /\ z = b + d /\ i <= z /\ Placed(src, dst, r, Len(r), i, b, z, n, d)
             /\ IsEnd(src, i, n, e) /\ IsSplit(src, i, e, s) /\ IsSigEnd(src, i, s, b)
             => /\ IsEnd(dst, i, n + d, e + d)
                /\ IsSplit(dst, i, e + d, s + d)
                /\ IsSigEnd(dst, i, s + d, z)
      BY <1>1, <2>2, SigPlaces
    <3>2. QED
      BY <1>0, <1>1, <1>3, <2>3, <2>4, <2>5, <3>1
  <2>7. DeclEnd(dst, i) = DeclEnd(src, i) + d
    BY <1>2, <1>3, <2>6
  <2>8. Equals(dst, i) # {} /\ Split(dst, i) = Split(src, i) + d
    BY <1>1, <1>2, <2>6, <2>7, SplitIs
  <2>9. SigEnd(dst, i) = b + d
    BY <1>1, <1>2, <2>6, <2>8, SigEndIs
  <2>10. dst[i] = r[1]
    BY <1>0, <2>1 DEF Placed
  <2>11. QED
    BY <1>7, <2>1, <2>2, <2>8, <2>9, <2>10 DEF PartOf, HasPart
<1>8. CASE part = "body"
  <2>1. a = BodyAt(src, i) /\ b = DeclEnd(src, i)
    BY <1>4, <1>8 DEF PartOf, Extent
  <2>2. r[Len(r)] # NL /\ r[1] # SP
    BY <1>8 DEF OneNode
  <2>3. /\ IsEnd(src, i, NextDecl(src, i), b)
        /\ IsSplit(src, i, b, Split(src, i))
        /\ IsBodyAt(src, b, Split(src, i), a)
    BY <1>1, <1>3, <1>5, <1>8, <2>1, SplitIs, BodyAtIs
  <2>4. Split(src, i) \in Nat /\ i < Split(src, i) /\ Split(src, i) < a
    <3>1. Split(src, i) \in (i + 1)..b
      BY <2>3 DEF IsSplit
    <3>2. a \in (Split(src, i) + 1)..(b + 1)
      BY <2>3 DEF IsBodyAt
    <3>3. QED
      BY <3>1, <3>2
  <2>5. /\ IsEnd(dst, i, NextDecl(src, i) + d, b + d)
        /\ IsSplit(dst, i, b + d, Split(src, i))
        /\ IsBodyAt(dst, b + d, Split(src, i), a)
    <3>1. \A n, z, s \in Nat :
             /\ z = b + d /\ a <= z /\ Placed(src, dst, r, Len(r), a, b, z, n, d)
             /\ IsEnd(src, i, n, b) /\ IsSplit(src, i, b, s) /\ IsBodyAt(src, b, s, a)
             => /\ IsEnd(dst, i, n + d, z)
                /\ IsSplit(dst, i, z, s)
                /\ IsBodyAt(dst, z, s, a)
      BY <1>1, <2>2, BodyPlaces
    <3>2. QED
      BY <1>0, <1>1, <2>3, <2>4, <3>1
  <2>6. DeclEnd(dst, i) = b + d
    BY <1>2, <1>3, <2>5
  <2>7. Equals(dst, i) # {} /\ Split(dst, i) = Split(src, i)
    BY <1>1, <1>2, <2>5, <2>6, SplitIs
  <2>8. BodyAt(dst, i) = a
    BY <1>1, <1>2, <2>5, <2>6, <2>7, BodyAtIs
  <2>9. dst[i] = src[i]
    <3>1. i \in 1..(a - 1)
      BY <1>1, <2>4
    <3>2. QED
      BY <1>0, <3>1 DEF Placed
  <2>10. QED
    BY <1>5, <1>8, <2>6, <2>7, <2>8, <2>9 DEF PartOf, HasPart
<1>9. QED
  BY <1>6, <1>7, <1>8 DEF Parts

\* It is the one that is found, and says what was put in.
LEMMA NewNode ==
  ASSUME NEW T, NEW src \in Seq(T), NEW r \in Seq(T), NEW dst, NEW i \in Nat,
         NEW a \in Nat, NEW b \in Nat, NEW d \in Int, Splice(src, dst, i, a, b, r, d),
         NEW decl, NEW part \in Parts, IsFirst(src, decl, part, i),
         PartOf(src, i, part) = Extent(a, b), OneNode(r, decl, part)
  PROVE  Has(dst, decl, part) /\ TextAt(dst, decl, part) = r /\ dst[i].n = decl
<1>1. /\ b + d \in Nat /\ a <= b + d /\ i <= b + d
      /\ Placed(src, dst, r, Len(r), a, b, b + d, NextDecl(src, i), d)
      /\ Stretch(dst, Extent(a, b + d)) = r
  BY SplicePlaced
<1>2. HasPart(dst, i, part) /\ PartOf(dst, i, part) = Extent(a, b + d) /\ dst[i].n = decl
  BY NewPart
<1>3. i \in Starts(dst)
  BY SpliceMoves
<1>4. dst \in Seq(T)
  BY SpliceIs
<1>5. ASSUME NEW k \in Starts(dst), dst[k].n = decl, HasPart(dst, k, part) PROVE i <= k
  <2>1. k \in Nat
    BY <1>4, StartIsIn
  <2>2. CASE k # i
    <3>1. CASE k \in Starts(src) /\ k < i /\ Moved(src, dst, k, 0)
      <4>1. dst[k + 0] = src[k] /\ (HasPart(dst, k + 0, part) <=> HasPart(src, k, part)) /\ k + 0 = k
        BY <1>4, <2>1, <3>1, MovedHas
      <4>2. i <= k
        BY <1>5, <3>1, <4>1 DEF IsFirst
      <4>3. QED
        BY <4>2
    <3>2. CASE k > i
      BY <2>1, <3>2
    <3>3. QED
      BY <2>2, <3>1, <3>2, SpliceWhence
  <2>3. QED
    BY <2>1, <2>2
<1>6. IsFirst(dst, decl, part, i)
  BY <1>2, <1>3, <1>5 DEF IsFirst
<1>7. Has(dst, decl, part) /\ Find(dst, decl, part) = PartOf(dst, i, part)
  BY <1>4, <1>6, FindIs
<1>8. TextAt(dst, decl, part) = Stretch(dst, Find(dst, decl, part))
  BY DEF TextAt, Stretch
<1>9. QED
  BY <1>1, <1>2, <1>7, <1>8

(***************************************************************************)
(* What patch.rs, apply, promises: for any replacement that is one node of *)
(* its kind.                                                               *)
(***************************************************************************)
LEMMA ApplyIsSplice ==
  ASSUME NEW T, NEW src \in Seq(T), NEW new \in Seq(T), NEW decl, NEW part \in Parts,
         Has(src, decl, part), OneNode(Trim(new), decl, part)
  PROVE  \E i, a, b \in Nat : \E d \in Int :
           /\ IsFirst(src, decl, part, i) /\ PartOf(src, i, part) = Extent(a, b)
           /\ Splice(src, Apply(src, decl, part, new), i, a, b, Trim(new), d)
<1>1. PICK i : IsFirst(src, decl, part, i)
  BY FindFirst
<1>2. i \in Starts(src) /\ i \in Nat /\ HasPart(src, i, part)
  BY <1>1, StartIsIn DEF IsFirst
<1>3. PICK a, b \in Nat : /\ PartOf(src, i, part) = Extent(a, b)
                          /\ i <= a /\ a <= b + 1 /\ i <= b
                          /\ b <= DeclEnd(src, i) /\ b < NextDecl(src, i)
                          /\ a = i <=> part # "body"
  BY <1>2, NodeExtent
<1>4. Find(src, decl, part).first = a /\ Find(src, decl, part).last = b
  <2>1. Find(src, decl, part) = PartOf(src, i, part)
    BY <1>1, FindIs
  <2>2. QED
    BY <1>3, <2>1 DEF Extent
<1>5. Apply(src, decl, part, new) = Spliced(src, a, b, Trim(new))
  BY <1>4 DEF Apply, Spliced
<1>6. Trim(new) # <<>> /\ Starts(Trim(new)) = IF a = i THEN {1} ELSE {}
  BY <1>3 DEF OneNode, Parts
<1>7. Len(Trim(new)) - (b - a + 1) \in Int
  <2>1. Len(Trim(new)) \in Nat
    BY TrimIsText
  <2>2. QED
    BY <2>1
<1>8. Splice(src, Apply(src, decl, part, new), i, a, b, Trim(new), Len(Trim(new)) - (b - a + 1))
  BY <1>2, <1>3, <1>5, <1>6, <1>7 DEF Splice
<1>9. QED
  BY <1>1, <1>2, <1>3, <1>7, <1>8

\* The node then says what was put in, and every other declaration what it said.
LEMMA ApplySays ==
  ASSUME NEW T, NEW src \in Seq(T), NEW new \in Seq(T), NEW decl, NEW part \in Parts,
         Has(src, decl, part), OneNode(Trim(new), decl, part), NEW dst, dst = Apply(src, decl, part, new)
  PROVE  /\ Has(dst, decl, part) /\ TextAt(dst, decl, part) = Trim(new)
         /\ \A other : \A q \in Parts : other # decl /\ Has(src, other, q)
              => Has(dst, other, q) /\ TextAt(dst, other, q) = TextAt(src, other, q)
<1>1. PICK i, a, b \in Nat : \E d \in Int :
           /\ IsFirst(src, decl, part, i) /\ PartOf(src, i, part) = Extent(a, b)
           /\ Splice(src, Apply(src, decl, part, new), i, a, b, Trim(new), d)
  BY ApplyIsSplice
<1>2. PICK d \in Int : /\ IsFirst(src, decl, part, i) /\ PartOf(src, i, part) = Extent(a, b)
                       /\ Splice(src, dst, i, a, b, Trim(new), d)
  BY <1>1
<1>3. Trim(new) \in Seq(T)
  BY TrimIsText
<1>4. Has(dst, decl, part) /\ TextAt(dst, decl, part) = Trim(new) /\ dst[i].n = decl
  BY <1>2, <1>3, NewNode
<1>5. ASSUME NEW other, NEW q \in Parts, other # decl, Has(src, other, q)
      PROVE  Has(dst, other, q) /\ TextAt(dst, other, q) = TextAt(src, other, q)
  <2>1. other # src[i].n /\ other # dst[i].n
    BY <1>2, <1>4, <1>5 DEF IsFirst
  <2>2. QED
    BY <1>2, <1>3, <1>5, <2>1, OthersStay
<1>6. QED
  BY <1>4, <1>5

============================================================================
