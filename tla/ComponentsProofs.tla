-------------------------- MODULE ComponentsProofs --------------------------
(***************************************************************************)
(* For any call graph, Tarjan's algorithm groups exactly the functions     *)
(* that call each other, by however many steps.                            *)
(***************************************************************************)
EXTENDS Components, SequenceTheorems, TLAPS

(***************************************************************************)
(* The invariant.                                                          *)
(***************************************************************************)
Met(v)  == index[v] # Unseen
Node(i) == work[i].v

\* What each variable holds.
Follows == [v : Funs, k : Nat]
TypeOK ==
  /\ CallGraph
  /\ index \in [Funs -> Nat \cup {Unseen}] /\ low \in [Funs -> Nat]
  /\ comp \in [Funs -> Nat \cup {Unseen}]
  /\ stack \in Seq(Funs) /\ work \in Seq(Follows)
  /\ seen \in Nat /\ ncomp \in Nat /\ root \in 1..(Len(calls) + 1)

\* Functions are numbered as they are met; the stack holds those that are met and
\* in no component, the first one met below the others.
Numbered ==
  /\ \A v \in Funs : /\ index[v] < seen /\ comp[v] < ncomp
                     /\ comp[v] # Unseen => Met(v)
                     /\ OnStack(v) <=> Met(v) /\ comp[v] = Unseen
  /\ \A i, j \in DOMAIN stack : i < j => index[stack[i]] < index[stack[j]]

\* What is being followed is open, was met in this order, and the last one was
\* called by the one before it.
Path ==
  /\ \A i \in DOMAIN work : /\ work[i].k <= Len(calls[Node(i)])
                            /\ i < Len(work) => Met(Node(i))
                            /\ IF Met(Node(i)) THEN OnStack(Node(i)) ELSE work[i].k = 0
  /\ \A i, j \in DOMAIN work : i < j /\ Met(Node(j)) => index[Node(i)] < index[Node(j)]
  /\ \A i \in DOMAIN work : i > 1 /\ ~Met(Node(i)) => Node(i) \in CalledBy({Node(i - 1)})

\* The calls of a function that have been followed, or are being followed.
Done(v) ==
  {k \in DOMAIN calls[v] : Met(v) /\ \A i \in DOMAIN work : Node(i) = v => k <= work[i].k}
Called(v) == {calls[v][k].callee : k \in Done(v)}

\* They lead to what has been met, or is about to be; what is closed calls only
\* what is closed; and the outer loop leaves nothing behind.
Covered ==
  /\ \A v \in Funs : \A w \in Called(v) : Met(w) \/ \E i \in DOMAIN work : Node(i) = w
  /\ \A v \in Funs : comp[v] # Unseen => \A w \in CalledBy({v}) : comp[w] # Unseen
  /\ \A v \in Funs : v < root => Met(v) \/ \E i \in DOMAIN work : Node(i) = v

\* A function that is being followed leads to all that are open and newer.
Down ==
  \A i \in DOMAIN work, u \in Funs :
    Met(Node(i)) /\ OnStack(u) /\ index[Node(i)] <= index[u] => u \in Reaches(Node(i))

\* An open function leads to one that is being followed and as old as itself.
Up ==
  \A u \in Funs : OnStack(u) =>
    \E i \in DOMAIN work : /\ Met(Node(i)) /\ index[Node(i)] <= index[u]
                           /\ Node(i) \in Reaches(u)

\* The low link of what is being followed is the number of an open function it
\* leads to.
LowReached ==
  \A i \in DOMAIN work : Met(Node(i)) =>
    /\ low[Node(i)] <= index[Node(i)]
    /\ \E u \in Funs : OnStack(u) /\ index[u] = low[Node(i)] /\ u \in Reaches(Node(i))

\* No call from what is newer leads below the low links from there on.
LowLeast ==
  \A i \in DOMAIN work, u \in Funs : \A w \in Called(u) :
    Met(Node(i)) /\ OnStack(u) /\ OnStack(w) /\ index[Node(i)] <= index[u] =>
      \E j \in DOMAIN work : i <= j /\ Met(Node(j)) /\ low[Node(j)] <= index[w]

\* What is closed is grouped as it should be.
Grouped ==
  \A v, w \in Funs : comp[v] # Unseen /\ comp[w] # Unseen =>
    (comp[v] = comp[w] <=> w \in Reaches(v) /\ v \in Reaches(w))

Base  == TypeOK /\ Numbered /\ Path /\ Covered
IInv  == Base /\ Down /\ Up /\ LowReached /\ LowLeast /\ Grouped

(***************************************************************************)
(* Calls, and what is reached.                                             *)
(***************************************************************************)
LEMMA Graph ==
  ASSUME CallGraph
  PROVE  /\ Len(calls) \in Nat /\ Funs = 1..Len(calls)
         /\ \A v \in Funs : /\ Len(calls[v]) \in Nat /\ DOMAIN calls[v] = 1..Len(calls[v])
                            /\ \A k \in DOMAIN calls[v] : calls[v][k].callee \in Funs
                            /\ CalledBy({v}) \subseteq Funs
<1>1. Len(calls) \in Nat /\ Funs = 1..Len(calls)
  BY DEF CallGraph, Funs
<1>2. ASSUME NEW v \in Funs
      PROVE  /\ Len(calls[v]) \in Nat /\ DOMAIN calls[v] = 1..Len(calls[v])
             /\ \A k \in DOMAIN calls[v] : calls[v][k].callee \in Funs
  BY DEF CallGraph
<1>3. ASSUME NEW v \in Funs PROVE CalledBy({v}) \subseteq Funs
  BY <1>2 DEF CalledBy
<1>4. QED
  BY <1>1, <1>2, <1>3

\* A function reaches itself, what it calls, and all that those reach.
LEMMA ReachesItself ==
  ASSUME NEW v \in Funs
  PROVE  v \in Reaches(v)
BY DEF Reaches

LEMMA ReachesCall ==
  ASSUME CallGraph, NEW v \in Funs, NEW u \in Reaches(v), NEW w \in CalledBy({u})
  PROVE  w \in Reaches(v)
<1>1. u \in Funs
  BY DEF Reaches
<1>2. w \in Funs
  BY <1>1, Graph
<1>3. ASSUME NEW vs \in SUBSET Funs, v \in vs, CalledBy(vs) \subseteq vs PROVE w \in vs
  <2>1. u \in vs
    BY <1>3 DEF Reaches
  <2>2. w \in CalledBy(vs)
    BY <2>1 DEF CalledBy
  <2>3. QED
    BY <1>3, <2>2
<1>4. QED
  BY <1>2, <1>3 DEF Reaches

LEMMA ReachesThrough ==
  ASSUME NEW v \in Funs, NEW u \in Reaches(v), NEW w \in Reaches(u)
  PROVE  w \in Reaches(v)
BY DEF Reaches

\* Nothing that is closed under calls is left.
LEMMA ReachesLeast ==
  ASSUME NEW vs \in SUBSET Funs, NEW v \in vs, \A u \in vs : CalledBy({u}) \subseteq vs
  PROVE  Reaches(v) \subseteq vs
<1>1. CalledBy(vs) \subseteq vs
  BY DEF CalledBy
<1>2. QED
  BY <1>1 DEF Reaches

\* The call graph does not change, and neither does what is reached.
LEMMA SameGraph ==
  ASSUME calls' = calls
  PROVE  /\ CallGraph' = CallGraph /\ Funs' = Funs
         /\ \A v : Reaches(v)' = Reaches(v)
         /\ \A vs : CalledBy(vs)' = CalledBy(vs)
<1>1. CallGraph' = CallGraph /\ Funs' = Funs
  BY DEF CallGraph, Funs, Range
<1>2. \A vs : CalledBy(vs)' = CalledBy(vs)
  BY DEF CalledBy
<1>3. \A v : Reaches(v)' = Reaches(v)
  BY DEF Reaches, CalledBy, Funs
<1>4. QED
  BY <1>1, <1>2, <1>3

(***************************************************************************)
(* What is being followed.                                                 *)
(***************************************************************************)
LEMMA BeingFollowed ==
  ASSUME TypeOK, NEW n, n = Len(work)
  PROVE  /\ n \in Nat /\ DOMAIN work = 1..n
         /\ \A i \in DOMAIN work : /\ work[i] \in Follows
                                   /\ Node(i) \in Funs /\ work[i].k \in Nat
         /\ work # <<>> => n \in DOMAIN work /\ Top = work[n] /\ Top.v = Node(n)
                           /\ Calls = calls[Node(n)]
<1>1. work \in Seq(Follows)
  BY DEF TypeOK
<1>2. \A i \in DOMAIN work : work[i] \in Follows
  BY <1>1
<1>3. QED
  BY <1>1, <1>2 DEF Follows, Node, Top, Last, Calls

\* A function is followed once at a time.
LEMMA FollowedOnce ==
  ASSUME TypeOK, Path, NEW i \in DOMAIN work, NEW j \in DOMAIN work, Node(i) = Node(j)
  PROVE  i = j
<1>1. DOMAIN work = 1..Len(work) /\ Len(work) \in Nat
  BY BeingFollowed
<1>2. \A v \in Funs : index[v] \in Int
  BY DEF TypeOK, Unseen
<1>3. Node(i) \in Funs /\ Node(j) \in Funs
  BY BeingFollowed
<1>4. ASSUME NEW k \in DOMAIN work, NEW l \in DOMAIN work, k < l, Node(k) = Node(l), Node(k) \in Funs
      PROVE  FALSE
  <2>1. k < Len(work)
    BY <1>1, <1>4
  <2>2. Met(Node(k))
    BY <2>1 DEF Path
  <2>3. index[Node(k)] < index[Node(l)]
    BY <1>4, <2>2 DEF Path
  <2>4. QED
    BY <1>2, <1>4, <2>3
<1>5. QED
  BY <1>1, <1>3, <1>4

LEMMA InitInvariant == CallGraph /\ ComponentsInit => IInv
<1> SUFFICES ASSUME CallGraph, ComponentsInit PROVE IInv
  OBVIOUS
<1>1. TypeOK
  BY Graph DEF ComponentsInit, TypeOK, Unseen
<1>2. work = <<>> /\ stack = <<>> /\ DOMAIN work = {} /\ DOMAIN stack = {} /\ \A v : ~OnStack(v)
  BY DEF ComponentsInit, OnStack
<1>3. \A v \in Funs : index[v] = Unseen /\ comp[v] = Unseen /\ ~Met(v)
  BY DEF ComponentsInit, Met
<1>4. Numbered
  BY <1>2, <1>3 DEF Numbered, ComponentsInit, Unseen
<1>5. Path /\ Down /\ Up /\ LowReached /\ LowLeast
  BY <1>2 DEF Path, Down, Up, LowReached, LowLeast
<1>6. Covered
  <2>1. \A v \in Funs : Called(v) = {}
    BY <1>3 DEF Called, Done
  <2>2. \A v \in Funs : ~(v < root)
    BY Graph DEF ComponentsInit
  <2>3. QED
    BY <1>3, <2>1, <2>2 DEF Covered
<1>7. Grouped
  BY <1>3 DEF Grouped
<1>8. QED
  BY <1>1, <1>4, <1>5, <1>6, <1>7 DEF IInv, Base

(***************************************************************************)
(* The outer loop.                                                         *)
(***************************************************************************)
LEMMA RootKeeps ==
  ASSUME IInv, NextRoot
  PROVE  IInv'
<1>1. /\ UNCHANGED <<calls, index, low, comp, stack, seen, ncomp>>
      /\ work = <<>> /\ root \in Funs /\ root' = root + 1
      /\ work' = IF index[root] = Unseen THEN <<[v |-> root, k |-> 0]>> ELSE <<>>
  BY DEF NextRoot
<1>2. TypeOK /\ Numbered /\ Path /\ Covered /\ Grouped /\ Up
  BY DEF IInv, Base
<1>3. /\ Funs' = Funs /\ \A v : Reaches(v)' = Reaches(v) /\ \A vs : CalledBy(vs)' = CalledBy(vs)
      /\ CallGraph' = CallGraph
  BY <1>1, SameGraph
<1>4. /\ \A v \in Funs : Met(v)' = Met(v) /\ OnStack(v)' = OnStack(v)
      /\ \A v \in Funs : ~OnStack(v)
  BY <1>1, <1>2 DEF Met, OnStack, Up
<1>5. \A i \in DOMAIN work' : i = 1 /\ Node(i)' = root /\ work'[i].k = 0 /\ ~Met(root)
  BY <1>1 DEF Node, Met
<1>6. CallGraph /\ Len(calls) \in Nat /\ Funs = 1..Len(calls)
  BY <1>2, Graph DEF TypeOK
<1>7. TypeOK'
  <2>1. work' \in Seq(Follows)
    <3>1. [v |-> root, k |-> 0] \in Follows
      BY <1>1 DEF Follows
    <3>2. QED
      BY <1>1, <3>1
  <2>2. root' \in 1..(Len(calls) + 1)
    BY <1>1, <1>6
  <2>3. QED
    BY <1>1, <1>2, <1>3, <2>1, <2>2 DEF TypeOK, Follows
<1>8. Numbered'
  BY <1>1, <1>2, <1>3, <1>4 DEF Numbered
<1>9. Path'
  <2>1. /\ root \in Funs /\ 0 <= Len(calls[root])
    BY <1>1, <1>6, Graph
  <2>2. \A i \in DOMAIN work' : i <= Len(work') /\ Len(work') <= 1
    BY <1>1
  <2>3. QED
    BY <1>1, <1>4, <1>5, <2>1, <2>2 DEF Path, Met
<1>10. \A v \in Funs : Called(v)' \subseteq Called(v)
  <2>1. ASSUME NEW v \in Funs, NEW k \in Done(v)' PROVE k \in Done(v)
    BY <1>1, <1>4, <2>1 DEF Done
  <2>2. QED
    BY <1>1, <2>1 DEF Called
<1>11. Covered'
  <2>1. \A v \in Funs : \A w \in Called(v)' : Met(w)
    BY <1>1, <1>2, <1>10 DEF Covered
  <2>2. ASSUME NEW v \in Funs, v < root + 1 PROVE Met(v) \/ \E i \in DOMAIN work' : Node(i)' = v
    <3>1. CASE v < root
      BY <1>1, <1>2, <3>1 DEF Covered
    <3>2. CASE v = root /\ ~Met(v)
      BY <1>1, <3>2 DEF Node, Met
    <3>3. QED
      BY <1>1, <1>6, <2>2, <3>1, <3>2
  <2>3. \A v \in Funs : \A w \in Called(v)' : Met(w)'
    BY <1>1, <2>1 DEF Met
  <2>4. \A v \in Funs : comp'[v] # Unseen => \A w \in CalledBy({v})' : comp'[w] # Unseen
    BY <1>1, <1>2, <1>3 DEF Covered
  <2>5. QED
    BY <1>1, <1>3, <1>4, <2>2, <2>3, <2>4 DEF Covered
<1>12. Down' /\ Up' /\ LowReached' /\ LowLeast'
  BY <1>1, <1>3, <1>4, <1>5 DEF Down, Up, LowReached, LowLeast
<1>13. Grouped'
  BY <1>1, <1>2, <1>3 DEF Grouped
<1>14. QED
  BY <1>7, <1>8, <1>9, <1>11, <1>12, <1>13 DEF IInv, Base

(***************************************************************************)
(* A function is met.                                                      *)
(***************************************************************************)
LEMMA MeetKeeps ==
  ASSUME IInv, Meet
  PROVE  IInv'
<1> PICK n : n = Len(work)
  OBVIOUS
<1> PICK t : t = Top.v
  OBVIOUS
<1>1. /\ UNCHANGED <<calls, comp, work, ncomp, root>>
      /\ work # <<>> /\ index[t] = Unseen
      /\ index' = [index EXCEPT ![t] = seen] /\ low' = [low EXCEPT ![t] = seen]
      /\ seen' = seen + 1 /\ stack' = Append(stack, t)
  BY DEF Meet
<1>2. TypeOK /\ Numbered /\ Path /\ Covered /\ Grouped /\ Up /\ Down /\ LowReached /\ LowLeast
  BY DEF IInv, Base
<1>3. /\ Funs' = Funs /\ \A v : Reaches(v)' = Reaches(v) /\ \A vs : CalledBy(vs)' = CalledBy(vs)
      /\ CallGraph' = CallGraph
  BY <1>1, SameGraph
<1>4. /\ n \in Nat /\ DOMAIN work = 1..n /\ n \in DOMAIN work /\ t = Node(n) /\ t \in Funs
      /\ \A i \in DOMAIN work : Node(i) \in Funs /\ work[i].k \in Nat
  BY <1>1, <1>2, BeingFollowed
<1>5. /\ \A v \in Funs : index[v] \in Int /\ low[v] \in Int /\ seen \in Nat
      /\ \A v \in Funs : index'[v] = IF v = t THEN seen ELSE index[v]
      /\ \A v \in Funs : low'[v] = IF v = t THEN seen ELSE low[v]
      /\ \A v \in Funs : index[v] < seen
  BY <1>1, <1>2 DEF TypeOK, Numbered, Unseen
<1>6. /\ ~Met(t) /\ \A v \in Funs : Met(v)' <=> Met(v) \/ v = t
      /\ \A i : Node(i)' = Node(i)
  BY <1>1, <1>4, <1>5, <1>2 DEF Met, Node, Unseen, TypeOK
<1>7. /\ Len(stack) \in Nat /\ DOMAIN stack = 1..Len(stack)
      /\ DOMAIN stack' = 1..(Len(stack) + 1) /\ stack'[Len(stack) + 1] = t
      /\ \A i \in DOMAIN stack : stack'[i] = stack[i] /\ stack[i] \in Funs
      /\ stack' \in Seq(Funs)
  BY <1>1, <1>2, <1>4 DEF TypeOK
<1>8. \A v \in Funs : OnStack(v)' <=> OnStack(v) \/ v = t
  <2>1. ASSUME NEW v \in Funs, OnStack(v) PROVE OnStack(v)'
    BY <1>7, <2>1 DEF OnStack
  <2>2. OnStack(t)'
    <3>1. Len(stack) + 1 \in DOMAIN stack'
      BY <1>7
    <3>2. QED
      BY <1>7, <3>1 DEF OnStack
  <2>3. ASSUME NEW v \in Funs, OnStack(v)', v # t PROVE OnStack(v)
    BY <1>7, <2>3 DEF OnStack
  <2>4. QED
    BY <2>1, <2>2, <2>3
<1>9. ~OnStack(t) /\ comp[t] = Unseen
  BY <1>2, <1>4, <1>6 DEF Numbered
<1>10. \A i \in DOMAIN work : i # n => Node(i) # t
  BY <1>2, <1>4, FollowedOnce
<1>11. TypeOK'
  BY <1>1, <1>2, <1>3, <1>4, <1>7 DEF TypeOK, Follows
<1>12. Numbered'
  <2>1. ASSUME NEW v \in Funs
        PROVE  /\ index'[v] < seen' /\ comp'[v] < ncomp'
               /\ comp'[v] # Unseen => Met(v)'
               /\ OnStack(v)' <=> Met(v)' /\ comp'[v] = Unseen
    BY <1>1, <1>2, <1>5, <1>6, <1>8, <1>9 DEF Numbered
  <2>2. ASSUME NEW i \in DOMAIN stack', NEW j \in DOMAIN stack', i < j
        PROVE  index'[stack'[i]] < index'[stack'[j]]
    <3>1. i \in DOMAIN stack /\ stack'[i] = stack[i] /\ stack[i] \in Funs
      BY <1>7, <2>2
    <3>2. OnStack(stack[i]) /\ stack[i] # t
      BY <1>9, <3>1 DEF OnStack
    <3>3. index'[stack'[i]] = index[stack[i]]
      BY <1>5, <3>1, <3>2
    <3>4. CASE j = Len(stack) + 1
      BY <1>4, <1>5, <1>7, <3>1, <3>3, <3>4
    <3>5. CASE j # Len(stack) + 1
      <4>1. j \in DOMAIN stack /\ stack'[j] = stack[j] /\ stack[j] \in Funs
        BY <1>7, <3>5
      <4>2. stack[j] # t
        BY <1>9, <4>1 DEF OnStack
      <4>3. index'[stack'[j]] = index[stack[j]]
        BY <1>5, <4>1, <4>2
      <4>4. QED
        BY <1>2, <2>2, <3>1, <3>3, <4>1, <4>3 DEF Numbered
    <3>6. QED
      BY <3>4, <3>5
  <2>3. QED
    BY <1>3, <2>1, <2>2 DEF Numbered
<1>13. Path'
  <2>1. ASSUME NEW i \in DOMAIN work
        PROVE  /\ work[i].k <= Len(calls[Node(i)])
               /\ Met(Node(i))' /\ OnStack(Node(i))'
    BY <1>2, <1>4, <1>6, <1>8 DEF Path
  <2>2. ASSUME NEW i \in DOMAIN work, NEW j \in DOMAIN work, i < j
        PROVE  index'[Node(i)] < index'[Node(j)]
    <3>1. i # n /\ Node(i) # t /\ index'[Node(i)] = index[Node(i)]
      BY <1>4, <1>5, <1>10, <2>2
    <3>2. CASE j = n
      BY <1>4, <1>5, <3>1, <3>2
    <3>3. CASE j # n
      <4>1. Met(Node(j)) /\ Node(j) # t
        BY <1>2, <1>4, <1>10, <3>3 DEF Path
      <4>2. index'[Node(j)] = index[Node(j)]
        BY <1>4, <1>5, <4>1
      <4>3. QED
        BY <1>2, <2>2, <3>1, <4>1, <4>2 DEF Path
    <3>4. QED
      BY <3>2, <3>3
  <2>3. QED
    BY <1>1, <1>6, <2>1, <2>2 DEF Path
<1>14. /\ \A v \in Funs : Called(v)' \subseteq Called(v)
       /\ Called(t)' = {}
  <2>1. ASSUME NEW v \in Funs, NEW k \in Done(v)' PROVE k \in Done(v) /\ v # t
    <3>1. k \in DOMAIN calls[v] /\ Met(v)' /\ \A i \in DOMAIN work : Node(i) = v => k <= work[i].k
      BY <1>1, <1>6, <2>1 DEF Done
    <3>2. CASE v = t
      <4>1. work[n].k = 0
        BY <1>2, <1>4, <1>6 DEF Path
      <4>2. k \in Nat \ {0}
        <5>1. Len(calls[v]) \in Nat /\ DOMAIN calls[v] = 1..Len(calls[v])
          BY <1>2, Graph DEF TypeOK
        <5>2. QED
          BY <3>1, <5>1
      <4>3. QED
        BY <1>4, <3>1, <3>2, <4>1, <4>2
    <3>3. CASE v # t
      BY <1>6, <3>1, <3>3 DEF Done
    <3>4. QED
      BY <3>2, <3>3
  <2>2. QED
    BY <1>1, <1>4, <2>1 DEF Called
<1>15. Covered'
  <2>1. ASSUME NEW v \in Funs, NEW w \in Called(v)'
        PROVE  Met(w)' \/ \E i \in DOMAIN work : Node(i) = w
    <3>1. w \in Called(v) /\ w \in Funs
      <4>1. w \in Called(v)
        BY <1>14, <2>1
      <4>2. QED
        BY <1>2, <4>1, Graph DEF TypeOK, Called, Done
    <3>2. QED
      BY <1>2, <1>6, <3>1 DEF Covered
  <2>2. \A v \in Funs : v < root => Met(v)' \/ \E i \in DOMAIN work : Node(i) = v
    BY <1>2, <1>6 DEF Covered
  <2>3. QED
    BY <1>1, <1>2, <1>3, <1>6, <2>1, <2>2 DEF Covered
<1>16. Down'
  <2>1. ASSUME NEW i \in DOMAIN work, NEW u \in Funs,
               OnStack(u)', index'[Node(i)] <= index'[u]
        PROVE  u \in Reaches(Node(i))
    <3>1. CASE u # t
      <4>1. Node(i) # t
        BY <1>4, <1>5, <2>1, <3>1
      <4>2. Met(Node(i)) /\ OnStack(u) /\ index[Node(i)] <= index[u]
        BY <1>2, <1>4, <1>5, <1>8, <2>1, <3>1, <4>1 DEF Path
      <4>3. QED
        BY <1>2, <4>2 DEF Down
    <3>2. CASE u = t /\ i = n
      BY <1>4, <3>2, ReachesItself
    <3>3. CASE u = t /\ i # n
      <4>1. n - 1 \in DOMAIN work /\ i <= n - 1 /\ n > 1
        BY <1>4, <3>3
      <4>2. t \in CalledBy({Node(n - 1)})
        BY <1>2, <1>4, <1>6, <4>1 DEF Path
      <4>3. Met(Node(n - 1)) /\ OnStack(Node(n - 1)) /\ Met(Node(i))
        BY <1>2, <1>4, <3>3, <4>1 DEF Path
      <4>4. index[Node(i)] <= index[Node(n - 1)]
        <5>1. CASE i = n - 1
          BY <1>4, <1>5, <5>1
        <5>2. CASE i # n - 1
          <6>1. i < n - 1
            BY <1>4, <4>1, <5>2
          <6>2. index[Node(i)] < index[Node(n - 1)]
            BY <1>2, <4>1, <4>3, <6>1 DEF Path
          <6>3. index[Node(i)] \in Int /\ index[Node(n - 1)] \in Int
            BY <1>4, <1>5, <4>1
          <6>4. QED
            BY <6>2, <6>3
        <5>3. QED
          BY <5>1, <5>2
      <4>5. Node(n - 1) \in Reaches(Node(i))
        BY <1>2, <1>4, <4>1, <4>3, <4>4 DEF Down
      <4>6. QED
        BY <1>2, <1>4, <3>3, <4>2, <4>5, ReachesCall DEF TypeOK
    <3>4. QED
      BY <3>1, <3>2, <3>3
  <2>2. QED
    BY <1>1, <1>3, <1>6, <2>1 DEF Down
<1>17. Up'
  <2>1. ASSUME NEW u \in Funs, OnStack(u)'
        PROVE  \E i \in DOMAIN work : /\ Met(Node(i))' /\ index'[Node(i)] <= index'[u]
                                      /\ Node(i) \in Reaches(u)
    <3>1. CASE u = t
      <4>1. Met(Node(n))' /\ index'[Node(n)] <= index'[u] /\ Node(n) \in Reaches(u)
        BY <1>4, <1>5, <1>6, <3>1, ReachesItself
      <4>2. QED
        BY <1>4, <4>1
    <3>2. CASE u # t
      <4>1. PICK i \in DOMAIN work : /\ Met(Node(i)) /\ index[Node(i)] <= index[u]
                                     /\ Node(i) \in Reaches(u)
        BY <1>2, <1>8, <2>1, <3>2 DEF Up
      <4>2. QED
        BY <1>4, <1>5, <1>6, <3>2, <4>1
    <3>3. QED
      BY <3>1, <3>2
  <2>2. QED
    BY <1>1, <1>3, <1>6, <2>1 DEF Up
<1>18. LowReached'
  <2>1. ASSUME NEW i \in DOMAIN work
        PROVE  /\ low'[Node(i)] <= index'[Node(i)]
               /\ \E u \in Funs : OnStack(u)' /\ index'[u] = low'[Node(i)] /\ u \in Reaches(Node(i))
    <3>1. CASE i = n
      BY <1>4, <1>5, <1>8, <3>1, ReachesItself
    <3>2. CASE i # n
      <4>1. Met(Node(i)) /\ Node(i) # t
        BY <1>2, <1>4, <1>10, <3>2 DEF Path
      <4>2. PICK u \in Funs : OnStack(u) /\ index[u] = low[Node(i)] /\ u \in Reaches(Node(i))
        BY <1>2, <4>1 DEF LowReached
      <4>3. u # t /\ OnStack(u)' /\ index'[u] = low'[Node(i)]
        BY <1>4, <1>5, <1>8, <1>9, <4>1, <4>2
      <4>4. low'[Node(i)] <= index'[Node(i)]
        BY <1>2, <1>4, <1>5, <4>1 DEF LowReached
      <4>5. QED
        BY <4>2, <4>3, <4>4
    <3>3. QED
      BY <3>1, <3>2
  <2>2. QED
    BY <1>1, <1>3, <1>6, <2>1 DEF LowReached
<1>19. LowLeast'
  <2>1. ASSUME NEW i \in DOMAIN work, NEW u \in Funs, NEW w \in Called(u)',
               OnStack(u)', OnStack(w)', index'[Node(i)] <= index'[u]
        PROVE  \E j \in DOMAIN work : i <= j /\ Met(Node(j))' /\ low'[Node(j)] <= index'[w]
    <3>1. w \in Called(u) /\ u # t
      BY <1>14, <2>1
    <3>2. w \in Funs
      BY <1>2, <3>1, Graph DEF TypeOK, Called, Done
    <3>3. Node(i) # t /\ Met(Node(i)) /\ OnStack(u) /\ index[Node(i)] <= index[u]
      <4>1. Node(i) # t
        BY <1>4, <1>5, <2>1, <3>1
      <4>2. QED
        BY <1>2, <1>4, <1>5, <1>6, <1>8, <2>1, <3>1, <4>1 DEF Path
    <3>4. CASE w = t
      <4>1. low'[Node(i)] <= index'[w]
        <5>1. low[Node(i)] <= index[Node(i)]
          BY <1>2, <3>3 DEF LowReached
        <5>2. QED
          BY <1>4, <1>5, <3>2, <3>3, <3>4, <5>1
      <4>2. i <= i
        BY <1>4
      <4>3. QED
        BY <1>4, <1>6, <3>3, <4>1, <4>2
    <3>5. CASE w # t
      <4>1. OnStack(w)
        BY <1>8, <2>1, <3>2, <3>5
      <4>2. PICK j \in DOMAIN work : i <= j /\ Met(Node(j)) /\ low[Node(j)] <= index[w]
        BY <1>2, <3>1, <3>3, <4>1 DEF LowLeast
      <4>3. Node(j) # t /\ Node(j) \in Funs
        BY <1>4, <1>6, <4>2
      <4>4. QED
        BY <1>5, <1>6, <3>2, <3>5, <4>2, <4>3
    <3>6. QED
      BY <3>4, <3>5
  <2>2. QED
    BY <1>1, <1>3, <1>6, <2>1 DEF LowLeast
<1>20. Grouped'
  BY <1>1, <1>2, <1>3 DEF Grouped
<1>21. QED
  BY <1>11, <1>12, <1>13, <1>15, <1>16, <1>17, <1>18, <1>19, <1>20 DEF IInv, Base

(***************************************************************************)
(* A call is followed.                                                     *)
(***************************************************************************)
AtCall == Working /\ Top.k < Len(Calls)

\* One more call of the top one is counted, and nothing else.
LEMMA Counts ==
  ASSUME TypeOK, AtCall, NEW n, n = Len(work), NEW t, t = Top.v
  PROVE  /\ n \in Nat \ {0} /\ DOMAIN work = 1..n /\ n \in DOMAIN work
         /\ t = Node(n) /\ t \in Funs /\ Met(t)
         /\ \A i \in DOMAIN work : Node(i) \in Funs /\ work[i].k \in Nat
         /\ Counted \in Seq(Follows) /\ DOMAIN Counted = DOMAIN work
         /\ \A i \in DOMAIN work : /\ Counted[i].v = Node(i)
                                   /\ i # n => Counted[i].k = work[i].k
         /\ Counted[n].k = work[n].k + 1 /\ Counted[n].k <= Len(calls[t])
         /\ work[n].k + 1 \in DOMAIN calls[t] /\ Callee = calls[t][work[n].k + 1].callee
         /\ Callee \in Funs /\ Callee \in CalledBy({t})
<1>1. work # <<>> /\ Met(t)
  BY DEF AtCall, Working, Met
<1>2. /\ n \in Nat /\ DOMAIN work = 1..n /\ n \in DOMAIN work /\ Top = work[n] /\ t = Node(n)
      /\ Calls = calls[t]
      /\ \A i \in DOMAIN work : /\ work[i] \in Follows /\ Node(i) \in Funs /\ work[i].k \in Nat
  BY <1>1, BeingFollowed
<1> DEFINE more == [work[n] EXCEPT !.k = work[n].k + 1]
<1>3. more \in Follows /\ more.v = Node(n) /\ more.k = work[n].k + 1
  BY <1>2 DEF Follows, Node
<1>4. Counted = [work EXCEPT ![n] = more]
  BY <1>2 DEF Counted
<1> HIDE DEF more
<1>5. Counted \in Seq(Follows) /\ DOMAIN Counted = DOMAIN work
  BY <1>2, <1>3, <1>4 DEF TypeOK
<1>6. \A i \in DOMAIN work : /\ Counted[i].v = Node(i)
                             /\ i # n => Counted[i].k = work[i].k
  BY <1>2, <1>3, <1>4 DEF Node
<1>7. Counted[n].k = work[n].k + 1
  BY <1>2, <1>3, <1>4
<1>8. Len(calls[t]) \in Nat /\ DOMAIN calls[t] = 1..Len(calls[t])
      /\ \A k \in DOMAIN calls[t] : calls[t][k].callee \in Funs
  BY <1>2, Graph DEF TypeOK
<1>9. work[n].k < Len(calls[t])
  BY <1>2 DEF AtCall
<1>10. work[n].k + 1 \in DOMAIN calls[t] /\ work[n].k + 1 <= Len(calls[t])
  BY <1>2, <1>8, <1>9
<1>11. Callee = calls[t][work[n].k + 1].callee
  BY <1>2 DEF Callee
<1>12. Callee \in Funs /\ Callee \in CalledBy({t})
  BY <1>8, <1>10, <1>11 DEF CalledBy
<1>13. n \in Nat \ {0}
  BY <1>2
<1>14. QED
  BY <1>1, <1>2, <1>5, <1>6, <1>7, <1>10, <1>11, <1>12, <1>13

\* The call that is counted is the only one that was not followed before.
LEMMA CountedCalls ==
  ASSUME TypeOK, Path, AtCall, calls' = calls, index' = index,
         \A i \in DOMAIN work : i \in DOMAIN work' /\ work'[i] = Counted[i],
         NEW v \in Funs, NEW w \in Called(v)'
  PROVE  w \in Called(v) \/ (v = Top.v /\ w = Callee)
<1> PICK n : n = Len(work)
  OBVIOUS
<1> PICK t : t = Top.v
  OBVIOUS
<1>1. /\ n \in Nat \ {0} /\ DOMAIN work = 1..n /\ t = Node(n) /\ t \in Funs /\ n \in DOMAIN work
      /\ \A i \in DOMAIN work : /\ Counted[i].v = Node(i) /\ work[i].k \in Nat
                                /\ i # n => Counted[i].k = work[i].k
      /\ Counted[n].k = work[n].k + 1
      /\ Callee = calls[t][work[n].k + 1].callee
  BY Counts
<1>2. PICK k \in Done(v)' : w = calls[v][k].callee
  BY DEF Called
<1>3. /\ k \in DOMAIN calls[v] /\ Met(v)
      /\ \A i \in DOMAIN work : Counted[i].v = v => k <= Counted[i].k
  BY <1>2 DEF Done, Met, Node
<1>4. k \in Nat
  <2>1. DOMAIN calls[v] = 1..Len(calls[v]) /\ Len(calls[v]) \in Nat
    BY Graph DEF TypeOK
  <2>2. QED
    BY <1>3, <2>1
<1>5. CASE v = t /\ k = work[n].k + 1
  BY <1>1, <1>2, <1>5
<1>6. CASE ~(v = t /\ k = work[n].k + 1)
  <2>1. ASSUME NEW i \in DOMAIN work, Node(i) = v PROVE k <= work[i].k
    <3>1. CASE i = n
      BY <1>1, <1>3, <1>4, <1>6, <2>1, <3>1
    <3>2. CASE i # n
      BY <1>1, <1>3, <2>1, <3>2
    <3>3. QED
      BY <3>1, <3>2
  <2>2. QED
    BY <1>2, <1>3, <2>1 DEF Called, Done
<1>7. QED
  BY <1>5, <1>6

\* The call is to a function not met before.
LEMMA DescendKeeps ==
  ASSUME IInv, Descend
  PROVE  IInv'
<1> PICK n : n = Len(work)
  OBVIOUS
<1> PICK t : t = Top.v
  OBVIOUS
<1> PICK c : c = Callee
  OBVIOUS
<1>1. /\ UNCHANGED <<calls, index, low, comp, stack, seen, ncomp, root>>
      /\ AtCall /\ ~Met(c) /\ work' = Append(Counted, [v |-> c, k |-> 0])
  BY DEF Descend, AtCall, Met
<1>2. TypeOK /\ Numbered /\ Path /\ Covered /\ Grouped /\ Up /\ Down /\ LowReached /\ LowLeast
  BY DEF IInv, Base
<1>3. /\ Funs' = Funs /\ \A v : Reaches(v)' = Reaches(v) /\ \A vs : CalledBy(vs)' = CalledBy(vs)
      /\ CallGraph' = CallGraph
  BY <1>1, SameGraph
<1>4. /\ n \in Nat \ {0} /\ DOMAIN work = 1..n /\ t = Node(n) /\ t \in Funs /\ Met(t)
      /\ \A i \in DOMAIN work : Node(i) \in Funs /\ work[i].k \in Nat
      /\ Counted \in Seq(Follows) /\ DOMAIN Counted = DOMAIN work
      /\ \A i \in DOMAIN work : /\ Counted[i].v = Node(i)
                                /\ i # n => Counted[i].k = work[i].k
      /\ Counted[n].k <= Len(calls[t])
      /\ c \in Funs /\ c \in CalledBy({t})
  BY <1>1, <1>2, Counts
<1>5. [v |-> c, k |-> 0] \in Follows
  BY <1>4 DEF Follows
<1>6. /\ work' \in Seq(Follows) /\ Len(work') = n + 1 /\ DOMAIN work' = 1..(n + 1)
      /\ \A i \in DOMAIN work : i \in DOMAIN work' /\ work'[i] = Counted[i]
      /\ work'[n + 1] = [v |-> c, k |-> 0]
  <2>1. Len(Counted) = n
    BY <1>4
  <2>2. QED
    BY <1>1, <1>4, <1>5, <2>1
<1>7. /\ \A i \in DOMAIN work : Node(i)' = Node(i) /\ Met(Node(i))
      /\ \A i \in DOMAIN work' : i \in DOMAIN work \/ (i = n + 1 /\ Node(i)' = c)
      /\ \A i \in DOMAIN work' : i = n + 1 => Node(i)' = c
  <2>1. ASSUME NEW i \in DOMAIN work PROVE Met(Node(i))
    BY <1>2, <1>4, <2>1 DEF Path
  <2>2. QED
    BY <1>4, <1>6, <2>1 DEF Node
<1>8. \A v : Met(v)' = Met(v) /\ OnStack(v)' = OnStack(v)
  BY <1>1 DEF Met, OnStack
<1>9. ~OnStack(c)
  BY <1>1, <1>2, <1>4 DEF Numbered
<1>10. TypeOK'
  BY <1>1, <1>2, <1>3, <1>6 DEF TypeOK, Follows
<1>11. Numbered'
  BY <1>1, <1>2, <1>3, <1>8 DEF Numbered
<1>12. Path'
  <2>1. ASSUME NEW i \in DOMAIN work
        PROVE  work'[i].k <= Len(calls[Node(i)]) /\ OnStack(Node(i))
    BY <1>2, <1>4, <1>6, <1>7 DEF Path
  <2>2. Len(calls[c]) \in Nat
    BY <1>2, <1>4, Graph DEF TypeOK
  <2>3. ASSUME NEW i \in DOMAIN work'
        PROVE  /\ work'[i].k <= Len(calls[Node(i)'])
               /\ i < n + 1 => Met(Node(i)')
               /\ IF Met(Node(i)') THEN OnStack(Node(i)') ELSE work'[i].k = 0
    <3>1. CASE i \in DOMAIN work
      BY <1>7, <2>1, <3>1
    <3>2. CASE i = n + 1
      BY <1>1, <1>4, <1>6, <1>7, <2>2, <3>2
    <3>3. QED
      BY <1>7, <3>1, <3>2
  <2>4. ASSUME NEW i \in DOMAIN work', NEW j \in DOMAIN work', i < j, Met(Node(j)')
        PROVE  index[Node(i)'] < index[Node(j)']
    <3>1. j \in DOMAIN work
      BY <1>1, <1>7, <2>4
    <3>2. i \in DOMAIN work
      BY <1>4, <1>6, <2>4, <3>1
    <3>3. QED
      BY <1>2, <1>7, <2>4, <3>1, <3>2 DEF Path
  <2>5. ASSUME NEW i \in DOMAIN work', i > 1, ~Met(Node(i)')
        PROVE  Node(i)' \in CalledBy({Node(i - 1)'})
    <3>1. i = n + 1 /\ Node(i)' = c
      BY <1>7, <2>5
    <3>2. i - 1 = n /\ n \in DOMAIN work
      BY <1>4, <3>1
    <3>3. Node(i - 1)' = t
      BY <1>4, <1>7, <3>2
    <3>4. QED
      BY <1>4, <3>1, <3>3
  <2>6. QED
    BY <1>1, <1>3, <1>6, <1>8, <2>3, <2>4, <2>5 DEF Path, Met
<1>13. \A v \in Funs : \A w \in Called(v)' : w \in Called(v) \/ w = c
  BY <1>1, <1>2, <1>6, CountedCalls
<1>14. Covered'
  <2>1. ASSUME NEW w, \E i \in DOMAIN work : Node(i) = w PROVE \E i \in DOMAIN work' : Node(i)' = w
    BY <1>6, <1>7, <2>1
  <2>2. \E i \in DOMAIN work' : Node(i)' = c
    <3>1. n + 1 \in DOMAIN work'
      BY <1>4, <1>6
    <3>2. QED
      BY <1>7, <3>1
  <2>3. ASSUME NEW v \in Funs, NEW w \in Called(v)'
        PROVE  Met(w) \/ \E i \in DOMAIN work' : Node(i)' = w
    BY <1>2, <1>13, <2>1, <2>2 DEF Covered
  <2>4. ASSUME NEW v \in Funs, v < root PROVE Met(v) \/ \E i \in DOMAIN work' : Node(i)' = v
    BY <1>2, <2>1, <2>4 DEF Covered
  <2>5. QED
    BY <1>1, <1>2, <1>3, <1>8, <2>3, <2>4 DEF Covered
<1>15. \A i \in DOMAIN work' : Met(Node(i)') => i \in DOMAIN work /\ Node(i)' = Node(i)
  BY <1>1, <1>7
<1>16. Down'
  BY <1>1, <1>2, <1>3, <1>8, <1>15 DEF Down, Met
<1>17. Up'
  <2>1. ASSUME NEW u \in Funs, OnStack(u)
        PROVE  \E i \in DOMAIN work' : /\ Met(Node(i)') /\ index[Node(i)'] <= index[u]
                                       /\ Node(i)' \in Reaches(u)
    BY <1>2, <1>6, <1>7, <2>1 DEF Up
  <2>2. QED
    BY <1>1, <1>3, <1>8, <2>1 DEF Up, Met
<1>18. LowReached'
  BY <1>1, <1>2, <1>3, <1>8, <1>15 DEF LowReached, Met
<1>19. LowLeast'
  <2>1. ASSUME NEW i \in DOMAIN work', NEW u \in Funs, NEW w \in Called(u)',
               Met(Node(i)'), OnStack(u), OnStack(w), index[Node(i)'] <= index[u]
        PROVE  \E j \in DOMAIN work' : i <= j /\ Met(Node(j)') /\ low[Node(j)'] <= index[w]
    <3>1. w \in Called(u) /\ i \in DOMAIN work /\ Node(i)' = Node(i)
      BY <1>9, <1>13, <1>15, <2>1
    <3>2. PICK j \in DOMAIN work : i <= j /\ Met(Node(j)) /\ low[Node(j)] <= index[w]
      BY <1>2, <2>1, <3>1 DEF LowLeast
    <3>3. QED
      BY <1>6, <1>7, <3>2
  <2>2. QED
    BY <1>1, <1>3, <1>8, <2>1 DEF LowLeast, Met
<1>20. Grouped'
  BY <1>1, <1>2, <1>3 DEF Grouped
<1>21. QED
  BY <1>10, <1>11, <1>12, <1>14, <1>16, <1>17, <1>18, <1>19, <1>20 DEF IInv, Base

\* The call is to a function met before: what does not depend on the low links.
LEMMA CountedKeeps ==
  ASSUME IInv, AtCall, Met(Callee), work' = Counted,
         UNCHANGED <<calls, index, comp, stack, seen, ncomp, root>>
  PROVE  Numbered' /\ Path' /\ Covered' /\ Down' /\ Up' /\ Grouped'
<1> PICK n : n = Len(work)
  OBVIOUS
<1> PICK t : t = Top.v
  OBVIOUS
<1>2. TypeOK /\ Numbered /\ Path /\ Covered /\ Grouped /\ Up /\ Down
  BY DEF IInv, Base
<1>3. /\ Funs' = Funs /\ \A v : Reaches(v)' = Reaches(v) /\ \A vs : CalledBy(vs)' = CalledBy(vs)
  BY SameGraph
<1>4. /\ n \in Nat \ {0} /\ DOMAIN work = 1..n /\ t = Node(n) /\ Met(t)
      /\ DOMAIN Counted = DOMAIN work
      /\ \A i \in DOMAIN work : /\ Counted[i].v = Node(i)
                                /\ i # n => Counted[i].k = work[i].k
      /\ Counted[n].k <= Len(calls[t])
  BY <1>2, Counts
<1>5. DOMAIN work' = DOMAIN work /\ \A i \in DOMAIN work : Node(i)' = Node(i) /\ Met(Node(i))
  <2>1. ASSUME NEW i \in DOMAIN work PROVE Met(Node(i))
    BY <1>2, <1>4, <2>1 DEF Path
  <2>2. QED
    BY <1>4, <2>1 DEF Node
<1>6. \A v : Met(v)' = Met(v) /\ OnStack(v)' = OnStack(v)
  BY DEF Met, OnStack
<1>7. Numbered'
  BY <1>2, <1>3, <1>6 DEF Numbered
<1>8. Path'
  <2>1. ASSUME NEW i \in DOMAIN work
        PROVE  Counted[i].k <= Len(calls[Node(i)]) /\ OnStack(Node(i))
    BY <1>2, <1>4, <1>5 DEF Path
  <2>2. \A i, j \in DOMAIN work : i < j => index[Node(i)] < index[Node(j)]
    BY <1>2, <1>5 DEF Path
  <2>3. QED
    BY <1>3, <1>5, <1>6, <2>1, <2>2 DEF Path, Met
<1>9. Covered'
  <2>1. \A i \in DOMAIN work : i \in DOMAIN work' /\ work'[i] = Counted[i]
    BY <1>4
  <2>2. \A v \in Funs : \A w \in Called(v)' : w \in Called(v) \/ w = Callee
    BY <1>2, <2>1, CountedCalls
  <2>3. ASSUME NEW v \in Funs, NEW w \in Called(v)'
        PROVE  Met(w) \/ \E i \in DOMAIN work : Node(i) = w
    BY <1>2, <2>2 DEF Covered
  <2>4. QED
    BY <1>2, <1>3, <1>5, <1>6, <2>3 DEF Covered
<1>10. Down' /\ Up' /\ Grouped'
  BY <1>2, <1>3, <1>5, <1>6 DEF Down, Up, Grouped, Met
<1>11. QED
  BY <1>7, <1>8, <1>9, <1>10

\* The call is to an open function: the low link may get lower.
LEMMA BackKeeps ==
  ASSUME IInv, Back
  PROVE  IInv'
<1> PICK n : n = Len(work)
  OBVIOUS
<1> PICK t : t = Top.v
  OBVIOUS
<1> PICK c : c = Callee
  OBVIOUS
<1>1. /\ UNCHANGED <<calls, index, comp, stack, seen, ncomp, root>>
      /\ AtCall /\ Met(c) /\ OnStack(c) /\ work' = Counted
      /\ low' = [low EXCEPT ![t] = Lower(low[t], index[c])]
  BY DEF Back, AtCall, Met
<1>2. TypeOK /\ Numbered /\ Path /\ Down /\ LowReached /\ LowLeast
  BY DEF IInv, Base
<1>3. /\ Funs' = Funs /\ \A v : Reaches(v)' = Reaches(v) /\ CallGraph' = CallGraph
  BY <1>1, SameGraph
<1>4. /\ n \in Nat \ {0} /\ DOMAIN work = 1..n /\ n \in DOMAIN work
      /\ t = Node(n) /\ t \in Funs /\ Met(t)
      /\ \A i \in DOMAIN work : Node(i) \in Funs
      /\ Counted \in Seq(Follows) /\ DOMAIN Counted = DOMAIN work
      /\ \A i \in DOMAIN work : Counted[i].v = Node(i)
      /\ c \in Funs /\ c \in CalledBy({t})
  BY <1>1, <1>2, Counts
<1>5. DOMAIN work' = DOMAIN work /\ \A i \in DOMAIN work : Node(i)' = Node(i) /\ Met(Node(i))
  <2>1. ASSUME NEW i \in DOMAIN work PROVE Met(Node(i))
    BY <1>2, <1>4, <2>1 DEF Path
  <2>2. QED
    BY <1>1, <1>4, <2>1 DEF Node
<1>6. \A v : Met(v)' = Met(v) /\ OnStack(v)' = OnStack(v)
  BY <1>1 DEF Met, OnStack
<1>7. /\ \A v \in Funs : low[v] \in Nat /\ index[v] \in Nat \cup {Unseen}
      /\ index[c] \in Nat
  BY <1>1, <1>2, <1>4 DEF TypeOK, Met
<1>8. /\ low' \in [Funs -> Nat]
      /\ \A v \in Funs : v # t => low'[v] = low[v]
      /\ low'[t] <= low[t] /\ low'[t] <= index[c]
      /\ low'[t] = low[t] \/ low'[t] = index[c]
  <2>1. /\ Lower(low[t], index[c]) \in Nat
        /\ Lower(low[t], index[c]) <= low[t] /\ Lower(low[t], index[c]) <= index[c]
        /\ Lower(low[t], index[c]) \in {low[t], index[c]}
    BY <1>4, <1>7 DEF Lower
  <2>2. QED
    BY <1>1, <1>2, <1>4, <2>1 DEF TypeOK
<1>9. \A v \in Funs : low'[v] <= low[v]
  BY <1>7, <1>8
<1>10. TypeOK'
  BY <1>1, <1>2, <1>3, <1>4, <1>8 DEF TypeOK, Follows
<1>11. LowReached'
  <2>1. ASSUME NEW i \in DOMAIN work
        PROVE  /\ low'[Node(i)] <= index[Node(i)]
               /\ \E u \in Funs : OnStack(u) /\ index[u] = low'[Node(i)] /\ u \in Reaches(Node(i))
    <3>1. /\ low[Node(i)] <= index[Node(i)]
          /\ \E u \in Funs : OnStack(u) /\ index[u] = low[Node(i)] /\ u \in Reaches(Node(i))
      BY <1>2, <1>5 DEF LowReached
    <3>2. low'[Node(i)] <= index[Node(i)]
      BY <1>4, <1>5, <1>7, <1>8, <1>9, <3>1 DEF Unseen
    <3>3. CASE low'[Node(i)] = low[Node(i)]
      BY <3>1, <3>2, <3>3
    <3>4. CASE low'[Node(i)] # low[Node(i)]
      <4>1. Node(i) = t /\ low'[t] = index[c]
        BY <1>4, <1>8, <3>4
      <4>2. c \in Reaches(t)
        BY <1>2, <1>4, ReachesItself, ReachesCall DEF TypeOK
      <4>3. QED
        BY <1>1, <1>4, <3>2, <4>1, <4>2
    <3>5. QED
      BY <3>3, <3>4
  <2>2. QED
    BY <1>1, <1>3, <1>5, <1>6, <2>1 DEF LowReached
<1>12. LowLeast'
  <2>1. ASSUME NEW i \in DOMAIN work, NEW u \in Funs, NEW w \in Called(u)',
               OnStack(u), OnStack(w), index[Node(i)] <= index[u]
        PROVE  \E j \in DOMAIN work : i <= j /\ Met(Node(j)) /\ low'[Node(j)] <= index[w]
    <3>1. \A j \in DOMAIN work : j \in DOMAIN work' /\ work'[j] = Counted[j]
      BY <1>1, <1>4
    <3>2. w \in Called(u) \/ (u = t /\ w = c)
      BY <1>1, <1>2, <2>1, <3>1, CountedCalls
    <3>3. CASE w \in Called(u)
      <4>1. PICK j \in DOMAIN work : i <= j /\ Met(Node(j)) /\ low[Node(j)] <= index[w]
        BY <1>2, <1>5, <2>1, <3>3 DEF LowLeast
      <4>2. w \in Funs
        BY <1>2, <3>3, Graph DEF TypeOK, Called, Done
      <4>3. low'[Node(j)] <= index[w]
        <5>1. low'[Node(j)] \in Int /\ low[Node(j)] \in Int /\ index[w] \in Int
          BY <1>4, <1>7, <1>8, <4>2 DEF Unseen
        <5>2. low'[Node(j)] <= low[Node(j)]
          BY <1>4, <1>9
        <5>3. QED
          BY <4>1, <5>1, <5>2
      <4>4. QED
        BY <4>1, <4>3
    <3>4. CASE u = t /\ w = c
      <4>1. i <= n
        BY <1>4
      <4>2. QED
        BY <1>4, <1>8, <3>4, <4>1
    <3>5. QED
      BY <3>2, <3>3, <3>4
  <2>2. QED
    BY <1>1, <1>3, <1>5, <1>6, <2>1 DEF LowLeast, Met
<1>13. Numbered' /\ Path' /\ Covered' /\ Down' /\ Up' /\ Grouped'
  BY <1>1, CountedKeeps
<1>14. QED
  BY <1>10, <1>11, <1>12, <1>13 DEF IInv, Base

\* The call is into a component that is closed.
LEMMA AcrossKeeps ==
  ASSUME IInv, Across
  PROVE  IInv'
<1> PICK n : n = Len(work)
  OBVIOUS
<1> PICK t : t = Top.v
  OBVIOUS
<1> PICK c : c = Callee
  OBVIOUS
<1>1. /\ UNCHANGED <<calls, index, low, comp, stack, seen, ncomp, root>>
      /\ AtCall /\ Met(c) /\ ~OnStack(c) /\ work' = Counted
  BY DEF Across, AtCall, Met
<1>2. TypeOK /\ Numbered /\ Path /\ Down /\ LowReached /\ LowLeast
  BY DEF IInv, Base
<1>3. /\ Funs' = Funs /\ \A v : Reaches(v)' = Reaches(v) /\ CallGraph' = CallGraph
  BY <1>1, SameGraph
<1>4. /\ n \in Nat \ {0} /\ DOMAIN work = 1..n
      /\ Counted \in Seq(Follows) /\ DOMAIN Counted = DOMAIN work
      /\ \A i \in DOMAIN work : Counted[i].v = Node(i)
  BY <1>1, <1>2, Counts
<1>5. DOMAIN work' = DOMAIN work /\ \A i \in DOMAIN work : Node(i)' = Node(i)
  BY <1>1, <1>4 DEF Node
<1>6. \A v : Met(v)' = Met(v) /\ OnStack(v)' = OnStack(v)
  BY <1>1 DEF Met, OnStack
<1>7. TypeOK'
  BY <1>1, <1>2, <1>3, <1>4 DEF TypeOK, Follows
<1>8. LowReached'
  BY <1>1, <1>2, <1>3, <1>5, <1>6 DEF LowReached, Met
<1>9. LowLeast'
  <2>1. ASSUME NEW u \in Funs, NEW w \in Called(u)', OnStack(w) PROVE w \in Called(u)
    <3>1. \A j \in DOMAIN work : j \in DOMAIN work' /\ work'[j] = Counted[j]
      BY <1>1, <1>4
    <3>2. QED
      BY <1>1, <1>2, <2>1, <3>1, CountedCalls
  <2>2. QED
    BY <1>1, <1>2, <1>3, <1>5, <1>6, <2>1 DEF LowLeast, Met
<1>10. Numbered' /\ Path' /\ Covered' /\ Down' /\ Up' /\ Grouped'
  BY <1>1, CountedKeeps
<1>11. QED
  BY <1>7, <1>8, <1>9, <1>10 DEF IInv, Base

(***************************************************************************)
(* A function is left.                                                     *)
(***************************************************************************)

\* The top of the work is gone, and the one below may have learnt from it.
LEMMA Leaves ==
  ASSUME TypeOK, Path, Leave, NEW n, n = Len(work), NEW t, t = Top.v
  PROVE  /\ UNCHANGED <<calls, index, seen, root>>
         /\ n \in Nat \ {0} /\ DOMAIN work = 1..n /\ n \in DOMAIN work
         /\ t = Node(n) /\ t \in Funs /\ Met(t) /\ OnStack(t)
         /\ \A i \in DOMAIN work : /\ Node(i) \in Funs /\ Met(Node(i)) /\ OnStack(Node(i))
                                   /\ i # n => index[Node(i)] < index[t]
         /\ work' \in Seq(Follows) /\ DOMAIN work' = 1..(n - 1) /\ Len(work') = n - 1
         /\ \A i \in DOMAIN work' : /\ i \in DOMAIN work /\ i # n
                                    /\ work'[i] = work[i] /\ Node(i)' = Node(i)
         /\ low' \in [Funs -> Nat]
         /\ \A v \in Funs : /\ low'[v] <= low[v]
                            /\ \/ low'[v] = low[v]
                               \/ n > 1 /\ v = Node(n - 1) /\ low'[v] = low[t]
         /\ n > 1 => low'[Node(n - 1)] <= low[t]
<1>1. /\ work # <<>> /\ Met(t) /\ work' = Front(work) /\ low' = LowAfter
      /\ UNCHANGED <<calls, index, seen, root>>
  BY DEF Leave, Working, Met
<1>2. /\ n \in Nat /\ DOMAIN work = 1..n /\ n \in DOMAIN work /\ t = Node(n)
      /\ \A i \in DOMAIN work : Node(i) \in Funs
  BY <1>1, BeingFollowed
<1>3. ASSUME NEW i \in DOMAIN work
      PROVE  Met(Node(i)) /\ OnStack(Node(i)) /\ (i # n => index[Node(i)] < index[t])
  BY <1>1, <1>2 DEF Path
<1>4. /\ work' \in Seq(Follows) /\ DOMAIN work' = 1..(n - 1) /\ Len(work') = n - 1
      /\ \A i \in 1..(n - 1) : work'[i] = work[i]
  BY <1>1, <1>2 DEF Front, TypeOK
<1>5. \A i \in DOMAIN work' : /\ i \in DOMAIN work /\ i # n
                              /\ work'[i] = work[i] /\ Node(i)' = Node(i)
  BY <1>2, <1>4 DEF Node
<1>6. low \in [Funs -> Nat] /\ low[t] \in Nat
  BY <1>2 DEF TypeOK
<1>7. CASE n = 1
  BY <1>1, <1>2, <1>3, <1>4, <1>5, <1>6, <1>7 DEF LowAfter
<1>8. CASE n > 1
  <2> DEFINE p == Node(n - 1)
             l == Lower(low[p], low[t])
  <2>1. p \in Funs
    BY <1>2, <1>8
  <2>2. l \in Nat /\ l <= low[p] /\ l <= low[t] /\ (l = low[p] \/ l = low[t])
    BY <1>6, <2>1 DEF Lower
  <2>3. low' = [low EXCEPT ![p] = l]
    BY <1>1, <1>2, <1>8 DEF LowAfter, Node
  <2> HIDE DEF p, l
  <2>4. /\ low' \in [Funs -> Nat] /\ low'[p] = l
        /\ \A v \in Funs : v # p => low'[v] = low[v]
    BY <1>6, <2>1, <2>2, <2>3
  <2>5. /\ low'[p] <= low[t]
        /\ \A v \in Funs : /\ low'[v] <= low[v]
                           /\ low'[v] = low[v] \/ (v = p /\ low'[v] = low[t])
    BY <1>6, <2>1, <2>2, <2>4
  <2>6. n \in Nat \ {0}
    BY <1>2, <1>8
  <2>7. QED
    BY <1>1, <1>2, <1>3, <1>4, <1>5, <1>8, <2>4, <2>5, <2>6 DEF p
<1>9. QED
  BY <1>2, <1>7, <1>8

\* What was followed still is all there is, and the calls of a function that is
\* left have all been followed.
LEMMA LeftCalls ==
  ASSUME TypeOK, Path, Leave, NEW v \in Funs
  PROVE  /\ Called(v)' \subseteq Called(v)
         /\ Met(v) /\ (v = Top.v \/ \A i \in DOMAIN work : Node(i) # v) =>
              CalledBy({v}) \subseteq Called(v)
<1> PICK n : n = Len(work)
  OBVIOUS
<1> PICK t : t = Top.v
  OBVIOUS
<1>1. /\ UNCHANGED <<calls, index>>
      /\ n \in DOMAIN work /\ DOMAIN work = 1..n /\ n \in Nat /\ t = Node(n) /\ t \in Funs
      /\ DOMAIN work' = 1..(n - 1)
      /\ \A i \in DOMAIN work' : work'[i] = work[i] /\ Node(i)' = Node(i)
  BY Leaves
<1>2. \A u \in Funs : DOMAIN calls[u] = 1..Len(calls[u]) /\ Len(calls[u]) \in Nat
  BY Graph DEF TypeOK
<1>3. work[n].k = Len(calls[t])
  BY <1>1, BeingFollowed DEF Leave, Working
<1>4. \A i \in DOMAIN work : Node(i) = t => i = n
  BY <1>1, FollowedOnce
<1>5. ASSUME NEW k \in DOMAIN calls[v], v = t, NEW i \in DOMAIN work, Node(i) = v PROVE k <= work[i].k
  <2>1. i = n
    BY <1>4, <1>5
  <2>2. QED
    BY <1>1, <1>2, <1>3, <1>5, <2>1
<1>6. ASSUME NEW k \in Done(v)' PROVE k \in Done(v)
  <2>1. k \in DOMAIN calls[v] /\ Met(v) /\ \A i \in DOMAIN work' : Node(i)' = v => k <= work'[i].k
    BY <1>1, <1>6 DEF Done, Met
  <2>2. ASSUME NEW i \in DOMAIN work, Node(i) = v PROVE k <= work[i].k
    <3>1. CASE i = n
      BY <1>1, <1>5, <2>1, <2>2, <3>1
    <3>2. CASE i # n
      <4>1. i \in DOMAIN work'
        BY <1>1, <3>2
      <4>2. QED
        BY <1>1, <2>1, <2>2, <4>1
    <3>3. QED
      BY <3>1, <3>2
  <2>3. QED
    BY <2>1, <2>2 DEF Done
<1>7. Called(v)' \subseteq Called(v)
  BY <1>1, <1>6 DEF Called
<1>8. ASSUME Met(v), v = t \/ \A i \in DOMAIN work : Node(i) # v
      PROVE  DOMAIN calls[v] \subseteq Done(v)
  <2>1. ASSUME NEW k \in DOMAIN calls[v], NEW i \in DOMAIN work, Node(i) = v PROVE k <= work[i].k
    BY <1>5, <1>8, <2>1
  <2>2. QED
    BY <1>8, <2>1 DEF Done
<1>9. ASSUME DOMAIN calls[v] \subseteq Done(v) PROVE CalledBy({v}) \subseteq Called(v)
  BY <1>9 DEF Called, CalledBy
<1>10. QED
  BY <1>7, <1>8, <1>9

\* It reaches an older one that is open: its group goes on.
LEMMA LeaveOpenKeeps ==
  ASSUME IInv, Leave, low[Top.v] # index[Top.v]
  PROVE  IInv'
<1> PICK n : n = Len(work)
  OBVIOUS
<1> PICK t : t = Top.v
  OBVIOUS
<1>1. UNCHANGED <<calls, index, comp, stack, seen, ncomp, root>>
  BY DEF Leave
<1>2. TypeOK /\ Numbered /\ Path /\ Covered /\ Grouped /\ Up /\ Down /\ LowReached /\ LowLeast
  BY DEF IInv, Base
<1>3. /\ Funs' = Funs /\ \A v : Reaches(v)' = Reaches(v) /\ \A vs : CalledBy(vs)' = CalledBy(vs)
      /\ CallGraph' = CallGraph
  BY <1>1, SameGraph
<1>4. /\ n \in Nat \ {0} /\ DOMAIN work = 1..n /\ n \in DOMAIN work
      /\ t = Node(n) /\ t \in Funs /\ Met(t) /\ OnStack(t)
      /\ \A i \in DOMAIN work : /\ Node(i) \in Funs /\ Met(Node(i)) /\ OnStack(Node(i))
                                /\ i # n => index[Node(i)] < index[t]
      /\ work' \in Seq(Follows) /\ DOMAIN work' = 1..(n - 1) /\ Len(work') = n - 1
      /\ \A i \in DOMAIN work' : /\ i \in DOMAIN work /\ i # n
                                 /\ work'[i] = work[i] /\ Node(i)' = Node(i)
  BY <1>2, Leaves
<1>5. /\ low' \in [Funs -> Nat]
      /\ \A v \in Funs : /\ low'[v] <= low[v]
                         /\ \/ low'[v] = low[v]
                            \/ n > 1 /\ v = Node(n - 1) /\ low'[v] = low[t]
      /\ n > 1 => low'[Node(n - 1)] <= low[t]
  BY <1>2, Leaves
<1>6. \A v : Met(v)' = Met(v) /\ OnStack(v)' = OnStack(v)
  BY <1>1 DEF Met, OnStack
<1>7. \A v \in Funs : index[v] \in Int /\ low[v] \in Int /\ low'[v] \in Int
  BY <1>2, <1>5 DEF TypeOK, Unseen
<1>8. TypeOK'
  BY <1>1, <1>2, <1>3, <1>4, <1>5 DEF TypeOK, Follows
<1>9. Numbered'
  BY <1>1, <1>2, <1>3, <1>6 DEF Numbered
<1>10. Path'
  <2>1. ASSUME NEW i \in DOMAIN work'
        PROVE  work'[i].k <= Len(calls[Node(i)])
    BY <1>2, <1>4 DEF Path
  <2>2. ASSUME NEW i \in DOMAIN work', NEW j \in DOMAIN work', i < j
        PROVE  index[Node(i)] < index[Node(j)]
    BY <1>2, <1>4, <2>2 DEF Path
  <2>3. QED
    BY <1>1, <1>4, <1>6, <2>1, <2>2 DEF Path, Met
<1>11. Covered'
  <2>1. ASSUME NEW v \in Funs, NEW w \in Called(v)' PROVE Met(w)
    <3>1. w \in Called(v)
      BY <1>2, <2>1, LeftCalls
    <3>2. QED
      BY <1>2, <1>4, <3>1 DEF Covered
  <2>2. \A v \in Funs : v < root => Met(v)
    BY <1>2, <1>4 DEF Covered
  <2>3. QED
    BY <1>1, <1>2, <1>3, <1>6, <2>1, <2>2 DEF Covered
<1>12. Down'
  BY <1>1, <1>2, <1>3, <1>4, <1>6 DEF Down
<1>13. low[t] < index[t]
  BY <1>2, <1>4, <1>7 DEF LowReached
<1>14. PICK x \in Funs : OnStack(x) /\ index[x] = low[t] /\ x \in Reaches(t)
  BY <1>2, <1>4 DEF LowReached
<1>15. Up'
  <2>1. ASSUME NEW u \in Funs, OnStack(u)
        PROVE  \E i \in DOMAIN work : i # n /\ index[Node(i)] <= index[u] /\ Node(i) \in Reaches(u)
    <3>1. PICK i \in DOMAIN work : index[Node(i)] <= index[u] /\ Node(i) \in Reaches(u)
      BY <1>2, <2>1 DEF Up
    <3>2. CASE i # n
      BY <3>1, <3>2
    <3>3. CASE i = n
      <4>1. PICK j \in DOMAIN work : index[Node(j)] <= index[x] /\ Node(j) \in Reaches(x)
        BY <1>2, <1>14 DEF Up
      <4>2. j # n /\ index[Node(j)] <= index[u]
        BY <1>4, <1>7, <1>13, <1>14, <3>1, <3>3, <4>1
      <4>3. x \in Reaches(u)
        BY <1>4, <1>14, <3>1, <3>3, ReachesThrough
      <4>4. Node(j) \in Reaches(u)
        BY <4>1, <4>3, ReachesThrough
      <4>5. QED
        BY <4>2, <4>4
    <3>4. QED
      BY <3>2, <3>3
  <2>2. \A i \in DOMAIN work : i # n => i \in DOMAIN work'
    BY <1>4
  <2>3. QED
    BY <1>1, <1>3, <1>4, <1>6, <2>1, <2>2 DEF Up
<1>16. LowReached'
  <2>1. ASSUME NEW i \in DOMAIN work'
        PROVE  /\ low'[Node(i)] <= index[Node(i)]
               /\ \E u \in Funs : OnStack(u) /\ index[u] = low'[Node(i)] /\ u \in Reaches(Node(i))
    <3>1. Node(i) \in Funs /\ Met(Node(i)) /\ i \in DOMAIN work /\ index[Node(i)] < index[t]
      BY <1>4
    <3>2. /\ low[Node(i)] <= index[Node(i)]
          /\ \E u \in Funs : OnStack(u) /\ index[u] = low[Node(i)] /\ u \in Reaches(Node(i))
      BY <1>2, <3>1 DEF LowReached
    <3>3. low'[Node(i)] <= index[Node(i)]
      BY <1>5, <1>7, <3>1, <3>2
    <3>4. CASE low'[Node(i)] = low[Node(i)]
      BY <3>2, <3>3, <3>4
    <3>5. CASE low'[Node(i)] = low[t]
      <4>1. index[Node(i)] <= index[t]
        BY <1>4, <1>7, <3>1
      <4>2. t \in Reaches(Node(i))
        BY <1>2, <1>4, <3>1, <4>1 DEF Down
      <4>3. x \in Reaches(Node(i))
        BY <1>14, <3>1, <4>2, ReachesThrough
      <4>4. QED
        BY <1>14, <3>3, <3>5, <4>3
    <3>6. QED
      BY <1>5, <3>1, <3>4, <3>5
  <2>2. QED
    BY <1>1, <1>3, <1>4, <1>6, <2>1 DEF LowReached
<1>17. LowLeast'
  <2>1. ASSUME NEW i \in DOMAIN work', NEW u \in Funs, NEW w \in Called(u)',
               OnStack(u), OnStack(w), index[Node(i)] <= index[u]
        PROVE  \E j \in DOMAIN work' : i <= j /\ low'[Node(j)] <= index[w]
    <3>1. w \in Called(u) /\ w \in Funs
      <4>1. w \in Called(u)
        BY <1>2, <2>1, LeftCalls
      <4>2. QED
        BY <1>2, <4>1, Graph DEF TypeOK, Called, Done
    <3>2. PICK j \in DOMAIN work : i <= j /\ low[Node(j)] <= index[w]
      BY <1>2, <1>4, <2>1, <3>1 DEF LowLeast
    <3>3. CASE j # n
      <4>1. j \in DOMAIN work' /\ Node(j) \in Funs
        BY <1>4, <3>3
      <4>2. low'[Node(j)] <= index[w]
        BY <1>5, <1>7, <3>1, <3>2, <4>1
      <4>3. QED
        BY <3>2, <4>1, <4>2
    <3>4. CASE j = n
      <4>1. n > 1 /\ n - 1 \in DOMAIN work' /\ i <= n - 1 /\ Node(n - 1) \in Funs
        BY <1>4
      <4>2. low'[Node(n - 1)] <= index[w]
        BY <1>4, <1>5, <1>7, <3>1, <3>2, <3>4, <4>1
      <4>3. QED
        BY <4>1, <4>2
    <3>5. QED
      BY <3>3, <3>4
  <2>2. QED
    BY <1>1, <1>3, <1>4, <1>6, <2>1 DEF LowLeast
<1>18. Grouped'
  BY <1>1, <1>2, <1>3 DEF Grouped
<1>19. QED
  BY <1>8, <1>9, <1>10, <1>11, <1>12, <1>15, <1>16, <1>17, <1>18 DEF IInv, Base

\* It reaches none that is older: it closes a group, which is what is on the stack
\* from it on.
LEMMA Group ==
  ASSUME IInv, Leave, low[Top.v] = index[Top.v], NEW t, t = Top.v
  PROVE  /\ stack' \in Seq(Funs)
         /\ \A i \in DOMAIN stack' : i \in DOMAIN stack /\ stack'[i] = stack[i]
         /\ \A u \in Funs : u \in From(t) <=> OnStack(u) /\ index[t] <= index[u]
         /\ \A u \in Funs : OnStack(u)' <=> OnStack(u) /\ u \notin From(t)
<1> DEFINE pos == Position(t)
           m == Len(stack)
<1>1. TypeOK /\ Numbered /\ Path
  BY DEF IInv, Base
<1>2. t \in Funs /\ Met(t) /\ OnStack(t)
  BY <1>1, Leaves
<1>3. pos \in DOMAIN stack /\ stack[pos] = t
  BY <1>2 DEF OnStack, Position
<1>4. stack' = SubSeq(stack, 1, pos - 1)
  BY DEF Leave
<1>5. From(t) = {stack[j] : j \in pos..m}
  BY DEF From
<1> HIDE DEF pos
<1>6. /\ m \in Nat /\ DOMAIN stack = 1..m /\ pos \in 1..m
      /\ \A i \in 1..m : stack[i] \in Funs
      /\ \A v \in Funs : index[v] \in Int
  BY <1>1, <1>3 DEF TypeOK, Unseen
<1>7. /\ stack' \in Seq(Funs) /\ DOMAIN stack' = 1..(pos - 1)
      /\ \A i \in 1..(pos - 1) : stack'[i] = stack[i]
  BY <1>1, <1>4, <1>6 DEF TypeOK
<1>8. \A i \in DOMAIN stack' : i \in DOMAIN stack /\ stack'[i] = stack[i]
  BY <1>6, <1>7
<1> HIDE DEF m
<1>9. ASSUME NEW i \in 1..m PROVE (index[t] <= index[stack[i]]) <=> i >= pos
  <2>1. CASE i < pos
    <3>1. index[stack[i]] < index[stack[pos]]
      BY <1>1, <1>6, <2>1 DEF Numbered
    <3>2. QED
      BY <1>2, <1>3, <1>6, <2>1, <3>1
  <2>2. CASE i = pos
    BY <1>2, <1>3, <1>6, <2>2
  <2>3. CASE i > pos
    <3>1. index[stack[pos]] < index[stack[i]]
      BY <1>1, <1>6, <2>3 DEF Numbered
    <3>2. QED
      BY <1>2, <1>3, <1>6, <2>3, <3>1
  <2>4. QED
    BY <1>6, <2>1, <2>2, <2>3
<1>10. ASSUME NEW u \in Funs PROVE u \in From(t) <=> OnStack(u) /\ index[t] <= index[u]
  <2>1. ASSUME u \in From(t) PROVE OnStack(u) /\ index[t] <= index[u]
    BY <1>5, <1>6, <1>9, <2>1 DEF OnStack
  <2>2. ASSUME OnStack(u), index[t] <= index[u] PROVE u \in From(t)
    BY <1>5, <1>6, <1>9, <2>2 DEF OnStack
  <2>3. QED
    BY <2>1, <2>2
<1>11. ASSUME NEW u \in Funs PROVE OnStack(u)' <=> OnStack(u) /\ u \notin From(t)
  <2>1. ASSUME OnStack(u)' PROVE OnStack(u) /\ ~(index[t] <= index[u])
    <3>1. PICK i \in DOMAIN stack' : stack'[i] = u
      BY <2>1 DEF OnStack
    <3>2. i \in 1..m /\ stack[i] = u /\ ~(i >= pos)
      BY <1>6, <1>7, <3>1
    <3>3. QED
      BY <1>6, <1>9, <3>2 DEF OnStack
  <2>2. ASSUME OnStack(u), ~(index[t] <= index[u]) PROVE OnStack(u)'
    <3>1. PICK i \in 1..m : stack[i] = u
      BY <1>6, <2>2 DEF OnStack
    <3>2. i \in DOMAIN stack' /\ stack'[i] = u
      BY <1>6, <1>7, <1>9, <2>2, <3>1
    <3>3. QED
      BY <3>2 DEF OnStack
  <2>3. QED
    BY <1>10, <2>1, <2>2
<1>12. QED
  BY <1>7, <1>8, <1>10, <1>11

\* What is closed leads only to what is closed.
Closed == {v \in Funs : comp[v] # Unseen}

LEMMA ClosedReaches ==
  ASSUME Covered, CallGraph, NEW v \in Closed
  PROVE  Reaches(v) \subseteq Closed
<1>1. \A u \in Closed : CalledBy({u}) \subseteq Closed
  BY Graph DEF Covered, Closed
<1>2. Closed \in SUBSET Funs
  BY DEF Closed
<1>3. QED
  BY <1>1, <1>2, ReachesLeast

\* The members of the group lead to each other, and to what is closed.
LEMMA GroupReaches ==
  ASSUME IInv, Leave, low[Top.v] = index[Top.v], NEW t, t = Top.v
  PROVE  \A u \in From(t) : /\ u \in Funs /\ u \in Reaches(t) /\ t \in Reaches(u)
                            /\ CalledBy({u}) \subseteq From(t) \cup Closed
<1> PICK n : n = Len(work)
  OBVIOUS
<1>2. TypeOK /\ Numbered /\ Path /\ Covered /\ Up /\ Down /\ LowLeast
  BY DEF IInv, Base
<1>3. \A v \in Funs : index[v] \in Int /\ low[v] \in Int
  BY <1>2 DEF TypeOK, Unseen
<1>4. /\ n \in Nat \ {0} /\ DOMAIN work = 1..n /\ n \in DOMAIN work
      /\ t = Node(n) /\ t \in Funs /\ Met(t) /\ OnStack(t)
      /\ \A i \in DOMAIN work : /\ Node(i) \in Funs /\ Met(Node(i)) /\ OnStack(Node(i))
                                /\ i # n => index[Node(i)] < index[t]
  BY <1>2, Leaves
<1>5. \A u \in Funs : u \in From(t) <=> OnStack(u) /\ index[t] <= index[u]
  BY Group
<1> SUFFICES ASSUME NEW u \in From(t)
             PROVE  /\ u \in Funs /\ u \in Reaches(t) /\ t \in Reaches(u)
                    /\ CalledBy({u}) \subseteq From(t) \cup Closed
  OBVIOUS
<1>6. u \in Funs
  <2>1. /\ Position(t) \in DOMAIN stack /\ stack \in Seq(Funs)
    BY <1>2, <1>4 DEF OnStack, Position, TypeOK
  <2>2. PICK j \in Position(t)..Len(stack) : u = stack[j]
    BY DEF From
  <2>3. j \in DOMAIN stack
    BY <2>1, <2>2
  <2>4. QED
    BY <2>1, <2>2, <2>3
<1>7. OnStack(u) /\ index[t] <= index[u]
  BY <1>5, <1>6
<1>8. u \in Reaches(t)
  BY <1>2, <1>4, <1>6, <1>7 DEF Down
<1>9. t \in Reaches(u)
  <2>1. PICK i \in DOMAIN work : Met(Node(i)) /\ Node(i) \in Reaches(u)
    BY <1>2, <1>6, <1>7 DEF Up
  <2>2. index[Node(i)] <= index[t]
    BY <1>3, <1>4
  <2>3. t \in Reaches(Node(i))
    BY <1>2, <1>4, <2>1, <2>2 DEF Down
  <2>4. QED
    BY <1>6, <2>1, <2>3, ReachesThrough
<1>10. ASSUME NEW w \in CalledBy({u}) PROVE w \in From(t) \cup Closed
  <2>1. w \in Funs
    BY <1>2, <1>6, Graph DEF TypeOK
  <2>2. Met(u)
    BY <1>2, <1>6, <1>7 DEF Numbered
  <2>3. u = t \/ \A i \in DOMAIN work : Node(i) # u
    BY <1>3, <1>4, <1>6, <1>7
  <2>4. w \in Called(u)
    BY <1>2, <1>6, <2>2, <2>3, LeftCalls
  <2>5. Met(w)
    BY <1>2, <1>4, <1>6, <2>4 DEF Covered
  <2>6. CASE comp[w] # Unseen
    BY <2>1, <2>6 DEF Closed
  <2>7. CASE comp[w] = Unseen
    <3>1. OnStack(w)
      BY <1>2, <2>1, <2>5, <2>7 DEF Numbered
    <3>2. PICK j \in DOMAIN work : n <= j /\ low[Node(j)] <= index[w]
      BY <1>2, <1>4, <1>6, <1>7, <2>4, <3>1 DEF LowLeast
    <3>3. index[t] <= index[w]
      BY <1>4, <3>2
    <3>4. QED
      BY <1>5, <2>1, <3>1, <3>3
  <2>8. QED
    BY <2>6, <2>7
<1>11. QED
  BY <1>6, <1>8, <1>9, <1>10

LEMMA LeaveClosedKeeps ==
  ASSUME IInv, Leave, low[Top.v] = index[Top.v]
  PROVE  IInv'
<1> PICK n : n = Len(work)
  OBVIOUS
<1> PICK t : t = Top.v
  OBVIOUS
<1> PICK g : g = From(t)
  OBVIOUS
<1>1. /\ UNCHANGED <<calls, index, seen, root>> /\ ncomp' = ncomp + 1
      /\ comp' = [v \in Funs |-> IF v \in g THEN ncomp ELSE comp[v]]
  BY DEF Leave
<1>2. TypeOK /\ Numbered /\ Path /\ Covered /\ Grouped /\ Up /\ Down /\ LowReached /\ LowLeast
  BY DEF IInv, Base
<1>3. /\ Funs' = Funs /\ \A v : Reaches(v)' = Reaches(v) /\ \A vs : CalledBy(vs)' = CalledBy(vs)
      /\ CallGraph' = CallGraph /\ CallGraph
  BY <1>1, <1>2, SameGraph DEF TypeOK
<1>4. /\ n \in Nat \ {0} /\ DOMAIN work = 1..n /\ n \in DOMAIN work
      /\ t = Node(n) /\ t \in Funs /\ Met(t) /\ OnStack(t) /\ low[t] = index[t]
      /\ \A i \in DOMAIN work : /\ Node(i) \in Funs /\ Met(Node(i)) /\ OnStack(Node(i))
                                /\ i # n => index[Node(i)] < index[t]
      /\ work' \in Seq(Follows) /\ DOMAIN work' = 1..(n - 1) /\ Len(work') = n - 1
      /\ \A i \in DOMAIN work' : /\ i \in DOMAIN work /\ i # n
                                 /\ work'[i] = work[i] /\ Node(i)' = Node(i)
  BY <1>2, Leaves
<1>5. /\ low' \in [Funs -> Nat]
      /\ \A v \in Funs : /\ low'[v] <= low[v]
                         /\ \/ low'[v] = low[v]
                            \/ n > 1 /\ v = Node(n - 1) /\ low'[v] = low[t]
  BY <1>2, Leaves
<1>6. \A v \in Funs : index[v] \in Int /\ low[v] \in Int /\ low'[v] \in Int
  BY <1>2, <1>5 DEF TypeOK, Unseen
<1>7. /\ stack' \in Seq(Funs)
      /\ \A i \in DOMAIN stack' : i \in DOMAIN stack /\ stack'[i] = stack[i]
      /\ \A u \in Funs : u \in g <=> OnStack(u) /\ index[t] <= index[u]
      /\ \A u \in Funs : OnStack(u)' <=> OnStack(u) /\ u \notin g
  BY Group
<1>8. \A u \in g : /\ u \in Funs /\ u \in Reaches(t) /\ t \in Reaches(u)
                   /\ CalledBy({u}) \subseteq g \cup Closed
  BY GroupReaches
<1>9. /\ ncomp \in Nat /\ ncomp # Unseen
      /\ \A v \in Funs : comp[v] \in Int /\ comp[v] < ncomp
      /\ \A v \in Funs : comp'[v] = IF v \in g THEN ncomp ELSE comp[v]
      /\ \A v \in Funs : comp'[v] # Unseen <=> v \in g \/ v \in Closed
      /\ \A v \in g : comp[v] = Unseen /\ v \notin Closed
  <2>1. /\ ncomp \in Nat /\ ncomp # Unseen
        /\ \A v \in Funs : comp[v] \in Int /\ comp[v] < ncomp
    BY <1>2 DEF TypeOK, Numbered, Unseen
  <2>2. \A v \in g : comp[v] = Unseen /\ v \notin Closed
    BY <1>2, <1>7, <1>8 DEF Numbered, Closed
  <2>3. \A v \in Funs : comp'[v] = IF v \in g THEN ncomp ELSE comp[v]
    BY <1>1
  <2>4. \A v \in Funs : comp'[v] # Unseen <=> v \in g \/ v \in Closed
    BY <2>1, <2>3 DEF Closed
  <2>5. QED
    BY <2>1, <2>2, <2>3, <2>4
<1>10. \A v : Met(v)' = Met(v)
  BY <1>1 DEF Met
<1>11. TypeOK'
  <2>1. comp' \in [Funs -> Nat \cup {Unseen}]
    <3>1. \A v \in Funs : comp[v] \in Nat \cup {Unseen} /\ ncomp \in Nat \cup {Unseen}
      BY <1>2 DEF TypeOK
    <3>2. QED
      BY <1>1, <3>1
  <2>2. index' \in [Funs' -> Nat \cup {Unseen}] /\ low' \in [Funs' -> Nat] /\ CallGraph'
    BY <1>1, <1>2, <1>3, <1>5 DEF TypeOK
  <2>3. stack' \in Seq(Funs') /\ work' \in Seq(Follows')
    BY <1>3, <1>4, <1>7 DEF Follows
  <2>4. seen' \in Nat /\ ncomp' \in Nat /\ root' \in 1..Len(calls') + 1
    BY <1>1, <1>2 DEF TypeOK
  <2>5. QED
    BY <1>3, <2>1, <2>2, <2>3, <2>4 DEF TypeOK
<1>12. Numbered'
  <2>1. ASSUME NEW v \in Funs
        PROVE  /\ index[v] < seen /\ comp'[v] < ncomp'
               /\ comp'[v] # Unseen => Met(v)
               /\ OnStack(v)' <=> Met(v) /\ comp'[v] = Unseen
    <3>1. CASE v \in g
      BY <1>1, <1>2, <1>7, <1>9, <3>1 DEF Numbered
    <3>2. CASE v \notin g
      BY <1>1, <1>2, <1>7, <1>9, <3>2 DEF Numbered
    <3>3. QED
      BY <3>1, <3>2
  <2>2. \A i, j \in DOMAIN stack' : i < j => index[stack'[i]] < index[stack'[j]]
    BY <1>2, <1>7 DEF Numbered
  <2>3. QED
    BY <1>1, <1>3, <1>10, <2>1, <2>2 DEF Numbered
<1>13. \A i \in DOMAIN work' : OnStack(Node(i))'
  <2>1. ASSUME NEW i \in DOMAIN work' PROVE OnStack(Node(i))'
    <3>1. Node(i) \in Funs /\ OnStack(Node(i)) /\ index[Node(i)] < index[t]
      BY <1>4
    <3>2. Node(i) \notin g
      BY <1>4, <1>6, <1>7, <3>1
    <3>3. Node(i)' = Node(i)
      BY <1>4
    <3>4. \E k \in DOMAIN stack' : stack'[k] = Node(i)
      BY <1>7, <3>1, <3>2 DEF OnStack
    <3>5. QED
      BY <3>3, <3>4 DEF OnStack
  <2>2. QED
    BY <2>1
<1>14. Path'
  <2>1. ASSUME NEW i \in DOMAIN work'
        PROVE  work'[i].k <= Len(calls[Node(i)])
    BY <1>2, <1>4 DEF Path
  <2>2. ASSUME NEW i \in DOMAIN work', NEW j \in DOMAIN work', i < j
        PROVE  index[Node(i)] < index[Node(j)]
    BY <1>2, <1>4, <2>2 DEF Path
  <2>3. QED
    BY <1>1, <1>4, <1>10, <1>13, <2>1, <2>2 DEF Path, Met
<1>15. Covered'
  <2>1. ASSUME NEW v \in Funs, NEW w \in Called(v)' PROVE Met(w)
    <3>1. w \in Called(v)
      BY <1>2, <2>1, LeftCalls
    <3>2. QED
      BY <1>2, <1>4, <3>1 DEF Covered
  <2>2. \A v \in Funs : v < root => Met(v)
    BY <1>2, <1>4 DEF Covered
  <2>3. ASSUME NEW v \in Funs, comp'[v] # Unseen, NEW w \in CalledBy({v}) PROVE comp'[w] # Unseen
    <3>1. w \in Funs
      BY <1>3, <2>3, Graph
    <3>2. CASE v \in g
      BY <1>8, <1>9, <2>3, <3>1, <3>2
    <3>3. CASE v \in Closed
      <4>1. comp[w] # Unseen
        BY <1>2, <2>3, <3>3 DEF Covered, Closed
      <4>2. QED
        BY <1>9, <3>1, <4>1 DEF Closed
    <3>4. QED
      BY <1>9, <2>3, <3>2, <3>3
  <2>4. QED
    BY <1>1, <1>3, <1>10, <2>1, <2>2, <2>3 DEF Covered
<1>16. \A u \in Funs : OnStack(u)' => OnStack(u) /\ index[u] < index[t]
  BY <1>4, <1>6, <1>7
<1>17. Down'
  BY <1>1, <1>2, <1>3, <1>4, <1>10, <1>16 DEF Down
<1>18. Up'
  <2>1. ASSUME NEW u \in Funs, OnStack(u)'
        PROVE  \E i \in DOMAIN work' : index[Node(i)] <= index[u] /\ Node(i) \in Reaches(u)
    <3>1. PICK i \in DOMAIN work : index[Node(i)] <= index[u] /\ Node(i) \in Reaches(u)
      BY <1>2, <1>16, <2>1 DEF Up
    <3>2. i # n
      BY <1>4, <1>6, <1>16, <2>1, <3>1
    <3>3. QED
      BY <1>4, <3>1, <3>2
  <2>2. QED
    BY <1>1, <1>3, <1>4, <1>10, <2>1 DEF Up
<1>19. LowReached'
  <2>1. ASSUME NEW i \in DOMAIN work'
        PROVE  /\ low'[Node(i)] <= index[Node(i)]
               /\ \E u \in Funs : OnStack(u)' /\ index[u] = low'[Node(i)] /\ u \in Reaches(Node(i))
    <3>1. Node(i) \in Funs /\ Met(Node(i)) /\ i \in DOMAIN work /\ index[Node(i)] < index[t]
      BY <1>4
    <3>2. PICK u \in Funs : OnStack(u) /\ index[u] = low[Node(i)] /\ u \in Reaches(Node(i))
      BY <1>2, <3>1 DEF LowReached
    <3>3. low[Node(i)] <= index[Node(i)]
      BY <1>2, <3>1 DEF LowReached
    <3>4. low'[Node(i)] = low[Node(i)]
      BY <1>4, <1>5, <1>6, <3>1, <3>3
    <3>5. u \notin g
      BY <1>4, <1>6, <1>7, <3>1, <3>2, <3>3
    <3>6. OnStack(u)'
      BY <1>7, <3>2, <3>5
    <3>7. QED
      BY <3>2, <3>3, <3>4, <3>6
  <2>2. QED
    BY <1>1, <1>3, <1>4, <1>10, <2>1 DEF LowReached
<1>20. LowLeast'
  <2>1. ASSUME NEW i \in DOMAIN work', NEW u \in Funs, NEW w \in Called(u)',
               OnStack(u)', OnStack(w)', index[Node(i)] <= index[u]
        PROVE  \E j \in DOMAIN work' : i <= j /\ low'[Node(j)] <= index[w]
    <3>1. w \in Called(u) /\ w \in Funs
      <4>1. w \in Called(u)
        BY <1>2, <2>1, LeftCalls
      <4>2. QED
        BY <1>2, <4>1, Graph DEF TypeOK, Called, Done
    <3>2. OnStack(u) /\ OnStack(w) /\ index[w] < index[t]
      BY <1>16, <2>1, <3>1
    <3>3. PICK j \in DOMAIN work : i <= j /\ low[Node(j)] <= index[w]
      BY <1>2, <1>4, <2>1, <3>1, <3>2 DEF LowLeast
    <3>4. j # n
      BY <1>4, <1>6, <3>1, <3>2, <3>3
    <3>5. j \in DOMAIN work' /\ Node(j) \in Funs
      BY <1>4, <3>4
    <3>6. low'[Node(j)] <= index[w]
      BY <1>5, <1>6, <3>1, <3>3, <3>5
    <3>7. QED
      BY <3>3, <3>5, <3>6
  <2>2. QED
    BY <1>1, <1>3, <1>4, <1>10, <2>1 DEF LowLeast
<1>21. Grouped'
  <2>1. ASSUME NEW v \in g, NEW w \in g
        PROVE  comp'[v] = comp'[w] /\ w \in Reaches(v)
    <3>1. v \in Funs /\ w \in Funs /\ t \in Reaches(v) /\ w \in Reaches(t)
      BY <1>8
    <3>2. w \in Reaches(v)
      BY <3>1, ReachesThrough
    <3>3. QED
      BY <1>9, <3>1, <3>2
  <2>2. ASSUME NEW v \in g, NEW w \in Closed
        PROVE  comp'[v] # comp'[w] /\ v \notin Reaches(w)
    <3>1. v \in Funs /\ w \in Funs /\ v \notin Closed /\ w \notin g
      BY <1>8, <1>9 DEF Closed
    <3>2. v \notin Reaches(w)
      BY <1>2, <1>3, <3>1, ClosedReaches
    <3>3. comp'[v] = ncomp /\ comp'[w] = comp[w] /\ comp[w] < ncomp
      BY <1>9, <3>1
    <3>4. QED
      BY <1>9, <3>1, <3>2, <3>3
  <2>3. ASSUME NEW v \in Closed, NEW w \in Closed
        PROVE  comp'[v] = comp'[w] <=> w \in Reaches(v) /\ v \in Reaches(w)
    <3>1. v \in Funs /\ w \in Funs /\ comp[v] # Unseen /\ comp[w] # Unseen
      BY DEF Closed
    <3>2. v \notin g /\ w \notin g
      BY <1>9
    <3>3. comp'[v] = comp[v] /\ comp'[w] = comp[w]
      BY <1>9, <3>1, <3>2
    <3>4. QED
      BY <1>2, <3>1, <3>3 DEF Grouped
  <2>4. ASSUME NEW v \in Funs, NEW w \in Funs, comp'[v] # Unseen, comp'[w] # Unseen
        PROVE  comp'[v] = comp'[w] <=> w \in Reaches(v) /\ v \in Reaches(w)
    <3>1. (v \in g \/ v \in Closed) /\ (w \in g \/ w \in Closed)
      BY <1>9, <2>4
    <3>2. CASE v \in g /\ w \in g
      BY <2>1, <3>2
    <3>3. CASE v \in g /\ w \in Closed
      BY <2>2, <3>3
    <3>4. CASE v \in Closed /\ w \in g
      BY <2>2, <3>4
    <3>5. CASE v \in Closed /\ w \in Closed
      BY <2>3, <3>5
    <3>6. QED
      BY <3>1, <3>2, <3>3, <3>4, <3>5
  <2>5. QED
    BY <1>3, <2>4 DEF Grouped
<1>22. QED
  BY <1>11, <1>12, <1>14, <1>15, <1>17, <1>18, <1>19, <1>20, <1>21 DEF IInv, Base

(***************************************************************************)
(* The theorems.                                                           *)
(***************************************************************************)
LEMMA StepInvariant == IInv /\ [ComponentsNext]_tarjanVars => IInv'
<1> SUFFICES ASSUME IInv, [ComponentsNext]_tarjanVars PROVE IInv'
  OBVIOUS
<1>1. ASSUME UNCHANGED tarjanVars PROVE IInv'
  <2>1. UNCHANGED <<calls, index, low, comp, stack, work, seen, ncomp, root>>
    BY <1>1 DEF tarjanVars
  <2>2. /\ Funs' = Funs /\ \A v : Reaches(v)' = Reaches(v) /\ \A vs : CalledBy(vs)' = CalledBy(vs)
        /\ CallGraph' = CallGraph
    BY <2>1, SameGraph
  <2>3. /\ \A v : Met(v)' = Met(v) /\ OnStack(v)' = OnStack(v)
        /\ \A i : Node(i)' = Node(i)
    BY <2>1 DEF Met, OnStack, Node
  <2>4. \A v : Called(v)' = Called(v)
    BY <2>1 DEF Called, Done, Met, Node
  <2>5. TypeOK' /\ Numbered' /\ Grouped'
    BY <2>1, <2>2, <2>3 DEF IInv, Base, TypeOK, Follows, Numbered, Grouped
  <2>6. Path' /\ Covered'
    BY <2>1, <2>2, <2>3, <2>4 DEF IInv, Base, Path, Covered, Met
  <2>7. Down' /\ Up' /\ LowReached' /\ LowLeast'
    BY <2>1, <2>2, <2>3, <2>4 DEF IInv, Down, Up, LowReached, LowLeast, Met
  <2>8. QED
    BY <2>5, <2>6, <2>7 DEF IInv, Base
<1>2. ASSUME Leave PROVE IInv'
  BY <1>2, LeaveOpenKeeps, LeaveClosedKeeps
<1>3. QED
  BY <1>1, <1>2, RootKeeps, MeetKeeps, DescendKeeps, BackKeeps, AcrossKeeps DEF ComponentsNext

\* The invariant holds in every state, whatever calls whatever.
THEOREM TarjanInvariant == ComponentsSpec => []IInv
<1>1. QED
  BY InitInvariant, StepInvariant, PTL DEF ComponentsSpec

\* Two functions have one component exactly if each may call the other, what is
\* closed leads only to what is closed, and in the end all is (total.rs,
\* call_components: "the strongly connected component of each function").
THEOREM ComponentsAreGroups == ComponentsSpec => []Groups
<1>1. ASSUME IInv PROVE Groups
  <2>1. TypeOK /\ Numbered /\ Covered /\ Up /\ Grouped
    BY <1>1 DEF IInv, Base
  <2>2. ASSUME NEW v \in Funs, comp[v] # Unseen, NEW w \in Reaches(v) PROVE comp[w] # Unseen
    <3>1. v \in Closed
      BY <2>2 DEF Closed
    <3>2. w \in Closed
      BY <2>1, <3>1, ClosedReaches DEF TypeOK
    <3>3. QED
      BY <3>2 DEF Closed
  <2>3. ASSUME ComponentsDone, NEW v \in Funs PROVE comp[v] # Unseen
    <3>1. work = <<>> /\ root \notin Funs
      BY <2>3 DEF ComponentsDone
    <3>2. DOMAIN work = {}
      BY <3>1
    <3>3. ~OnStack(v)
      BY <2>1, <3>2 DEF Up
    <3>4. v < root
      <4>1. Funs = 1..Len(calls) /\ Len(calls) \in Nat
        BY <2>1, Graph DEF TypeOK
      <4>2. QED
        BY <2>1, <3>1, <4>1 DEF TypeOK
    <3>5. Met(v)
      BY <2>1, <3>2, <3>4 DEF Covered
    <3>6. QED
      BY <2>1, <3>3, <3>5 DEF Numbered
  <2>4. QED
    BY <2>1, <2>2, <2>3 DEF Groups, Grouped
<1>2. QED
  BY <1>1, TarjanInvariant, PTL

(***************************************************************************)
(* Nothing is done twice.                                                  *)
(***************************************************************************)

\* What there is to do with a function, and for the outer loop.
LEMMA InToDo ==
  ASSUME TypeOK
  PROVE  /\ 0 \notin Funs /\ Funs \subseteq Nat
         /\ \A v \in Funs : /\ Len(calls[v]) \in Nat
                            /\ \A k \in 0..(Len(calls[v]) + 1) : <<v, k>> \in ToDo
                            /\ <<0, v>> \in ToDo
         /\ \A s \in ToDo : \/ s[1] = 0 /\ s[2] \in Funs /\ s = <<0, s[2]>>
                            \/ /\ s[1] \in Funs /\ s[2] \in Nat /\ s = <<s[1], s[2]>>
                               /\ s[2] <= Len(calls[s[1]]) + 1
<1>1. CallGraph /\ Len(calls) \in Nat /\ Funs = 1..Len(calls)
  BY Graph DEF TypeOK
<1>2. \A v \in Funs : Len(calls[v]) \in Nat
  BY <1>1, Graph
<1>3. ASSUME NEW v \in Funs, NEW k \in 0..(Len(calls[v]) + 1) PROVE <<v, k>> \in ToDo
  BY <1>3 DEF ToDo
<1>4. ASSUME NEW v \in Funs PROVE <<0, v>> \in ToDo
  BY DEF ToDo
<1>5. ASSUME NEW s \in ToDo
      PROVE  \/ s[1] = 0 /\ s[2] \in Funs /\ s = <<0, s[2]>>
             \/ /\ s[1] \in Funs /\ s[2] \in Nat /\ s = <<s[1], s[2]>>
                /\ s[2] <= Len(calls[s[1]]) + 1
  <2>1. CASE s \in {0} \X Funs
    BY <2>1
  <2>2. CASE \E v \in Funs : s \in {v} \X (0..(Len(calls[v]) + 1))
    BY <1>2, <2>2
  <2>3. QED
    BY <2>1, <2>2 DEF ToDo
<1>6. QED
  BY <1>1, <1>2, <1>3, <1>4, <1>5

LEMMA SameToDo ==
  ASSUME calls' = calls
  PROVE  ToDo' = ToDo
BY DEF ToDo, Funs

\* The outer loop passes a function, which it has not met if it follows it.
LEMMA RootOnce ==
  ASSUME IInv, NextRoot
  PROVE  \E s \in ToDo \ Did : Did' = Did \cup {s}
<1>1. /\ UNCHANGED <<calls, index>> /\ work = <<>> /\ root \in Funs /\ root' = root + 1
      /\ work' = IF index[root] = Unseen THEN <<[v |-> root, k |-> 0]>> ELSE <<>>
  BY DEF NextRoot
<1>2. TypeOK
  BY DEF IInv, Base
<1>3. /\ ToDo' = ToDo /\ Funs \subseteq Nat /\ <<0, root>> \in ToDo
      /\ \A s \in ToDo : \/ s[1] = 0 /\ s[2] \in Funs /\ s = <<0, s[2]>>
                         \/ s[1] \in Funs
      /\ 0 \notin Funs
  BY <1>1, <1>2, InToDo, SameToDo
<1>4. \A i \in DOMAIN work' : work'[i].v = root /\ index[root] = Unseen
  BY <1>1
<1>5. DOMAIN work = {}
  BY <1>1
<1>6. <<0, root>> \notin Did
  BY <1>1, <1>3 DEF Did
<1>7. ASSUME NEW s \in ToDo PROVE s \in Did' <=> s \in Did \/ s = <<0, root>>
  <2>1. CASE s[1] = 0 /\ s[2] \in Funs /\ s = <<0, s[2]>>
    <3>1. s[2] < root + 1 <=> s[2] < root \/ s[2] = root
      <4>1. \A a, b \in Nat : a < b + 1 <=> a < b \/ a = b
        OBVIOUS
      <4>2. s[2] \in Nat /\ root \in Nat
        BY <1>1, <1>3, <2>1
      <4>3. QED
        BY <4>1, <4>2
    <3>2. QED
      BY <1>1, <1>3, <2>1, <3>1 DEF Did
  <2>2. CASE s[1] \in Funs
    BY <1>1, <1>3, <1>4, <1>5, <2>2 DEF Did
  <2>3. QED
    BY <1>3, <2>1, <2>2
<1>8. Did' = Did \cup {<<0, root>>}
  BY <1>3, <1>7 DEF Did
<1>9. QED
  BY <1>3, <1>6, <1>8

\* A function is met, with none of its calls followed.
LEMMA MeetOnce ==
  ASSUME IInv, Meet
  PROVE  \E s \in ToDo \ Did : Did' = Did \cup {s}
<1> PICK n : n = Len(work)
  OBVIOUS
<1> PICK t : t = Top.v
  OBVIOUS
<1>1. /\ UNCHANGED <<calls, work, root>> /\ work # <<>> /\ index[t] = Unseen
      /\ index' = [index EXCEPT ![t] = seen]
  BY DEF Meet
<1>2. TypeOK /\ Path
  BY DEF IInv, Base
<1>3. n \in DOMAIN work /\ t = Node(n) /\ t \in Funs
  BY <1>1, <1>2, BeingFollowed
<1>4. work[n].v = t /\ work[n].k = 0 /\ \A i \in DOMAIN work : work[i].v = t => i = n
  <2>1. \A i \in DOMAIN work : Node(i) = t => i = n
    BY <1>2, <1>3, FollowedOnce
  <2>2. QED
    BY <1>1, <1>2, <1>3, <2>1 DEF Path, Node, Met
<1>5. /\ ToDo' = ToDo /\ Funs \subseteq Nat
      /\ \A s \in ToDo : \/ s[1] = 0
                         \/ s[1] \in Funs /\ s[2] \in Nat /\ s = <<s[1], s[2]>>
      /\ 0 \notin Funs
  BY <1>1, <1>2, InToDo, SameToDo
<1>6. <<t, 0>> \in ToDo
  <2>1. Len(calls[t]) \in Nat /\ \A k \in 0..(Len(calls[t]) + 1) : <<t, k>> \in ToDo
    BY <1>2, <1>3, InToDo
  <2>2. 0 \in 0..(Len(calls[t]) + 1)
    BY <2>1
  <2>3. QED
    BY <2>1, <2>2
<1>7. index'[t] # Unseen /\ \A v \in Funs : v # t => index'[v] = index[v]
  BY <1>1, <1>2, <1>3 DEF TypeOK, Unseen
<1>8. <<t, 0>> \notin Did
  BY <1>1, <1>3, <1>5 DEF Did
<1>9. ASSUME NEW s \in ToDo PROVE s \in Did' <=> s \in Did \/ s = <<t, 0>>
  <2>1. CASE s[1] = 0
    BY <1>1, <1>3, <1>5, <2>1 DEF Did
  <2>2. CASE s[1] \in Funs /\ s[1] # t
    BY <1>1, <1>5, <1>7, <2>2 DEF Did
  <2>3. CASE s[1] = t
    <3>1. s[2] \in Nat /\ s = <<t, s[2]>>
      BY <1>3, <1>5, <2>3
    <3>2. s \in Did' <=> s[2] <= 0
      BY <1>1, <1>3, <1>4, <1>5, <1>7, <2>3 DEF Did
    <3>3. s \notin Did
      BY <1>1, <1>3, <1>5, <2>3 DEF Did
    <3>4. QED
      BY <3>1, <3>2, <3>3
  <2>4. QED
    BY <1>5, <2>1, <2>2, <2>3
<1>10. Did' = Did \cup {<<t, 0>>}
  BY <1>5, <1>6, <1>9 DEF Did
<1>11. QED
  BY <1>5, <1>6, <1>8, <1>10

\* One more call of the top one is followed; what else is begun is not met yet.
LEMMA CountOnce ==
  ASSUME IInv, AtCall, UNCHANGED <<calls, index, root>>,
         \/ work' = Counted
         \/ index[Callee] = Unseen /\ work' = Append(Counted, [v |-> Callee, k |-> 0])
  PROVE  \E s \in ToDo \ Did : Did' = Did \cup {s}
<1> PICK n : n = Len(work)
  OBVIOUS
<1> PICK t : t = Top.v
  OBVIOUS
<1> PICK c : c = Callee
  OBVIOUS
<1>1. TypeOK /\ Path
  BY DEF IInv, Base
<1>2. /\ n \in Nat \ {0} /\ DOMAIN work = 1..n /\ n \in DOMAIN work
      /\ t = Node(n) /\ t \in Funs /\ Met(t)
      /\ \A i \in DOMAIN work : work[i].k \in Nat
      /\ Counted \in Seq(Follows) /\ DOMAIN Counted = DOMAIN work
      /\ \A i \in DOMAIN work : /\ Counted[i].v = Node(i)
                                /\ i # n => Counted[i].k = work[i].k
      /\ Counted[n].k = work[n].k + 1 /\ Counted[n].k <= Len(calls[t]) /\ c \in Funs
  BY <1>1, Counts
<1> DEFINE j == work[n].k
<1>3. j \in Nat /\ Len(calls[t]) \in Nat /\ j + 1 <= Len(calls[t])
  BY <1>1, <1>2, InToDo
<1>4. <<t, j + 1>> \in ToDo
  <2>1. \A k \in 0..(Len(calls[t]) + 1) : <<t, k>> \in ToDo
    BY <1>1, <1>2, InToDo
  <2>2. j + 1 \in 0..(Len(calls[t]) + 1)
    BY <1>3
  <2>3. QED
    BY <2>1, <2>2
<1>5. /\ ToDo' = ToDo /\ Funs \subseteq Nat
      /\ \A s \in ToDo : \/ s[1] = 0
                         \/ s[1] \in Funs /\ s[2] \in Nat /\ s = <<s[1], s[2]>>
      /\ 0 \notin Funs
  BY <1>1, InToDo, SameToDo
\* What is on the work, then: all it was, but for the top one's count.
<1>6. /\ \A i \in DOMAIN work : i \in DOMAIN work' /\ work'[i] = Counted[i]
      /\ \A i \in DOMAIN work' : i \in DOMAIN work \/ (work'[i].v = c /\ index[c] = Unseen)
  <2>1. CASE work' = Counted
    BY <1>2, <2>1
  <2>2. CASE index[c] = Unseen /\ work' = Append(Counted, [v |-> c, k |-> 0])
    <3>1. Len(Counted) = n
      BY <1>2
    <3>2. /\ DOMAIN work' = 1..(n + 1) /\ work'[n + 1] = [v |-> c, k |-> 0]
          /\ \A i \in 1..n : work'[i] = Counted[i]
      BY <1>2, <2>2, <3>1
    <3>3. QED
      BY <1>2, <2>2, <3>2
  <2>3. QED
    BY <2>1, <2>2
<1>7. \A i \in DOMAIN work : /\ work[i].v = t <=> i = n
                             /\ work'[i].v = work[i].v
                             /\ i # n => work'[i].k = work[i].k
  <2>1. \A i \in DOMAIN work : Node(i) = t => i = n
    BY <1>1, <1>2, FollowedOnce
  <2>2. QED
    BY <1>2, <1>6, <2>1 DEF Node
<1>8. work'[n].k = j + 1 /\ work'[n].v = t /\ work[n].v = t
  <2>1. work'[n] = Counted[n]
    BY <1>2, <1>6
  <2>2. QED
    BY <1>2, <2>1 DEF Node
<1> HIDE DEF j
<1>9. <<t, j + 1>> \notin Did
  <2>1. ~(j + 1 <= work[n].k)
    BY <1>3 DEF j
  <2>2. QED
    BY <1>2, <1>5, <1>8, <2>1 DEF Did
<1>10. ASSUME NEW s \in ToDo PROVE s \in Did' <=> s \in Did \/ s = <<t, j + 1>>
  <2>1. CASE s[1] = 0
    BY <1>2, <1>5, <2>1 DEF Did
  <2>2. CASE s[1] \in Funs /\ index[s[1]] = Unseen
    BY <1>2, <1>5, <2>2 DEF Did, Met
  <2>3. CASE s[1] \in Funs /\ index[s[1]] # Unseen /\ s[1] # t
    <3>1. (\A i \in DOMAIN work : work[i].v = s[1] => s[2] <= work[i].k)
            <=> (\A i \in DOMAIN work' : work'[i].v = s[1] => s[2] <= work'[i].k)
      BY <1>6, <1>7, <2>3
    <3>2. s # <<t, j + 1>> /\ s[1] # 0
      BY <1>5, <2>3
    <3>3. QED
      BY <1>5, <3>1, <3>2 DEF Did
  <2>4. CASE s[1] = t
    <3>1. s[2] \in Nat /\ s = <<t, s[2]>> /\ t # 0 /\ index[t] # Unseen
      BY <1>2, <1>5, <2>4 DEF Met
    <3>2. s \in Did <=> s[2] <= j
      <4>1. (\A i \in DOMAIN work : work[i].v = t => s[2] <= work[i].k) <=> s[2] <= j
        BY <1>2, <1>7, <1>8 DEF j
      <4>2. QED
        BY <2>4, <3>1, <4>1 DEF Did
    <3>3. s \in Did' <=> s[2] <= j + 1
      <4>1. \A i \in DOMAIN work' : work'[i].v = t => i = n
        <5>1. ASSUME NEW i \in DOMAIN work', work'[i].v = t PROVE i \in DOMAIN work
          BY <1>6, <3>1, <5>1
        <5>2. QED
          BY <1>7, <5>1
      <4>2. n \in DOMAIN work'
        BY <1>2, <1>6
      <4>3. (\A i \in DOMAIN work' : work'[i].v = t => s[2] <= work'[i].k) <=> s[2] <= j + 1
        BY <1>8, <4>1, <4>2
      <4>4. QED
        BY <1>5, <2>4, <3>1, <4>3 DEF Did
    <3>4. s[2] <= j + 1 <=> s[2] <= j \/ s[2] = j + 1
      BY <1>3, <3>1
    <3>5. QED
      BY <3>1, <3>2, <3>3, <3>4
  <2>5. QED
    BY <1>5, <2>1, <2>2, <2>3, <2>4
<1>11. Did' = Did \cup {<<t, j + 1>>}
  BY <1>4, <1>5, <1>10 DEF Did
<1>12. QED
  BY <1>4, <1>5, <1>9, <1>11

\* A function is left, when all its calls were followed.
LEMMA LeaveOnce ==
  ASSUME IInv, Leave
  PROVE  \E s \in ToDo \ Did : Did' = Did \cup {s}
<1> PICK n : n = Len(work)
  OBVIOUS
<1> PICK t : t = Top.v
  OBVIOUS
<1>1. TypeOK /\ Path
  BY DEF IInv, Base
<1>2. /\ UNCHANGED <<calls, index, root>>
      /\ n \in Nat \ {0} /\ DOMAIN work = 1..n /\ n \in DOMAIN work
      /\ t = Node(n) /\ t \in Funs /\ Met(t)
      /\ DOMAIN work' = 1..(n - 1)
      /\ \A i \in DOMAIN work' : /\ i \in DOMAIN work /\ i # n
                                 /\ work'[i] = work[i]
  BY <1>1, Leaves
<1> DEFINE j == Len(calls[t])
<1>3. work[n].k = j /\ work[n].v = t
  BY <1>1, <1>2, BeingFollowed DEF Leave, Working, Node
<1>4. j \in Nat /\ <<t, j + 1>> \in ToDo
  <2>1. j \in Nat /\ \A k \in 0..(j + 1) : <<t, k>> \in ToDo
    BY <1>1, <1>2, InToDo
  <2>2. j + 1 \in 0..(j + 1)
    BY <2>1
  <2>3. QED
    BY <2>1, <2>2
<1>5. /\ ToDo' = ToDo /\ Funs \subseteq Nat
      /\ \A s \in ToDo : \/ s[1] = 0
                         \/ /\ s[1] \in Funs /\ s[2] \in Nat /\ s = <<s[1], s[2]>>
                            /\ s[2] <= Len(calls[s[1]]) + 1
      /\ 0 \notin Funs
  BY <1>1, <1>2, InToDo, SameToDo
<1>6. \A i \in DOMAIN work : work[i].v = t <=> i = n
  <2>1. \A i \in DOMAIN work : Node(i) = t => i = n
    BY <1>1, <1>2, FollowedOnce
  <2>2. QED
    BY <1>3, <2>1 DEF Node
<1>7. /\ \A i \in DOMAIN work : i # n => i \in DOMAIN work' /\ work'[i] = work[i]
      /\ \A i \in DOMAIN work' : i \in DOMAIN work /\ i # n /\ work'[i] = work[i]
  BY <1>2
<1> HIDE DEF j
<1>8. <<t, j + 1>> \notin Did
  <2>1. ~(j + 1 <= work[n].k)
    BY <1>3, <1>4
  <2>2. QED
    BY <1>2, <1>3, <1>5, <2>1 DEF Did
<1>9. ASSUME NEW s \in ToDo PROVE s \in Did' <=> s \in Did \/ s = <<t, j + 1>>
  <2>1. CASE s[1] = 0
    BY <1>2, <1>5, <2>1 DEF Did
  <2>2. CASE s[1] \in Funs /\ s[1] # t
    <3>1. index' = index
      BY <1>2
    <3>2. (\A i \in DOMAIN work : work[i].v = s[1] => s[2] <= work[i].k)
            <=> (\A i \in DOMAIN work' : work'[i].v = s[1] => s[2] <= work'[i].k)
      BY <1>6, <1>7, <2>2
    <3>3. s # <<t, j + 1>> /\ s[1] # 0
      BY <1>5, <2>2
    <3>4. QED
      BY <1>5, <3>1, <3>2, <3>3 DEF Did
  <2>3. CASE s[1] = t
    <3>1. s[2] \in Nat /\ s = <<t, s[2]>> /\ s[2] <= j + 1
      BY <1>2, <1>5, <2>3 DEF j
    <3>2. s \in Did <=> s[2] <= j
      BY <1>2, <1>3, <1>5, <1>6, <2>3 DEF Did, Met
    <3>3. s \in Did'
      BY <1>2, <1>5, <1>6, <2>3 DEF Did, Met
    <3>4. s[2] <= j \/ s[2] = j + 1
      BY <1>4, <3>1
    <3>5. QED
      BY <3>1, <3>2, <3>3, <3>4
  <2>4. QED
    BY <1>5, <2>1, <2>2, <2>3
<1>10. Did' = Did \cup {<<t, j + 1>>}
  BY <1>4, <1>5, <1>9 DEF Did
<1>11. QED
  BY <1>4, <1>5, <1>8, <1>10

\* Each step passes a function, meets one, follows one call or leaves a function,
\* and does so once: the grouping takes no more steps than there are functions,
\* three times over, and calls (total.rs, call_components: an explicit stack and
\* a count of the calls that were followed).
THEOREM EachThingOnce == ComponentsSpec => OnceEach
<1>1. ASSUME IInv, ComponentsNext
      PROVE  \E s \in ToDo \ Did : Did' = Did \cup {s}
  <2>1. CASE NextRoot
    BY <1>1, <2>1, RootOnce
  <2>2. CASE Meet
    BY <1>1, <2>2, MeetOnce
  <2>3. CASE Descend
    BY <1>1, <2>3, CountOnce DEF Descend, AtCall
  <2>4. CASE Back \/ Across
    BY <1>1, <2>4, CountOnce DEF Back, Across, AtCall
  <2>5. CASE Leave
    BY <1>1, <2>5, LeaveOnce
  <2>6. QED
    BY <1>1, <2>1, <2>2, <2>3, <2>4, <2>5 DEF ComponentsNext
<1>2. IInv /\ [ComponentsNext]_tarjanVars =>
        [\E s \in ToDo \ Did : Did' = Did \cup {s}]_tarjanVars
  BY <1>1
<1>3. QED
  BY TarjanInvariant, <1>2, PTL DEF ComponentsSpec, OnceEach
==============================================================================
