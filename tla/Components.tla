----------------------------- MODULE Components -----------------------------
(***************************************************************************)
(* Which functions call each other, by however many steps: the strongly    *)
(* connected components of the call graph, by Tarjan's algorithm on an     *)
(* explicit stack of work (src/src/total.rs, call_components).             *)
(*                                                                         *)
(* A function is its position in the module, from 1.  `calls` gives each   *)
(* function its calls in the order of the body; a call is a record with a  *)
(* field `callee`.                                                         *)
(***************************************************************************)
EXTENDS Integers, Sequences, SequencesExt

VARIABLES calls,      \* the call graph
          index, low, \* when a function was met, and the oldest one it reaches
          comp,       \* its component
          stack,      \* met, and in no component yet
          work,       \* being followed: [v, k], k calls of v done
          seen,       \* how many functions were met
          ncomp,      \* how many components are closed
          root        \* the function the outer loop is at

tarjanVars == <<calls, index, low, comp, stack, work, seen, ncomp, root>>

Unseen == -1
Funs   == DOMAIN calls

ComponentsInit ==
  /\ index = [v \in Funs |-> Unseen]
  /\ low   = [v \in Funs |-> 0]
  /\ comp  = [v \in Funs |-> Unseen]
  /\ stack = <<>> /\ work = <<>>
  /\ seen = 0 /\ ncomp = 0 /\ root = 1

OnStack(v) == \E i \in DOMAIN stack : stack[i] = v
Lower(a, b) == IF a < b THEN a ELSE b

Top     == Last(work)
Calls   == calls[Top.v]
Callee  == Calls[Top.k + 1].callee
Working == work # <<>> /\ index[Top.v] # Unseen
Counted == [work EXCEPT ![Len(work)].k = @ + 1]

NextRoot ==
  /\ work = <<>> /\ root \in Funs
  /\ work' = IF index[root] = Unseen THEN <<[v |-> root, k |-> 0]>> ELSE <<>>
  /\ root' = root + 1
  /\ UNCHANGED <<calls, index, low, comp, stack, seen, ncomp>>

Meet ==
  /\ work # <<>> /\ index[Top.v] = Unseen
  /\ index' = [index EXCEPT ![Top.v] = seen]
  /\ low' = [low EXCEPT ![Top.v] = seen]
  /\ seen' = seen + 1
  /\ stack' = Append(stack, Top.v)
  /\ UNCHANGED <<calls, comp, work, ncomp, root>>

\* Seeded fault: a call that is followed is not counted until it comes back.
DescendUncounted ==
  /\ Working /\ Top.k < Len(Calls)
  /\ index[Callee] = Unseen
  /\ work' = Append(work, [v |-> Callee, k |-> 0])
  /\ UNCHANGED <<calls, index, low, comp, stack, seen, ncomp, root>>

Descend ==
  /\ Working /\ Top.k < Len(Calls)
  /\ index[Callee] = Unseen
  /\ work' = Append(Counted, [v |-> Callee, k |-> 0])
  /\ UNCHANGED <<calls, index, low, comp, stack, seen, ncomp, root>>

\* A call back into what is open.
Back ==
  /\ Working /\ Top.k < Len(Calls)
  /\ index[Callee] # Unseen /\ OnStack(Callee)
  /\ low' = [low EXCEPT ![Top.v] = Lower(@, index[Callee])]
  /\ work' = Counted
  /\ UNCHANGED <<calls, index, comp, stack, seen, ncomp, root>>

\* Seeded fault: a closed component is taken for an open one.
AcrossAsBack ==
  /\ Working /\ Top.k < Len(Calls)
  /\ index[Callee] # Unseen /\ ~OnStack(Callee)
  /\ low' = [low EXCEPT ![Top.v] = Lower(@, index[Callee])]
  /\ work' = Counted
  /\ UNCHANGED <<calls, index, comp, stack, seen, ncomp, root>>

\* A call into a component that is closed.
Across ==
  /\ Working /\ Top.k < Len(Calls)
  /\ index[Callee] # Unseen /\ ~OnStack(Callee)
  /\ work' = Counted
  /\ UNCHANGED <<calls, index, low, comp, stack, seen, ncomp, root>>

\* What the caller learns from a call that is followed to its end.
LowAfter ==
  IF Len(work) = 1 THEN low
  ELSE LET parent == work[Len(work) - 1].v IN [low EXCEPT ![parent] = Lower(@, low[Top.v])]

\* The functions above and including v on the stack are one component.
Position(v) == CHOOSE i \in DOMAIN stack : stack[i] = v
From(v)     == {stack[j] : j \in Position(v)..Len(stack)}

Leave ==
  /\ Working /\ Top.k = Len(Calls)
  /\ work' = Front(work)
  /\ low' = LowAfter
  /\ IF low[Top.v] = index[Top.v]
       THEN /\ comp' = [v \in Funs |-> IF v \in From(Top.v) THEN ncomp ELSE comp[v]]
            /\ stack' = SubSeq(stack, 1, Position(Top.v) - 1)
            /\ ncomp' = ncomp + 1
       ELSE UNCHANGED <<comp, stack, ncomp>>
  /\ UNCHANGED <<calls, index, seen, root>>

ComponentsNext == NextRoot \/ Meet \/ Descend \/ Back \/ Across \/ Leave

ComponentsDone == work = <<>> /\ root \notin Funs

\* What is called is a function of the module.
CallGraph ==
  /\ calls \in Seq(Range(calls))
  /\ \A v \in Funs : /\ calls[v] \in Seq(Range(calls[v]))
                     /\ \A k \in DOMAIN calls[v] : calls[v][k].callee \in Funs

\* The algorithm on its own, for any call graph.
ComponentsSpec == CallGraph /\ ComponentsInit /\ [][ComponentsNext]_tarjanVars

(***************************************************************************)
(* Properties.                                                             *)
(***************************************************************************)
CalledBy(vs) == UNION {{calls[v][k].callee : k \in DOMAIN calls[v]} : v \in vs}

\* The functions a call of v may lead to, itself included: they are in every set
\* that holds v, and what its members call.
Reaches(v) ==
  LET closed == {vs \in SUBSET Funs : v \in vs /\ CalledBy(vs) \subseteq vs}
  IN  {w \in Funs : \A vs \in closed : w \in vs}

\* Two functions have one component exactly if each may call the other, by
\* however many steps (total.rs: "the strongly connected component of each
\* function"); what is closed reaches only what is closed, and all is in the end.
Groups ==
  /\ \A v, w \in Funs : comp[v] # Unseen /\ comp[w] # Unseen =>
       (comp[v] = comp[w] <=> w \in Reaches(v) /\ v \in Reaches(w))
  /\ \A v \in Funs : comp[v] # Unseen => \A w \in Reaches(v) : comp[w] # Unseen
  /\ ComponentsDone => \A v \in Funs : comp[v] # Unseen

\* All there is to do: the outer loop passes each function, and each is met, has
\* its calls followed one by one, and is left.
ToDo == ({0} \X Funs) \cup UNION {{v} \X (0..(Len(calls[v]) + 1)) : v \in Funs}

\* What of that is done.
Did == {s \in ToDo :
          IF s[1] = 0 THEN s[2] < root
          ELSE /\ index[s[1]] # Unseen
               /\ \A i \in DOMAIN work : work[i].v = s[1] => s[2] <= work[i].k}

\* Every step does one of those things, for the first time, and undoes none: the
\* grouping ends, in as many steps as there are functions and calls, whoever calls
\* whom (total.rs: the `while let` loop of call_components).
OnceEach == [][\E s \in ToDo \ Did : Did' = Did \cup {s}]_tarjanVars
=============================================================================
