------------------------------ MODULE Runtime ------------------------------
(***************************************************************************)
(* The part of src/runtime/vibert.c that allocates, reads and frees.       *)
(*                                                                         *)
(*   a value    [p, i]: a scalar i (p = 0), or a pointer to the cell p     *)
(*   a cell     [live, i, kids]: one allocation, with the values in it     *)
(*   a heap     [cells, fault]: every allocation so far, and the first     *)
(*              thing that went wrong                                      *)
(*                                                                         *)
(* A string is a cell without kids whose i is its length, a vector holds   *)
(* its elements, an object its fields with i its tag.  A cell keeps its    *)
(* contents when it is freed: what a dead cell reads as is not modelled,   *)
(* reading one is a fault.                                                 *)
(***************************************************************************)
EXTENDS Integers, Sequences, SequencesExt, TLC

Scalar(i)  == [p |-> 0, i |-> i]
Pointer(p) == [p |-> p, i |-> 0]

Empty == [cells |-> <<>>, fault |-> ""]

Fault(h, what) == IF h.fault = "" THEN [h EXCEPT !.fault = what] ELSE h

Outcome(v, h) == [v |-> v, h |-> h]

\* vb_alloc and the constructors over it.
Alloc(h, i, kids) ==
  Outcome(Pointer(Len(h.cells) + 1),
          [h EXCEPT !.cells = Append(@, [live |-> TRUE, i |-> i, kids |-> kids])])

Cell(h, v)  == h.cells[v.p]
Live(h)     == {p \in DOMAIN h.cells : h.cells[p].live}

\* Everything a value holds.
RECURSIVE Reach(_, _)
Reach(h, v) ==
  IF v.p = 0 THEN {}
  ELSE {v.p} \cup UNION {Reach(h, k) : k \in ToSet(Cell(h, v).kids)}

\* A value as a tree, whatever cells it is kept in.
RECURSIVE TreeOf(_, _)
TreeOf(h, v) ==
  IF v.p = 0 THEN [i |-> v.i, kids |-> <<>>]
  ELSE [i |-> Cell(h, v).i, kids |-> [k \in DOMAIN Cell(h, v).kids |->
                                       TreeOf(h, Cell(h, v).kids[k])]]

RECURSIVE Weight(_)
Weight(t) == 1 + t.i + FoldLeft(LAMBDA sum, k : sum + Weight(k), 0, t.kids)

\* Reading dead memory is a fault, shallow or through the whole value.
Touch(h, ps) == IF ps \subseteq Live(h) THEN h ELSE Fault(h, "use after free")
Shallow(v)   == {v.p} \ {0}

\* vb_dispose: what the value holds, then the value.
RECURSIVE Dispose(_, _)
Dispose(h, v) ==
  CASE v.p = 0          -> h
    [] ~Cell(h, v).live -> Fault(h, "double free")
    [] OTHER ->
         LET inside == FoldLeft(LAMBDA acc, k : Dispose(acc, k), h, Cell(h, v).kids)
         IN  [inside EXCEPT !.cells[v.p].live = FALSE]

\* vb_dup: a copy that shares nothing, and a sequence of them.
RECURSIVE Dup(_, _)
DupAll(h, vs) ==
  FoldLeft(LAMBDA acc, v : LET o == Dup(acc.h, v)
                           IN  [vs |-> Append(acc.vs, o.v), h |-> o.h],
           [vs |-> <<>>, h |-> h], vs)
Dup(h, v) ==
  IF v.p = 0 THEN Outcome(v, h)
  ELSE LET kids == DupAll(h, Cell(h, v).kids)
       IN  Alloc(kids.h, Cell(h, v).i, kids.vs)

\* Which arguments a function follows, and which of those to the bottom.
Follows(f) ==
  CASE f \in {"strz", "obj", "single", "keep"}      -> {}
    [] f \in {"concat", "push_str", "push_str_owned", "eq"} -> {1, 2}
    [] OTHER                                        -> {1}
Deep(f) == f \in {"dup", "push", "show", "eq", "eat"}

Bool(b) == Scalar(IF b THEN 1 ELSE 0)

\* One call of the runtime, or of a module function that keeps its contract.
Apply(f, i, vs, h0) ==
  LET h == Touch(h0, UNION {IF Deep(f) THEN Reach(h0, vs[a]) ELSE Shallow(vs[a]) :
                              a \in Follows(f)})
      a == vs[1]
      b == vs[2]
      c == Cell(h, a)
  IN  CASE f = "strz"    -> Alloc(h, i, <<>>)
        [] f = "obj"     -> Alloc(h, i, vs)
        [] f = "add"     -> Outcome(Scalar(a.i + b.i), h)
        [] f = "sub"     -> Outcome(Scalar(a.i - b.i), h)
        [] f = "eq"      -> Outcome(Bool(TreeOf(h, a) = TreeOf(h, b)), h)
        [] f = "len"     -> Outcome(Scalar(c.i + Len(c.kids)), h)
        [] f = "show"    -> Alloc(h, Weight(TreeOf(h, a)), <<>>)
        [] f = "dup"     -> Dup(h, a)
        [] f = "single"  -> Alloc(h, 0, <<a>>)
        [] f = "push"    -> LET kids == DupAll(h, c.kids)
                            IN  Alloc(kids.h, 0, Append(kids.vs, b))
        [] f = "push_owned" -> Outcome(a, [h EXCEPT !.cells[a.p].kids = Append(@, b)])
        [] f = "get"     -> Outcome(c.kids[b.i + 1], h)
        [] f = "field"   -> Outcome(c.kids[i], h)
        [] f \in {"concat", "push_str"} -> Alloc(h, c.i + Cell(h, b).i, <<>>)
        [] f = "push_str_owned" -> Outcome(a, [h EXCEPT !.cells[a.p].i = @ + Cell(h, b).i])
        [] f = "set_fields" -> Outcome(a, [h EXCEPT !.cells[a.p].kids[i] = b])
        [] f = "with"    -> Alloc(h, c.i, [c.kids EXCEPT ![i] = b])
        [] f = "eat"     -> Outcome(Scalar(c.i), Dispose(h, a))
        [] f = "keep"    -> Outcome(a, h)
        [] f = "peek"    -> Outcome(Scalar(c.i), h)

(***************************************************************************)
(* The outcomes of a C expression.  C leaves the order in which arguments  *)
(* are evaluated to the compiler, so every order is an outcome.            *)
(***************************************************************************)
RECURSIVE Outcomes(_, _, _)

ArgOutcomes(xs, order, env, h) ==
  FoldLeft(LAMBDA done, a :
             UNION {{[vs |-> [d.vs EXCEPT ![a] = o.v], h |-> o.h] :
                       o \in Outcomes(xs[a], env, d.h)} : d \in done},
           {[vs |-> [a \in DOMAIN xs |-> Scalar(0)], h |-> h]}, order)

Outcomes(x, env, h) ==
  CASE x.f = "var" -> {Outcome(env[x.c], h)}
    [] x.f = "int" -> {Outcome(Scalar(x.i), h)}
    [] OTHER       ->
         UNION {{Apply(x.f, x.i, o.vs, o.h) : o \in ArgOutcomes(x.xs, order, env, h)} :
                  order \in SetToSeqs(DOMAIN x.xs)}
===========================================================================
