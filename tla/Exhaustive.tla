------------------------------ MODULE Exhaustive ------------------------------
(***************************************************************************)
(* Whether the arms of a match cover every value (src/src/types.rs), by    *)
(* Maranget's usefulness of a row of patterns after a matrix of them.      *)
(*                                                                         *)
(* data.ctors gives a constructor its owner, the owner's parameters and    *)
(* the types of its arguments; data.variants gives a type its constructors *)
(* in order.                                                               *)
(***************************************************************************)
EXTENDS Integers, Sequences, FiniteSets, SequencesExt

Pat(k, n, i, ps) == [k |-> k, n |-> n, i |-> i, ps |-> ps]
Wild         == Pat("Wild", "", 0, <<>>)
PVar(n)      == Pat("Var", n, 0, <<>>)
PInt(i)      == Pat("Int", "", i, <<>>)
PStr(n)      == Pat("Str", n, 0, <<>>)
PBool(b)     == Pat("Ctor", IF b THEN "True" ELSE "False", 0, <<>>)
PCtor(n, ps) == Pat("Ctor", n, 0, ps)
PTup(ps)     == Pat("Tup", "", 0, ps)
PList(ps)    == Pat("List", "", 0, ps)

\* What a pattern asks of a value before it looks under it: a constructor, a
\* tuple, a list of one length, a literal.
Open(p) == p.k \in {"Wild", "Var"}
HeadOf(p) == [k |-> p.k, n |-> p.n, i |-> p.i, arity |-> Len(p.ps)]
Wilds(k) == [j \in 1..k |-> Wild]

\* Seeded fault: a row that takes anything is left behind.
SpecialiseStrict(rows, h) ==
  LET kept == SelectSeq(rows, LAMBDA r : ~Open(r[1]) /\ HeadOf(r[1]) = h)
  IN  [j \in DOMAIN kept |-> kept[j][1].ps \o Tail(kept[j])]

Specialise(rows, h) ==
  LET kept == SelectSeq(rows, LAMBDA r : Open(r[1]) \/ HeadOf(r[1]) = h)
  IN  [j \in DOMAIN kept |->
         (IF Open(kept[j][1]) THEN Wilds(h.arity) ELSE kept[j][1].ps) \o Tail(kept[j])]

CtorHead(n, arity) == [k |-> "Ctor", n |-> n, i |-> 0, arity |-> arity]

\* Every head of the type that the first of them belongs to; none if they are
\* without end, or there is no first.
Signature(data, heads) ==
  LET h == heads[1]
  IN  CASE heads = <<>> \/ h.k \in {"Int", "Str", "List"} -> {}
        [] heads # <<>> /\ h.k = "Tup" -> {h}
        [] heads # <<>> /\ h.k = "Ctor" /\ h.n \in {"True", "False"} ->
             {CtorHead("True", 0), CtorHead("False", 0)}
        [] OTHER -> {CtorHead(v, Len(data.ctors[v].args)) :
                       v \in ToSet(data.variants[data.ctors[h.n].owner])}

HeadsOf(rows) ==
  LET closed == SelectSeq(rows, LAMBDA r : ~Open(r[1])) IN [j \in DOMAIN closed |-> HeadOf(closed[j][1])]

RECURSIVE Useful(_, _, _)
Useful(data, rows, q) ==
  LET heads == HeadsOf(rows)
      sig   == Signature(data, heads)
      under(h) == Useful(data, Specialise(rows, h), Wilds(h.arity) \o Tail(q))
      opened   == SelectSeq(rows, LAMBDA r : Open(r[1]))
  IN  CASE q = <<>> -> rows = <<>>
        [] q # <<>> /\ ~Open(q[1]) -> Useful(data, Specialise(rows, HeadOf(q[1])), q[1].ps \o Tail(q))
        [] q # <<>> /\ Open(q[1]) /\ sig # {} /\ sig \subseteq ToSet(heads) -> \E h \in sig : under(h)
        [] OTHER -> Useful(data, [j \in DOMAIN opened |-> Tail(opened[j])], Tail(q))

Rows(pats) == [j \in DOMAIN pats |-> <<pats[j]>>]

\* The match is refused.
NotCovered(data, pats) == Useful(data, Rows(pats), <<Wild>>)

\* The heads the message names: those under which something is missing.
MissingHeads(data, pats) ==
  {h \in Signature(data, HeadsOf(Rows(pats))) : Useful(data, Specialise(Rows(pats), h), Wilds(h.arity))}
=============================================================================
