-------------------------------- MODULE Own --------------------------------
(***************************************************************************)
(* The ownership analysis, src/src/own.rs: which names a body moves, which *)
(* updates may happen in place, and where each owned value is freed.       *)
(*                                                                         *)
(* The traversal threads one record:                                       *)
(*   moved, mutated   per path, restored at every arm and joined after     *)
(*   shared           names that may point into a value someone else owns  *)
(*   drops            the drop table: [name, at, when]                     *)
(*   inplace          the updates codegen may do in place, by place        *)
(*   suppressed       how many drops `shared` suppressed                   *)
(*   errors           the codes of the diagnostics                         *)
(***************************************************************************)
EXTENDS Syntax, FiniteSets, SequencesExt

(***************************************************************************)
(* Questions about an expression alone.                                    *)
(***************************************************************************)

\* reaches_result: the names whose value can leave through the result.
RECURSIVE ReachesResult(_)
ReachesResult(e) ==
  CASE e.k = "Var"                     -> {e.n}
    [] e.k \in {"Field", "Borrow"}     -> ReachesResult(e.xs[1])
    [] e.k = "Let"                     -> ReachesResult(e.xs[2])
    [] IsMatch(e)                      -> ReachesResult(e.xs[2]) \cup ReachesResult(e.xs[3])
    [] e.k \in {"Tuple", "Record", "With"} ->
         UNION {ReachesResult(e.xs[i]) : i \in DOMAIN e.xs}
    [] OTHER                           -> {}

\* borrow_out: the names of `borrows` the result can be, or be a part of.
RECURSIVE BorrowOut(_, _)
BorrowOut(e, borrows) ==
  CASE e.k = "Var"                     -> {e.n} \cap borrows
    [] e.k \in {"Field", "Borrow"}     -> BorrowOut(e.xs[1], borrows)
    [] e.k = "Let"                     -> BorrowOut(e.xs[2], borrows)
    [] IsMatch(e)                      -> BorrowOut(e.xs[2], borrows)
                                            \cup BorrowOut(e.xs[3], borrows)
    [] \/ e.k \in {"Tuple", "Record", "With"}
       \/ e.k = "App" /\ e.n \in PreludeShares ->
         UNION {BorrowOut(e.xs[i], borrows) : i \in DOMAIN e.xs}
    [] OTHER                           -> {}

\* maybe_shared: can this be a pointer into a value some other name owns?
RECURSIVE MaybeShared(_, _)
MaybeShared(e, shared) ==
  CASE e.k = "Var"                     -> e.n \in shared
    [] e.k = "Field"                   -> TRUE
    [] e.k = "Borrow"                  -> MaybeShared(e.xs[1], shared)
    [] e.k = "Let"                     -> MaybeShared(e.xs[2], shared)
    [] IsMatch(e)                      -> \E i \in 2..3 : MaybeShared(e.xs[i], shared)
    [] e.k \in {"Tuple", "Record", "With"} ->
         \E i \in DOMAIN e.xs : MaybeShared(e.xs[i], shared)
    [] e.k = "App"                     -> e.n \in PreludeShares
    [] OTHER                           -> FALSE

\* The argument under the `&`, and its place.
Inner(e)       == IF e.k = "Borrow" THEN e.xs[1] ELSE e
InnerAt(e, at) == IF e.k = "Borrow" THEN Append(at, 1) ELSE at

\* A name is somebody's and a scalar literal is nobody's allocation: neither
\* is a temporary to free.
Computed(e) == e.k \notin {"Var", "Field", "Borrow", "Int"}

IsLent(fn, f, i) ==
  CASE f \in Specials -> TRUE
    [] f = fn.name    -> fn.params[i].lent
    [] OTHER          -> Signatures[f][i]

(***************************************************************************)
(* Updates of the analysis state.                                          *)
(***************************************************************************)
Complain(st, code) == [st EXCEPT !.errors = @ \cup {code}]

UseVar(st, n, mode, owned) ==
  CASE n \notin owned                          -> st
    [] mode = "Borrow" /\ n \in st.mutated     -> Complain(st, "own.use_after_update")
    [] n \in st.moved                          -> Complain(st, IF mode = "Borrow"
                                                               THEN "own.borrow_after_move"
                                                               ELSE "own.use_after_move")
    [] mode = "Borrow"                         -> st
    [] OTHER                                   -> [st EXCEPT !.moved = @ \cup {n}]

DropSite(st, n, at, when) ==
  IF n \in st.shared
  THEN [st EXCEPT !.suppressed = @ + 1]
  ELSE [st EXCEPT !.drops = @ \cup {[name |-> n, at |-> at, when |-> when]}]

DropAll(st, names, at, when) ==
  FoldLeft(LAMBDA s, n : DropSite(s, n, at, when), st, SetToSeq(names))

TempDrop(st, at) ==
  [st EXCEPT !.drops = @ \cup {[name |-> "", at |-> at, when |-> "Temp"]}]

\* Seeded fault: a name already handed on is still freed.
StillOwnedUnmoved(st, names, leaves) == names \ leaves

\* Still this frame's at this point, and not about to leave with the result.
StillOwned(st, names, leaves) == names \ (st.moved \cup leaves)

\* State::scope: a binder hides the outer name of the same spelling.
Scope(owned, bound, t) == (owned \ bound) \cup (IF IsAffine(t) THEN bound ELSE {})

\* `push v x` and its like on a collection this frame holds alone.
Alone(st, e, owned) ==
  CASE e.k = "Var"                  -> e.n \in owned \ (st.moved \cup st.shared)
    [] e.k \in {"Field", "Borrow"}  -> FALSE
    [] OTHER                        -> ~MaybeShared(e, st.shared)

UpdatesInPlace == {"push", "set", "insert", "remove", "push_str"}

InPlace(st, at) == [st EXCEPT !.inplace = @ \cup {at}]

\* A value a call borrowed and no name holds is dead when the call returns.
BorrowedTemp(st, f, lent, a) ==
  /\ lent
  /\ f \notin PreludeShares
  /\ Computed(Inner(a))
  /\ ~MaybeShared(Inner(a), st.shared)

\* {r with ..} on a value owned and not moved yet is a mutation.
UpdatesBase(st, base, mode, owned) ==
  mode = "Own" /\ base.n \in owned \ st.moved

(***************************************************************************)
(* State::walk.  cx is [fn, leaves]; at is the place of e.                 *)
(***************************************************************************)
RECURSIVE Walk(_, _, _, _, _, _)

\* The children from..Len, in source order.
WalkAll(st, e, at, from, mode, owned, cx) ==
  FoldLeft(LAMBDA s, i : Walk(s, e.xs[i], Append(at, i), mode, owned, cx),
           st, [j \in 1..(Len(e.xs) + 1 - from) |-> j + from - 1])

WalkArg(st, e, at, i, owned, cx) ==
  LET a    == e.xs[i]
      lent == IsLent(cx.fn, e.n, i)
      st1  == IF BorrowedTemp(st, e.n, lent, a)
              THEN TempDrop(st, InnerAt(a, Append(at, i))) ELSE st
  IN  Walk(st1, a, Append(at, i), IF lent THEN "Borrow" ELSE "Own", owned, cx)

IsBackEdge(fn, e) == e.k = "App" /\ e.n = fn.name /\ Len(e.xs) = Len(fn.params)

\* Seeded fault: the back edge drops nothing.
WalkAppNoBackEdge(st, e, at, owned, cx) ==
  FoldLeft(LAMBDA s, i : WalkArg(s, e, at, i, owned, cx),
           IF e.n \in UpdatesInPlace /\ Alone(st, e.xs[1], owned) THEN InPlace(st, at) ELSE st,
           [j \in DOMAIN e.xs |-> j])

WalkApp(st, e, at, owned, cx) ==
  LET st1 == IF e.n \in UpdatesInPlace /\ Alone(st, e.xs[1], owned)
             THEN InPlace(st, at) ELSE st
      st2 == FoldLeft(LAMBDA s, i : WalkArg(s, e, at, i, owned, cx),
                      st1, [j \in DOMAIN e.xs |-> j])
  IN  IF IsBackEdge(cx.fn, e)
      THEN DropAll(st2, StillOwned(st2, owned, cx.leaves), at, "BackEdge")
      ELSE st2

\* Fields first, then the base.
WalkWith(st, e, at, mode, owned, cx) ==
  LET base    == e.xs[1]
      st1     == Walk(st, e.xs[2], Append(at, 2), mode, owned, cx)
      updates == UpdatesBase(st1, base, mode, owned)
      st2     == Walk(IF updates THEN InPlace(st1, at) ELSE st1,
                      base, Append(at, 1), mode, owned, cx)
  IN  IF updates THEN [st2 EXCEPT !.mutated = @ \cup {base.n}] ELSE st2

WalkLet(st, e, at, mode, owned, cx) ==
  LET v     == e.xs[1]
      st1   == Walk(st, v, Append(at, 1), mode, owned, cx)
      was   == e.n \in st1.shared
      st2   == IF MaybeShared(v, st1.shared)
               THEN [st1 EXCEPT !.shared = @ \cup {e.n}] ELSE st1
      inner == Scope(owned, {e.n}, v.t)
      st3   == Walk(st2, e.xs[2], Append(at, 2), mode, inner, cx)
      st4   == DropAll(st3, StillOwned(st3, inner \cap {e.n}, cx.leaves),
                       Append(at, 2), "ScopeEnd")
  IN  [st4 EXCEPT !.moved = @ \ {e.n}, !.shared = IF was THEN @ ELSE @ \ {e.n}]

\* A payload handed on takes the scrutinee with it.
Taken(st, scrut, bound, owned) ==
  IF scrut.k = "Var" /\ bound \cap st.moved # {} THEN {scrut.n} \cap owned ELSE {}

\* Arm i of the match e, from the state before the match; it also returns
\* what the arm still owns at its end, each with the arm's place.
WalkArm(st, e, at, i, mode, owned, before, cx) ==
  LET bound    == PatNames(e, i)
      fresh    == bound \ st.shared
      visible  == Scope(owned, bound, "Str")
      st1      == Walk([st EXCEPT !.moved = before.moved \ bound,
                                  !.mutated = before.mutated,
                                  !.shared = @ \cup bound],
                       e.xs[i], Append(at, i), mode, visible, cx)
      moved    == ((st1.moved \cup Taken(st1, e.xs[1], bound, owned)) \ bound)
                    \cup (bound \cap before.moved)
      out      == [st1 EXCEPT !.moved = moved, !.shared = @ \ fresh]
  IN  [st |-> out, at |-> Append(at, i), kept |-> StillOwned(out, visible, cx.leaves)]

\* join_into and the drops an arm makes for what another arm consumed.
WalkMatch(st, e, at, mode, owned, cx) ==
  LET before == Walk(st, e.xs[1], Append(at, 1), "Borrow", owned, cx)
      a      == WalkArm(before, e, at, 2, mode, owned, before, cx)
      b      == WalkArm(a.st, e, at, 3, mode, owned, before, cx)
      moved  == before.moved \cup a.st.moved \cup b.st.moved
      joined == [b.st EXCEPT !.moved = moved,
                             !.mutated = before.mutated \cup a.st.mutated \cup @]
  IN  DropAll(DropAll(joined, a.kept \cap moved, a.at, "ScopeEnd"),
              b.kept \cap moved, b.at, "ScopeEnd")

Walk(st, e, at, mode, owned, cx) ==
  CASE e.k = "Var"                           -> UseVar(st, e.n, mode, owned)
    [] e.k \in {"Borrow", "Field"}           -> WalkAll(st, e, at, 1, "Borrow", owned, cx)
    [] e.k = "App"                           -> WalkApp(st, e, at, owned, cx)
    [] e.k \in {"Binop", "Tuple", "Record"}  -> WalkAll(st, e, at, 1, mode, owned, cx)
    [] e.k = "With"                          -> WalkWith(st, e, at, mode, owned, cx)
    [] e.k = "Let"                           -> WalkLet(st, e, at, mode, owned, cx)
    [] IsMatch(e)                            -> WalkMatch(st, e, at, mode, owned, cx)
    [] OTHER                                 -> st

(***************************************************************************)
(* analyse, for one function.                                              *)
(***************************************************************************)
Launders(fn) ==
  IsAffine(fn.ret) /\ BorrowOut(fn.body, ParamNames(fn, TRUE)) # {}

Start(fn) ==
  [moved |-> {}, mutated |-> {}, shared |-> ParamNames(fn, TRUE), drops |-> {},
   inplace |-> {}, suppressed |-> 0,
   errors |-> IF Launders(fn) THEN {"own.borrow_escapes"} ELSE {}]

Analyse(fn) ==
  LET cx  == [fn |-> fn, leaves |-> ReachesResult(fn.body)]
      end == Walk(Start(fn), fn.body, <<>>, "Own", AffineParams(fn), cx)
  IN  DropAll(end, StillOwned(end, AffineParams(fn), cx.leaves), <<>>, "ScopeEnd")
===========================================================================
