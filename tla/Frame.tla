------------------------------- MODULE Frame -------------------------------
(***************************************************************************)
(* One call of a compiled function, a C statement at a time: the caller    *)
(* builds the arguments, the body runs in its loop, the epilogue frees     *)
(* what died with the frame, and the caller reads the result and frees it  *)
(* with everything it only lent.                                           *)
(*                                                                         *)
(* The program is any of Programs and the arguments any of Inputs: the     *)
(* compiler (Own, Codegen) decides every free that happens here.           *)
(***************************************************************************)
EXTENDS Codegen, Runtime

CONSTANTS Programs, Inputs(_)

VARIABLES fn,         \* the function
          given,      \* its arguments, as trees
          compiled,   \* what the compiler made of it
          args,       \* the arguments as the caller holds them
          code,       \* the statements still to run
          env,        \* the C variables
          heap,
          ret,        \* vbret
          phase       \* "body", "epilogue", "returned", "done"

vars == <<fn, given, compiled, args, code, env, heap, ret, phase>>

\* The meaning of a call, against which the frame is checked.
Answers == INSTANCE CallContract WITH
  lent   <- [i \in {j \in DOMAIN fn.params : fn.params[j].lent} |-> TreeOf(heap, args[i])],
  status <- IF phase \in {"returned", "done"} THEN "returned" ELSE "running",
  answer <- IF phase \in {"returned", "done"} THEN TreeOf(heap, ret)
            ELSE [i |-> -1, kids |-> <<>>]

(***************************************************************************)
(* The caller's side.                                                      *)
(***************************************************************************)

\* A value built in the heap from its tree; scalars have no cell.
RECURSIVE Build(_, _, _)
Build(h, t, tree) ==
  IF t = "Num" THEN Outcome(Scalar(tree.i), h)
  ELSE LET kids == FoldLeft(LAMBDA acc, j :
                              LET kt == IF t = "Rec" /\ j = 2 THEN "Num" ELSE "Str"
                                  o  == Build(acc.h, kt, tree.kids[j])
                              IN  [vs |-> Append(acc.vs, o.v), h |-> o.h],
                            [vs |-> <<>>, h |-> h], [j \in DOMAIN tree.kids |-> j])
       IN  Alloc(kids.h, tree.i, kids.vs)

BuildAll(f, trees) ==
  FoldLeft(LAMBDA acc, i : LET o == Build(acc.h, f.params[i].t, trees[i])
                           IN  [vs |-> Append(acc.vs, o.v), h |-> o.h],
           [vs |-> <<>>, h |-> Empty], [i \in DOMAIN f.params |-> i])

DisposeAll(h, vs) == FoldLeft(LAMBDA acc, v : Dispose(acc, v), h, vs)

LentArgs  == SelectSeq([i \in DOMAIN args |-> i], LAMBDA i : fn.params[i].lent)
ParamVars == {Param(fn.params[i].n) : i \in DOMAIN fn.params}

Init ==
  \E f \in Programs :
  \E c \in {Compile(f)} :
    /\ c.accepted
    /\ fn = f
    /\ compiled = c
    /\ \E as \in Answers!Arguments(f) :
       \E built \in {BuildAll(f, as)} :
         /\ given = as
         /\ args = built.vs
         /\ heap = built.h
         /\ env = [n \in {Param(f.params[i].n) : i \in DOMAIN f.params} |->
                     built.vs[CHOOSE i \in DOMAIN f.params : Param(f.params[i].n) = n]]
    /\ code = c.body
    /\ ret = Scalar(0)
    /\ phase = "body"

(***************************************************************************)
(* The statements.                                                         *)
(***************************************************************************)
Running(op) ==
  /\ phase \in {"body", "epilogue"}
  /\ heap.fault = ""
  /\ code # <<>>
  /\ Head(code).op = op

AssignStep ==
  /\ Running("assign")
  /\ \E o \in Outcomes(Head(code).e, env, heap) :
       /\ env' = (Head(code).d :> o.v) @@ env
       /\ heap' = o.h
  /\ code' = Tail(code)
  /\ UNCHANGED <<fn, given, compiled, args, ret, phase>>

FreeStep ==
  /\ Running("free")
  /\ heap' = Dispose(heap, env[Head(code).d])
  /\ code' = Tail(code)
  /\ UNCHANGED <<fn, given, compiled, args, env, ret, phase>>

\* The first arm whose condition holds; a tag is read through the pointer.
Enter(i) == code' = Head(code).arms[i] \o Tail(code)

\* Seeded fault: the arms of a match on a number are taken the other way round.
IfZeroStepSwapped ==
  /\ Running("IfZero")
  /\ Enter(IF env[Head(code).d].i = 0 THEN 2 ELSE 1)
  /\ UNCHANGED <<fn, given, compiled, args, env, heap, ret, phase>>

\* Seeded fault: the condition of the first arm is lost.
IfZeroStepFirst ==
  /\ Running("IfZero")
  /\ Enter(1)
  /\ UNCHANGED <<fn, given, compiled, args, env, heap, ret, phase>>

IfZeroStep ==
  /\ Running("IfZero")
  /\ Enter(IF env[Head(code).d].i = 0 THEN 1 ELSE 2)
  /\ UNCHANGED <<fn, given, compiled, args, env, heap, ret, phase>>

IfSomeStep ==
  /\ Running("IfSome")
  /\ LET s == env[Head(code).d]
     IN  /\ heap' = Touch(heap, Shallow(s))
         /\ Enter(IF Cell(heap, s).i = 1 THEN 1 ELSE 2)
  /\ UNCHANGED <<fn, given, compiled, args, env, ret, phase>>

\* The parameters are rebound already; what the body declared is out of scope.
ContinueStep ==
  /\ Running("continue")
  /\ code' = compiled.body
  /\ env' = [c \in ParamVars |-> env[c]]
  /\ UNCHANGED <<fn, given, compiled, args, heap, ret, phase>>

ReturnStep ==
  /\ Running("return")
  /\ \E o \in Outcomes(Head(code).e, env, heap) :
       /\ ret' = o.v
       /\ heap' = o.h
  /\ code' = compiled.epilogue
  /\ phase' = "epilogue"
  /\ UNCHANGED <<fn, given, compiled, args, env>>

LeaveStep ==
  /\ phase = "epilogue"
  /\ heap.fault = ""
  /\ code = <<>>
  /\ heap' = Touch(heap, Reach(heap, ret))
  /\ phase' = "returned"
  /\ UNCHANGED <<fn, given, compiled, args, code, env, ret>>

\* The caller owns the result, and still owns what it lent.
CallerStep ==
  /\ phase = "returned"
  /\ heap.fault = ""
  /\ heap' = DisposeAll(heap, <<ret>> \o [i \in DOMAIN LentArgs |-> args[LentArgs[i]]])
  /\ phase' = "done"
  /\ UNCHANGED <<fn, given, compiled, args, code, env, ret>>

Next ==
  \/ AssignStep \/ FreeStep \/ IfZeroStep \/ IfSomeStep
  \/ ContinueStep \/ ReturnStep \/ LeaveStep \/ CallerStep

\* The machine runs on: there is nothing else to schedule.
Spec == Init /\ [][Next]_vars /\ WF_vars(Next)

(***************************************************************************)
(* Properties.                                                             *)
(***************************************************************************)
TypeOK ==
  /\ phase \in {"body", "epilogue", "returned", "done"}
  /\ heap.fault \in {"", "use after free", "double free"}
  /\ ParamVars \subseteq DOMAIN env
  /\ \A v \in {env[c] : c \in DOMAIN env} \cup {ret}
             \cup UNION {ToSet(heap.cells[p].kids) : p \in DOMAIN heap.cells} :
       v.p \in 0..Len(heap.cells) /\ v.i \in Nat

\* Memory an owner's death freed is never read again, by the frame or by the
\* caller, in any order C may evaluate arguments in (README: no garbage
\* collector; own.rs decides every free).
NoUseAfterFree == heap.fault # "use after free"

\* Nothing is freed twice: not by two scopes, not by an arm and a back edge,
\* not by the frame and the callee or the caller (spec 4.2).
NoDoubleFree == heap.fault # "double free"

\* The analysis declines to free a value that may be shared, and a name some
\* arm returns even in the arms that do not (reaches_result): it says it leaks
\* those.  Everything else it claims to free.
RECURSIVE OneAnswer(_)
OneAnswer(e) ==
  CASE IsMatch(e)   -> /\ ReachesResult(e.xs[2]) = ReachesResult(e.xs[3])
                       /\ OneAnswer(e.xs[2]) /\ OneAnswer(e.xs[3])
    [] e.k = "Let"  -> OneAnswer(e.xs[2])
    [] OTHER        -> TRUE

\* It says too that an arm that hands a payload on leaks the cell the payload was
\* in; and vb_set_fields frees nothing that it replaces.
RECURSIVE Mislays(_)
Mislays(e) == e.k \in {"IfSome", "With"} \/ \E i \in DOMAIN e.xs : Mislays(e.xs[i])

FreesAll == compiled.suppressed = 0 /\ OneAnswer(fn.body) /\ ~Mislays(fn.body)

\* What a call allocated and did not return is freed by the time the caller is
\* done, on every path through the body (own.rs: one the body never hands on
\* dies with that frame).
NoLeak == phase = "done" /\ heap.fault = "" /\ FreesAll => Live(heap) = {}

\* Each iteration starts with the arguments alone: a loop's memory does not
\* grow with the rounds it runs (src/tests/drop_loop.vibe).
LoopFlat ==
  phase = "body" /\ code = compiled.body /\ FreesAll =>
    Live(heap) = UNION {Reach(heap, env[c]) : c \in ParamVars}
                   \cup UNION {Reach(heap, args[LentArgs[i]]) : i \in DOMAIN LentArgs}

\* A call means what its body means: updates in place, frees and the order of
\* evaluation are never visible in its answer or in what the caller lent, and
\* it does return.
Contract == Answers!Spec
===========================================================================
