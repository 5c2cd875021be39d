# Vibelang in TLA+

Vibelang is a small, strict, functional language for programs that machines
write and people review. `vibe`, its compiler (`src/src`, Rust), parses a
module, loads what it uses, infers types and effects, checks termination and
refinements (with z3), decides where every value dies, and emits C, which is
linked against a runtime (`src/runtime/vibert.c`). There is no garbage
collector: every `free` in the compiled program is a decision of the compiler.

This directory specifies the parts of it whose correctness depends on an order
of steps: what is freed when, what is certified by whom, and the algorithms
those decisions rest on. Each module says which code it stands for;
`PROJECT.json` maps every definition to its lines.

## The system

| component | code | state it keeps | operations | what is hard, and what makes it correct |
|---|---|---|---|---|
| ownership analysis | `own.rs` | per path: the names moved and mutated; per function: the names that share, the ones that leave by the result; the drop table, the in-place set, the suppressions | walking an expression in `Own` or `Borrow` mode | arms of a match fork and join the path; every value must be freed exactly once on every path, and updated in place only when nothing else reaches it |
| code generation | `codegen.rs` | the C statements so far, the scope (name -> C variable), the drops pending | one case per expression, in value and in tail position | an expression becomes *text*, evaluated where it lands; a free emitted before it reads freed memory; loops reuse their parameters |
| runtime: values | `vibert.c` | the C heap | `vb_dispose`, `vb_dup`, `vb_push_owned`, `vb_with`, ... | deep frees against shallow copies |
| runtime: dictionaries | `vibert.c` | entries in insertion order and a table of slots over them | get, insert, remove, reindex | removal shifts entries that slots point to; load and wrap-around of the probe |
| runtime: numbers | `vibert.c` | none | wrapping, checked, bitwise arithmetic, parsing | the ends of 64 bits |
| runtime: closures | `vibert.c` | the captured arguments and who owns them | `vb_apply1`, `vb_apply_lent`, `vb_fold` | a closure is copied on every partial application; an argument must be freed once |
| refinement discharge | `refine.rs` | `.vibe-proofs`, shared by all processes; one answer per obligation | read, ask z3 on several threads, merge, rewrite | concurrent processes, kills, failing writes, solvers that give up or die |
| refinement obligations | `refine.rs` | what is known on the path: hypotheses, symbols with their sorts and types, names bound again | one obligation per division, subtraction, result, index, call precondition and record | a name bound again must not inherit what was known of it; an arm is the negation of those before it; what is proved must not fail in any run, and what cannot be asked must be counted |
| termination | `total.rs` | the call graph and its components | Tarjan's algorithm, measures per call | an iterative algorithm on explicit stacks; lexicographic decrease over a whole component |
| escape taint | `escape.rs` | the set of names C may hold | a fixpoint over the body | one round too few frees what C holds |
| module loading | `load.rs` | the modules loaded, by name; the units, dependencies first | find, parse, follow, rename | cycles, names that do not match files; no name may change what it stands for |
| patching | `patch.rs`, `main.rs` | the source files | read a program, look up a node, compare its hash, replace it, write the file whole | agents editing one file; a write that breaks off; each edit must happen at once, on what its author saw, and leave every other node alone |
| inference | `infer.rs`, `types.rs` | the substitution and what is known of each variable; scopes; signatures; the binders and matches met | unification, one case per expression, phases over the declarations | effects ride on types and are dropped by some forms; what is accepted must not go wrong, and every match must cover its values |
| text: lexer, parser, views, diagnostics | `lexer.rs`, `parser.rs`, `view.rs`, `diag.rs` | none | deterministic functions of text | nothing happens in an order somebody else chooses |

They interact in a pipeline: loader -> inference -> termination, refinement ->
ownership (with the escape taint) -> code generation -> C. Three of them talk
to something that runs beside them: the discharge asks solver processes and
shares its file with other compilers, patching shares the source with other
editors, and the generated code runs on the runtime's heap.

## The modules

### The core: where a value dies

| module | stands for |
|---|---|
| `Syntax` | the expressions of `ast.rs`, as far as they are modelled, and which argument positions borrow (`types.rs`) |
| `Own` | `own.rs`: `Walk` is `State::walk`, with one operator per case; the path state is a record threaded through it |
| `Codegen` | `codegen.rs`: `Ex` (value position) and `TailEx` (tail position) produce statements, and expressions left to be evaluated where they land; the placing of drops by `Settle`, `Flush`, `BackEdge` |
| `Runtime` | the heap: cells with children, `Dispose` and `Dup` deep, `vb_with` shallow; what evaluating an expression may do, in any order of arguments |
| `CallContract` | the abstract specification: a call returns once, with the value its body means, and leaves what it was lent as it was |
| `Frame` | composes them: one call of a compiled function, one C statement per step, and the caller before and after |
| `MCFrame` | the programs: small grammars, one per question |

`Frame` implements `CallContract` under the mapping that reads the caller's
borrowed arguments and the result out of the heap (`Answers` in `Frame`,
checked as the property `Contract`).

A *program* is part of the initial state: each run takes every function of a
grammar, compiles it by `Analyse` and `Compile`, discards the ones the
analysis rejects, and executes the rest on every input. So the runs check a
compiler, not a program.

Abstractions. A string is its length, any other value a tree of values; both
tell apart what the properties need: a value that changed, grew or was freed.
Types are given with the tree (inference is an input). A literal string is
allocated where it is evaluated. A module function other than the one compiled
is one of three: `eat` consumes its string, `keep` hands it back, `peek` only
reads it; those are the ones `src/tests/drop_*.vibe` use.
Left out of the language: closures and partial application, `ext c` calls,
arenas, dictionaries, floats, and records other than the one in `Syntax`.

What C leaves open is left open: the arguments of one C call are evaluated in
any order (`ArgOutcomes` in `Runtime`), and a read of freed memory or a second
free is a fault from which no step follows.

### Proof certificates

| module | stands for |
|---|---|
| `ProofCache` | `refine.rs`: `check`, `proved_all`, `discharge_all`, `discharge`, `z3` and `Cache`, run by any number of processes |
| `MCProofCache` | an instance: two sources of two obligations each, one obligation false |
| `ProofCacheProofs` | the proofs |

One action per step another process could come between: reading the file,
each solver's answer, the merge, truncating the file, each line written (or
half a line, or a failed write), the report. A process may be killed in any of
them. The file is a sequence of lines because every hash has 16 digits: a line
written at its offset lands on exactly one line of another writer.

### Termination

| module | stands for |
|---|---|
| `Components` | `call_components` of `total.rs`: Tarjan's algorithm with its explicit stacks, one action per turn of its loop |
| `Totality` | the rest of `total.rs`: `scan`, `lin`, `delta`, `lex_decreases`, inference and `check`; then the calls of what was accepted |
| `ComponentsProofs` | the proofs that Tarjan's algorithm groups the functions that call each other, and does nothing twice |
| `TotalityProofs` | the proof that the calls of what was accepted lower the measures as numbers |
| `Induction` | what several proofs need of numbers: a least element, induction, functions that are defined by recursion |
| `MCTotality` | call graphs, self-calls, mutual calls, recursion through other forms |

The check is followed by a run: from any function with any arguments, a chain of
calls, each one a call the body may make with the values its arguments evaluate
to. What a call, a match or a name bound inside the body yields is not known: it
may be anything, but the same wherever one call writes the same expression, for
what is pure has one value. A function handed to another may be called with
anything. A chain is one path through the tree of calls; a tree with finite
branching is finite if every path is.

Numbers are those of the machine, `Words` values of them, signed or not. They
wrap around (`vibert.c`, `vb_add` to `vb_neg`), but for an unsigned difference
below zero, which stops the program. Nothing else keeps a number in its range:
that arithmetic does not overflow is an obligation only `--prove` asks for
(`main.rs:262`, `refine.rs:113`), and never where a type is not known
(`refine.rs:1213`). So a call either passes exactly what its expressions say
(`Enter`) or something else, because a number wrapped around on the way
(`Overflow`), and the two are told apart.

`Depth` is a function on the expressions there are, and says how deep each is:
it makes them finite trees, so that `Lin`, `Scan` and `Value` are recursive
functions on them. `TotalityAssumption` says so, and that no two functions of a
program have one name, nor two parameters of a function: inference and the C
compiler refuse the others.

### Module loading

| module | stands for |
|---|---|
| `Loader` | `Loader` of `load.rs`: finding a file, reading it, following what it names; the recursion of `follow` is the stack `work` |
| `Program` | `program` and `Mangler`: names into `Mod.name`, local binders kept, qualified names checked; `qualifiers`, the walk that finds what a module names |
| `MCProgram` | small file systems and small bodies |
| `ProgramProofs` | the proofs about reading (once, all, dependencies first, nothing looked at twice) and about flattening (names keep their meaning, none is missing) |

The root is pushed on `order` like the others (the code appends it after the
drain, which puts it in the same place).

In `Program` an expression is the sequence of its nodes as the code walks them, a
node before its parts. One that binds names says in which stretch of the nodes
behind it they are seen, so the scope that `Mangler` keeps while it walks is a
statement about places, `Binders`.

### Type inference

| module | stands for |
|---|---|
| `Unify` | types, the substitution and unification, schemes and scopes (`types.rs`, `Checker`) |
| `Exhaustive` | usefulness of a row of patterns (`types.rs`, `useful`), on which a match is refused |
| `Infer` | `infer` and `bind_pattern` of `infer.rs`: one operator per form, each threading the checker through the calls it makes |
| `Checker` | `check` of `infer.rs`, phase by phase: one action for the types, the values, the signatures, for each body, and for the end |
| `Running` | the judge: what the accepted programs do when they are run |
| `MCRunning` | the programs, sorted by what they are about |

A checker is one record, threaded through every operator as `&mut self` is
through the code; what was bound before an error stays bound. A *program* is
part of the initial state, as in `Frame`. When it is accepted, one of its
functions is called with one row of values of the types inferred for its
parameters. `Running` is not code of the repository but what its types are held
to: values carry what they are, and an operation on a value of another kind, a
field read at the place it has in another record, or a match none of whose arms
fits, stops the run. Calls deeper than `MaxCalls` are not followed.

### Refinement obligations

| module | stands for |
|---|---|
| `Smt` | the questions put to z3: terms over symbols, `replace_sym`, and the solver |
| `Obligations` | `refine.rs`: `Gen`, one operator per case of the walk, and `postconditions` |
| `Proving` | the judge: postconditions are inferred, obligations made and answered, and then a function is called |
| `MCProving` | the programs, by what they are about, and the counterexamples |

A generator is one record threaded through the walk; scopes are left by putting
back the hypotheses, symbols and names of the record before. A symbol is the
sequence of words its dots separate (`x.1`), because `replace_sym` replaces a
*word* of the text of a term. The expressions, types and patterns are those of
`Infer`. `Proving` is no code of the repository but what a proof is worth: the
program runs on values its signature allows, with the arithmetic of
`vibert.c`, and meets a *fault* where an obligation should have been: a
division by zero, a result outside its type, an index outside its vector, a
refinement of a call or a record that does not hold.

Three things are small. The integer types have a few values each
(`Bounds`), and the solver's integers a few more (`SolverInts`), so the solver
here finds fewer counterexamples than z3 does: it proves more, and what `Safe`
says of it, it says of less. The solver tries every value. The sequence in
which a `HashMap` gives the arguments of a callee back, which the code leaves
to chance, is forwards or backwards.

### Patching

| module | stands for |
|---|---|
| `Nodes` | `patch.rs`: where the declarations of a source begin and end, where a head ends, and replacing a node |
| `Store` | the abstract specification: each edit happens at once, on the text its author last saw, and only if the file then compiles; what becomes of one that another overtakes |
| `Patch` | `do_patch`, and `fmt`, of `main.rs`, by several agents: reading the files of the program one after the other, deciding, emptying the file, filling it, breaking off |
| `MCPatch` | a program of two files, two agents, and texts that fit, do not compile, or hold more or less than a node |
| `NodesProofs` | where the nodes of a source are after one of them was replaced |
| `PatchProofs` | `Patch` implements `Store`, and what an edit leaves and prints |

A source is a sequence of tokens, those that the extents of nodes depend on
told apart: names in the first column, newlines, spaces, comments, and the
bare `=`. A node's hash stands for its text. The compiler is a parameter
(`Together` for the program that is read, `Alone` for the patched file, which
the code checks by itself), and so is the canonical form.

No file is locked. An agent's command is *overtaken* (`late`) if, after it read
the file it is to write, another command's write of that file ends, or if such a
write is under way when its own begins. `late` records that and no action asks
for it; it is a variable of `Store` too, determined there by who has taken which
file and in what order edits begin and end. Everything else is promised in any
interleaving.

### Dictionaries

| module | stands for |
|---|---|
| `OrderedMap` | the abstract specification: a map that remembers the order of its keys |
| `Dict` | the table of `vibert.c`: dense entries, slots probed linearly, `dict_reindex` in steps |
| `MCDict` | four keys and the hashes that collide in the ways that matter |
| `DictProofs` | `Dict` implements `OrderedMap` |

Keys are values compared with `vb_eq` and hashed consistently with it; a float
that is not equal to itself is not among them.

## What the runs check

`CHECK_DEADLOCK FALSE` stands in the `MCFrame` configurations because a call
ends, and a fault ends it early, and in those of `MCProving` because a run is
over when its one call is; a process of `ProofCache` always can go on,
and deadlock is checked there.

| run | question | bounds |
|---|---|---|
| `frame` | Is every value freed exactly once, and never read after, in functions over an owned and a borrowed string built from calls, `let` and `match`, in self-calls compiled to loops, and where elements, fields and payloads point into values somebody else owns, beside updates in place? Does memory stay flat? | every body of `CallBodies`, of `LoopPrograms` and of `SharingPrograms`, two rounds |
| `proofs_shared` | Can two compilers, kills and a failing disk leave a false certificate or a false success? | 2 processes, 3 obligations (1 false), 2 sources sharing an obligation |
| `proofs_alone` | Does a lone process leave what it proved in the file, and end? | 1 process, a disk that works |
| `load` | Is every file the root reaches read, once, after what it uses; does loading end, and is nothing looked at twice; does flattening keep what names mean, and leave none without a declaration? | three modules naming up to two others each, in four layouts of a path of two directories; every body of two levels over names that may be confused |
| `totality` | Are the groups right, and found without doing anything twice; do calls lower measures as numbers; does what is accepted return, unless numbers wrap around over and over? | all graphs of 3 functions with up to 2 calls each, a class of 4; two calls of a function to itself, the first with five kinds of argument and all four of measure, and two functions that call each other; words of 4 values, signed (-2 to 1) and unsigned (0 to 3), that wrap around |
| `types` | Does what inference accepts run without going wrong, perform only what its type says, and cover its matches? Is the first function it refuses wrong by itself, and is none that is wrong let through, wherever they stand? | every program of `MCRunning`: a function or two over the forms of the language, numbers 0..2, values of two levels, calls five deep |
| `obligations` | Does what is proved hold when the program runs, and is what cannot be put to the solver counted? Do functions keep the postconditions inferred of them? | every program of `MCPrograms`: one function or two, integer types of three to seven values, vectors up to 2 long, calls three deep |
| `patch` | Do edits by two agents, in any interleaving, and writes that break off, look like edits that happen at once, unless one overtakes another? Do they leave other nodes and the hashes of them alone? | 2 agents, 2 files, 5 nodes, 4 commands, cuts at nothing, at a declaration, and after the last byte |
| `dict` | Does every probe end, and does the program see an ordered map? | 4 keys, 2 values, least capacity 2 (8 in the code), hashes that are all equal, wrap round the end, or spread |

The properties:

* `NoUseAfterFree`, `NoDoubleFree`: no read of, and no second free of, freed
  memory, in the frame, its callees, or its caller.
* `NoLeak`: when the caller is done nothing is left, for the functions where
  the analysis claims to free everything (`FreesAll`: it counted no
  suppression, both arms of every match return the same names, and the body
  neither takes an option apart nor updates a record: the outer cell of a
  payload that is handed on, and a field that is replaced, are leaks it accepts
  by design, `own.rs:865`).
* `LoopFlat`: at the head of each round nothing is alive but the parameters.
* `Contract`: the compiled call implements `CallContract`; updates in place and
  frees are invisible, and the call returns.
* `CertificatesHold`, `VerdictSound`: certificates only of what holds; success
  only when all that was asked holds.
* `Warm`: what a lone run reported proved needs no solver next time.
* `Ends`: a run that is not killed ends; a load ends, whatever names whatever.
* `ReadOnce`, `Complete`, `DependenciesFirst`: no file twice, none missing, and
  a module before one it names only inside a cycle.
* `GetsOn`: a step of a load reads a file, looks at a name of one, or is done with
  one, that it never was before.
* `SameMeaning`: each name of the flat module stands for what it stood for in
  its own file, behind the same binder; `NothingDangles`: the walk that finds
  modules and the one that resolves names agree on bodies.
* `Groups`: two functions have one component exactly if each may call the other.
  `OnceEach`: a step of the grouping passes, meets or leaves a function, or
  follows a call, that it never did before.
* `Descends`: a call inside a group lowers the measure as numbers, not only as
  expressions. `Returns`: a pure function that was accepted returns, unless
  numbers wrap around in its calls for ever; `Terminates`, of `rebound` alone, is
  the same without the exception, and false (below).
* `Acyclic`: no type contains itself, after any phase. `Sound`: an accepted
  program meets no value of another kind and returns what its type says.
  `Pure`: a function with a pure type performs nothing. `Exhaustive`: a match is
  refused exactly if a value of what it looks at fits no arm, and an accepted
  one never falls through. `BindersKnown`: what the ownership pass is told of
  binders covers every binder that comes to hold what must be freed. `WrongByItself`:
  as far as the first function that is wrong, each is accused of what it does
  wrong alone, and of nothing else.
* `Safe`: what goes wrong in a run was asked at that place and not proved, or
  counted as one that could not be asked. `PostsHold`: if a function's result is
  inferred to hold a vector of some length, it does.
* `Applied`: `Patch` implements `Store`; an edit is never made on a text its
  author did not see, mixed with another, or half done without the file saying
  so, unless another overtook it. `Kept`: an edit leaves the text of every other
  declaration as its author read it, and so the hashes others hold; and what its
  author read is what the file holds when it begins to write, unless it is
  overtaken. `ReadBack`: the hash a patch prints is the one the next look prints,
  overtaken or not.
* `ProbesEnd`: the loops of `dict_slot` and `dict_reindex` end; `Ordered`:
  `Dict` implements `OrderedMap`.

Bounds. An input is 0 or 2 for a number (both sides of a match on 0, and two
rounds of a loop: the second is the one that starts from rebound parameters),
one string of length 2, both options, one vector, one record. That is enough
because no decision of the compiler depends on data: a longer string takes the
same statements. What the decisions do depend on is the shape of the body, and
that is what is enumerated. Two processes suffice for the cache because the
proof covers every number of them. Three modules give every cycle that goes
through more than the module itself and its neighbour; two directories give a
file that hides another. A least capacity of 2 lets four keys grow the table
twice, as 8 would with sixteen. Two agents and four commands give a look and an
edit each, with anything of one between any two steps of the other, so that each
can overtake the other in both ways; the proof
covers the rest. Words of four values have both ends of a range within a step or
two of every number, so that each kind of argument wraps around. Programs of one or two functions suffice for inference because
functions meet only through their signatures, which the declarations fix before
any body is looked at; values of two levels are told apart by every pattern the
programs have. They suffice for the obligations for the same reason, and types
of a few values have every boundary a wide type has: zero, the least and the
greatest, and a conversion that widens and one that does not. Two functions with two parameters are what a
lexicographic measure needs to reset one component while the other drops.

Fairness. `Frame`: the machine runs on. `ProofCache`: a step of a process that
is not killed is eventually taken; the code starts z3 with a time limit
(`-T:`), joins its threads, and `std::fs::write` waits for nobody. Starting,
being killed and failing writes are never owed. `Loader` and `Totality`: the
one thread of the compiler, or of the program, runs on; returning is never
owed while a body can still call. `Checker`, `Patch` and `Proving` state none:
what is checked of them is what never happens.

### What the passing runs leave out, and why

The grammars of the passing runs are restricted by what the compiler gets wrong.
Each program below is a definition of `MCFrame`, accepted by the analysis; the
ones marked * have a run of their own, and the others are checked by the same
configuration with `Programs <-` the definition:

| definition | program | what happens | restriction |
|---|---|---|---|
| `DeferredRead`* | `len s + eat s` | `vb_len` reads `s` after `eat` freed it | `Settled`: no operand left in a C expression reads a name a later operand consumes |
| `OperandOrder` | `(len v, push v s)` | C may push before it reads the length | `Settled`; where the later operand is a built-in, no grammar puts an update in place beside a read |
| `ShallowWith` | `show {r with q=3}` | a shallow copy is freed deeply, then `r` again | record updates only in owning positions |
| `BorrowAsOwned` | `eat &s` | callee and caller free `s` | `&` only in borrowed positions |
| `ShadowedArm` | an arm binds a name that is an outer owner's | the payload is freed in place of the outer value | no shadowing |
| `ShadowedLet` | an inner `let` reuses a moved name | the move is forgotten; second free | no shadowing |
| `LetInBorrow` | a `let` in a borrowed position | it frees a name its owner frees again | `let` only in owning positions |
| `ComparedStrings` | `s == x` | both leak, and nothing is counted | comparisons and `++` of strings left out |
| `LentToTheLoop` | `f (k - 1) (concat b b)`, `b` borrowed | each round leaks its temporary | a loop lends only its parameters |

A name that one arm of a match returns is freed in no arm (`?k |0 -> s |_ ->
dup s end` leaks `s` on the second), and `vibe view --drops` does not count it:
that is the premise `FreesAll` of `NoLeak` and `LoopFlat`.

A solver that ran out of memory or was killed makes an obligation that holds be
reported as failed (`refine.rs:283` counts any answer but `unsat` and the two it
knows as a refutation, where `vibelang-spec.md:744` says a failure is a
counterexample). `VerdictSound` speaks of success only.

`Returns` makes an exception of numbers that wrap around because accepted
programs loop that way. A measure must drop, but nothing asks it to have a least
value (`total.rs:163`, `total.rs:377`), where `vibelang-spec.md` 6.1 asks for a
well-founded order. `Spinning` (in `MCTotality`) keeps three programs that the
check accepts and that never return: `spin (n:I64) : I64 = spin (n - 1)`, on
unsigned numbers `spin n = spin (n + neg 1)`, and `spin n k = spin n (k + 1)`
with the measure `n - k`. `Terminates` fails for them under the configuration of
`rebound` with `Programs <- Spinning`; `Returns` holds, for the only endless
chains wrap around over and over. `totality` runs such programs too: they are
among its self-calls.

`rebound` shows that termination checking does not see a parameter bound again:
`f n = let n = n + 1 in f (n - 1)` is accepted and never returns. The programs
of `totality` bind no parameter again. `Discarded` (in `MCTotality`) is another
way out: inference gives `let u = spin n in 1` the type of its body, so a pure
function may run an effectful one that never returns; the programs of
`totality` keep `E!` functions out of pure ones, as the types are meant to.

`Misspelled` (in `MCProgram`, with `MoreNames`, `MoreSquash` and
`MoreSnakeCase`) violates `ReadOnce`: csv.vibe that declares `mod CSV` passes
the file-name check when it is asked for as `Csv`, is remembered as `CSV`, and
is read again at the next reference, without end if it names itself. `load`
has modules spelled as they are referred to (`Spelled`), and that is an
assumption of the theorems.

The programs of `types` leave out what `MCRunning` keeps in `Leaks`, for which
`Pure` fails, and in `Unsound`, for which `Sound` does:

| accepted | code | what happens |
|---|---|---|
| `let u = out s in 1`, `show (out s)` in a pure function | `infer.rs:660` | the effect is performed and left out of the type; `vibelang-spec.md:272`: "A function calling an `E!` function must be `E!`" |
| a match on `x` with the arms `0` and `(_, _)` | `types.rs:400` | a variable known to be a number refuses only other constructors, so it becomes a tuple |
| `len x`, `x` not yet known | `infer.rs:525` | nothing is required of `x`, which may turn out a number |
| `len x`, `x` a tuple or a function | `infer.rs:528` | only a scalar is refused; no length is defined of the others |
| `{x with q=2}`, `x` not yet known | `infer.rs:806` | the record is chosen by the field, and `x` not required to be one |
| `f (x:a) : U64 = x` | `infer.rs:349` | a variable in a signature is not rigid: the body may fix it, callers still see any type |

An error leaves the scopes of the function open (`infer.rs:356` returns past the
pops), and names are looked up in what is open before the signatures
(`types.rs:465`). So the functions after a wrong one may be accused of what they
do not do, or cleared of what they do: after `f (id:U64) : U64 = "a"`, a call of
the function `id` in the next is refused, and a name that next one has not got
is found if it is `id`. `infer.rs:1` says that errors are collected per declaration, "so
one run reports everything that is wrong". `Scopes` (in `MCRunning`) has such programs, and
`types` runs them: `WrongByItself` says as much of it as is true, up to the first
wrong function, which is enough to tell whether any is.

The programs of `obligations` leave out these, definitions of `MCProving` for
each of which `Safe` fails under the same configuration with `Programs <-` the
definition. In all of them everything that is asked is proved, and the
program goes wrong:

| definition | program | code | why |
|---|---|---|---|
| `Kept`* | `f (a:U64) (n:U64, n>0) = ?a \|n -> 1 / n` | `refine.rs:1026` | only names inside a constructor get a symbol of their own; a pattern that is a name, names in lists and tuples, and lambdas keep what was known of the name |
| `Negated` | `?v \|[0] -> 0 \|[x] -> get v 1 \|_ -> 0` | `refine.rs:1033` | the first arm says `len v = 1`, and where it did not fit, `len v` is taken not to be 1, although the element may have been what did not fit |
| `Strung` | `?o \|Some "" -> 0 \|Some _ -> 1 / n \|None -> 0` | `refine.rs:1078` | the same for a string in a payload: the tag is taken to be another |
| `Swapped` | `g a b` with `b <= a`, called as `g b a` | `refine.rs:1302` | arguments are put in one after the other, in the sequence of a `HashMap`: an argument that spells a later parameter is replaced again |
| `Captured` | `h (empty v)`, `len v > 0` on both sides | `refine.rs:1291` | an argument the fragment cannot say leaves the callee's name in the precondition, where it is read as the caller's |
| `Reread` | `t` bound again, then `t.q - a` | `refine.rs:717` | a field is named after the source's name, without asking what it stands for now |
| `Untyped` | a name bound again in one arm, used in the next | `refine.rs:1005` | the type of the outer name is not put back; arithmetic without a type is neither asked nor counted |
| `Unseen` | `arena r (a / b)` | `refine.rs`, `Gen::walk` | the body of an arena is not walked: not asked, not counted |

Read in the code and in no set: a name that spells a symbol the generator makes
(`r_q`, `len_v`, `tag_v`) shares it; `len xs` in a record's invariant is not
renamed to the value's; unary minus has no obligation; SMT's `div` rounds down
where C truncates, and the least value divided by -1 wraps
(`vibert.c:313`), so of signed division only the divisor is asked. That arithmetic
whose type is not known is not asked is documented in the code.

Of patches that overtake one another `Applied` and `Kept` promise little, for
good reason: the hash is compared with what was read (`main.rs:391`), not with
what the file holds when it is written, so of two patches that both read the file
before either writes it, each is told that it went well and one is lost. The
text before `do_patch` (`main.rs:345`) says "only if the file still holds what the caller
last saw"; `hash` in `patch.rs` calls it "optimistic concurrency, guarding against
a stale view of the file". With two writes at the same time the file may end as
neither text. In `Store` that is `Clobber`, which needs an overtaken agent; take
it out of `StoreNext` and `Applied` fails at once. Other disagreements met there, outside the properties: the
canonical form is not checked again after a patch, where the comment
(`main.rs:400`) says it is; a patched file is inferred by itself, so a patch of
one that names another module is always refused, and the users of a patched
function are not looked at; `split_head` says nothing else in a signature spells
`=`, but a string literal in a refinement may; comments before a declaration
belong to the node before it.

Other disagreements met in `load.rs`, outside the properties: a module is
looked for in the root's directory, where the comment says "beside the file
that names it"; `qualifiers` does not walk refinements and measures, so a
module named only there is not read; the refinements of `ext` signatures are
not renamed.

Known and documented upstream, and not repeated as findings: the leaks and
limits `src/docs` lists for closures and arenas.

## What is proved

### Proof certificates

`ProofCacheProofs` proves, for any set of processes, obligations, sources and
any hash that satisfies `ProofAssumption`:

* `TypeCorrect`: `Spec => []TypeOK`
* `CertificatesAlwaysHold`: `Spec => []CertificatesHold`
* `VerdictsAlwaysSound`: `Spec => []VerdictSound`
* `LoneRunsStayWarm`: if there is one process and the disk works (`Alone`),
  `Spec => []Warm`

`ProofAssumption` says that the obligations are finite in number, that what is
proved of one obligation holds of any with the same hash (the hash is 64-bit
FNV-1a of the whole SMT text; taken to be free of collisions), and that no
hash is the line `Torn`. The model takes z3's `unsat` to be right (`Answers`).

The inductive invariant is `IInv == TypeOK /\ CertificatesHold /\ VerdictSound
/\ Honest`. `VerdictSound` alone is not inductive: that a reported success is
right needs that, before the report, an obligation without an answer is one
the cache holds, and one answered `proved` holds: that is `Honest`. That the
cache's word is good is `CertificatesHold`, and that is inductive because every
way the file changes (truncate, a line, part of a line, a gap) puts there a
line of some process's content or `Torn` (lemma `PutLine`), and content is the
cache sorted (lemma `SortedLines`).

`Warm` says of a run that is over that what it reported proved is in the file.
What leads there is `OnDisk`: from reading the file to the merge the cache is
the file; while it is written the content is the cache, and the file holds it
as far as the writer has come; afterwards the cache is in the file; and from
the merge on, what has no answer or was proved is in the cache. With a second
process or a failing disk that is false, and `Warm` too: `proofs_shared` does not
claim it. A process that is killed promises nothing.

### Module loading

`ProgramProofs` proves, for any names, search path and files:

* `EveryFileOnce`: `Spec => []ReadOnce`
* `NothingIsLeftOut`: `Spec => []Complete`, a load that succeeds has read what
  the root leads to, and nothing else
* `DependenciesComeFirst`: `Spec => []DependenciesFirst`
* `NothingTwice`: `Spec => GetsOn`
* `NamesKeepTheirMeaning`: `ProgramSpec => []SameMeaning`
* `NothingIsMissing`: `ProgramSpec => []NothingDangles`

Two assumptions are needed, and `load` has TLC evaluate them on its instance.
`Spelled`: a module that may be read under a name somebody refers to declares
that name (see `Misspelled` above; without it a file is read twice).
`RootFound`: whoever names the root finds the root, and not a file of the same
name elsewhere on the path. A root that is found under its name in another
directory is another module, and then the two are one name.

`ReadOnce` says nothing of `loaded`, which is what keeps it: `Remembered` adds
that every file open or done is loaded under its own name, and `Rightly` that
what is loaded under a name is where that name is found. For the other two the
stack has to be read as a path: each module being followed has names left to
follow, and what its other names stand for has been read (`Covered`); it leads
to those above it (`Lineage`); and what a file names that is done was done
before it, or leads back to it (`Behind`). The last is where cycles are: a name
that is loaded but not done is on the stack, below the file that is finished
now, so it leads to that file by `Lineage`.

`Reached` is the least set that holds the file and is closed under naming. So
one shows that something is reached by what any closed set holds, and that
everything reached has a property by showing the property closed; no induction
over paths is needed, and TLC evaluates the same definition.

`NothingTwice` is as much of "a load ends" as can be proved here. What a load
has done (`Did`) only grows, by one thing with each step that does not fail, and
stays within what there is to do (`ToDo`): each file is read once, each of its
names is looked at once, each file is done once. So it takes at most as many
steps as that makes; that it then takes them is fairness, and is TLC's (`Ends`).

Flattening happens in one step, on files that were read. `SameMeaning` is not
inductive because it says nothing of how the flat module came to be: `Flattened`
adds that it is what `MangleUnit` makes of the units in order, with no refused
name in them. What has to be known of the reading is that every file read is the
one known by its own name (`OneEach`, part of `IInv`), so that no two units have
one name: otherwise `Table` would keep the later, and `Mod.name` would be two
declarations. With `Rightly` it follows that the unit of a name is the file the
name stands for (`UnitFile`, `TableIs`). Then each node of the flat module is
looked at beside the one it was made of: a local name keeps its binders, because
mangling moves no node and changes no binder; a bare name becomes the
declaration of its own unit; a qualified one that of the unit it names.

`NothingIsMissing` needs one assumption more, `Searched`: what a module is said
to name has in it what `FindQualifiers` finds in its bodies. In the code both
are one file's text; here the names are an input of `Loader`, so that TLC can
vary them without bodies, and TLC evaluates `Searched` on its instance. Then a
name that a unit has in a body is one that reading has followed (`Sought`). The
theorem says nothing of refinements, which the first walk leaves out.
`ProgramAssumption` is what the parser makes: only constructors carry a module's
name, and no module is nameless.

### Termination

`ComponentsProofs` proves, for every call graph of any number of functions:

* `TarjanInvariant`: `ComponentsSpec => []IInv`
* `ComponentsAreGroups`: `ComponentsSpec => []Groups`
* `EachThingOnce`: `ComponentsSpec => OnceEach`

`ComponentsSpec` is the algorithm alone; the action of `Totality` that groups
takes its steps and changes nothing else until it has ended. `CallGraph` says
no more than that each call is to a function there is.

`Groups` speaks of the end, when the low links are gone. The invariant says
what they are for. Functions are numbered as they are met and lie on the stack
in that order (`Numbered`); what is being followed is a path in the graph
(`Path`); calls that were followed lead to what was met, and what is closed
calls only what is closed (`Covered`). On the path, each function leads to all
that are open and newer (`Down`), and each open function leads back to one on
the path at least as old (`Up`). A low link is the number of an open function
that is reached (`LowReached`), and no call followed from there on leads below
it (`LowLeast`). When a function is finished with its low link equal to its
number, the open functions from it on are one group: it leads to them by
`Down`, they lead back by `Up` and `LowLeast` (a way out would be a call below
the low link), and no more by `Covered`. When its low link is smaller, the
caller takes it over, which keeps `LowLeast`, and `Up` by `LowReached`.

`OnceEach` follows from the same invariant: of each function there is passing
it, meeting it and leaving it, and of each call following it; the next thing is
never one already done. The grouping therefore takes at most three steps for
each function and one for each call.

`TotalityProofs` proves, for any programs, any expressions and words of any
width that satisfy `TotalityAssumption`:

* `MeasuresDescend`: if `Untouched` and `PureCallsPure`, `Spec => Descends`

`Untouched` says that no parameter is bound again; without it the theorem is
false, as the program of `rebound` shows. `PureCallsPure` says that what is pure
calls nothing effectful. Inference is meant to see to it, and does not
everywhere (see `Discarded` above): an effectful function has no measure, so
calls to it are not held to anything. TLC evaluates both on the instance of
`totality`.

The theorem joins two readings of a call: what the check sees, expressions, and
what the run does, numbers. The invariant `TotalInv` carries the first to the
second: the calls are those of the program (`Scanned`), what is run was not
refused (`Accepted`), and what runs is a function with values for its parameters
(`RunsIn`). The rest are lemmas about the operators:

* Whatever a body calls, by name or by being handed the function, the scan found
  (`Found`), with the arguments that are evaluated (`MadeIs`).
* The value of an expression is that of its linear form, whatever values the
  opaque parts have (`LinWorth`). This is where it matters that one opaque
  expression has one value within a call, and no parameter another inside.
* Where the atoms cancel, the difference between the caller's form and the
  callee's with the arguments put in is a number (`Combined`, `SumSwap`), so the
  gap `Delta` finds is the difference of the values (`GapOfValues`).

A measure that drops first in one component thus drops as a tuple of numbers,
as long as arguments are what their expressions say. There are finitely many
tuples, so no chain of such calls is endless; a chain in which numbers wrap around may
be, as `Spinning` shows, and `Descends` says nothing of those calls. That the
last call then returns is `Returns`, and TLC's.

Induction over trees is done by hand: the functions of `Totality` are defined by
recursion on expressions, `Induction` proves that such a recursion has a
solution when depth decreases (`Recursion`), and a statement about all
expressions is the statement that the set of those for which it holds is all of
them. What is made of an expression is an operator of its own (`LinOf`,
`Evaluated`), applied by a short recursive function.

### Dictionaries

`DictProofs` proves, for any keys, values, least capacity and any function from
keys to numbers as the hash:

* `EveryProbeEnds`: `Spec => []ProbesEnd`
* `DictIsOrdered`: `Spec => Ordered`, the refinement of `OrderedMap`

The invariant `IInv` says that the table is at most half full when it is used,
and that it links each of its entries exactly once with no empty slot between a
key's home and its slot. Half full gives an empty slot for any probe to end at
(a counting argument: fewer entries than slots); linked gives that a probe
stops at the key if the key is there, and at an empty slot only if it is not.
`Induction` has the lemma that every search needs: one that can stop has a
first place to stop at.

### Patching

`PatchProofs` proves, for any agents, files, programs, compilers, canonical
forms and cuts:

* `PatchesReadBack`: `Spec => ReadBack`, whoever else is at work
* `EditsHappenAtOnce`: `Spec => Applied`, the refinement of `Store`
* `PatchesKeepTheRest`: `Spec => Kept`

in any interleaving, on one file or on several.

`Given(T)` lists what is assumed of the constants: sources are sequences of
tokens of some set `T`, paths name files and parts, replacements and the
canonical form are sequences of `T` too.

The mapping is `Said`: until a write that is not overtaken is over, its file still
says what its author read. So emptying a file is a stutter but for the edit being
open, filling it is the edit, and breaking off loses the file; an overtaken write
empties at once and then leaves anything. The invariant `IInv` says why that is
right. `Drafts` holds whoever is at work: files, and what was read of them, are
sources, also where one write lies over another, and what is being written is an
edit, by the rules of `Store`, of what its author read. `InOrder` is about who
is not overtaken: what such an agent has read of its file is what the file says,
as long as nobody is writing it (`UpToDate`); of those who are writing a file at
most one is not overtaken (`OneWriter`), and what it emptied is still empty, so
that its text is not laid over another's (`StillEmpty`); and whoever is not at a
command knows nothing (`Unknowing`). Each action is quiet (it leaves files and
writers alone), begins a write or ends one; a lemma for each kind shows that
`InOrder` is kept, and one for each action what it is in `Store`. Below them are
lemmas on nodes: an extent lies within its source, so that an edit is again a
source.

`ReadBack` and `Kept` are about the nodes of what was put together, which are
looked for anew. `NodesProofs` shows where they are. Each place in a
declaration, its end, the end of its signature, where its body begins, is
the only one with some property of the tokens around it, so it is enough to
show that the property is still there after a splice. In front of the splice nothing
has moved; behind it everything has moved by as much as the source has grown;
and the first declaration that a path names is still the first, because the
replacement declares the one thing that was there (`Whole`). Hence the node that
was replaced is the replacement (`NewNode`), and the nodes of every other
declaration have the texts they had (`OthersStay`). `ReadBack` needs no
more than `Drafts`; `Kept` needs `UpToDate` for the file a write begins on.

### Only model-checked

Everything about `Frame` and what it composes, inference (`Running`) and
obligations (`Proving`): the language is a tree, and `Walk`, `Ex`, `Infer`,
`Unify`, `TermOf` and `Eval` are recursive operators, which the prover does not
take. `Program` and `Totality` show what it takes to do without: expressions as
sequences of nodes, where a property is one of places, or functions over a
finite set of trees. The other three thread a state through the walk
and would need the second, with a lemma for each of their forms.
Liveness, which this prover has no rules for: the termination in `Contract`,
`Ends`, `Returns`. The bounds that the last two rest on are proved (`GetsOn`,
`OnceEach`, `Descends`).
`FailuresRefute` is not a theorem because it is false.

## What is not modelled

| part | why |
|---|---|
| lexer, parser, views, diagnostics | deterministic functions of text, covered by tests; their tree is an input |
| floats, `Nat`, ghost functions, refinements of `ext c` signatures | in the obligations: each adds a case to the translation, and none a way the path's facts change |
| dictionaries, closures' captures and most of the prelude in inference | a signature per function; the rules they are used by are modelled |
| escape taint | a monotone fixpoint over the names of one function: what it keeps from being freed is memory of the C side, which no module has |
| closures | not in the language of `Syntax`, whose ownership rules they follow; the mask of 64 positions that says what a partial application owns needs both |
| numbers, growth of vectors and strings | what can go wrong is at the width of a machine word, out of TLC's reach; `Proving` has the rules over small types, and `Totality` words that wrap around |
| `vibe deps`, the driver | they read, or call cc |
| text, files and sorting in the runtime | pure functions over bytes, and calls of the C library |
| standard library | programs in the language itself |
| types, `ext c` clashes and exports in `load.rs` | types follow the rule of constructors; the rest is bookkeeping of declarations |
| the copying forms of dictionaries | a deep copy followed by the operations modelled |

## Plan

Written, in this order: `Syntax`, `Own`, `Codegen`, `Runtime`, `Frame` over
`CallContract`; `ProofCache` and its proofs; `Loader`, `Program` and the proof
of `ReadOnce`; `OrderedMap`, `Dict` and the refinement proof; `Components` and
`Totality`; `Unify`, `Exhaustive`, `Infer`, `Checker` and `Running`; `Nodes`,
`Store`, `Patch` and the refinement proof; `Smt`, `Obligations` and `Proving`;
`Complete` and `DependenciesFirst`, `Warm` in `ProofCacheProofs`,
`ComponentsProofs`, and `NodesProofs` with what it gives `PatchProofs`; `Program`
over sequences of nodes, with what `ProgramProofs` says of flattening; `GetsOn`
and `OnceEach`; `Totality` over a set of expressions, `Induction` and
`TotalityProofs`.

What would add most to it, most important first:

1. Closures (`vibert.c`, `codegen.rs`): `Lambda` in `Syntax` and `Own`, the
   wrappers of `Codegen`, and `vb_apply1` and `vb_apply_lent` in `Runtime`; an
   argument is freed once, by one side. `Frame` composes them as it is.
2. `ext c` calls and arenas in the same modules, and with them `Escape`: the
   taint against what C may reach.
3. `Growth` and `Arith`: doubling of sizes and checked arithmetic over a word
   of a few bits.
4. Proofs about ownership: its rules (who owns a name, moved at most once on
   every path) stated over paths instead of trees, so that they can be proved.
