----------------------------- MODULE MCTotality -----------------------------
(***************************************************************************)
(* Totality on small programs: call graphs of three and four functions,    *)
(* functions that call themselves or each other with every combination of  *)
(* small arguments and measures, and recursion through other forms.        *)
(***************************************************************************)
EXTENDS Totality

Fun(n, ps, body, measure) ==
  [name |-> n, params |-> ps, effect |-> FALSE, unsigned |-> FALSE, body |-> body, measure |-> measure]
Effectful(f)   == [f EXCEPT !.effect = TRUE]
Unsigned(prog) == [i \in DOMAIN prog |-> [prog[i] EXCEPT !.unsigned = TRUE]]

(***************************************************************************)
(* Call graphs: functions without parameters.                              *)
(***************************************************************************)
Letters == <<"a", "b", "c", "d">>
Graph(lists) == [i \in DOMAIN lists |->
  Fun(Letters[i], <<>>, Match([j \in DOMAIN lists[i] |-> App(Letters[lists[i][j]], <<>>)]), <<>>)]
Lists(ns, m) == UNION {{l \in [1..k -> ns] : \A i, j \in 1..k : i # j => l[i] # l[j]} : k \in m}
Graphs ==
  {Graph(g) : g \in [1..3 -> Lists(1..3, 0..2)]}
  \cup {Graph(g) : g \in {h \in [1..4 -> {l \in Lists(1..4, 1..2) : Len(l) = 2 => l[1] < l[2]}] :
                            \A i \in 1..4 : \A j \in DOMAIN h[i] : h[i][j] # i}}

(***************************************************************************)
(* Arguments and measures.                                                 *)
(***************************************************************************)
N == Var("n")
K == Var("k")
Less(e) == Op("-", e, Num(1))
More(e) == Op("+", e, Num(1))
NK      == <<"n", "k">>

Args  == {N, K, Less(N), Less(K), More(K)}
CallsOf(f) == {App(f, <<a, b>>) : a \in Args, b \in Args}
Measures == {<<>>, <<N>>, <<Op("-", N, K)>>, <<N, K>>}

Selves == {<<Fun("f", NK, Match(<<N, App("f", <<a, b>>), App("f", <<Less(N), c>>)>>), m)>> :
             a \in Args, b \in {N, K, Less(K)}, c \in {N, Less(K), More(K)}, m \in Measures}

Pairs == {<<Fun("f", NK, Match(<<K, c>>), m[1]), Fun("g", NK, Match(<<N, d>>), m[2])>> :
            c \in CallsOf("g"), d \in {App("f", <<a, b>>) : a \in {N, K, Less(N)}, b \in {N, K, Less(K)}},
            m \in {<< <<N, K>>, <<N, K>> >>, << <<More(N)>>, <<N>> >>, << <<N, K>>, <<N>> >>}}

(***************************************************************************)
(* Recursion that is not a plain call.                                     *)
(***************************************************************************)
Forms == {App("map", <<Var("f"), K>>),                         \* the function as a value
          App("map", <<Fn("x", App("f", <<Less(N), Var("x")>>)), K>>),
          App("map", <<App("f", <<Less(N)>>), K>>),            \* applied to too little
          App("f", <<App("f", <<Less(N), K>>), K>>),           \* inside an argument
          App("f", <<Less(N), App("f", <<Less(N), K>>)>>),
          App("f", <<Op("*", N, K), Less(K)>>),                \* opaque
          App("f", <<Op("-", Op("*", Num(2), N), More(N)), K>>),
          App("f", <<Op("+", N, Neg(Num(1))), K>>),
          Let("x", Less(N), App("f", <<Var("x"), K>>)),
          Let("x", Less(N), App("f", <<Less(N), Var("x")>>))}
Others == {<<Fun("f", NK, e, m)>> : e \in Forms, m \in Measures}
          \cup {<<Effectful(Fun("f", NK, App("g", <<N, K>>), <<>>)),
                  Fun("g", NK, Match(<<N, App("g", <<Less(N), K>>)>>), <<>>)>>}

MCPrograms == Graphs \cup Selves \cup Pairs \cup Others
              \cup {Unsigned(prog) : prog \in Selves \cup Others}

\* `f (n:U64) : U64 = let n = n + 1 in f (n - 1)`: the analysis reads n as the
\* parameter, and the call lowers another n.
Rebound == {Unsigned(<<Fun("f", <<"n">>, Let("n", More(N), App("f", <<Less(N)>>)), <<>>)>>)}

\* Accepted, and endless, because a number wraps around: `spin n = spin (n - 1)`
\* on signed numbers, and on unsigned ones `spin n = spin (n + neg 1)`, and
\* `spin n k = spin n (k + 1)` with the measure n - k.
Spinning == {<<Fun("f", <<"n">>, App("f", <<Less(N)>>), <<>>)>>,
             Unsigned(<<Fun("f", <<"n">>, App("f", <<Op("+", N, Neg(Num(1)))>>), <<>>)>>),
             Unsigned(<<Fun("f", NK, App("f", <<N, More(K)>>), <<Op("-", N, K)>>)>>)}

\* `spin n = spin n`, effectful, under a let of a pure function: inference gives
\* a let the type of its body alone (infer.rs:660), and types f as pure.
Discarded == {<<Effectful(Fun("spin", <<"n">>, App("spin", <<N>>), <<>>)),
                Fun("f", <<"n">>, Let("u", App("spin", <<N>>), Num(1)), <<>>)>>}

(***************************************************************************)
(* The expressions of all of them.                                         *)
(***************************************************************************)
RECURSIVE Parts(_)
Parts(e) == {e} \cup UNION {Parts(e.xs[j]) : j \in DOMAIN e.xs}

RECURSIVE Height(_)
Height(e) == 1 + Max({0} \cup {Height(e.xs[j]) : j \in DOMAIN e.xs})

ExprsOf(f) == Parts(f.body) \cup UNION {Parts(f.measure[p]) : p \in DOMAIN f.measure}
              \cup {Var(f.params[p]) : p \in DOMAIN f.params}

MCExprs == UNION {ExprsOf(f) : f \in UNION {Range(prog) : prog \in MCPrograms \cup Rebound \cup Spinning \cup Discarded}}
MCDepth == [e \in MCExprs |-> Height(e)]

\* What the theorems take to be so.
ASSUME AsAssumed == Programs = MCPrograms => Untouched /\ PureCallsPure
=============================================================================
