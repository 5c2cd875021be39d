---------------------------- MODULE MCProofCache ----------------------------
(* ProofCache for TLC: a source that proves, and an edit of it that does not. *)
EXTENDS ProofCache, TLC

MCObligations == 1..3
MCSources     == {{1, 2}, {2, 3}}
MCValid       == {1, 2}
MCHash        == [o \in MCObligations |-> 10 + o]
MCTorn        == 9

ProcSymmetry == Permutations(Proc)
=============================================================================
