------------------------------- MODULE MCDict -------------------------------
(***************************************************************************)
(* Dict with four keys that all collide, some, or none, or that wrap round *)
(* the end of the table.                                                   *)
(***************************************************************************)
EXTENDS Dict

MCHashes == {<<7, 7, 7, 7>>, <<7, 15, 0, 8>>, <<1, 2, 3, 4>>, <<6, 7, 7, 6>>}
=============================================================================
