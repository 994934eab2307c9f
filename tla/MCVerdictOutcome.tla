------------------------- MODULE MCVerdictOutcome -------------------------
(* Two requests whose invocations alternate, three host calls in all. *)
EXTENDS VerdictOutcome, TLC
Symmetry == Permutations(Request)
=============================================================================
