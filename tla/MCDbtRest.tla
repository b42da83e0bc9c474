----------------------------- MODULE MCDbtRest -----------------------------
(* Model-checking instances of DbtRest. *)
EXTENDS DbtRest, TLC

Symmetry == Permutations(Runs)
=============================================================================
