-------------------------- MODULE MCSatelliteScd2 --------------------------
(* Model-checking instances of SatelliteScd2. *)
EXTENDS SatelliteScd2, TLC

Symmetry == Permutations(Hashes)
=============================================================================
