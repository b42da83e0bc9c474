---------------------------- MODULE MCGenerators ----------------------------
(***************************************************************************)
(* Periods of the emitters for TLC, of generators/config/*.xml in small:   *)
(* some run every tick and some every second one.                          *)
(***************************************************************************)
EXTENDS Generators

MCEvery == [e \in Emitters |-> IF e \in {"email", "time_tracking", "organic"} THEN 1 ELSE 2]
=============================================================================
