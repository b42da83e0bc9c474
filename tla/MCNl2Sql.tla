------------------------------ MODULE MCNl2Sql ------------------------------
(* Model-checking instances of Nl2Sql. *)
EXTENDS Nl2Sql
=============================================================================
