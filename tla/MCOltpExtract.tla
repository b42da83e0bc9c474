--------------------------- MODULE MCOltpExtract ---------------------------
(* Model-checking instances of OltpExtract. *)
EXTENDS OltpExtract
=============================================================================
