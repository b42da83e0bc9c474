--------------------------- MODULE MCKafkaIngest ---------------------------
(* Model-checking instances of KafkaIngest. *)
EXTENDS KafkaIngest, TLC

Symmetry == Permutations(Partitions)
=============================================================================
