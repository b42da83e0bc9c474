---------------------------- MODULE MCWarehouse -----------------------------
(* The instance of Warehouse for TLC. *)
EXTENDS Warehouse, TLC

MCKeys    == <<"payments/1", "payments/2", "returns/1">>
MCRowsOf  == [customers |-> {"c1"}, orders |-> {"o1"}, order_events |-> {"e1"}, payment_events |-> {}]
MCCustomerOf     == [o \in {"o1"} |-> "c1"]
MCMaxRowVersions == [r \in {"c1", "o1", "e1"} |-> 1]
MCDags    == DOMAIN Registry \ {"finance", "ml"}
MCMetrics == <<"sales", "customers">>

Symmetry == Permutations(Raw)
=============================================================================
