----------------------------- MODULE OffsetSink -----------------------------
(***************************************************************************)
(* What a micro-batch ingestion from a partitioned log promises, whatever  *)
(* its batches, retries and crashes look like.  A log only grows.  Offsets *)
(* are copied into a sink table in log order, never out of thin air, and a *)
(* resume mark may be placed only where the sink is complete.  The mark    *)
(* may move backwards: re-reading is harmless, skipping is not.            *)
(***************************************************************************)
EXTENDS Integers, Sequences

CONSTANTS Partitions,   \* partitions of the topic
          Records       \* what a log entry can be

VARIABLES log,          \* log[p]    : the partition's entries, offset o at index o + 1
          stored,       \* stored[p] : offsets present in the sink table
          mark          \* mark[p]   : offset the next run resumes after, -1 for none

vars == <<log, stored, mark>>

\* The sink has everything up to and including offset m of partition p.
Complete(p, m) == \A o \in 0..m : o \in stored[p]

Init ==
    /\ log = [p \in Partitions |-> <<>>]
    /\ stored = [p \in Partitions |-> {}]
    /\ mark = [p \in Partitions |-> -1]

Produce ==
    /\ \E p \in Partitions, r \in Records : log' = [log EXCEPT ![p] = Append(@, r)]
    /\ UNCHANGED <<stored, mark>>

\* Any number of entries of any partitions are copied at once (one
\* transaction), without leaving a hole in what the sink holds.
Store ==
    /\ \A p \in Partitions :
          /\ stored[p] \subseteq stored'[p]
          /\ \A o \in stored'[p] : o \in 0..(Len(log[p]) - 1) /\ \A q \in 0..o : q \in stored'[p]
    /\ DOMAIN stored' = Partitions
    /\ UNCHANGED <<log, mark>>

Mark ==
    /\ \A p \in Partitions : Complete(p, mark'[p])
    /\ DOMAIN mark' = Partitions
    /\ UNCHANGED <<log, stored>>

Next == Produce \/ Store \/ Mark

Spec == Init /\ [][Next]_vars
=============================================================================
