--------------------------- MODULE SatelliteScd2 ---------------------------
(***************************************************************************)
(* One SCD2 satellite of the Python Data Vault: load_satellite_scd2 and    *)
(* reconcile_late_arriving (services/vault/loaders.py) as called by the    *)
(* tasks of dag_scd2_satellites, with the hub that dag_load_datavault      *)
(* fills and the staging table that the Spark job rewrites meanwhile.  The *)
(* two satellites have the same statements.                                *)
(*                                                                         *)
(* load_satellite_scd2 and reconcile_late_arriving are one transaction     *)
(* each; readers, errors and crashes come between them.                    *)
(***************************************************************************)
EXTENDS Integers, FiniteSets

CONSTANTS
    Keys,          \* business keys
    OrderedKeys,   \* keys whose source sends each new version with a later effective_from
    Hashes,        \* hash_diff values
    MaxTime,       \* bound: effective_from values 1..MaxTime
    MaxRuns,       \* bound: task attempts
    MaxFaults      \* bound: failed statements and crashes

ASSUME ScdAssumption ==
    /\ OrderedKeys \subseteq Keys
    /\ MaxTime \in Nat
    /\ MaxRuns \in Nat
    /\ MaxFaults \in Nat

OpenFarFuture == MaxTime + 1   \* mutant: a sentinel date for the open end
Open == 0                      \* effective_to IS NULL

Versions == [key : Keys, from : 1..MaxTime, hash : Hashes]
Rows == [key : Keys, load : Nat, from : 1..MaxTime, to : 0..MaxTime, current : BOOLEAN, hash : Hashes]

VARIABLES
    stg,       \* rows of the staging table, one per key
    hub,       \* keys in the hub
    sat,       \* rows of the satellite
    pc,        \* where the task is
    meta,      \* status of the attempt's row in meta.pipeline_runs
    runs,      \* attempts so far; the load_dts of what the attempt inserts
    valid,     \* outcome of the last validate_scd2
    applied,   \* auxiliary: the staging rows of the last committed load
    faults     \* faults so far

vars == <<stg, hub, sat, pc, meta, runs, valid, applied, faults>>

TypeOK ==
    /\ stg \in SUBSET Versions
    /\ hub \in SUBSET Keys
    /\ sat \in SUBSET Rows
    /\ pc \in {"idle", "load", "reconcile", "finish", "validate", "failing"}
    /\ meta \in {"none", "running", "success", "failed"}
    /\ runs \in Nat
    /\ valid \in {"none", "published", "violation"}
    /\ applied \in SUBSET Versions
    /\ faults \in Nat

Init ==
    /\ stg = {}
    /\ hub = {}
    /\ sat = {}
    /\ pc = "idle"
    /\ meta = "none"
    /\ runs = 0
    /\ valid = "none"
    /\ applied = {}
    /\ faults = 0

-----------------------------------------------------------------------------
Of(S, k) == {x \in S : x.key = k}
Current(S, k) == {r \in Of(S, k) : r.current}

\* SET effective_to = t, is_current = FALSE.
Ended(r, t) ==
    [key |-> r.key, load |-> r.load, from |-> r.from, to |-> t, current |-> FALSE, hash |-> r.hash]

Replies == {"ok"} \cup (IF faults < MaxFaults THEN {"refused", "lost"} ELSE {})
Applied(reply) == reply # "refused"
Continue(reply, next, onError) ==
    /\ pc' = IF reply = "ok" THEN next ELSE onError
    /\ faults' = IF reply = "ok" THEN faults ELSE faults + 1

\* External: the Spark job upserts a version of a key (PRIMARY KEY of the
\* staging table), at any time.  A source with out-of-order or corrected data
\* may send any effective_from, an earlier or the same one included.
Stage(v) ==
    /\ v.key \in OrderedKeys => \A x \in Of(stg, v.key) \cup Of(sat, v.key) : x.from < v.from
    /\ stg' = (stg \ Of(stg, v.key)) \cup {v}
    /\ UNCHANGED <<hub, sat, pc, meta, runs, valid, applied, faults>>

\* load_hub: INSERT ... ON CONFLICT (hk) DO NOTHING.
LoadHub ==
    /\ hub' = hub \cup {v.key : v \in stg}
    /\ UNCHANGED <<stg, sat, pc, meta, runs, valid, applied, faults>>

\* start_run, before the try block.
Start ==
    /\ pc = "idle"
    /\ runs < MaxRuns
    /\ runs' = runs + 1
    /\ \E reply \in Replies :
          /\ meta' = IF Applied(reply) THEN "running" ELSE meta
          /\ Continue(reply, "load", "idle")
    /\ UNCHANGED <<stg, hub, sat, valid, applied>>

\* close_sql: a current row with another hash ends where the staged version
\* starts, if that is later.
ClosesNever(r, v) == FALSE                                                         \* mutant: close_sql left out
Closes(r, v) == r.key = v.key /\ r.current /\ r.hash # v.hash /\ r.from < v.from

CloseCurrent ==
    {r \in sat : \A v \in stg : ~Closes(r, v)} \cup
    UNION {{Ended(r, v.from) : r \in {x \in sat : Closes(x, v)}} : v \in stg}

\* insert_sql: the staged versions whose key has no current row, or a current
\* row with another hash.
DiffersAlways(S, v) == TRUE                                                        \* mutant: no WHERE
DiffersIfNew(S, v) == Of(S, v.key) = {}                                            \* mutant: new keys only
Differs(S, v) == Current(S, v.key) = {} \/ \E r \in Current(S, v.key) : r.hash # v.hash

NewVersions(S) == {v \in stg : Differs(S, v)}

InsertNew(S) ==
    S \cup {[key |-> v.key, load |-> runs, from |-> v.from, to |-> Open, current |-> TRUE, hash |-> v.hash]
            : v \in NewVersions(S)}

\* load_satellite_scd2: close and insert in one transaction.  The foreign key
\* to the hub makes it fail when a new key has been staged since the hub was
\* loaded.
Load ==
    /\ pc = "load"
    /\ IF \E v \in NewVersions(CloseCurrent) : v.key \notin hub
       THEN pc' = "failing" /\ UNCHANGED <<sat, applied, faults>>
       ELSE \E reply \in Replies :
               /\ sat' = IF Applied(reply) THEN InsertNew(CloseCurrent) ELSE sat
               /\ applied' = IF Applied(reply) THEN stg ELSE applied
               /\ Continue(reply, "reconcile", "failing")
    /\ UNCHANGED <<stg, hub, meta, runs, valid>>

(* LEAD(effective_from) per key.  The rows of one key with equal           *)
(* effective_from are joined by (key, effective_from), so each of them     *)
(* meets the LEAD of all: its own effective_from, and for the last one the *)
(* next later value or NULL.                                               *)
Ties(r) == {x \in Of(sat, r.key) \ {r} : x.from = r.from}
LaterCurrent(r) == {x \in Of(sat, r.key) : x.from > r.from /\ x.current}           \* mutant: LEAD of current rows
Later(r) == {x \in Of(sat, r.key) : x.from > r.from}

SupersededByLater(r) == Later(r) # {}                                              \* mutant: ties are kept
Superseded(r) == Ties(r) # {} \/ Later(r) # {}

Ends(r) ==
    {r.from : x \in Ties(r)} \cup
    {x.from : x \in {y \in Later(r) : \A z \in Later(r) : y.from <= z.from}}

\* Where UPDATE ... FROM finds several LEADs for a row it uses any one that
\* changes the row.
EndChoices(r) == IF r.current \/ Ends(r) = {r.to} THEN Ends(r) ELSE Ends(r) \ {r.to}

Reconciled(r, end) == IF Superseded(r) THEN Ended(r, end[r]) ELSE r

\* reconcile_late_arriving, one UPDATE.
Reconcile ==
    /\ pc = "reconcile"
    /\ \E reply \in Replies, end \in [{r \in sat : Superseded(r)} -> 1..MaxTime] :
          /\ \A r \in DOMAIN end : end[r] \in EndChoices(r)
          /\ sat' = IF Applied(reply) THEN {Reconciled(r, end) : r \in sat} ELSE sat
          /\ Continue(reply, "finish", "failing")
    /\ UNCHANGED <<stg, hub, meta, runs, valid, applied>>

\* finish_run(status="success").
Finish ==
    /\ pc = "finish"
    /\ \E reply \in Replies :
          /\ meta' = IF Applied(reply) THEN "success" ELSE meta
          /\ Continue(reply, "validate", "failing")
    /\ UNCHANGED <<stg, hub, sat, runs, valid, applied>>

\* finish_run(status="failed"), then raise; Airflow starts the task again.
Fail ==
    /\ pc = "failing"
    /\ \E reply \in Replies :
          /\ meta' = IF Applied(reply) THEN "failed" ELSE meta
          /\ Continue(reply, "idle", "idle")
    /\ UNCHANGED <<stg, hub, sat, runs, valid, applied>>

\* validate_scd2 counts keys with two current rows; publish_signal follows if
\* there are none.
Validate ==
    /\ pc = "validate"
    /\ pc' = "idle"
    /\ valid' = IF \A k \in Keys : Cardinality(Current(sat, k)) <= 1 THEN "published" ELSE "violation"
    /\ UNCHANGED <<stg, hub, sat, meta, runs, applied, faults>>

\* External: the worker process dies.
Crash ==
    /\ pc # "idle"
    /\ faults < MaxFaults
    /\ pc' = "idle"
    /\ faults' = faults + 1
    /\ UNCHANGED <<stg, hub, sat, meta, runs, valid, applied>>

Next ==
    \/ \E v \in Versions : Stage(v)
    \/ LoadHub \/ Start \/ Load \/ Reconcile \/ Finish \/ Fail \/ Validate \/ Crash

Spec == Init /\ [][Next]_vars
-----------------------------------------------------------------------------
(* Properties *)

\* A successful task leaves at most one current row per key, whatever order
\* the versions came in, also with equal effective_from and after crashes
\* between load and reconciliation: validate_scd2 never stops the chain.
OneCurrent ==
    /\ meta = "success" => \A k \in Keys : \A a, b \in Current(sat, k) : a = b
    /\ valid # "violation"

\* A successful task leaves no overlap: a row ends at the latest where a later
\* version of its key starts, also after a version that arrived late.
NoOverlap ==
    meta = "success" =>
        \A a, b \in sat : a.key = b.key /\ a.from < b.from => ~a.current /\ a.to # Open /\ a.to <= b.from

\* A reader never finds a key without its current row, or with two, at any
\* time between the transactions, if the versions arrive in order.
OrderedOneCurrent ==
    \A k \in OrderedKeys : Of(sat, k) # {} => Cardinality(Current(sat, k)) = 1

\* A key whose versions arrive in order is contiguous and shows the version
\* that was loaded last, at any time.
OrderedHistory ==
    \A k \in OrderedKeys :
        /\ \A v \in Of(applied, k) : \E r \in Current(sat, k) : r.hash = v.hash
        /\ \A r \in Of(sat, k) : ~r.current => \E n \in Of(sat, k) : n.from = r.to /\ n.hash # r.hash

\* Loading the same staging rows again changes nothing of a key.
RerunOf(K) ==
    \A k \in K : pc = "load" /\ Of(stg, k) = Of(applied, k) => Of(sat', k) = Of(sat, k)

\* A repeated run is harmless if the versions arrive in order.
OrderedRerun == [][RerunOf(OrderedKeys)]_sat

\* A repeated run is harmless (docs/PIPELINES.md: dag_scd2_satellites is
\* idempotent), whatever was staged.
Idempotent == [][RerunOf(Keys)]_sat
=============================================================================
