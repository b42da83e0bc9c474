---------------------------- MODULE OltpExtract ----------------------------
(***************************************************************************)
(* The incremental extract of one OLTP table into raw.oltp_*: the task     *)
(* extract_table of dag_ingest_oltp_to_stg                                 *)
(* (pipelines/dags/ingestion/ingest_oltp_to_stg.py) and its composite      *)
(* cursor (timestamp, primary key) in meta.pipeline_watermarks.            *)
(*                                                                         *)
(* Reading the source, inserting into the raw table and storing the cursor *)
(* are separate transactions, the first in another database; the raw table *)
(* has the primary key (pk, ingested_at) and the insert no ON CONFLICT.    *)
(***************************************************************************)
EXTENDS Integers, FiniteSets

CONSTANTS
    Watermarked,     \* the table has a watermark column (order_items has none)
    BatchSize,       \* LIMIT of the query
    MaxPk, MaxTs,    \* bounds: primary keys 1..MaxPk, timestamps 1..MaxTs
    MaxCopies,       \* bound: copies of a row in the raw table
    MaxFaults        \* bound: failed statements and crashes

ASSUME OltpAssumption ==
    /\ Watermarked \in BOOLEAN
    /\ BatchSize \in Nat \ {0}
    /\ MaxPk \in Nat
    /\ MaxTs \in Nat
    /\ MaxCopies \in Nat
    /\ MaxFaults \in Nat

Rows == [ts : 1..MaxTs, pk : 1..MaxPk]

\* fallback_watermark, 1970: before every row.
Fallback == [ts |-> 0, pk |-> 0]

VARIABLES
    src,      \* rows visible in the source table, as their cursor columns
    raw,      \* raw[r]: copies of row r in the raw table
    wm,       \* cursor in meta.pipeline_watermarks
    meta,     \* status of the attempt's row in meta.pipeline_runs
    pc,       \* where extract_table is
    batch,    \* rows of the query
    late,     \* history: visible rows that came when the cursor was past them
    faults    \* faults so far

vars == <<src, raw, wm, meta, pc, batch, late, faults>>

TypeOK ==
    /\ src \in SUBSET Rows
    /\ raw \in [Rows -> Nat]
    /\ wm \in Rows \cup {Fallback}
    /\ meta \in {"none", "running", "success", "failed"}
    /\ pc \in {"idle", "fetch", "insert", "watermark", "finish", "failing"}
    /\ batch \in SUBSET Rows
    /\ late \in SUBSET src
    /\ faults \in Nat

Init ==
    /\ src = {}
    /\ raw = [r \in Rows |-> 0]
    /\ wm = Fallback
    /\ meta = "none"
    /\ pc = "idle"
    /\ batch = {}
    /\ late = {}
    /\ faults = 0

-----------------------------------------------------------------------------
\* The row comparison (ts, pk) < (ts, pk) of Postgres.
Before(a, b) == a.ts < b.ts \/ (a.ts = b.ts /\ a.pk < b.pk)

Replies == {"ok"} \cup (IF faults < MaxFaults THEN {"refused", "lost"} ELSE {})
Applied(reply) == reply # "refused"
Continue(reply, next, onError) ==
    /\ pc' = IF reply = "ok" THEN next ELSE onError
    /\ faults' = IF reply = "ok" THEN faults ELSE faults + 1

\* The attempt has the rows of its query in hand.
Holding == pc \in {"insert", "watermark"}

\* The cursor is past the row, or about to go past it with the batch in hand.
TooLate(r) == ~Before(wm, r) \/ (Holding /\ \E b \in batch : ~Before(b, r))

\* External: an insert, or an update of a table whose watermark column is
\* updated_at, becomes visible.  The timestamp is the start of the writing
\* transaction, so writers that overlap may commit in another order.
Appear(r) ==
    /\ \A x \in src : x.pk = r.pk => x.ts < r.ts
    /\ src' = {x \in src : x.pk # r.pk} \cup {r}
    /\ late' = (late \cap src') \cup {x \in {r} : TooLate(x)}
    /\ UNCHANGED <<raw, wm, meta, pc, batch, faults>>

\* start_run, before the try block.
Start ==
    /\ pc = "idle"
    /\ \A r \in Rows : raw[r] < MaxCopies
    /\ \E reply \in Replies :
          /\ meta' = IF Applied(reply) THEN "running" ELSE meta
          /\ Continue(reply, "fetch", "idle")
    /\ UNCHANGED <<src, raw, wm, batch, late>>

\* WHERE (ts, pk) > cursor ORDER BY ts, pk LIMIT batch_size; a table without a
\* watermark column is read from its first key.
SelectedByPk == {r \in src : wm.pk < r.pk}                 \* mutant: the timestamp is not compared
SelectedByTs == {r \in src : wm.ts < r.ts}                 \* mutant: the key is not compared
SelectedInclusive == {r \in src : ~Before(r, wm)}          \* mutant: >= for >
Selected == IF Watermarked THEN {r \in src : Before(wm, r)} ELSE src
Precedes(a, b) == IF Watermarked THEN Before(a, b) ELSE a.pk < b.pk
Query == {r \in Selected : Cardinality({x \in Selected : Precedes(x, r)}) < BatchSize}

\* get_watermark and fetch_all; bulk_insert does nothing for no rows and no
\* cursor is written.
Fetch ==
    /\ pc = "fetch"
    /\ batch' = Query
    /\ \E reply \in Replies \ {"lost"} : Continue(reply, IF Query = {} THEN "finish" ELSE "insert", "failing")
    /\ UNCHANGED <<src, raw, wm, meta, late>>

\* bulk_insert of all rows in one transaction.
Insert ==
    /\ pc = "insert"
    /\ \E reply \in Replies :
          /\ raw' = IF Applied(reply) THEN [r \in Rows |-> IF r \in batch THEN raw[r] + 1 ELSE raw[r]] ELSE raw
          /\ Continue(reply, IF Watermarked THEN "watermark" ELSE "finish", "failing")
    /\ UNCHANGED <<src, wm, meta, batch, late>>

\* The cursor of rows[-1], the last row of the query.
LastRowPlusOne ==                                          \* mutant: one key further
    LET r == CHOOSE r \in batch : \A x \in batch : ~Before(r, x) IN [r EXCEPT !.pk = @ + 1]
LastVisible == CHOOSE r \in src : \A x \in src : ~Before(r, x) \* mutant: MAX of the table
LastRow == CHOOSE r \in batch : \A x \in batch : ~Before(r, x)

SetWatermark ==
    /\ pc = "watermark"
    /\ \E reply \in Replies :
          /\ wm' = IF Applied(reply) THEN LastRow ELSE wm
          /\ Continue(reply, "finish", "failing")
    /\ UNCHANGED <<src, raw, meta, batch, late>>

\* finish_run(status="success").
Finish ==
    /\ pc = "finish"
    /\ \E reply \in Replies :
          /\ meta' = IF Applied(reply) THEN "success" ELSE meta
          /\ Continue(reply, "idle", "failing")
    /\ UNCHANGED <<src, raw, wm, batch, late>>

\* finish_run(status="failed"), then raise; Airflow starts the task again.
Fail ==
    /\ pc = "failing"
    /\ \E reply \in Replies :
          /\ meta' = IF Applied(reply) THEN "failed" ELSE meta
          /\ Continue(reply, "idle", "idle")
    /\ UNCHANGED <<src, raw, wm, batch, late>>

\* External: the worker process dies.
Crash ==
    /\ pc # "idle"
    /\ faults < MaxFaults
    /\ pc' = "idle"
    /\ faults' = faults + 1
    /\ UNCHANGED <<src, raw, wm, meta, batch, late>>

Task == Start \/ Fetch \/ Insert \/ SetWatermark \/ Finish \/ Fail

Next == (\E r \in Rows : Appear(r)) \/ Task \/ Crash

Spec == Init /\ [][Next]_vars

\* Airflow starts the DAG every fifteen minutes and a started task runs on.
FairSpec == Spec /\ WF_vars(Task)
-----------------------------------------------------------------------------
(* Properties *)

\* No row is skipped: what is visible at or before the cursor is in the raw
\* table, whichever transaction of an attempt failed (insert, then cursor),
\* unless its writer committed when the cursor was past it.
CursorCovered == \A r \in src \ late : ~Before(wm, r) => raw[r] > 0

\* A row is copied again only after a failure, and no more often than there were
\* failures: a bound on what an insert without ON CONFLICT collects.
\* Any failure counts here, also one in which the cursor was stored.
CopiesAreFaults == \A r \in Rows : raw[r] <= 1 + faults

\* The cursor never moves back, also when a failed batch is read again.
CursorAdvances == [][Before(wm, wm')]_wm

\* Every visible row that did not come too late reaches the raw table, batches
\* and failures notwithstanding, unless a newer state of it replaces it first.
EveryRowExtracted == \A r \in Rows : r \in src \ late ~> raw[r] > 0 \/ r \notin src

\* Repeated runs make no duplicates in raw.* (docs/PIPELINES.md, acceptance
\* criteria) when nothing fails.
NoDuplicates == \A r \in Rows : raw[r] <= 1

\* The promise of CursorSink for a table with a watermark column: rows[-1] of the
\* query is the frontier until the cursor is stored.
Sink == INSTANCE CursorSink WITH
    Origin <- Fallback, visible <- src, copies <- raw, mark <- wm,
    frontier <- IF Holding THEN LastRow ELSE wm
SinkSpec == Sink!Spec
=============================================================================
