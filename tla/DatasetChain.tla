---------------------------- MODULE DatasetChain ----------------------------
(***************************************************************************)
(* The chain of DAGs behind the vault: pipelines/dags/transformation,      *)
(* quality and maintenance, joined by the datasets of                      *)
(* pipelines/utils/datasets.py, with services/serving.                     *)
(*                                                                         *)
(* Raw tables and staging tables have a version each, and every table      *)
(* behind them shows the versions that the last run to write it has read;  *)
(* which rows the SQL of a model makes of them is left out.  Airflow       *)
(* starts a run when a dataset of the schedule has an event, keeps         *)
(* max_active_runs of a DAG active and joins the events that arrive        *)
(* meanwhile.  Runs work on the same tables at the same time: an           *)
(* incremental model selects into a temporary table and then writes.  A    *)
(* task that fails is tried again or, at last, fails its run.              *)
(***************************************************************************)
EXTENDS Integers, Sequences, FiniteSets

CONSTANTS
    Dags,           \* the DAGs that are not paused
    Metrics,        \* the metrics of serving.yaml, in their order
    MaxEvents,      \* bound: versions of the raw tables and of the extension events
    MaxDagFaults    \* bound: failed attempts of a behaviour

\* A DAG: its schedule, its outlet ("none": nobody is scheduled on it) and its
\* max_active_runs.
Dag(on, out, runs) == [on |-> on, out |-> out, runs |-> runs]

Scd2Dag      == Dag({"vault_loaded"}, "vault_scd2_done", 1)
StagingDag   == Dag({"vault_scd2_done"}, "dbt_staging_done", 1)
VaultDag     == Dag({"dbt_staging_done", "raw_kafka_extensions"}, "dbt_vault_done", 2)
MartsDag     == Dag({"dbt_vault_done"}, "dbt_marts_done", 1)
KpisDag      == Dag({"dbt_vault_done"}, "none", 1)
DqcDag       == Dag({"dbt_marts_done"}, "dbt_dqc_done", 1)
QualityDag   == Dag({"dbt_dqc_done"}, "dq_passed", 1)
ServingDag   == Dag({"dq_passed"}, "serving_optimized", 1)
AnalyticsDag == Dag({"serving_optimized"}, "none", 1)
FinanceDag   == Dag({"dbt_marts_done"}, "none", 1)
MlDag        == Dag({"dbt_marts_done"}, "none", 1)

Registry ==
    [scd2 |-> Scd2Dag, staging |-> StagingDag, vault |-> VaultDag, marts |-> MartsDag, kpis |-> KpisDag,
     dqc |-> DqcDag, quality |-> QualityDag, serving |-> ServingDag,
     analytics |-> AnalyticsDag, finance |-> FinanceDag, ml |-> MlDag]

MetricSet == {Metrics[i] : i \in DOMAIN Metrics}

\* Each metric has a key of its own.
ASSUME ChainAssumption ==
    /\ Dags \subseteq DOMAIN Registry
    /\ Metrics \in Seq(MetricSet) /\ Metrics # <<>>
    /\ \A i, j \in DOMAIN Metrics : Metrics[i] = Metrics[j] => i = j
    /\ {MaxEvents, MaxDagFaults} \subseteq Nat

VARIABLES
    rawNow,     \* version of the raw tables
    stgNow,     \* the version of them that Spark has brought to the staging tables
    extNow,     \* version of raw.kafka_extension_events
    pending,    \* DAGs with an event that has not started a run yet
    steps,      \* steps[d]: the active runs of a DAG, a sequence
    data,       \* data[t]: versions a table or a model shows
    extVault,   \* version of the extension events in their hubs and satellites
    raced,      \* tables whose current rows an older run has replaced
    redis,      \* redis[m]: versions behind a key
    setBy,      \* setBy[m]: attempt of the serving task that has set it last
    snapshot,   \* snapshot[m]: versions behind a row of dwh_marts.redis_serving_snapshot
    snapshotBy, \* the attempt whose rows these are, 0 for dbt
    written,    \* the last attempt that has written the snapshot
    fetched,    \* rows of the attempt of materialize_redis_and_snapshot
    attempt,    \* number of that attempt: its updated_at
    watermark,  \* watermark serving.redis
    dagFaults

inputs    == <<rawNow, stgNow, extNow>>
tables    == <<data, extVault, raced>>
serving   == <<redis, setBy, snapshot, snapshotBy, written, fetched, attempt, watermark>>
chainVars == <<inputs, pending, steps, tables, serving, dagFaults>>

\* DAGs that only read the chain, and write tables of their own.
Readers  == {"analytics", "finance", "ml"}
Data     == {"satellites", "vault", "facts", "kpis"} \cup Readers

\* What a table shows: of the raw tables, and of the staging tables.
Numbers  == 0..MaxEvents
Versions == [raw : Numbers, stg : Numbers]
Shows(r, s) == [raw |-> r, stg |-> s]
Nothing  == Shows(0, 0)

\* An active run: the step it is at, and what it has read and not written yet.
\* "kpis" and "snapshot": a marts run that has only this model left.
Phases  == {"work", "write", "kpis", "snapshot", "done"}
RunSet  == [at : Phases, read : Versions, ext : Numbers]
Run(phase) == [at |-> phase, read |-> Nothing, ext |-> 0]

ChainTypeOK ==
    /\ {rawNow, stgNow, extNow, extVault} \subseteq Numbers
    /\ pending \subseteq Dags
    /\ steps \in [Dags -> Seq(RunSet)] /\ \A d \in Dags : Len(steps[d]) <= Registry[d].runs
    /\ data \in [Data -> Versions] /\ raced \subseteq {"vault", "kpis"}
    /\ redis \in [MetricSet -> Versions] /\ snapshot \in [MetricSet -> Versions]
    /\ setBy \in [MetricSet -> Nat]
    /\ fetched \in Seq(Versions) /\ Len(fetched) <= Len(Metrics)
    /\ {attempt, snapshotBy, written, watermark} \subseteq Nat
    /\ dagFaults \in 0..MaxDagFaults

ChainInit ==
    /\ rawNow = 0 /\ stgNow = 0 /\ extNow = 0 /\ extVault = 0
    /\ pending = {} /\ steps = [d \in Dags |-> <<>>]
    /\ data = [t \in Data |-> Nothing] /\ raced = {}
    /\ redis = [m \in MetricSet |-> Nothing] /\ snapshot = [m \in MetricSet |-> Nothing]
    /\ setBy = [m \in MetricSet |-> 0]
    /\ fetched = <<>> /\ attempt = 0 /\ snapshotBy = 0 /\ written = 0 /\ watermark = 0
    /\ dagFaults = 0

DagFault == dagFaults < MaxDagFaults /\ dagFaults' = dagFaults + 1

\* An event of a dataset reaches the DAGs that are scheduled on it.
Scheduled(dataset) == {d \in Dags : dataset \in Registry[d].on}

-----------------------------------------------------------------------------
(* What starts the chain.                                                  *)

\* The ingestion DAGs: rows in the raw tables, and no event for this chain.
RawIngested ==
    /\ rawNow + extNow < MaxEvents
    /\ rawNow' = rawNow + 1
    /\ UNCHANGED <<stgNow, extNow, pending, steps, tables, serving, dagFaults>>

\* dag_load_datavault has loaded what Spark staged of the raw tables: StagingVault.
VaultLoaded ==
    /\ stgNow' \in (stgNow + 1)..rawNow
    /\ pending' = pending \cup Scheduled("vault_loaded")
    /\ UNCHANGED <<rawNow, extNow, steps, tables, serving, dagFaults>>

\* dag_ingest_kafka_extensions_to_raw: new rows in raw.kafka_extension_events.
ExtensionsIngested ==
    /\ rawNow + extNow < MaxEvents
    /\ extNow' = extNow + 1
    /\ pending' = pending \cup Scheduled("raw_kafka_extensions")
    /\ UNCHANGED <<rawNow, stgNow, steps, tables, serving, dagFaults>>

NewAttempt(d) == IF d = "serving" THEN attempt' = attempt + 1 /\ fetched' = <<>>
                                  ELSE UNCHANGED <<attempt, fetched>>

Start(d) ==
    /\ d \in pending /\ Len(steps[d]) < Registry[d].runs
    /\ pending' = pending \ {d}
    /\ steps' = [steps EXCEPT ![d] = Append(@, Run("work"))]
    /\ NewAttempt(d)
    /\ UNCHANGED <<inputs, tables, redis, setBy, snapshot, snapshotBy, written, watermark, dagFaults>>

Moves(d, i, from, to) ==
    /\ steps[d][i].at = from
    /\ steps' = [steps EXCEPT ![d][i] = to]
    /\ UNCHANGED <<inputs, pending, dagFaults>>

Goes(d, from, to) == \E i \in DOMAIN steps[d] : Moves(d, i, from, Run(to))

-----------------------------------------------------------------------------
(* The runs.                                                               *)

\* A task that computes a table from what it reads at that moment.
Compute(d, table, from) ==
    /\ Goes(d, "work", "done")
    /\ data' = [data EXCEPT ![table] = from]
    /\ UNCHANGED <<extVault, raced, serving>>

\* load_satellite_scd2 reads the staging tables.
LoadSatellites == Compute("scd2", "satellites", Shows(0, stgNow))

\* dbt staging: views, and a freshness test.  The views are over raw tables; only
\* those of the customers and of the MinIO payments are over staging tables.
BuildViews == Goes("staging", "work", "done") /\ UNCHANGED <<tables, serving>>

\* A run replaces the rows of a table by what it has read; both may be up to date.
Replace(table, new, newIsCurrent, oldIsCurrent) ==
    /\ data' = [data EXCEPT ![table] = new]
    /\ raced' = IF newIsCurrent THEN raced \ {table}
                ELSE IF oldIsCurrent THEN raced \cup {table} ELSE raced

\* What the staging tables have, and no less of the raw tables.
Covers(version) == version.stg = stgNow /\ version.raw >= stgNow

Newer(a, b) == IF a < b THEN b ELSE a

\* dbt vault, of which two runs may be active: the select over the views, and then
\* delete and insert in bridges and point-in-time tables (what data["vault"]
\* shows: the write of an older run is the last one).  Hubs and satellites
\* append, and those of the extensions keep what a newer run has added.
SelectVault ==
    /\ \E i \in DOMAIN steps["vault"] :
          Moves("vault", i, "work", [at |-> "write", read |-> Shows(rawNow, stgNow), ext |-> extNow])
    /\ UNCHANGED <<tables, serving>>

ReplaceVault ==
    /\ \E i \in DOMAIN steps["vault"] :
          LET run == steps["vault"][i]
          IN  /\ Moves("vault", i, "write", Run("done"))
              /\ Replace("vault", run.read, Covers(run.read), Covers(data["vault"]))
              /\ extVault' = Newer(run.ext, extVault)
    /\ UNCHANGED serving

\* dbt marts with tag:marts: the facts, and then, in either order, two models that
\* have the tag too and that somebody else writes as well.
BuildFacts ==
    /\ Goes("marts", "work", "write")
    /\ data' = [data EXCEPT !["facts"] = data["vault"]]
    /\ UNCHANGED <<extVault, raced, serving>>

BuildMartKpis ==
    /\ Goes("marts", "write", "snapshot") \/ Goes("marts", "kpis", "done")
    /\ Replace("kpis", data["facts"], TRUE, FALSE)
    /\ UNCHANGED <<extVault, serving>>

\* The model redis_serving_snapshot builds the whole table of the serving task
\* anew, from the facts, and does not touch Redis.
BuildSnapshot ==
    /\ Goes("marts", "write", "kpis") \/ Goes("marts", "snapshot", "done")
    /\ snapshot' = [m \in MetricSet |-> data["facts"]] /\ snapshotBy' = 0
    /\ UNCHANGED <<tables, redis, setBy, written, fetched, attempt, watermark>>

\* dbt business_kpis builds the KPI model in a run of its own.
SelectKpis ==
    /\ \E i \in DOMAIN steps["kpis"] :
          Moves("kpis", i, "work", [at |-> "write", read |-> data["facts"], ext |-> 0])
    /\ UNCHANGED <<tables, serving>>

ReplaceKpis ==
    /\ \E i \in DOMAIN steps["kpis"] :
          LET read == steps["kpis"][i].read
          IN  /\ Moves("kpis", i, "write", Run("done"))
              /\ Replace("kpis", read, read = data["facts"], data["kpis"] = data["facts"])
    /\ UNCHANGED <<extVault, serving>>

\* The dbt tests and the Python checks look at tables and change none; a check
\* that fails is a task that fails.
Check(d) == Goes(d, "work", "done") /\ UNCHANGED <<tables, serving>>

RunTests == Check("dqc")
ExecuteChecks == Check("quality")

\* The Spark jobs behind the chain: the summary and the finance demo read the
\* facts, the training the view dwh_staging.stg_orders over raw.oltp_orders.
Derive(d) == Compute(d, d, IF d = "ml" THEN Shows(rawNow, 0) ELSE data["facts"])

-----------------------------------------------------------------------------
(* dag_serving_optimizations.  Indexes, VACUUM and REINDEX change no data. *)

\* A metric of the loop: its query and its Redis key.
SetMetric ==
    /\ Len(fetched) < Len(Metrics)
    /\ Goes("serving", "work", "work")
    /\ fetched' = Append(fetched, data["facts"])
    /\ redis' = [redis EXCEPT ![Metrics[Len(fetched) + 1]] = data["facts"]]
    /\ setBy' = [setBy EXCEPT ![Metrics[Len(fetched) + 1]] = attempt]
    /\ UNCHANGED <<tables, snapshot, snapshotBy, written, attempt, watermark>>

\* mutant: the watermark is set first, and the snapshot after it
UpsertSnapshotLast ==
    /\ Len(fetched) = Len(Metrics)
    /\ Goes("serving", "work", "write")
    /\ watermark' = attempt /\ fetched' = <<>>
    /\ UNCHANGED <<tables, redis, setBy, snapshot, snapshotBy, written, attempt>>

\* upsert of the rows, in one statement, over its own rows or over dbt's.
UpsertSnapshot ==
    /\ Len(fetched) = Len(Metrics)
    /\ Goes("serving", "work", "write")
    /\ snapshot' = [m \in MetricSet |-> fetched[CHOOSE i \in DOMAIN Metrics : Metrics[i] = m]]
    /\ snapshotBy' = attempt /\ written' = attempt /\ fetched' = <<>>
    /\ UNCHANGED <<tables, redis, setBy, attempt, watermark>>

\* set_watermark("serving.redis").
MarkServing ==
    /\ Goes("serving", "write", "done")
    /\ watermark' = attempt
    /\ UNCHANGED <<tables, redis, setBy, snapshot, snapshotBy, written, fetched, attempt>>

-----------------------------------------------------------------------------
(* The end of a run.                                                       *)

WithoutRun(d, i) == SubSeq(steps[d], 1, i - 1) \o SubSeq(steps[d], i + 1, Len(steps[d]))

\* mutant: the outlet is on the task that starts the run
PublishEarly(d) ==
    /\ \E i \in DOMAIN steps[d] : steps' = [steps EXCEPT ![d] = WithoutRun(d, i)]
    /\ pending' = pending \cup Scheduled(Registry[d].out)
    /\ UNCHANGED <<inputs, tables, serving, dagFaults>>

\* publish: the last task, whose outlet is the dataset.
Publish(d) ==
    /\ \E i \in DOMAIN steps[d] :
          steps[d][i].at = "done" /\ steps' = [steps EXCEPT ![d] = WithoutRun(d, i)]
    /\ pending' = pending \cup Scheduled(Registry[d].out)
    /\ UNCHANGED <<inputs, tables, serving, dagFaults>>

\* The summary is appended under the id of its run, which is in the primary key:
\* once it is written, no other attempt of the run gets through.
Repeatable(d, i) == d = "analytics" => steps[d][i].at # "done"

\* An attempt fails, before or after what it wrote: the task starts again, or
\* the run ends without its event.
Fails(d) ==
    /\ DagFault
    /\ \E i \in DOMAIN steps[d] :
          \/ Repeatable(d, i) /\ steps' = [steps EXCEPT ![d][i] = Run("work")] /\ NewAttempt(d)
          \/ steps' = [steps EXCEPT ![d] = WithoutRun(d, i)] /\ UNCHANGED <<attempt, fetched>>
    /\ UNCHANGED <<inputs, pending, tables, redis, setBy, snapshot, snapshotBy, written, watermark>>

Work ==
    \/ "scd2" \in Dags /\ LoadSatellites
    \/ "staging" \in Dags /\ BuildViews
    \/ "vault" \in Dags /\ (SelectVault \/ ReplaceVault)
    \/ "marts" \in Dags /\ (BuildFacts \/ BuildMartKpis \/ BuildSnapshot)
    \/ "kpis" \in Dags /\ (SelectKpis \/ ReplaceKpis)
    \/ "dqc" \in Dags /\ RunTests
    \/ "quality" \in Dags /\ ExecuteChecks
    \/ "serving" \in Dags /\ (SetMetric \/ UpsertSnapshot \/ MarkServing)
    \/ (\E d \in Readers \cap Dags : Derive(d))

ChainNext ==
    \/ RawIngested
    \/ VaultLoaded
    \/ ExtensionsIngested
    \/ (\E d \in Dags : Start(d) \/ Publish(d) \/ Fails(d))
    \/ Work

-----------------------------------------------------------------------------
\* docs/PIPELINES.md: "serving.redis is updated after the dual write (Redis and
\* dwh_marts.redis_serving_snapshot)".  The attempt of the watermark has written
\* the snapshot, and every key has been set by an attempt that is no older than
\* the last one to write it.  The rows are those of that attempt unless a marts
\* run has built the table since, and while a key has not been set again, they
\* show the figure it has: also when the marts change under the loop and when
\* attempts stop half way.  Between runs, without failures, the watermark is the
\* attempt that has set the keys.
ServingIsSound ==
    /\ watermark <= written /\ snapshotBy \in {0, written}
    /\ \A m \in MetricSet :
          /\ written <= setBy[m]
          /\ snapshotBy # 0 /\ setBy[m] = snapshotBy => snapshot[m] = redis[m]
    /\ ("serving" \in Dags => steps["serving"] = <<>>) /\ dagFaults = 0 =>
          \A m \in MetricSet : setBy[m] = watermark

\* The schedules of the chain: when nothing failed and nothing is left to do,
\* each table shows what its inputs show, whatever runs were active together and
\* however events were joined: the vault all extension events and what was staged
\* last, with no less of the raw tables, the facts the vault, Redis and the
\* snapshot the facts, and the snapshot is the serving task's.  Two tables are
\* excepted as long as an older run of another writer has replaced the current
\* rows (raced): those of the vault, with two active runs, and the KPI model, with
\* two DAGs.
FreshAtRest ==
    /\ pending = {} /\ dagFaults = 0
    /\ \A d \in Dags : steps[d] = <<>>
    => /\ data["satellites"].stg = stgNow
       /\ extVault = extNow /\ ("vault" \in raced \/ Covers(data["vault"]))
       /\ data["facts"] = data["vault"] /\ ("kpis" \in raced \/ data["kpis"] = data["facts"])
       /\ \A m \in MetricSet : redis[m] = data["facts"] /\ snapshot[m] = data["facts"]
       /\ snapshotBy = attempt
       /\ \A d \in {"analytics", "finance"} \cap Dags : data[d] = data["facts"]
       /\ "ml" \in Dags => data["ml"].raw >= stgNow
=============================================================================
