---------------------------- MODULE StagingVault ----------------------------
(***************************************************************************)
(* From the raw layer to the hubs and links: dag_spark_preprocess_to_stg   *)
(* with its job spark/jobs/preprocess_orders_payments.py, and              *)
(* dag_load_datavault with services/vault/loaders.py.                      *)
(*                                                                         *)
(* The raw tables only grow: a version of a row has the time of the        *)
(* transaction that wrote it (ingested_at) and is visible at most Delay    *)
(* later.  An ingestion run publishes its dataset with the end of its data *)
(* interval; Spark reads the window of Lookback before the latest end that *)
(* triggered it.  Airflow keeps one run of a DAG active and joins the      *)
(* events that arrive meanwhile.  Spark and the vault run side by side on  *)
(* the same staging tables.                                                *)
(***************************************************************************)
EXTENDS Integers, Sequences, FiniteSets

CONSTANTS
    Raw,            \* the raw datasets, raw_four_tuple
    Mode,           \* spark_preprocess_mode: "all_raw" or "any_raw"
    RowsOf,         \* RowsOf[t]: keys of a staging table
    CustomerOf,     \* CustomerOf[o]: the customer of an order
    Lookback,       \* SPARK_PREPROCESS_LOOKBACK_HOURS
    Delay,          \* bound: time from ingested_at to the commit
    MaxNow,         \* bound: time
    MaxRowVersions, \* bound: MaxRowVersions[r], versions of a row
    MaxStgFaults    \* bound: attempts that fail

Tables == {"customers", "orders", "order_events", "payment_events"}
Rows   == UNION {RowsOf[t] : t \in Tables}

ASSUME StagingAssumption ==
    /\ Raw # {}
    /\ Mode \in {"all_raw", "any_raw"}
    /\ CustomerOf \in [RowsOf["orders"] -> RowsOf["customers"]]
    /\ {Lookback, Delay, MaxNow, MaxStgFaults} \subseteq Nat
    /\ MaxRowVersions \in [Rows -> Nat]
    /\ Delay < Lookback

VARIABLES
    now,        \* the time
    ingested,   \* ingested[r]: ingested_at of the visible versions of a raw row
    ended,      \* ended[s]: end of the last interval that a raw dataset was published for
    queued,     \* queued[s]: that end while Spark has not been triggered by it, else 0
    job,        \* the Spark run: "idle", its task or its next table
    upper,      \* ts_upper of the run
    counted,    \* tables that precheck_inputs has found rows in
    staged,     \* staged[r]: version in the staging table, 0 when there is none
    cover,      \* latest ts_upper of a successful run
    gapped,     \* two successful runs were too far apart for the window
    stgClean,   \* an event of DS_STG_CLEAN has not triggered the vault yet
    vault,      \* the vault run: "idle", "hubs", "link" or "summary"
    hubsLeft,   \* hubs that the run has still to load
    hub,        \* keys in the hubs
    link,       \* orders with a row in link_customer_orders
    stgFaults

raw         == <<now, ingested, ended>>
spark       == <<job, upper, counted, cover, gapped>>
load        == <<vault, hubsLeft, hub, link>>
stagingVars == <<raw, queued, spark, staged, stgClean, load, stgFaults>>

Times == 0..MaxNow
Hubs  == {"customers", "orders"}

StagingTypeOK ==
    /\ now \in Times /\ ended \in [Raw -> Times] /\ queued \in [Raw -> Times]
    /\ \A r \in Rows : ingested[r] \in Seq(Times) /\ Len(ingested[r]) <= MaxRowVersions[r]
    /\ job \in {"idle", "precheck", "validate", "publish"} \cup Tables
    /\ upper \in Times /\ cover \in Times /\ gapped \in BOOLEAN
    /\ counted \subseteq Hubs
    /\ \A r \in Rows : staged[r] \in 0..MaxRowVersions[r]
    /\ stgClean \in BOOLEAN
    /\ vault \in {"idle", "hubs", "link", "summary"} /\ hubsLeft \subseteq Hubs
    /\ hub \subseteq RowsOf["customers"] \cup RowsOf["orders"] /\ link \subseteq RowsOf["orders"]
    /\ stgFaults \in 0..MaxStgFaults

StagingInit ==
    /\ now = 0 /\ ended = [s \in Raw |-> 0] /\ queued = [s \in Raw |-> 0]
    /\ ingested = [r \in Rows |-> <<>>]
    /\ job = "idle" /\ upper = 0 /\ counted = {} /\ cover = 0 /\ gapped = FALSE
    /\ staged = [r \in Rows |-> 0] /\ stgClean = FALSE
    /\ vault = "idle" /\ hubsLeft = {} /\ hub = {} /\ link = {}
    /\ stgFaults = 0

StgFault == stgFaults < MaxStgFaults /\ stgFaults' = stgFaults + 1

-----------------------------------------------------------------------------
(* External: time, the ingestion DAGs and their scheduler.                 *)

Tick == now < MaxNow /\ now' = now + 1
        /\ UNCHANGED <<ingested, ended, queued, spark, staged, stgClean, load, stgFaults>>

\* An ingestion commits the next version of a row.
Ingest(r) ==
    /\ Len(ingested[r]) < MaxRowVersions[r]
    /\ \E at \in {t \in Times : now - Delay <= t /\ t <= now} :
          /\ \A i \in DOMAIN ingested[r] : ingested[r][i] < at
          /\ ingested' = [ingested EXCEPT ![r] = Append(@, at)]
    /\ UNCHANGED <<now, ended, queued, spark, staged, stgClean, load, stgFaults>>

\* The run of an interval that is over publishes its dataset.
PublishRaw(s) ==
    /\ \E end \in Times :
          /\ ended[s] < end /\ end <= now
          /\ ended' = [ended EXCEPT ![s] = end]
          /\ queued' = [queued EXCEPT ![s] = end]
    /\ UNCHANGED <<now, ingested, spark, staged, stgClean, load, stgFaults>>

-----------------------------------------------------------------------------
(* dag_spark_preprocess_to_stg.                                            *)

\* spark_preprocess_schedule: all four datasets, or one of them.
Triggered == IF Mode = "any_raw" THEN \E s \in Raw : queued[s] > 0 ELSE \A s \in Raw : queued[s] > 0

\* data_interval_end of a run is the latest of the events it consumes.
IntervalEnd == CHOOSE e \in {queued[s] : s \in Raw} : \A s \in Raw : queued[s] <= e

StartSpark ==
    /\ job = "idle" /\ Triggered
    /\ job' = "precheck" /\ upper' = IntervalEnd
    /\ queued' = [s \in Raw |-> 0]
    /\ UNCHANGED <<raw, counted, cover, gapped, staged, stgClean, load, stgFaults>>

\* precheck_inputs counts the raw rows; only users and orders matter later.
Precheck ==
    /\ job = "precheck"
    /\ job' = "customers"
    /\ counted' = {t \in Hubs : \E r \in RowsOf[t] : ingested[r] # <<>>}
    /\ UNCHANGED <<raw, queued, upper, cover, gapped, staged, stgClean, load, stgFaults>>

SlicedFromLastRun(r) ==     \* mutant: the window starts where the last run ended
    {i \in DOMAIN ingested[r] : cover < ingested[r][i] /\ ingested[r][i] <= upper}

\* _slice_filter: the versions of a row in the window.
Sliced(r) == {i \in DOMAIN ingested[r] : upper - Lookback <= ingested[r][i] /\ ingested[r][i] <= upper}

\* The row number over ingested_at keeps the newest version of the slice; the
\* upsert takes it, whatever is in staging.
Upserted(t) == [r \in Rows |-> IF r \in RowsOf[t] /\ Sliced(r) # {}
                               THEN CHOOSE i \in Sliced(r) : \A j \in Sliced(r) : j <= i
                               ELSE staged[r]]

\* The order in which main writes the tables.
AfterTable == [customers |-> "orders", orders |-> "order_events", order_events |-> "payment_events",
               payment_events |-> "validate"]

\* build_stg_* and _write_incremental_upsert of one table: read and committed
\* on its own.
WriteTable ==
    /\ job \in Tables
    /\ staged' = Upserted(job)
    /\ job' = AfterTable[job]
    /\ UNCHANGED <<raw, queued, upper, counted, cover, gapped, stgClean, load, stgFaults>>

\* validate_stg: raw rows were counted and the staging table is empty.  The
\* check fails again when it is retried.
Empty == {t \in counted : \A r \in RowsOf[t] : staged[r] = 0}

Validate ==
    /\ job = "validate"
    /\ job' = IF Empty = {} THEN "publish" ELSE "idle"
    /\ UNCHANGED <<raw, queued, upper, counted, cover, gapped, staged, stgClean, load, stgFaults>>

\* publish_signal and the success of the run.
PublishStg ==
    /\ job = "publish"
    /\ job' = "idle" /\ stgClean' = TRUE
    /\ cover' = IF upper > cover THEN upper ELSE cover
    /\ gapped' = (gapped \/ upper - Lookback > cover - Delay)
    /\ UNCHANGED <<raw, queued, upper, counted, staged, load, stgFaults>>

\* An attempt fails, also when the table at hand was already committed: the task
\* starts again, Spark from its first table, or it was the last attempt and the
\* run ends.
TaskStart == IF job \in Tables THEN "customers" ELSE job

SparkFails ==
    /\ job # "idle" /\ StgFault
    /\ staged' \in {staged} \cup {Upserted(t) : t \in {job} \cap Tables}
    /\ job' \in {TaskStart, "idle"}
    /\ UNCHANGED <<raw, queued, upper, counted, cover, gapped, stgClean, load>>

-----------------------------------------------------------------------------
(* dag_load_datavault.                                                     *)

StagedOf(t) == {r \in RowsOf[t] : staged[r] > 0}

StartVault ==
    /\ vault = "idle" /\ stgClean
    /\ vault' = "hubs" /\ hubsLeft' = Hubs /\ stgClean' = FALSE
    /\ UNCHANGED <<raw, queued, spark, staged, hub, link, stgFaults>>

\* load_hub: INSERT ... SELECT ... ON CONFLICT DO NOTHING.  The two hubs are
\* parallel tasks.
LoadHub(t) ==
    /\ vault = "hubs" /\ t \in hubsLeft
    /\ hub' = hub \cup StagedOf(t)
    /\ hubsLeft' = hubsLeft \ {t}
    /\ vault' = IF hubsLeft' = {} THEN "link" ELSE "hubs"
    /\ UNCHANGED <<raw, queued, spark, staged, stgClean, link, stgFaults>>

\* load_link: one INSERT of every staged order.  Its foreign keys need both
\* hubs, so one order without them fails them all.
Linkable == \A o \in StagedOf("orders") : {o, CustomerOf[o]} \subseteq hub

LoadLink ==
    /\ vault = "link" /\ Linkable
    /\ link' = link \cup StagedOf("orders")
    /\ vault' = "summary"
    /\ UNCHANGED <<raw, queued, spark, staged, stgClean, hubsLeft, hub, stgFaults>>

\* The retries repeat the link and not the hubs; they change nothing, and the
\* last one ends the run.
LinkFails ==
    /\ vault = "link" /\ ~Linkable
    /\ vault' = "idle"
    /\ UNCHANGED <<raw, queued, spark, staged, stgClean, hubsLeft, hub, link, stgFaults>>

\* vault_summary and the event, which DatasetChain starts from.
PublishVault ==
    /\ vault = "summary"
    /\ vault' = "idle"
    /\ UNCHANGED <<raw, queued, spark, staged, stgClean, hubsLeft, hub, link, stgFaults>>

\* A statement fails before or after its commit; the run goes on with a retry,
\* or ends.
VaultFails ==
    /\ vault # "idle" /\ StgFault
    /\ hub' \in {hub} \cup {hub \cup StagedOf(t) : t \in hubsLeft}
    /\ link' \in {link} \cup (IF vault = "link" /\ Linkable THEN {link \cup StagedOf("orders")} ELSE {})
    /\ vault' \in {vault, "idle"}
    /\ UNCHANGED <<raw, queued, spark, staged, stgClean, hubsLeft>>

Spark == StartSpark \/ Precheck \/ WriteTable \/ Validate \/ PublishStg \/ SparkFails
Load  == StartVault \/ (\E t \in Hubs : LoadHub(t)) \/ LoadLink \/ LinkFails \/ PublishVault \/ VaultFails

StagingNext ==
    \/ Tick
    \/ (\E r \in Rows : Ingest(r))
    \/ (\E s \in Raw : PublishRaw(s))
    \/ Spark
    \/ Load

-----------------------------------------------------------------------------
\* preprocess_orders_payments.main: "bounded slice [ts_lower, ts_upper]; upserts
\* into staging".  When the successful runs follow each other closer than the
\* window, no raw version is lost and none is replaced by an older one: rows
\* that became visible before the last successful run read them are in staging,
\* although a run only looks at the time stamps, and whatever was retried.
SliceCovers ==
    Mode = "all_raw" /\ ~gapped =>
        \A r \in Rows : \A i \in DOMAIN ingested[r] : ingested[r][i] + Delay < cover => staged[r] >= i

\* The link stays behind the staged orders only while a run is missing: the
\* event that follows a change of staging makes up for a link load that found
\* orders whose hubs were not loaded yet.
VaultSettled ==
    /\ job = "idle" /\ vault = "idle" /\ ~stgClean /\ stgFaults = 0
    /\ \A o \in StagedOf("orders") : staged[CustomerOf[o]] > 0
    => link = StagedOf("orders")

\* The vault is referentially whole at every step.
LinkHasHubs == \A o \in link : {o, CustomerOf[o]} \subseteq hub

StagingIsSound == SliceCovers /\ VaultSettled /\ LinkHasHubs
=============================================================================
