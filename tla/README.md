# DataOpsShowcase: models, checks and proofs

This directory holds TLA+ models of the data platform in `src/`: how the
generators write the sources, how data gets from Kafka, the OLTP database and
MinIO into the warehouse, how it is staged and historised there, how Airflow
drives dbt over HTTP and one DAG through the events of another, how the results
are served, and how questions are answered through a queue. TLC checks the models on
small instances, TLAPS proves the central theorems for every value of the
constants. `PROJECT.json` names the lines of code behind each definition, the
runs, the mutants that each property detects, the findings, the hazards and the
theorems.

## 1. The system

Airflow (LocalExecutor, DAGs in `src/pipelines/dags`) runs tasks that call the
Python services in `src/services`. Tasks share no memory: they meet in
PostgreSQL (`raw`, `staging`, `vault`, `dwh_*`, `meta`), Redis, MinIO, Kafka and
in Airflow's dataset events. Every helper of `services/storage/postgres_io.py`,
`services/common/watermarks.py` and `services/common/run_metadata.py` opens a
connection, executes and commits, so each call is a transaction of its own and a
task is a sequence of transactions that can stop anywhere.

| Component | State it keeps | Operations | Talks to | What is hard |
|---|---|---|---|---|
| Kafka ingestion (`_kafka_common.py`, `microbatch_consumer.py`) | `raw.kafka_*`, offsets as JSON in `meta.pipeline_watermarks`, positions of a throw-away consumer group | `consume_topic`, run every 5 min with 3 retries | Kafka, DWH | failures between insert, watermark and commit; `assign` against group join; poison payloads |
| OLTP extract (`ingest_oltp_to_stg.py`) | `raw.oltp_*`, cursor `(ts, pk)` | `extract_table`, every 15 min, mapped over tables | OLTP, DWH | insert without `ON CONFLICT`, cursor stored later, equal timestamps, writers that commit late |
| MinIO ingestion (`ingest_minio_files_to_raw.py`) | manifest `raw.minio_files_landing` (`discovered`, `loaded`, `quarantined`), `staging.stg_minio_payments` | `discover_new_files`, mapped `ingest_file` | MinIO, DWH | cap of 200 files, crash after discovery, retry after quarantine |
| Spark preprocessing (`preprocess_orders_payments.py`) | `staging.stg_*` | sliding 2 h slice, upsert by primary key, four tables | DWH | rows outside the slice, tables written one after the other |
| Data Vault in Python (`services/vault/loaders.py`) | hubs, link, two SCD2 satellites | `load_hub`, `load_link`, `load_satellite_scd2`, `reconcile_late_arriving`, `validate_scd2` | staging, vault | late and tied versions, load and reconcile not atomic, staging moving meanwhile |
| dbt-rest server (`services/dbt_rest`) | `dbt_rest.runs`, one thread and one dbt process per run, artifacts on disk | `POST /runs`, `POST /jobs/run/{layer}`, `GET /runs/{id}`, `_worker` | Postgres, dbt | restarts, failing writes of the status, time limit |
| dbt client (`services/dbt_client`, `_dbt_common.py`) | run id in memory, `meta.pipeline_runs` | `run_dbt_layer` with 3 retries | dbt-rest | lost answers repeat a POST, deadline equal to the server's |
| Quality (`services/quality`) | `meta.dq_results` | `execute_checks`, gate on severity | DWH | the gate against a rebuilt mart |
| Serving (`services/serving`) | Redis keys, `redis_serving_snapshot`, watermark | `materialize_redis_and_snapshot` | DWH, Redis | dual write; dbt's marts build the snapshot table too |
| DAG chain (`pipelines/utils`) | Airflow's dataset event queue | publish tasks, AND/OR schedules, `max_active_runs` | all DAGs | events during a run, two DAGs on one table, skipped or failed links |
| NL2SQL (`services/nl2sql_app`) | Redis list and a hash per job with a TTL | `enqueue`, `get_status`, worker loop, `answer_question` | Redis, DWH, MLflow | popped jobs, stale job id in the error branch, worker death |
| Generators (`src/generators`) | tick counter, OLTP rows | ticks that write OLTP, Kafka, MinIO, Redis | sources | a failed tick leaves some sources written |
| Portal, Atlas sync, metrics, ML, Superset, dbt SQL | stateless or foreign state | rollups, publication, training, bootstrap | | see section 7 |

What makes each correct: an ingestion may read again but never skip, and
records progress only over what is stored; a status may be missing but never
wrong; a history has one current row and no overlap; a gate is passed only by a
run that passed the checks; a request that was accepted is eventually answered.

## 2. Modules

| Module | Models | State | Actions and code |
|---|---|---|---|
| `OffsetSink` | the promise of an ingestion from a partitioned log (abstract) | `log`, `stored`, `mark` | `Produce`, `Store`, `Mark` |
| `KafkaIngest` | `consume_topic` with its consumer | `log` Kafka; `raw`, `wm`, `meta` DWH; `committed` group positions; `pc`, `offsets`, `assigned`, `pos`, `batch`, `last`, `fetched` locals | `Start` start_run; `ReadOffsets` get_kafka_offsets and seek; `Poll`, `PollError`, `EndFetch` fetch; `Insert`; `SetOffsets`; `Commit`; `Finish`; `Fail` except branch; external `Produce`, `GroupAssign`, `Crash` |
| `KafkaIngestProofs` | theorems about it | | |
| `CursorSink` | the promise of an incremental extract over an order of rows (abstract) | `visible`, `late`, `copies`, `mark`, `frontier` | `Appear`, `LookAhead`, `Copy`, `Advance`, `GiveUp` |
| `OltpExtract` | `extract_table` for one table | `src` visible rows, `raw` copies, `wm` cursor, `meta`, `pc`, `batch`; history `late` | `Start`, `Fetch`, `Insert`, `SetWatermark`, `Finish`, `Fail`; external `Appear`, `Crash` |
| `OltpExtractProofs` | theorems about it | | |
| `SatelliteScd2` | one satellite, its hub and staging table | `stg`, `hub`, `sat`, `pc`, `meta`, `runs` (attempt number, the `load_dts` of its rows), `valid`, auxiliary `applied` | `LoadHub`, `Start`, `Load` (close and insert), `Reconcile`, `Finish`, `Fail`, `Validate`; external `Stage`, `Crash` |
| `SatelliteScd2Proofs` | theorems about it | | |
| `DbtRest` | an Airflow task, the client and the server with its threads | `row` table; `worker`, `dbt`, `verdict`, `tries` per thread; `task`, `posts`, `mine`, `late`, `meta`, `retries` client | task: `Begin`, `Post`, `PostRefused`, `Poll`, `Finish`, `Fail`, `Retry`; worker: `WorkerStart`, `MarkRunning`, `Launch`, `ReadFails`, `DbtExit`, `Overrun`, `LoadArtifacts`, `Persist`, `ForceTerminal`; external `WebPost`, `Deadline`, `ServerRestart` |
| `DbtRestProofs` | theorems about it | | |
| `MinioIngest` | `dag_ingest_minio_files_to_raw` | `object` bucket; `manifest`, `rows` DWH; `step`, `found`, `files`, `loading`, `broken` of the run; `published` | discovery: `ListObjects`, `InsertManifest`, `ReturnFiles`; a file: `StartFile`, `ReadFile`, `Stage`, `MarkLoaded`, `FinishFile`, `Quarantine`, `RecordFailure`; `PublishMinio`; external `Put`, `LoseWorker` |
| `MinioIngestProofs` | theorems about it | | |
| `StagingVault` | the Spark DAG with its job, hubs and links | `ingested` raw versions by time; `queued` events; `job`, `upper`; `staged`; `vault`, `hub`, `link` | `StartSpark`, `Precheck`, `WriteTable` one table's transaction, `Validate`, `PublishStg`, `SparkFails`; `StartVault`, `LoadHub`, `LoadLink`, `LinkFails`, `PublishVault`, `VaultFails`; external `Tick`, `Ingest`, `PublishRaw` |
| `DatasetChain` | the DAGs from `vault_loaded` to serving | `rawNow`, `stgNow`, `extNow` versions of raw, staging and extension tables; `pending` events, `steps` of active runs with what they have read; `data` versions a table shows, `extVault`, `raced`; `redis`, `setBy`, `snapshot`, `snapshotBy`, `written`, `fetched`, `attempt`, `watermark` of serving | `Start`, `Publish`, `Fails`; a task per layer: `LoadSatellites`, `BuildViews`, `SelectVault`, `ReplaceVault`, `BuildFacts`, `BuildMartKpis`, `BuildSnapshot`, `SelectKpis`, `ReplaceKpis`, `RunTests`, `ExecuteChecks`, `Derive`; serving: `SetMetric`, `UpsertSnapshot`, `MarkServing`; external `RawIngested`, `VaultLoaded`, `ExtensionsIngested` |
| `Warehouse` | the landing, the staging and the chain as one specification | `part` and their variables | `Next` a step of the module that the behaviour follows |
| `WarehouseProofs` | theorems about `StagingVault`, `DatasetChain` and `Warehouse` | | |
| `JobQueue` | the promise of a queue with one consumer (abstract) | `fresh`, `list`, `held` | `Accept`, `Reject`, `Deliver`, `Restart` |
| `Nl2Sql` | the question queue, its thread, the answer chain | `queue`, `stage`, `position` Redis; `request`, `handler`, `known` API; `worker`, `job`, `sql`, `vals`, `execs` thread; `model`, `registered` | API: `Ask`, `WriteHash`, `SetTtl`, `Push`; thread: `Pop`, `PopFails`, `ReadQuestion`, `Take`, `LoadModel`, `Retrieve`, `Generate`, `Validate`, `Execute`, `LogRun`, `Answer`, `Missing`, `OnError`; `Boot`; external `Expire`, `Kill`, `Register` |
| `Nl2SqlProofs` | theorems about it | | |
| `Generators` | `StreamingGenerator.run` and its connectors | `conn`, `orders`, `rows` OLTP; `buffer` producer; `sent` Kafka and MinIO; `pc`, `tick`, `todo`, `at`, `attempts`, `stop` | `Connect`, `SeedReference`, `SeedTable`; `StartTick`, `Clicks`, `InsertOrder`, `InsertItems`, `Announce`, `Pay`, `Ship`; `QueueFull`, `Recreate`, `PublishRaises`, `Flush`; `Emit`, `EmitRaises`, `MinioBatch`; `Stop`, `LastFlush`, `Ending`; external `Kill`, `Restart` |
| `GeneratorSettings` | how a setting of the generator is resolved | none, operators on sources | `PickBool`, `Merged`, `Overlaid`, `FirstFile` against `Documented` |
| `GeneratorsProofs` | theorems about both | | |
| `MC*` | instances for TLC | | values of the constants, symmetry sets |

How the modules meet. Tables and events are the only interfaces of the program,
and the modules cut there: `Generators` ends with what is in the OLTP database,
Kafka and MinIO, which `OltpExtract` (`Appear`), `KafkaIngest` (`Produce`) and
`MinioIngest` (`Put`) begin with; these publish what `StagingVault` takes as
`PublishRaw`; its `PublishVault` is `VaultLoaded` of `DatasetChain`, whose task
`scd2` is `SatelliteScd2` in detail and whose dbt tasks are each one `DbtRest`.
Every module takes the other side as free as the code leaves it.
`Warehouse` extends the three modules of the warehouse and follows one of them
in each behaviour: their variables are disjoint, so interleaving them would
multiply states and add no behaviour. Its `EachPart` is the theorem that a
behaviour of it is a behaviour of each of the three.

Three abstract modules say what a component promises whatever its transactions
look like, and the component is shown to implement them: `OffsetSink` for
`KafkaIngest` (`SinkSpec`), `CursorSink` for `OltpExtract` (`SinkSpec`) and
`JobQueue` for `Nl2Sql` (`QueueSpec`). In each the refinement mapping is the
`INSTANCE` at the end of the component's module. The frontier of `CursorSink` is
the last row of the query while an attempt holds it, and the cursor otherwise.
A job of `JobQueue` is fresh until its id was made and its request is over.

Conventions. A call to a server has one of three replies: `ok`, `refused` (not
applied, the caller sees an error) and `lost` (applied, the caller sees an
error). A transaction is one action. `MaxFaults` bounds how many calls fail and
how many crashes happen; it is a bound of the exploration, and the proofs hold
for every value of it. Operators whose comment says "mutant" are variants of the
operator that follows them, with a plausible bug; they are used in no
specification and are there to show that a property notices the bug.

Abstractions. Messages are a kind (`record`, `nonobject`, `undecodable`); rows of
OLTP tables are their cursor columns; versions of a satellite are key, instant
and hash. A payload that is not JSON but is UTF-8 is kept by the code as
`{"_raw": ...}` and counts as a record. Metrics and logging have their errors
swallowed and change nothing, so they are left out. `commit_offsets` polls once
before it commits; what that poll returns is dropped and read again by the next
run, so it is left out as well. `get_high_watermarks` feeds a metric only.

`KafkaIngest` in detail. The consumer group id is new in each attempt, so the
group has no committed offsets. With no stored offsets `seek_to_offsets` returns
at once and the subscription is served by the group: `GroupAssign` then assigns
every partition from the start. With stored offsets `assign()` replaces the
subscription; whether a join that is already under way may still replace that
assignment depends on the client library, and the constant `Reassigns` has both
answers. Safety is checked and proved with both, `WatermarkMonotone` and
progress only for the answer "no": the theorem has `~Reassigns` as hypothesis.

`DbtRest` in detail. `Mishaps` chooses what the environment may do: restarts,
disk errors (`makedirs`, reading artifacts and launching the process), output
that cannot be read or decoded (`output`), overruns of the time limit without
(`quiet overrun`) and with (`overrun`) captured output. `except Exception`
(`main.py:186`) is reached before dbt has started (`Launch`), while it runs, in
which case `subprocess.run` kills it (`ReadFails`), and after it has exited, with
either code (`DbtExit`). So `error` says only that dbt runs no more, and
`StatusIsTrue` speaks of its end for the other three statuses.
`RunSettles` counts a thread that ended by a restart or a disk error as
`killed`: the code does nothing for its row, and the task ends through its own
deadline (`TaskEnds`).

`SatelliteScd2` in detail. `UPDATE ... FROM` may join a row with several source
rows; PostgreSQL then uses one of them, which one is not defined. `EndChoices`
is that set. `load_dts` is `NOW()` of the transaction and unique per attempt.
Keys in `OrderedKeys` get versions with growing `effective_from`, the others get
any: earlier ones (the late arrivals the code is written for) and equal ones (an
order whose status changed keeps its `order_ts`; such a row comes in again when
a failed extract is repeated, and a changed salt changes every customer's hash).

`OltpExtract` in detail. Rows become visible in any order, since the timestamp is
the start of the writing transaction. One that comes at or before the cursor, or
at or before a row of the batch in hand, is never extracted, in the model as in
the code; `late` records these rows, and the properties speak of all others.

`MinioIngest` in detail. The mapped tasks write disjoint rows and are taken one
after the other. Only files under the payments prefix are staged; the others are
read and marked. Objects have rows: for an empty one the code skips the insert
(`ingest_minio_files_to_raw.py:141`) and marks it. The manifest is keyed by path
and never looked at again, while the generator puts an object of the same hour
or day again under its key: the new version is not loaded. `returns` are CSV
files that `ingestion.yaml:192` sends to the JSON reader.

`StagingVault` in detail. Time is a number; a raw version carries the time of
its transaction and becomes visible up to `Delay` later. A run takes the window
`[upper - Lookback, upper]`. `gapped` records that two successful runs were
further apart than the window; rows are then lost, in the model as in the code.
With `any_raw` an older slice may also overwrite newer rows in staging, so
`SliceCovers` speaks of `all_raw`, the default. `load_link` inserts all staged
orders in one statement, so one order without its hubs fails them all, and the
retries of the link do not load the hubs again: the next event does.

`DatasetChain` in detail. A table shows the versions that the last run to write it
has read: one of the raw tables and one of the staging tables, because the dbt
views read both. Most are over raw tables (`stg_orders.sql:20`,
`stg_order_items.sql:17`, `stg_products.sql:22`, `stg_payments.sql:26`), those of
the customers and of the MinIO payments over staging (`stg_customers.sql:16`,
`stg_payments.sql:42`). Raw rows therefore reach the vault with whatever run comes
next, without an event of their own (`RawIngested`), and the vault may be ahead of
the staging tables in what it shows of them, never behind (`Covers`). Which rows
the SQL of a model makes of what it read is left out: a business satellite, for
instance, inserts nothing for an `effective_from` that it has.

`dag_dbt_vault_rest` may have two runs, every other DAG of the chain one. An
incremental model selects into a temporary table (`SelectVault`, `SelectKpis`)
and then deletes and inserts (`ReplaceVault`, `ReplaceKpis`), so that of two runs
the older may write last: the bridges and the point-in-time tables of the vault,
and the table of daily KPIs, which the marts run and a run of its own build. Hubs
and satellites append; the hub of the extension events keeps what any run has
added, and no mart reads it. `raced` records the tables whose current rows an
older run has replaced. All of a layer's models are written in one step; that
the models of one run are written one after the other is left out except where
somebody else writes or reads in between: the marts write the facts, and then, in
either order, the KPI table and the serving snapshot.

`dwh_marts.redis_serving_snapshot` has two writers. The dbt model of that name has
`tag:marts` and is built anew from the facts by every marts run
(`dbt_rest.yaml:55`), without Redis and before the quality gate (`BuildSnapshot`);
the serving task upserts the same keys over these rows (`UpsertSnapshot`).
`snapshotBy` says whose rows they are. The training reads the view
`dwh_staging.stg_orders` over `raw.oltp_orders`; its fallback to
`staging.stg_orders`, when that read fails, is left out.
`analytics_summary.py` appends under a run id that is in the primary key, so an
attempt that fails after the append dooms its run (`Repeatable`).

`Nl2Sql` in detail. gunicorn has one synchronous worker, so one request is
handled at a time, beside the queue thread. `job` outlives its iteration like the
local variable `job_id`: when `blpop` raises, the error is written for the job
before. `validate_sql` raises `ValueError` for a refused statement, which is
corrected; sqlglot's `ParseError` is no `ValueError`, so a statement that
cannot be parsed fails at once, although `services/nl2sql_app/README.md:76`
speaks of up to two attempts.

`Generators` in detail. The connection is in autocommit and opened once: after
it is lost every tick fails at its first statement until the process is
restarted. The producer's reports are not read, so which buffered messages were
sent is chosen when a flush, a new producer or the end of the process settles
it. Users and products are upserted, sellers are inserted once more by every
life of the process. Extensions are enabled, as is every sink but the OLTP
database, which may be off by the settings.

## 3. Runs

| Run | Bounds | States | Shows |
|---|---|---|---|
| `KafkaIngest_safety` | 2 partitions, 3 kinds, 2 messages per run, 2 entries per partition, 2 faults, reassignments | 37 000 | watermark, table and committed positions agree in every interleaving; refinement of `OffsetSink`, so also a table without holes |
| `KafkaIngest_live` | 2 partitions, 3 entries, 2 messages per run, 2 faults | 24 000 | the watermark never moves back; a tracked partition is read to its end |
| `OltpExtract_cursor` | 3 keys, 2 timestamps, commits in any order, batches of 2, 2 faults | 187 000 | nothing is skipped but what came too late, copies come from faults only, every other row arrives; refinement of `CursorSink` |
| `OltpExtract_full` | the same without watermark column, no faults | violation | a second run copies the table again |
| `SatelliteScd2_safety` | 2 keys (one ordered), 2 hashes, 3 instants, 3 attempts, 1 fault | 1 260 000 | one current row, no overlap; for ordered keys at every moment, and harmless reruns |
| `SatelliteScd2_rerun` | 1 key, 2 hashes, 2 instants, 3 attempts, no faults | violation | a tie makes reruns insert for ever |
| `DbtRest_safety` | 4 run ids, 2 POST attempts, 1 Airflow retry, 2 writes, 3 faults, all mishaps, 1 run from the web (which takes one of the ids) | 3 856 000 | success, failed and timeout tell how dbt ended, terminal statuses are final |
| `DbtRest_live` | 2 run ids, 1 retry, 2 writes, 2 faults | 36 000 | the task ends, runs with a live thread settle |
| `DbtRest_overrun` | 1 run id, 1 overrun | violation | the run stays `running` |
| `Nl2Sql_queue` | 2 questions, 2 validation and 2 execution attempts, 3 faults | 184 000 | no job is forgotten without a lost pop or a kill, positions and final states hold, every job settles; refinement of `JobQueue` |
| `Generators_run` | 2 orders, 2 ticks, 2 lives of the process, 2 publish attempts, 1 fault | 417 000 | what is announced is stored, seeds come once, a stop is clean and ends |
| `Warehouse` | landing: 3 files, cap 2, 2 versions, 2 faults; staging: 2 raw datasets, a customer, its order and an event of the order, late commits, 1 fault; chain: 2 versions of the raw tables or events of the extensions, 2 metrics, 1 fault | 3 321 000 | the manifest is true, slices lose nothing and the vault settles, Redis, snapshot and watermark stay in order, at rest each table shows what its inputs show |

Why the bounds are enough. Two partitions give a partition with and one without
news in the same batch, and a batch that ends inside a partition (2 messages of
4). Two or three entries give a batch that starts after a stored one and one
left for the next run. Two timestamps and three keys give ties within and across
a batch of two. Three instants give a version between two others, one before all
and a tie; three attempts give a load, a changed load and a rerun; one crash
falls between any two transactions. Four run ids are all that two attempts with
two POSTs can make; two writes and three faults exhaust both writes and the
fallback. Two questions and three faults give a lost pop after a finished job
and a kill with one waiting. Three files with a cap of two give one beyond the
cap, and two faults a failed attempt and a failed retry. A window of two with
time to three gives a row on each side of it; the validation of the staging
counts customers and orders only, so a row that a slice misses shows in the
events. That a row comes twice was tried in a larger instance (10 400 000
states, no violation) and is proved for any number of versions. The chain runs
without the finance demo and the training, which change nothing that anybody
else reads; with both, one metric and no fault it has 4 948 000 states and no
violation, and a vault overwritten by an older run (`raced`) is among those at
rest, so the exception is not there for nothing. Two raw versions, of which
none, one or both are staged, and two runs of the vault layer give an event
during a run, joined events, a vault ahead of the staging tables and two runs
side by side, the older one writing last; the first metric is read before a mart
changes and the second after it, and a marts run may build the snapshot before,
between and after the steps of the serving task. Two lives give a restart after
any seed. Where several run ids, partitions, datasets or hashes are
interchangeable and the run has no liveness property, symmetry is used.

`CHECK_DEADLOCK FALSE` is set for `DbtRest` (the task is over, all threads are
gone), for `SatelliteScd2` and `OltpExtract_full` (the attempts or copies of the
bound are used up), for `Nl2Sql` (all questions asked and answered), for
`Generators` (the process was stopped) and for `Warehouse` (time, versions and
events of the bound are used up). The other runs check for deadlock: the next
scheduled run can always start.

Fairness. `WF(Task)`: Airflow starts the DAG on its schedule and a started
Python task executes its next statement; every attempt is one process.
`KafkaIngest` adds `WF` of the group join and of each partition's poll, as
librdkafka serves all assigned partitions. `DbtRest` adds `WF` of each thread
(dbt exits, or `subprocess.run` kills it) and of the client's clock. `Nl2Sql`
has `WF` of the queue thread, whose calls answer or raise, and of the start of
the process, which Docker restarts; `Generators` has `WF` of the process only,
not of its restart. `Warehouse` checks safety and needs none. Producers,
writers, faults, crashes, restarts and reassignments have no fairness. Faults
are finitely many in the runs, so liveness means: once failures stop, the system
catches up.

## 4. Findings

1. `DbtRest_overrun`: `services/dbt_rest/app/main.py:183` joins `exc.stdout` with
   a string; `TimeoutExpired` carries bytes, also with `text=True`, so the
   handler raises as soon as dbt has printed something and the row stays
   `running`. `docs/API.md:15` says rows do not hang in `running`.
2. `SatelliteScd2_rerun`: a changed version with an unchanged `effective_from`
   leaves the key without a current row, and every further run inserts it again.
   `docs/PIPELINES.md:79,115` calls reruns safe. `validate_scd2` and the check
   `scd2_one_current` do not see it, they look for more than one.
3. `OltpExtract_full`: `order_items` has no watermark column, every run copies the
   same rows again and never reaches those after the first 5000.
   `docs/PIPELINES.md:114` excludes duplicates in `raw.*`.

Seen while modelling, without a run: the checks of `configs/pipeline/dq_checks.yaml:55`
and the index maintenance of `serving.yaml:6` name `marts.fct_orders` and
`marts.dim_customers`, which `04_dwh_extensions.sql:399` creates and nothing
writes, while dbt builds `dwh_marts`; the gate in front of serving
(`docs/PIPELINES.md`) therefore never sees what is served. The dbt layer `dqc`
selects a single test. Every marts run replaces the serving snapshot by ungated
figures that Redis has only after the next serving run, so dashboards on the
snapshot run ahead of those on Redis until then. When two runs of the vault layer
overlap and the older one writes last, its bridges and point-in-time tables stay
until the next event. And `train_order_value_model.py:96` says raw OLTP is not
used, while the view it reads is over `raw.oltp_orders`.

## 5. Proofs

`KafkaIngestProofs` assumes `KafkaAssumption` only (the constants have their
types). The properties are not inductive: that the watermark is covered after
`SetOffsets` depends on what the batch, `last` and the offsets read at the start
mean at that point. `IInv` adds, next to the properties: what the fetched batch
is (`last` is its greatest offset, everything between the resumed position and
`pos` is in it, it holds only messages that `Poll` accepts), that all below the
position the fetch began at is stored, and what holds at each location of the
task (after `Insert` the batch is stored, after `SetOffsets` the watermark
covers it). `StepInv` shows, action by action, that each step preserves it. From
it follow `WatermarkIsCovered`, `TableHasNoHoles`, `CommitFollowsInsert`,
`SuccessMeansDurable` and `RowsAreAccepted`, and `Refinement`: every step is a
`Produce`, `Store` or `Mark` of `OffsetSink` or leaves its variables alone.
(`NoHoles` and `WatermarkCovered` are consequences of `OffsetSink`; the run
checks the second also by itself.) `WatermarkNeverMovesBack` has an invariant of
its own, `ReadsOn`: until an attempt writes its watermarks they are as it read
them, and it reads on from there, so what `SetOffsets` merges is no older.
`UntrackedIsNeverRead` is the other side of `TrackedPartitionCatchesUp`: a
partition that has no offset when another one has is assigned by no later
attempt (`ReadsStored`), so it gets neither rows nor an offset, however much is
sent to it. `SuccessMovesOn` is the step that catching up is made of: a
successful run that fetched anything has moved a watermark on. The three
theorems have the hypothesis `~Reassigns`: a reassignment reads every partition
from its start.

`OltpExtractProofs` assumes `OltpAssumption`; `CopiesNeedFaults` and `Refinement`
also assume `Watermarked`, as the run has it: a table without a cursor is copied
again by every run (`OltpExtract_full`). `LastExists` shows that a batch has a
last row, from the well-foundedness of strict inclusion on finite sets (the sets
of later rows), so without an induction over data, and `QueryHasNoGap` that the
`LIMIT` cuts only at the end. `BatchInv` says that the batch lies after the cursor
and is stored before the cursor moves, `OrderInv` that but for late rows the
batch has no gap and what is behind the cursor is stored, `CopyInv` that a row
beyond the cursor was paid for with a failure each time it was copied.
`CursorIsCovered` follows without an assumption on the order of commits, because
`late` is decided by what the attempt holds when the row comes.
`TooLateIsBehindFrontier` shows that this is what `CursorSink` calls late, and one
lemma per task step that it looks ahead, copies exactly the rows in hand, or
moves the mark over stored rows; every failure in between is a `GiveUp`.

`SatelliteScd2Proofs` assumes `ScdAssumption`. `ReconciledIsClean` is the heart:
for any set of rows the reconciliation leaves at most one current row per key
and closes every row before its next version starts, whichever of the admissible
ends PostgreSQL picks. The inductive invariant says that this holds at `finish`,
`validate` and while `meta` is `success`, which the next `Start` ends; `Load` is
not enabled there. `AtMostOneCurrent` and `VersionsDoNotOverlap` follow.
For keys whose versions arrive in order more holds, and at every moment:
`OrderedInv` says that the rows of the key form a chain (one current row, the
latest, with the hash of what was loaded last) to which a load appends and which
the reconciliation leaves alone. From it follow `ReadersFindOne`,
`HistoryIsContiguous` and the action property `RerunIsHarmless`.

`DbtRestProofs` assumes `DbtAssumption`, of which it uses that `MaxWeb` is a
natural number. `RunInv` relates, for each place of a worker thread, its row, its
dbt process and the verdict it carries: before `MarkRunning` dbt was never
started and the row is not terminal, and from `LoadArtifacts` on the row is
non-terminal or already the verdict, which for `success`, `failed` and `timeout`
tells how dbt ended, and dbt runs no more. So every write
of the retries and of the fallback writes the same value, and `TerminalStatusStays`
and `StatusTellsTheEnd` follow; a killed thread writes nothing. `TaskInv` adds that
a task about to finish follows a run whose row is `success`, which stays so.

`Nl2SqlProofs` assumes `Nl2SqlAssumption`. `Safe` keeps the list, the request
being handled and the job of the thread apart: an id on the list is `queued` or
`expired` and not the one the thread has, the id being enqueued is nowhere else
and known to nobody, and the job of a busy thread is not finished. All steps of
the thread between a pop and the end of the job have one shape (`Reported`), so
`ReportedKeeps` shows once for ten actions what they preserve.
`KnownJobsAreNotForgotten`, `RecordedPositionHolds` and `FinishedJobsStay` follow,
and `Refinement`: a push is an `Accept`, a request that ends before it a `Reject`,
a pop with or without its answer a `Deliver`, a kill a `Restart`. `HandedOutOnce`
draws the conclusion for the code: a job that has left the list never comes back
to it nor into the hands of the thread, so a question is answered once at most
and may be lost (`forgotten`), never the other way round.

`GeneratorsProofs` assumes `GeneratorAssumption` (at least one life and one
attempt of a publish). `SettingsPrecedence` goes through the sources from the
strongest to the weakest; each case needs only the layers above it. It is the
documented order (`docs/Generators.md`), where the code has two merges and a
choice of the first file with anything in it. `GenInv` adds to the types where
the start-up is (`StartUp`: which tables a place of the start-up has behind it,
so that a seed that is gated on an empty table runs once and the sellers at most
once per life) and the order at hand (`OrderAtHand`: between its insert and its
last announcement it is the newest one, and complete before it is announced).
`NothingAnnouncedUnstored` follows. `CleanRun` follows a run without a failed
call: every order but the one at hand is complete and told, and the buffer is
empty after the last flush. `StopIsClean` has `MaxFaults > 0` as hypothesis,
because an exhausted publish has to be counted for "no failed call" to mean it.

`MinioIngestProofs` assumes `MinioAssumption` (keys of a bucket are unique).
`RunInv` says who holds which file, `LoadInv` that rows are staged before a file
is marked and a file marked before its task lets go of it, `PublishInv` that what
is published is not found again, and `OnItsWay` that without a failure and below
the cap every discovered file is in the hands of the run. `FirstFilesFit` counts
what the cap lets through. `ManifestTells` follows, for any bucket and cap.

`WarehouseProofs` has two halves. The staging assumes `StagingAssumption` (at
least one raw dataset triggers the job, and rows become visible within the
window). A run looks only at time stamps; that it never takes a table back is
shown from the ends of the runs, which do not decrease, and the stamps of a row,
which increase (`WindowInv`), and that it misses nothing from the delay of the
writers: what is older than `Delay` when the window is taken is visible when its
table is written (`RunCovers`). `VaultInv` says that without a failure the run of
the vault that follows the last staging run has every hub and then every link.
`StagingSound` follows. The chain assumes `ChainAssumption` (the metrics of
`serving.yaml` are distinct and at least one). `InputsInOrder` says that nothing
is newer than what it was computed from, `DualWrite` where an attempt of the
serving task is: the attempts of the watermark, of the rows and of the keys are in
this order, what the loop has fetched Redis has, and a row of the task is what
Redis has as long as the key was not set again; a marts run in between takes the
rows and says so (`snapshotBy = 0`). `ServingInOrder` follows. For
`FreshInTheEnd` the invariant `FreshInv` says of every table that it shows what
its inputs show or that someone is still to compute it: its own DAG has an event
or has not read yet, or a DAG upstream has an event or a run and will announce;
for the vault also that a run has read the newest rows and not written them, and
for the vault and the KPI table that `raced` is set. `Onward` is the reason that
no step loses this: a DAG that is no more to come has told the DAGs behind it.
It assumes `Core \subseteq Dags`, that none of the DAGs
from the vault to serving is paused; the readers (analytics, finance, training)
may be.

The theorems about the landing, the staging and the chain are about each by
itself (`MinioSpec`, `StagingSpec`, `ChainSpec`). `EachPart` shows that the
composition implements all three, so they hold of the specification that the run
`Warehouse` checks: `TypeCorrect`, `WarehouseIsSound` and, with the core DAGs not
paused, `WarehouseIsFresh`.

Only model-checked: liveness (`TrackedPartitionCatchesUp`, `EveryRowExtracted`,
`TaskEnds`, `RunSettles`, `Settles`, `StopEnds`), because TLAPS has no support for
`ENABLED` and fairness. Every other property of a passing run is a theorem. No
module uses recursion; induction over data would be beyond the installed provers.

## 6. Plan

The modules are written, their safety is proved, and the three components with an
abstract specification are proved to implement it. What a further step would
take up, in this order: that the task `scd2` of `DatasetChain` is what
`SatelliteScd2` does when an attempt succeeds, and each of its dbt tasks what
`DbtRest` does; and the steps behind liveness that need no fairness, such as a
bound on the attempts of a thread of `DbtRest` that every step uses up.

## 7. Not modelled

Portal (stateless rollup), Atlas synchronisation (one-way publication), metrics
(write-only), ML training (numerical), Superset bootstrap (declarative), the CDC
stream (its state is Spark's checkpoint), the columns and SQL of dbt models
(another engine), containers, configuration and scripts (deployment). Of the
analytics, finance and training jobs only their place in the chain is modelled.
In the modelled parts: the endpoints of dbt-rest that only read;
`partial_success`, which the server never reports; the branch of `extract_table`
for a watermark without a primary key, which no entry of `ingestion.yaml` uses;
the SQL of each quality check and its row in `dq_results`; the contents of
generated records.
