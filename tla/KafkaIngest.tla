---------------------------- MODULE KafkaIngest ----------------------------
(***************************************************************************)
(* Micro-batch ingestion of one Kafka topic into its raw.* table:          *)
(* consume_topic (pipelines/dags/ingestion/_kafka_common.py), the consumer *)
(* it drives (services/kafka/microbatch_consumer.py) and the JSON offsets  *)
(* it keeps in meta.pipeline_watermarks (services/common/watermarks.py).   *)
(*                                                                         *)
(* Every call to Postgres is a transaction of its own, so the task can die *)
(* or see an error between any two of them; an error can also reach the    *)
(* task after the server has applied the call.  The DAG runs one attempt   *)
(* at a time (max_active_runs=1); an attempt that fails is followed by a   *)
(* retry or by the next scheduled run, which start the same way.           *)
(***************************************************************************)
EXTENDS Integers, Sequences

CONSTANTS
    Partitions,        \* partitions of the topic
    Kinds,             \* payload kinds the producers emit
    RejectsNonObject,  \* the record builder fails on a JSON value that is no object
    Reassigns,         \* a group join may replace an assignment made by assign()
    MaxMessages,       \* max_messages_per_run
    MaxLog,            \* bound: entries per partition
    MaxFaults          \* bound: errors, crashes and reassignments of a behaviour

ASSUME KafkaAssumption ==
    /\ Kinds \subseteq {"record", "nonobject", "undecodable"}
    /\ RejectsNonObject \in BOOLEAN
    /\ Reassigns \in BOOLEAN
    /\ MaxMessages \in Nat \ {0}
    /\ MaxLog \in Nat
    /\ MaxFaults \in Nat

None == -1             \* no offset: the key is missing from the JSON object

VARIABLES
    log,        \* log[p]: Kafka partition, offset o at index o + 1
    raw,        \* raw[p]: kafka_offset values of the partition in raw.*
    wm,         \* wm[p]: stored offset in meta.pipeline_watermarks
    committed,  \* committed[p]: next position last committed to a consumer group
    meta,       \* status of the attempt's row in meta.pipeline_runs
    pc,         \* where consume_topic is
    offsets,    \* offsets[p]: what get_kafka_offsets returned
    assigned,   \* partitions the consumer reads
    pos,        \* pos[p]: next offset to fetch
    batch,      \* batch[p]: offsets fetched by this attempt
    last,       \* last[p]: MicroBatchResult.last_offsets
    fetched,    \* len(MicroBatchResult)
    faults      \* faults so far

dwh      == <<raw, wm, meta>>
consumer == <<assigned, pos, batch, last, fetched>>
vars     == <<log, dwh, committed, pc, offsets, consumer, faults>>

Locations == {"idle", "offsets", "fetch", "insert", "watermark", "commit", "finish", "failing"}

TypeOK ==
    /\ log \in [Partitions -> Seq(Kinds)]
    /\ raw \in [Partitions -> SUBSET Nat]
    /\ wm \in [Partitions -> Nat \cup {None}]
    /\ committed \in [Partitions -> Nat]
    /\ meta \in {"none", "running", "success", "failed"}
    /\ pc \in Locations
    /\ offsets \in [Partitions -> Nat \cup {None}]
    /\ assigned \in SUBSET Partitions
    /\ pos \in [Partitions -> Nat]
    /\ batch \in [Partitions -> SUBSET Nat]
    /\ last \in [Partitions -> Nat \cup {None}]
    /\ fetched \in Nat
    /\ faults \in Nat

Init ==
    /\ log = [p \in Partitions |-> <<>>]
    /\ raw = [p \in Partitions |-> {}]
    /\ wm = [p \in Partitions |-> None]
    /\ committed = [p \in Partitions |-> 0]
    /\ meta = "none"
    /\ pc = "idle"
    /\ offsets = [p \in Partitions |-> None]
    /\ assigned = {}
    /\ pos = [p \in Partitions |-> 0]
    /\ batch = [p \in Partitions |-> {}]
    /\ last = [p \in Partitions |-> None]
    /\ fetched = 0
    /\ faults = 0

-----------------------------------------------------------------------------
(* The outcomes of a call to a server: it is applied and acknowledged, it  *)
(* is refused, or it is applied and the acknowledgement is lost.  The last *)
(* two raise in the task and use up one fault.                             *)
Replies == {"ok"} \cup (IF faults < MaxFaults THEN {"refused", "lost"} ELSE {})

Applied(reply) == reply # "refused"

ContinueAnyway(reply, next, onError) ==      \* mutant: a refused call is taken for done
    /\ pc' = next
    /\ faults' = IF reply = "ok" THEN faults ELSE faults + 1
Continue(reply, next, onError) ==
    /\ pc' = IF reply = "ok" THEN next ELSE onError
    /\ faults' = IF reply = "ok" THEN faults ELSE faults + 1

\* External: a producer appends to the topic.
Produce(p, k) ==
    /\ Len(log[p]) < MaxLog
    /\ log' = [log EXCEPT ![p] = Append(@, k)]
    /\ UNCHANGED <<dwh, committed, pc, offsets, consumer, faults>>

\* start_run, outside the try block: an error leaves no running attempt, and
\* a lost acknowledgement leaves a row that stays 'running'.
Start ==
    /\ pc = "idle"
    /\ \E reply \in Replies :
          /\ meta' = IF Applied(reply) THEN "running" ELSE meta
          /\ Continue(reply, "offsets", "idle")
    /\ UNCHANGED <<log, raw, wm, committed, offsets, consumer>>

\* Position a stored offset is resumed at: one past it.
ResumeAtStored(p) == wm[p]                   \* mutant: seeks to the stored offset
ResumeAtStart(p) == 0                        \* mutant: seek forgotten, earliest offset
Resume(p) == wm[p] + 1

\* get_kafka_offsets, then a consumer in a new group.  Stored partitions are
\* assigned by hand after their offset; with none stored the consumer has only
\* subscribed and waits for the group to assign.
ReadOffsets ==
    /\ pc = "offsets"
    /\ \E reply \in Replies \ {"lost"} : Continue(reply, "fetch", "failing")
    /\ offsets' = wm
    /\ assigned' = {p \in Partitions : wm[p] # None}
    /\ pos' = [p \in Partitions |-> Resume(p)]
    /\ batch' = [p \in Partitions |-> {}]
    /\ last' = [p \in Partitions |-> None]
    /\ fetched' = 0
    /\ UNCHANGED <<log, dwh, committed>>

\* External: the group join completes while fetch polls.  The group has just
\* been created, so it has no committed offsets: every partition is assigned
\* from the earliest offset.
GroupAssign ==
    /\ pc = "fetch"
    /\ \/ assigned = {} /\ UNCHANGED faults
       \/ Reassigns /\ assigned # {} /\ faults < MaxFaults /\ faults' = faults + 1
    /\ assigned' = Partitions
    /\ pos' = [p \in Partitions |-> 0]
    /\ UNCHANGED <<log, dwh, committed, pc, offsets, batch, last, fetched>>

\* One poll that returns a message.  A payload that is not UTF-8 raises in
\* fetch; a payload that is not JSON is kept as {"_raw": ...}, a "record" here.
Poll(p) ==
    /\ pc = "fetch"
    /\ p \in assigned
    /\ fetched < MaxMessages
    /\ pos[p] < Len(log[p])
    /\ IF log[p][pos[p] + 1] = "undecodable"
       THEN pc' = "failing" /\ UNCHANGED consumer
       ELSE /\ pos' = [pos EXCEPT ![p] = @ + 1]
            /\ batch' = [batch EXCEPT ![p] = @ \cup {pos[p]}]
            /\ last' = [last EXCEPT ![p] = IF pos[p] > @ THEN pos[p] ELSE @]
            /\ fetched' = fetched + 1
            /\ UNCHANGED <<pc, assigned>>
    /\ UNCHANGED <<log, dwh, committed, offsets, faults>>

\* A poll that raises a Kafka error other than end of partition.
PollError ==
    /\ pc = "fetch"
    /\ fetched < MaxMessages
    /\ faults < MaxFaults
    /\ pc' = "failing"
    /\ faults' = faults + 1
    /\ UNCHANGED <<log, dwh, committed, offsets, consumer>>

\* Nothing is left to poll in the assigned partitions.
CaughtUp == assigned # {} /\ \A p \in assigned : pos[p] >= Len(log[p])

\* The builders of orders and payments call .get on the payload.
BuildsAnything == TRUE                       \* mutant: bad payloads become rows
Buildable == RejectsNonObject => \A p \in Partitions : \A o \in batch[p] : log[p][o + 1] # "nonobject"

\* fetch returns: the batch is full, or max_empty_polls polls in a row came
\* back empty, which a slow broker can cause too.  An empty batch ends the
\* attempt as a success; otherwise the rows are built.
EndFetch ==
    /\ pc = "fetch"
    /\ \/ (fetched >= MaxMessages \/ CaughtUp) /\ UNCHANGED faults
       \/ faults < MaxFaults /\ faults' = faults + 1
    /\ pc' = IF fetched = 0 THEN "finish" ELSE IF Buildable THEN "insert" ELSE "failing"
    /\ UNCHANGED <<log, dwh, committed, offsets, consumer>>

\* bulk_insert: one transaction, ON CONFLICT (topic, partition_id,
\* kafka_offset) DO NOTHING.
Insert ==
    /\ pc = "insert"
    /\ \E reply \in Replies :
          /\ raw' = IF Applied(reply) THEN [p \in Partitions |-> raw[p] \cup batch[p]] ELSE raw
          /\ Continue(reply, "watermark", "failing")
    /\ UNCHANGED <<log, wm, meta, committed, offsets, consumer>>

\* set_kafka_offsets with {**offsets, **batch.last_offsets}.
MergedNext == [p \in Partitions |-> IF last[p] = None THEN offsets[p] ELSE last[p] + 1] \* mutant: next, not last
MergedLastOnly == last                       \* mutant: partitions without news are dropped
Merged == [p \in Partitions |-> IF last[p] = None THEN offsets[p] ELSE last[p]]

SetOffsets ==
    /\ pc = "watermark"
    /\ \E reply \in Replies :
          /\ wm' = IF Applied(reply) THEN Merged ELSE wm
          /\ Continue(reply, "commit", "failing")
    /\ UNCHANGED <<log, raw, meta, committed, offsets, consumer>>

\* The position committed is one past the last message.
PositionTwice(p) == last[p] + 2              \* mutant: adds one twice
Position(p) == last[p] + 1

\* commit_offsets: synchronous; ILLEGAL_GENERATION is only logged, any other
\* error is raised.
Commit ==
    /\ pc = "commit"
    /\ \/ \E reply \in Replies :
             /\ committed' = IF Applied(reply)
                             THEN [p \in Partitions |-> IF last[p] = None THEN committed[p] ELSE Position(p)]
                             ELSE committed
             /\ Continue(reply, "finish", "failing")
       \/ /\ faults < MaxFaults                    \* ILLEGAL_GENERATION
          /\ pc' = "finish"
          /\ faults' = faults + 1
          /\ UNCHANGED committed
    /\ UNCHANGED <<log, dwh, offsets, consumer>>

\* finish_run(status="success").
Finish ==
    /\ pc = "finish"
    /\ \E reply \in Replies :
          /\ meta' = IF Applied(reply) THEN "success" ELSE meta
          /\ Continue(reply, "idle", "failing")
    /\ UNCHANGED <<log, raw, wm, committed, offsets, consumer>>

\* The except branch: finish_run(status="failed"), then raise.
Fail ==
    /\ pc = "failing"
    /\ \E reply \in Replies :
          /\ meta' = IF Applied(reply) THEN "failed" ELSE meta
          /\ Continue(reply, "idle", "idle")
    /\ UNCHANGED <<log, raw, wm, committed, offsets, consumer>>

\* External: the worker process dies; the row stays as it is.
Crash ==
    /\ pc # "idle"
    /\ faults < MaxFaults
    /\ pc' = "idle"
    /\ faults' = faults + 1
    /\ UNCHANGED <<log, dwh, committed, offsets, consumer>>

Task == Start \/ ReadOffsets \/ EndFetch \/ Insert \/ SetOffsets \/ Commit \/ Finish \/ Fail

Next ==
    \/ \E p \in Partitions, k \in Kinds : Produce(p, k)
    \/ Task
    \/ GroupAssign
    \/ \E p \in Partitions : Poll(p)
    \/ PollError
    \/ Crash

Spec == Init /\ [][Next]_vars

(* Airflow starts the DAG every five minutes and a started task runs on;   *)
(* a join with a live coordinator completes and a partition with data is   *)
(* polled in turn.  Producers, faults and crashes owe nothing.             *)
Fairness ==
    /\ WF_vars(Task)
    /\ WF_vars(assigned = {} /\ GroupAssign)
    /\ \A p \in Partitions : WF_vars(Poll(p))

FairSpec == Spec /\ Fairness
-----------------------------------------------------------------------------
(* Properties *)

\* The stored watermark of a partition never runs ahead of the table: every
\* offset up to it is in raw.*, whichever step of an attempt failed and however
\* often the batch was re-read (insert before set_kafka_offsets).
WatermarkCovered == \A p \in Partitions : \A o \in 0..wm[p] : o \in raw[p]

\* The table never has a hole below a stored offset, even while the watermark
\* lags behind it after a failed attempt or a reassignment from the start.
NoHoles == \A p \in Partitions : \A o \in raw[p] : \A q \in 0..o : q \in raw[p]

\* A position is committed to Kafka only when all before it is stored.
CommitAfterInsert == \A p \in Partitions : \A o \in 0..(committed[p] - 1) : o \in raw[p]

\* A run recorded as 'success' has stored all it fetched and moved the
\* watermark over it, so the next run does not depend on this one's offsets.
SuccessIsDurable ==
    meta = "success" => \A p \in Partitions : \A o \in batch[p] : o \in raw[p] /\ o <= wm[p]

\* Rows come from the log: nothing is stored that was not produced, nor a
\* payload that the fetch or the record builder rejects.
OnlyAcceptedRows ==
    \A p \in Partitions : \A o \in raw[p] :
        /\ o < Len(log[p])
        /\ log[p][o + 1] # "undecodable"
        /\ RejectsNonObject => log[p][o + 1] # "nonobject"

\* Without a reassignment a run never moves a watermark back, also when a
\* retry re-reads what a failed attempt had stored.
WatermarkMonotone == [][\A p \in Partitions : wm'[p] >= wm[p]]_wm

\* A partition that has a stored offset catches up: each of its entries is
\* eventually stored, whatever failed on the way.
TrackedPartitionCatchesUp ==
    \A p \in Partitions : \A o \in 0..(MaxLog - 1) :
        (wm[p] # None /\ o < Len(log[p])) ~> (o \in raw[p])

\* Without a reassignment a successful run that has fetched anything leaves some
\* watermark further on than it found it: runs do not succeed in place.
SuccessAdvances == meta = "success" /\ fetched > 0 => \E p \in Partitions : wm[p] > offsets[p]

\* Without a reassignment a partition that has no stored offset when another one
\* has gets neither rows nor an offset from then on: seek_to_offsets assigns the
\* partitions of the stored offsets only.
Starved(p) == wm[p] = None /\ \E q \in Partitions : wm[q] # None
StarvedForGood == [][\A p \in Partitions : Starved(p) => Starved(p)' /\ raw'[p] = raw[p]]_vars

\* The promise of OffsetSink, with raw.* as the sink and the watermark as mark.
Sink == INSTANCE OffsetSink WITH Records <- Kinds, stored <- raw, mark <- wm
SinkSpec == Sink!Spec
=============================================================================
