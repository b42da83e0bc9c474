------------------------- MODULE KafkaIngestProofs -------------------------
(***************************************************************************)
(* Machine-checked proofs about KafkaIngest, for every set of partitions,  *)
(* batch size, bound and choice of builder and reassignment behaviour.     *)
(*                                                                         *)
(* The safety properties are not inductive: what an attempt holds in its   *)
(* batch, its positions and its copy of the watermark has to be related to *)
(* the table as well.  IInv adds those relations.                          *)
(***************************************************************************)
EXTENDS KafkaIngest, TLAPS

\* What an attempt holds is in the log, acceptable, and together with the table
\* free of holes; last_offsets bounds the batch.
BatchOK ==
    \A p \in Partitions :
        /\ \A o \in batch[p] :
              /\ o < Len(log[p])
              /\ log[p][o + 1] # "undecodable"
              /\ o <= last[p]
              /\ \A q \in 0..o : q \in raw[p] \cup batch[p]
        /\ last[p] # None => last[p] \in batch[p]
        /\ fetched = 0 => batch[p] = {}
        /\ \A o \in 0..offsets[p] : o \in raw[p]

\* While fetching, everything before the position is stored or in the batch.
PositionOK ==
    pc = "fetch" => \A p \in assigned : \A o \in 0..(pos[p] - 1) : o \in raw[p] \cup batch[p]

\* What each later location of consume_topic may rely on.
StageOK ==
    /\ pc = "insert" => Buildable
    /\ pc \in {"watermark", "commit", "finish"} => \A p \in Partitions : batch[p] \subseteq raw[p]
    /\ pc \in {"commit", "finish"} => \A p \in Partitions : \A o \in batch[p] : o <= wm[p]
    /\ pc \notin {"idle", "failing"} => meta = "running"

IInv ==
    /\ WatermarkCovered
    /\ NoHoles
    /\ CommitAfterInsert
    /\ OnlyAcceptedRows
    /\ SuccessIsDurable
    /\ BatchOK
    /\ PositionOK
    /\ StageOK
-----------------------------------------------------------------------------
\* Appending keeps the entries that are already in a partition.
LEMMA AppendKeeps ==
    ASSUME NEW S, NEW s \in Seq(S), NEW e \in S
    PROVE  /\ Append(s, e) \in Seq(S)
           /\ Len(Append(s, e)) = Len(s) + 1
           /\ \A i \in 1..Len(s) : Append(s, e)[i] = s[i]
  OBVIOUS

\* The position after a stored offset; 0 when none is stored.
LEMMA PositionAfter == \A o \in Nat \cup {None} : o + 1 \in Nat
  BY DEF None

\* Type correctness of consume_topic's state.
THEOREM TypeCorrect == Spec => []TypeOK
<1>1. Init => TypeOK
  BY DEF Init, TypeOK, None, Locations
<1>2. TypeOK /\ [Next]_vars => TypeOK'
  <2> SUFFICES ASSUME TypeOK, [Next]_vars
               PROVE  TypeOK'
    OBVIOUS
  <2> USE DEF TypeOK, dwh, consumer
  <2>1. ASSUME NEW p \in Partitions, NEW k \in Kinds, Produce(p, k)
        PROVE  TypeOK'
    BY <2>1, AppendKeeps DEF Produce
  <2>2. CASE Start
    BY <2>2 DEF Start, Continue, Replies, Locations
  <2>3. CASE ReadOffsets
    <3>1. pos' \in [Partitions -> Nat]
      <4>1. \A p \in Partitions : wm[p] + 1 \in Nat
        BY PositionAfter
      <4>2. QED
        BY <2>3, <4>1 DEF ReadOffsets, Resume
    <3>2. QED
      BY <2>3, <3>1 DEF ReadOffsets, Resume, Continue, Replies, Locations, None
  <2>4. CASE GroupAssign
    BY <2>4 DEF GroupAssign
  <2>5. ASSUME NEW p \in Partitions, Poll(p)
        PROVE  TypeOK'
    <3>1. pos[p] \in Nat /\ pos[p] + 1 \in Nat /\ fetched + 1 \in Nat
      OBVIOUS
    <3>2. CASE log[p][pos[p] + 1] = "undecodable"
      BY <2>5, <3>2 DEF Poll, Locations
    <3>3. CASE log[p][pos[p] + 1] # "undecodable"
      <4>1. batch' \in [Partitions -> SUBSET Nat]
        <5>1. batch[p] \cup {pos[p]} \in SUBSET Nat
          BY <3>1
        <5>2. batch' = [batch EXCEPT ![p] = batch[p] \cup {pos[p]}]
          BY <2>5, <3>3 DEF Poll
        <5>3. QED
          BY <5>1, <5>2
      <4>2. last' \in [Partitions -> Nat \cup {None}]
        BY <2>5, <3>1, <3>3 DEF Poll
      <4>3. QED
        BY <2>5, <3>1, <3>3, <4>1, <4>2 DEF Poll
    <3>4. QED
      BY <3>2, <3>3
  <2>6. CASE PollError
    BY <2>6 DEF PollError, Locations
  <2>7. CASE EndFetch
    BY <2>7 DEF EndFetch, Locations
  <2>8. CASE Insert
    BY <2>8 DEF Insert, Continue, Replies, Locations
  <2>9. CASE SetOffsets
    BY <2>9 DEF SetOffsets, Merged, Continue, Replies, Locations
  <2>10. CASE Commit
    BY <2>10, PositionAfter DEF Commit, Position, Continue, Replies, Locations
  <2>11. CASE Finish
    BY <2>11 DEF Finish, Continue, Replies, Locations
  <2>12. CASE Fail
    BY <2>12 DEF Fail, Continue, Replies, Locations
  <2>13. CASE Crash
    BY <2>13 DEF Crash, Locations
  <2>14. CASE UNCHANGED vars
    BY <2>14 DEF vars
  <2>15. QED
    BY <2>1, <2>2, <2>3, <2>4, <2>5, <2>6, <2>7, <2>8, <2>9, <2>10, <2>11, <2>12, <2>13, <2>14
       DEF Next, Task
<1>3. QED
  BY <1>1, <1>2, PTL DEF Spec

\* The stored state: what the steps that only move the program counter leave.
LEMMA TableFacts ==
    ASSUME TypeOK, IInv, TypeOK', UNCHANGED <<log, raw, wm, committed, offsets, consumer>>
    PROVE  /\ WatermarkCovered' /\ NoHoles' /\ CommitAfterInsert' /\ OnlyAcceptedRows' /\ BatchOK'
  BY DEF IInv, WatermarkCovered, NoHoles, CommitAfterInsert, OnlyAcceptedRows, BatchOK, consumer

\* Every step preserves the strengthening, one case per action of Next.
LEMMA StepInv == TypeOK /\ TypeOK' /\ IInv /\ [Next]_vars => IInv'
<1> SUFFICES ASSUME TypeOK, TypeOK', IInv, [Next]_vars
             PROVE  IInv'
  OBVIOUS
<1> USE DEF dwh, consumer
<1>1. ASSUME NEW r \in Partitions, NEW k \in Kinds, Produce(r, k)
      PROVE  IInv'
  <2>1. \A p \in Partitions : /\ Len(log[p]) <= Len(log'[p])
                              /\ \A o \in Nat : o < Len(log[p]) => log'[p][o + 1] = log[p][o + 1]
    BY <1>1, AppendKeeps DEF Produce, TypeOK
  <2>2. OnlyAcceptedRows' /\ BatchOK'
    <3>1. ASSUME NEW p \in Partitions, NEW o \in Nat, o < Len(log[p])
          PROVE  o < Len(log'[p]) /\ log'[p][o + 1] = log[p][o + 1]
      BY <2>1, <3>1 DEF TypeOK
    <3>2. UNCHANGED <<raw, batch, last, fetched, offsets>> /\ \A p \in Partitions : raw[p] \subseteq Nat /\ batch[p] \subseteq Nat
      BY <1>1 DEF Produce, TypeOK
    <3>3. OnlyAcceptedRows'
      BY <3>1, <3>2 DEF IInv, OnlyAcceptedRows
    <3>4. BatchOK'
      BY <3>1, <3>2 DEF IInv, BatchOK
    <3>5. QED
      BY <3>3, <3>4
  <2>3. (pc = "insert" => Buildable)'
    BY <1>1, <2>1 DEF Produce, IInv, StageOK, Buildable, BatchOK, TypeOK
  <2>4. QED
    BY <1>1, <2>2, <2>3 DEF Produce, IInv, WatermarkCovered, NoHoles, CommitAfterInsert, SuccessIsDurable,
                            PositionOK, StageOK
<1>2. CASE Start
  BY <1>2, TableFacts DEF Start, Continue, Replies, Applied, IInv, SuccessIsDurable, PositionOK, StageOK
<1>3. CASE ReadOffsets
  BY <1>3 DEF ReadOffsets, Resume, Continue, IInv, WatermarkCovered, NoHoles, CommitAfterInsert, OnlyAcceptedRows,
              SuccessIsDurable, BatchOK, PositionOK, StageOK, TypeOK, None
<1>4. CASE GroupAssign
  BY <1>4 DEF GroupAssign, IInv, WatermarkCovered, NoHoles, CommitAfterInsert, OnlyAcceptedRows, SuccessIsDurable, BatchOK, PositionOK, StageOK
<1>5. ASSUME NEW r \in Partitions, Poll(r)
      PROVE  IInv'
  <2>1. CASE log[r][pos[r] + 1] = "undecodable"
    BY <1>5, <2>1, TableFacts DEF Poll, IInv, SuccessIsDurable, PositionOK, StageOK
  <2>2. CASE log[r][pos[r] + 1] # "undecodable"
    <3> DEFINE n == pos[r]
    <3>1. /\ n \in Nat /\ n < Len(log[r]) /\ last[r] \in Nat \cup {None} /\ fetched \in Nat
          /\ pc = "fetch" /\ UNCHANGED <<log, raw, wm, meta, committed, pc, offsets, assigned>>
          /\ pos' = [pos EXCEPT ![r] = n + 1]
          /\ batch' = [batch EXCEPT ![r] = @ \cup {n}]
          /\ last' = [last EXCEPT ![r] = IF n > @ THEN n ELSE @]
          /\ fetched' = fetched + 1
      BY <1>5, <2>2 DEF Poll, TypeOK
    <3>2. \A q \in 0..(n - 1) : q \in raw[r] \cup batch[r]
      BY <1>5 DEF Poll, IInv, PositionOK
    <3>3. BatchOK'
      <4>1. ASSUME NEW p \in Partitions, p # r
            PROVE  batch'[p] = batch[p] /\ last'[p] = last[p] /\ (fetched' = 0 => batch[p] = {})
        BY <3>1, <4>1 DEF TypeOK
      <4>2. /\ batch'[r] = batch[r] \cup {n}
            /\ last'[r] \in {last[r], n} /\ last'[r] >= n /\ last'[r] >= last[r]
            /\ fetched' # 0
        BY <3>1 DEF TypeOK, None
      <4>3. \A o \in batch[r] : o \in Nat /\ o <= last[r]
        BY DEF IInv, BatchOK, TypeOK
      <4>4. ASSUME NEW o \in batch'[r]
            PROVE  /\ o < Len(log[r]) /\ log[r][o + 1] # "undecodable" /\ o <= last'[r]
                   /\ \A q \in 0..o : q \in raw[r] \cup batch'[r]
        <5>1. CASE o = n
          BY <2>2, <3>1, <3>2, <4>2, <5>1
        <5>2. CASE o \in batch[r]
          BY <3>1, <4>2, <4>3, <5>2 DEF IInv, BatchOK, None
        <5>3. QED
          BY <4>2, <4>4, <5>1, <5>2
      <4>5. last'[r] # None => last'[r] \in batch'[r]
        BY <4>2 DEF IInv, BatchOK
      <4>6. QED
        BY <3>1, <4>1, <4>2, <4>4, <4>5 DEF IInv, BatchOK
    <3>4. PositionOK'
      BY <3>1, <3>2 DEF IInv, PositionOK, TypeOK
    <3>5. StageOK' /\ SuccessIsDurable'
      BY <3>1 DEF IInv, StageOK, SuccessIsDurable
    <3>6. QED
      BY <3>1, <3>3, <3>4, <3>5 DEF IInv, WatermarkCovered, NoHoles, CommitAfterInsert, OnlyAcceptedRows
  <2>3. QED
    BY <2>1, <2>2
<1>6. CASE PollError
  BY <1>6, TableFacts DEF PollError, IInv, SuccessIsDurable, PositionOK, StageOK
<1>7. CASE EndFetch
  BY <1>7, TableFacts DEF EndFetch, IInv, SuccessIsDurable, PositionOK, StageOK, Buildable, BatchOK
<1>8. CASE Insert
  BY <1>8 DEF Insert, Continue, Replies, Applied, Buildable, TypeOK, IInv, WatermarkCovered, NoHoles, CommitAfterInsert, OnlyAcceptedRows, SuccessIsDurable, BatchOK, PositionOK, StageOK
<1>9. CASE SetOffsets
  <2>1. \A p \in Partitions : \A o \in 0..Merged[p] : o \in raw[p]
    BY <1>9 DEF SetOffsets, Merged, IInv, StageOK, BatchOK, NoHoles
  <2>2. \A p \in Partitions : \A o \in batch[p] : o <= Merged[p]
    BY DEF Merged, IInv, BatchOK, TypeOK, None
  <2>3. WatermarkCovered'
    BY <1>9, <2>1 DEF SetOffsets, IInv, WatermarkCovered
  <2>4. StageOK'
    BY <1>9, <2>2 DEF SetOffsets, Continue, Replies, Applied, IInv, StageOK
  <2>5. QED
    BY <1>9, <2>3, <2>4 DEF SetOffsets, Continue, Replies, IInv, NoHoles, CommitAfterInsert, OnlyAcceptedRows,
                            SuccessIsDurable, BatchOK, PositionOK, StageOK
<1>10. CASE Commit
  <2>1. \A p \in Partitions : last[p] # None => \A o \in 0..last[p] : o \in raw[p]
    BY <1>10 DEF Commit, Position, IInv, StageOK, BatchOK, NoHoles
  <2>2. CommitAfterInsert'
    <3>1. ASSUME NEW p \in Partitions
          PROVE  committed'[p] = committed[p] \/ (last[p] # None /\ committed'[p] = last[p] + 1)
      BY <1>10 DEF Commit, Position
    <3>2. \A p \in Partitions : last[p] # None => (last[p] + 1) - 1 = last[p]
      BY DEF TypeOK
    <3>3. QED
      BY <1>10, <2>1, <3>1, <3>2 DEF Commit, Position, IInv, CommitAfterInsert
  <2>3. QED
    BY <1>10, <2>2 DEF Commit, Position, Continue, Replies, IInv, WatermarkCovered, NoHoles, OnlyAcceptedRows,
                       SuccessIsDurable, BatchOK, PositionOK, StageOK
<1>11. CASE Finish
  BY <1>11, TableFacts DEF Finish, Continue, Replies, Applied, IInv, SuccessIsDurable, PositionOK, StageOK
<1>12. CASE Fail
  BY <1>12, TableFacts DEF Fail, Continue, Replies, Applied, IInv, SuccessIsDurable, PositionOK, StageOK
<1>13. CASE Crash
  BY <1>13, TableFacts DEF Crash, IInv, SuccessIsDurable, PositionOK, StageOK
<1>14. CASE UNCHANGED vars
  BY <1>14, TableFacts DEF vars, IInv, SuccessIsDurable, PositionOK, StageOK, Buildable
<1>15. QED
  BY <1>1, <1>2, <1>3, <1>4, <1>5, <1>6, <1>7, <1>8, <1>9, <1>10, <1>11, <1>12, <1>13, <1>14
     DEF Next, Task

\* The inductive invariant holds of the whole specification.
THEOREM Inductive == Spec => [](TypeOK /\ IInv)
<1>1. Init => IInv
  BY DEF Init, IInv, WatermarkCovered, NoHoles, CommitAfterInsert, OnlyAcceptedRows, SuccessIsDurable,
         BatchOK, PositionOK, StageOK, Buildable, None
<1>2. QED
  BY <1>1, TypeCorrect, StepInv, PTL DEF Spec

\* No watermark of meta.pipeline_watermarks runs ahead of the raw table.
THEOREM WatermarkIsCovered == Spec => []WatermarkCovered
  BY Inductive, PTL DEF IInv

\* The raw table never has a hole below a stored offset.
THEOREM TableHasNoHoles == Spec => []NoHoles
  BY Inductive, PTL DEF IInv

\* Kafka is told of a position only when the rows before it are stored.
THEOREM CommitFollowsInsert == Spec => []CommitAfterInsert
  BY Inductive, PTL DEF IInv

\* A row 'success' in meta.pipeline_runs stands for a durable batch.
THEOREM SuccessMeansDurable == Spec => []SuccessIsDurable
  BY Inductive, PTL DEF IInv

\* Only produced and accepted payloads reach the raw table.
THEOREM RowsAreAccepted == Spec => []OnlyAcceptedRows
  BY Inductive, PTL DEF IInv

-----------------------------------------------------------------------------
\* Every step of consume_topic is a step of OffsetSink or changes nothing of it.
LEMMA StepSimulates == TypeOK /\ TypeOK' /\ IInv /\ IInv' /\ [Next]_vars => [Sink!Next]_(Sink!vars)
<1> SUFFICES ASSUME TypeOK, TypeOK', IInv, IInv', [Next]_vars
             PROVE  Sink!Next \/ UNCHANGED <<log, raw, wm>>
  BY DEF Sink!vars
<1> USE DEF dwh
<1>1. ASSUME NEW p \in Partitions, NEW k \in Kinds, Produce(p, k)
      PROVE  Sink!Produce
  BY <1>1 DEF Produce, Sink!Produce
<1>2. CASE Insert
  <2>1. \A p \in Partitions : raw[p] \subseteq raw'[p]
    BY <1>2 DEF Insert
  <2>2. \A p \in Partitions : \A o \in raw'[p] : o \in 0..(Len(log[p]) - 1) /\ \A q \in 0..o : q \in raw'[p]
    BY <1>2 DEF Insert, IInv, OnlyAcceptedRows, NoHoles, TypeOK
  <2>3. DOMAIN raw' = Partitions /\ UNCHANGED <<log, wm>>
    BY <1>2 DEF Insert, TypeOK
  <2>4. QED
    BY <2>1, <2>2, <2>3 DEF Sink!Store, Sink!Next
<1>3. CASE SetOffsets
  <2>1. \A p \in Partitions : Sink!Complete(p, wm'[p])
    BY <1>3 DEF SetOffsets, IInv, WatermarkCovered, Sink!Complete
  <2>2. DOMAIN wm' = Partitions /\ UNCHANGED <<log, raw>>
    BY <1>3 DEF SetOffsets, TypeOK
  <2>3. QED
    BY <2>1, <2>2 DEF Sink!Mark, Sink!Next
<1>4. CASE Start \/ ReadOffsets \/ EndFetch \/ Commit \/ Finish \/ Fail \/ GroupAssign \/ PollError \/ Crash
  BY <1>4 DEF Start, ReadOffsets, Resume, EndFetch, Commit, Position, Finish, Fail, GroupAssign, PollError, Crash
<1>5. ASSUME NEW p \in Partitions, Poll(p)
      PROVE  UNCHANGED <<log, raw, wm>>
  BY <1>5 DEF Poll
<1>6. QED
  BY <1>1, <1>2, <1>3, <1>4, <1>5 DEF Next, Task, Sink!Next, vars

\* The ingestion implements the sink it promises.
THEOREM Refinement == Spec => SinkSpec
<1>1. Init => Sink!Init
  BY DEF Init, Sink!Init, None
<1>2. QED
  BY <1>1, Inductive, StepSimulates, PTL DEF Spec, SinkSpec, Sink!Spec
-----------------------------------------------------------------------------
\* While an attempt still has its watermarks to write they are as it read them,
\* and it has only read on from there: from past the stored offset, or from the
\* start of the topic when nothing was stored.
ReadsOn ==
    pc \in {"fetch", "insert", "watermark"} =>
        /\ offsets = wm
        /\ \A p \in Partitions : last[p] # None => last[p] > offsets[p]
        /\ pc = "fetch" => \A p \in assigned : pos[p] > offsets[p]
        /\ pc = "fetch" /\ assigned = {} => \A p \in Partitions : offsets[p] = None

\* Without a reassignment every step leaves the attempt where it reads on.
LEMMA StepReadsOn ==
    ASSUME ~Reassigns, TypeOK, ReadsOn, [Next]_vars
    PROVE  ReadsOn'
<1> USE DEF dwh, consumer, ReadsOn, TypeOK
<1>1. ASSUME NEW r \in Partitions, NEW k \in Kinds, Produce(r, k)
      PROVE  ReadsOn'
  BY <1>1 DEF Produce
<1>2. CASE Start
  BY <1>2 DEF Start, Continue
<1>3. CASE ReadOffsets
  BY <1>3 DEF ReadOffsets, Resume, None
<1>4. CASE GroupAssign
  BY <1>4 DEF GroupAssign, None
<1>5. ASSUME NEW r \in Partitions, Poll(r)
      PROVE  ReadsOn'
  <2>1. CASE log[r][pos[r] + 1] = "undecodable"
    BY <1>5, <2>1 DEF Poll
  <2>2. CASE log[r][pos[r] + 1] # "undecodable"
    <3>1. pos[r] \in Nat /\ pos[r] > offsets[r] /\ offsets[r] \in Nat \cup {None}
      BY <1>5 DEF Poll
    <3>2. \A p \in Partitions : last'[p] # None => last'[p] > offsets[p]
      BY <1>5, <2>2, <3>1 DEF Poll, None
    <3>3. \A p \in assigned : pos'[p] > offsets[p]
      BY <1>5, <2>2, <3>1 DEF Poll, None
    <3>4. QED
      BY <1>5, <2>2, <3>2, <3>3 DEF Poll
  <2>3. QED
    BY <2>1, <2>2
<1>6. CASE PollError \/ EndFetch \/ Crash
  BY <1>6 DEF PollError, EndFetch, Crash
<1>7. CASE Insert \/ SetOffsets
  BY <1>7 DEF Insert, SetOffsets, Continue
<1>8. CASE Commit \/ Finish \/ Fail
  BY <1>8 DEF Commit, Finish, Fail, Continue
<1>9. CASE UNCHANGED vars
  BY <1>9 DEF vars
<1>10. QED
  BY <1>1, <1>2, <1>3, <1>4, <1>5, <1>6, <1>7, <1>8, <1>9 DEF Next, Task

\* Only set_kafka_offsets writes a watermark, and what it merges is no older.
LEMMA StepMonotone ==
    ASSUME TypeOK, ReadsOn, [Next]_vars
    PROVE  \A p \in Partitions : wm'[p] >= wm[p]
<1> SUFFICES ASSUME NEW p \in Partitions
             PROVE  wm'[p] >= wm[p]
  OBVIOUS
<1>1. wm[p] \in Int /\ wm[p] >= wm[p]
  BY DEF TypeOK, None
<1>2. CASE SetOffsets
  <2>1. Merged[p] >= wm[p]
    <3>1. Merged[p] = IF last[p] = None THEN offsets[p] ELSE last[p]
      BY DEF Merged
    <3>2. offsets[p] = wm[p] /\ (last[p] # None => last[p] > offsets[p])
      BY <1>2 DEF SetOffsets, ReadsOn
    <3>3. last[p] \in Int /\ offsets[p] \in Int
      BY DEF TypeOK, None
    <3>4. QED
      BY <1>1, <3>1, <3>2, <3>3
  <2>2. wm'[p] \in {wm[p], Merged[p]}
    BY <1>2 DEF SetOffsets
  <2>3. QED
    BY <1>1, <2>1, <2>2
<1>3. SetOffsets \/ UNCHANGED wm
  BY DEF Next, Task, Produce, Start, ReadOffsets, EndFetch, Insert, Commit, Finish, Fail, GroupAssign,
         Poll, PollError, Crash, vars, dwh
<1>4. QED
  BY <1>1, <1>2, <1>3

\* A run never moves a stored watermark back, however many attempts failed or
\* died before it, as long as no group join replaces its assignment.
THEOREM WatermarkNeverMovesBack == ASSUME ~Reassigns PROVE Spec => WatermarkMonotone
<1>1. Init => ReadsOn
  BY DEF Init, ReadsOn
<1>2. TypeOK /\ ReadsOn /\ [Next]_vars => ReadsOn'
  BY StepReadsOn
<1>3. TypeOK /\ ReadsOn /\ [Next]_vars => [\A p \in Partitions : wm'[p] >= wm[p]]_wm
  BY StepMonotone
<1>4. QED
  BY <1>1, <1>2, <1>3, TypeCorrect, PTL DEF Spec, WatermarkMonotone
-----------------------------------------------------------------------------
\* Once an offset is stored an attempt reads the partitions that have one and no
\* others, so it never has a message of the others to store.
ReadsStored ==
    pc \in {"fetch", "insert", "watermark"} /\ (\E q \in Partitions : wm[q] # None) =>
        /\ offsets = wm
        /\ pc = "fetch" => assigned = {p \in Partitions : wm[p] # None}
        /\ \A p \in Partitions : wm[p] = None => batch[p] = {} /\ last[p] = None

LEMMA StepReadsStored ==
    ASSUME ~Reassigns, TypeOK, ReadsStored, [Next]_vars
    PROVE  ReadsStored'
<1> USE DEF ReadsStored, dwh, consumer
<1>1. ASSUME NEW r \in Partitions, NEW k \in Kinds, Produce(r, k)
      PROVE  ReadsStored'
  BY <1>1 DEF Produce
<1>2. CASE ReadOffsets
  BY <1>2 DEF ReadOffsets
<1>3. CASE GroupAssign
  BY <1>3 DEF GroupAssign
<1>4. ASSUME NEW r \in Partitions, Poll(r)
      PROVE  ReadsStored'
  <2>1. CASE log[r][pos[r] + 1] = "undecodable"
    BY <1>4, <2>1 DEF Poll
  <2>2. CASE log[r][pos[r] + 1] # "undecodable"
    <3>1. pc = "fetch" /\ r \in assigned /\ UNCHANGED <<wm, pc, offsets, assigned>>
      BY <1>4, <2>2 DEF Poll
    <3>2. \A p \in Partitions : p # r => batch'[p] = batch[p] /\ last'[p] = last[p]
      BY <1>4, <2>2 DEF Poll, TypeOK
    <3>3. QED
      BY <3>1, <3>2
  <2>3. QED
    BY <2>1, <2>2
<1>5. CASE EndFetch \/ Insert \/ Start \/ PollError \/ Crash
  BY <1>5 DEF EndFetch, Insert, Start, PollError, Crash, Continue
<1>6. CASE SetOffsets \/ Commit \/ Finish \/ Fail
  BY <1>6 DEF SetOffsets, Commit, Finish, Fail, Continue
<1>7. CASE UNCHANGED vars
  BY <1>7 DEF vars
<1>8. QED
  BY <1>1, <1>2, <1>3, <1>4, <1>5, <1>6, <1>7 DEF Next, Task

\* Storing a batch and its offsets gives such a partition neither rows nor an offset.
LEMMA StepStarves ==
    ASSUME TypeOK, ReadsStored, [Next]_vars, NEW p \in Partitions, Starved(p)
    PROVE  Starved(p)' /\ raw'[p] = raw[p]
<1>0. wm[p] = None /\ \E q \in Partitions : wm[q] # None
  BY DEF Starved
<1>1. CASE Insert
  <2>1. batch[p] = {} /\ wm' = wm
    BY <1>0, <1>1 DEF Insert, ReadsStored
  <2>2. raw'[p] = raw[p]
    BY <1>1, <2>1 DEF Insert
  <2>3. QED
    BY <2>1, <2>2 DEF Starved
<1>2. CASE SetOffsets
  <2>1. offsets = wm /\ last[p] = None /\ raw' = raw
    BY <1>0, <1>2 DEF SetOffsets, ReadsStored
  <2>2. Merged[p] = None /\ \A q \in Partitions : wm[q] # None => Merged[q] # None
    BY <1>0, <2>1 DEF Merged
  <2>3. wm' \in {wm, Merged}
    BY <1>2 DEF SetOffsets
  <2>4. QED
    BY <1>0, <2>1, <2>2, <2>3 DEF Starved
<1>3. CASE ~Insert /\ ~SetOffsets
  <2>1. UNCHANGED <<raw, wm>>
    BY <1>3 DEF Next, Task, Produce, Start, ReadOffsets, EndFetch, Commit, Finish, Fail, GroupAssign,
         Poll, PollError, Crash, vars, dwh
  <2>2. QED
    BY <1>0, <2>1 DEF Starved
<1>4. QED
  BY <1>1, <1>2, <1>3

\* A partition that sent nothing until the first offset was stored is never read,
\* however much it sends later, unless a group join replaces the assignment: why
\* TrackedPartitionCatchesUp speaks of the others only.
THEOREM UntrackedIsNeverRead == ASSUME ~Reassigns PROVE Spec => StarvedForGood
<1>1. Init => ReadsStored
  BY DEF Init, ReadsStored
<1>2. TypeOK /\ ReadsStored /\ [Next]_vars => ReadsStored'
  BY StepReadsStored
<1>3. TypeOK /\ ReadsStored /\ [Next]_vars =>
          [\A p \in Partitions : Starved(p) => Starved(p)' /\ raw'[p] = raw[p]]_vars
  BY StepStarves
<1>4. QED
  BY <1>1, <1>2, <1>3, TypeCorrect, PTL DEF Spec, StarvedForGood
-----------------------------------------------------------------------------
\* Something fetched is in last_offsets until they are stored, and in a watermark
\* from then on.
Advances ==
    /\ pc \in {"fetch", "insert", "watermark"} /\ fetched > 0 => \E p \in Partitions : last[p] # None
    /\ pc \in {"commit", "finish"} /\ fetched > 0 => \E p \in Partitions : wm[p] > offsets[p]
    /\ SuccessAdvances

LEMMA StepAdvances ==
    ASSUME TypeOK, IInv, ReadsOn, Advances, [Next]_vars
    PROVE  Advances'
<1> USE DEF Advances, SuccessAdvances, dwh, consumer
<1>0. pc \notin {"idle", "failing"} => meta = "running"
  BY DEF IInv, StageOK
<1>1. ASSUME NEW r \in Partitions, NEW k \in Kinds, Produce(r, k)
      PROVE  Advances'
  BY <1>1 DEF Produce
<1>2. CASE Start \/ ReadOffsets \/ GroupAssign
  BY <1>0, <1>2 DEF Start, ReadOffsets, GroupAssign, Continue
<1>3. ASSUME NEW r \in Partitions, Poll(r)
      PROVE  Advances'
  <2>1. meta' # "success" /\ pc = "fetch"
    BY <1>0, <1>3 DEF Poll
  <2>2. CASE log[r][pos[r] + 1] = "undecodable"
    BY <1>3, <2>1, <2>2 DEF Poll
  <2>3. CASE log[r][pos[r] + 1] # "undecodable"
    <3>1. pc' = "fetch" /\ last' = [last EXCEPT ![r] = IF pos[r] > @ THEN pos[r] ELSE @]
      BY <1>3, <2>1, <2>3 DEF Poll
    <3>2. last'[r] # None
      BY <3>1 DEF TypeOK, None
    <3>3. QED
      BY <2>1, <3>1, <3>2
  <2>4. QED
    BY <2>2, <2>3
<1>4. CASE EndFetch \/ Insert \/ PollError
  BY <1>0, <1>4 DEF EndFetch, Insert, PollError, Continue, TypeOK
<1>5. CASE SetOffsets
  <2>1. meta' # "success" /\ pc = "watermark" /\ pc' \in {"commit", "failing"} /\ UNCHANGED <<fetched, offsets, last>>
    BY <1>0, <1>5 DEF SetOffsets, Continue
  <2>2. ASSUME pc' = "commit", fetched > 0 PROVE \E p \in Partitions : wm'[p] > offsets[p]
    <3>1. wm' = Merged
      BY <1>5, <2>2 DEF SetOffsets, Continue, Applied
    <3>2. PICK p \in Partitions : last[p] # None
      BY <2>1, <2>2
    <3>3. last[p] > offsets[p]
      BY <2>1, <3>2 DEF ReadsOn
    <3>4. QED
      BY <3>1, <3>2, <3>3 DEF Merged
  <2>3. QED
    BY <2>1, <2>2
<1>6. CASE Commit \/ Finish
  BY <1>0, <1>6 DEF Commit, Finish, Continue
<1>7. CASE Fail \/ Crash
  BY <1>0, <1>7 DEF Fail, Crash, Continue
<1>8. CASE UNCHANGED vars
  BY <1>8 DEF vars
<1>9. QED
  BY <1>1, <1>2, <1>3, <1>4, <1>5, <1>6, <1>7, <1>8 DEF Next, Task

\* A successful run that fetched anything has moved a watermark on; with
\* WatermarkNeverMovesBack, the step that every catching up is made of.
THEOREM SuccessMovesOn == ASSUME ~Reassigns PROVE Spec => []SuccessAdvances
<1>1. Init => ReadsOn /\ Advances
  BY DEF Init, ReadsOn, Advances, SuccessAdvances
<1>2. TypeOK /\ IInv /\ ReadsOn /\ Advances /\ [Next]_vars => (ReadsOn /\ Advances)'
  BY StepReadsOn, StepAdvances
<1>3. Advances => SuccessAdvances
  BY DEF Advances
<1>4. QED
  BY <1>1, <1>2, <1>3, Inductive, PTL DEF Spec
=============================================================================
