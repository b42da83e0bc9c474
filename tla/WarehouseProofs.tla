-------------------------- MODULE WarehouseProofs --------------------------
(***************************************************************************)
(* The warehouse behind the ingestion, for any tables, rows, metrics,      *)
(* delays and numbers of events and failures.                              *)
(*                                                                         *)
(* From raw to the vault: the staging tables never go back although a run  *)
(* only looks at time stamps, because the ends of the runs increase and    *)
(* the stamps of a row do; what a run has to bring is known when its table *)
(* is written, as nothing becomes visible in the part of its window that   *)
(* is older than Delay.                                                    *)
(*                                                                         *)
(* Behind the vault: whatever does not show what its inputs show has an    *)
(* event, a run or an upstream run that has still to reach it.             *)
(*                                                                         *)
(* A behaviour of the warehouse is one of each of its parts, so what holds *)
(* of them holds of it.                                                    *)
(***************************************************************************)
EXTENDS Warehouse, MinioIngestProofs, SequenceTheorems, WellFoundedInduction

StagingSpec == StagingInit /\ [][StagingNext]_stagingVars

\* The tables and their rows, whose stamps increase and are not of the future.
RawInv ==
    /\ ingested \in [Rows -> Seq(Times)] /\ staged \in [Rows -> Nat]
    /\ \A r \in Rows : /\ \A i \in DOMAIN ingested[r] : ingested[r][i] <= now
                       /\ \A i, j \in DOMAIN ingested[r] : i < j => ingested[r][i] < ingested[r][j]
                       /\ staged[r] <= Len(ingested[r])
    /\ upper <= now /\ cover <= now
    /\ \A s \in Raw : queued[s] <= ended[s] /\ ended[s] <= now

\* With all datasets in the schedule one of them says that the next run ends
\* later, so no staged version is newer than the run that reads.
WindowInv == Mode = "all_raw" =>
    /\ cover <= upper
    /\ \E s \in Raw : upper <= ended[s] /\ (queued[s] > 0 => upper < queued[s])
    /\ \A r \in Rows : staged[r] > 0 => ingested[r][staged[r]] <= upper

\* The tables that the run has written.
Written ==
    CASE job = "orders" -> {"customers"}
      [] job = "order_events" -> {"customers", "orders"}
      [] job = "payment_events" -> Tables \ {"payment_events"}
      [] job \in {"validate", "publish"} -> Tables
      [] OTHER -> {}

\* What the run has to bring is staged as far as it has come.
RunCovers == Mode = "all_raw" =>
    \A t \in Written : \A r \in RowsOf[t] : \A i \in DOMAIN ingested[r] :
        ingested[r][i] + Delay < upper /\ upper - Lookback <= ingested[r][i] => staged[r] >= i

\* The run of the vault that follows the last event of the staging finds
\* everything it needs.
Complete == /\ StagedOf("orders") # {}
            /\ \A o \in StagedOf("orders") : staged[CustomerOf[o]] > 0
VaultInv ==
    /\ link \subseteq StagedOf("orders")
    /\ job = "idle" /\ ~stgClean /\ stgFaults = 0 /\ Complete =>
          /\ vault = "hubs" => \A t \in Hubs \ hubsLeft : StagedOf(t) \subseteq hub
          /\ vault = "link" => \A t \in Hubs : StagedOf(t) \subseteq hub
          /\ vault \in {"idle", "summary"} => link = StagedOf("orders")

StagingInv == StagingTypeOK /\ RawInv /\ WindowInv /\ RunCovers /\ SliceCovers /\ VaultInv /\ LinkHasHubs
-----------------------------------------------------------------------------
\* A finite set of integers that is not empty has a greatest member.
LEMMA MaxExists ==
    ASSUME NEW S \in SUBSET Int, IsFiniteSet(S), S # {}
    PROVE  \E m \in S : \A x \in S : x <= m
<1> DEFINE Above(m) == {x \in S : m < x}
           Family == {Above(m) : m \in S}
<1>0. Family # {}
  OBVIOUS
<1>1. Family \subseteq FiniteSubsetsOf(S)
  BY FS_Subset DEF FiniteSubsetsOf
<1>2. IsWellFoundedOn(StrictSubsetOrdering(S), FiniteSubsetsOf(S))
  BY FS_StrictSubsetOrderingWellFounded
<1>3. PICK A \in Family : \A B \in Family : ~(<<B, A>> \in StrictSubsetOrdering(S))
  <2> HIDE DEF Family
  <2>1. \E A \in Family : \A B \in Family : ~(<<B, A>> \in StrictSubsetOrdering(S))
    BY <1>0, <1>1, <1>2, WFMin
  <2> QED BY <2>1
<1>4. PICK m \in S : A = Above(m)
  OBVIOUS
<1>5. ASSUME NEW x \in S, ~(x <= m) PROVE FALSE
  <2>1. m < x /\ m \in Int /\ x \in Int /\ S \subseteq Int
    BY <1>5
  <2>2. x \in Above(m) /\ x \notin Above(x) /\ \A y \in Above(x) : y \in Above(m)
    <3>1. x \in Above(m) /\ x \notin Above(x)
      BY <2>1
    <3>2. ASSUME NEW y \in Above(x) PROVE y \in Above(m)
      <4>1. y \in Int /\ y \in S /\ x < y
        BY <2>1
      <4>2. m < y
        BY <2>1, <4>1
      <4> QED BY <4>1, <4>2
    <3> QED BY <3>1, <3>2
  <2>3. <<Above(x), Above(m)>> \in StrictSubsetOrdering(S)
    BY <2>2 DEF StrictSubsetOrdering
  <2> QED BY <1>3, <1>4, <2>3
<1> QED BY <1>5

LEMMA StagingConstants ==
    /\ Raw # {} /\ Lookback \in Nat /\ Delay \in Nat /\ MaxNow \in Nat /\ MaxStgFaults \in Nat
    /\ MaxRowVersions \in [Rows -> Nat]
    /\ CustomerOf \in [RowsOf["orders"] -> RowsOf["customers"]]
    /\ \A t \in Tables : RowsOf[t] \subseteq Rows
    /\ Hubs \subseteq Tables /\ Times \subseteq Int
BY StagingAssumption DEF StagingAssumption, Rows, Hubs, Tables, Times

\* The end of a run is the latest end among the events that started it.
LEMMA IntervalEndIs ==
    ASSUME queued \in [Raw -> Times]
    PROVE  /\ IntervalEnd \in Times /\ \A s \in Raw : queued[s] <= IntervalEnd
           /\ \E s \in Raw : IntervalEnd = queued[s]
<1> DEFINE Ends == {queued[s] : s \in Raw}
<1>1. Ends \subseteq Times /\ Ends # {} /\ Ends \subseteq Int
  BY StagingConstants
<1>2. IsFiniteSet(Ends)
  <2>1. IsFiniteSet(Times)
    BY StagingConstants, FS_Interval DEF Times
  <2> HIDE DEF Ends
  <2> QED BY <1>1, <2>1, FS_Subset
<1>3. \E e \in Ends : \A x \in Ends : x <= e
  <2> HIDE DEF Ends
  <2> QED BY <1>1, <1>2, MaxExists
<1>4. \E e \in {queued[s] : s \in Raw} : \A s \in Raw : queued[s] <= e
  BY <1>3
<1>5. IntervalEnd \in Ends /\ \A s \in Raw : queued[s] <= IntervalEnd
  BY <1>4 DEF IntervalEnd
<1> QED BY <1>1, <1>5

\* The upsert takes the last version of the slice.
LEMMA UpsertTakesLast ==
    ASSUME RawInv, NEW t \in Tables
    PROVE  /\ Upserted(t) \in [Rows -> Nat]
           /\ \A r \in Rows : \/ Upserted(t)[r] = staged[r] /\ (r \in RowsOf[t] => Sliced(r) = {})
                              \/ Upserted(t)[r] \in Sliced(r) /\ \A j \in Sliced(r) : j <= Upserted(t)[r]
<1>1. ASSUME NEW r \in Rows, Sliced(r) # {}
      PROVE  \E i \in Sliced(r) : \A j \in Sliced(r) : j <= i
  <2>1. Sliced(r) \subseteq DOMAIN ingested[r] /\ DOMAIN ingested[r] = 1..Len(ingested[r]) /\ Len(ingested[r]) \in Nat
    BY DEF RawInv, Sliced
  <2>2. IsFiniteSet(1..Len(ingested[r])) /\ Sliced(r) \subseteq 1..Len(ingested[r])
    <3>1. \A n \in Nat : IsFiniteSet(1..n)
      BY FS_Interval
    <3> QED BY <2>1, <3>1
  <2>3. Sliced(r) \subseteq Int /\ IsFiniteSet(Sliced(r))
    BY <2>2, FS_Subset
  <2> QED BY <1>1, <2>3, MaxExists
<1>2. ASSUME NEW r \in Rows
      PROVE  /\ Upserted(t)[r] \in Nat
             /\ \/ Upserted(t)[r] = staged[r] /\ (r \in RowsOf[t] => Sliced(r) = {})
                \/ Upserted(t)[r] \in Sliced(r) /\ \A j \in Sliced(r) : j <= Upserted(t)[r]
  <2>1. CASE r \in RowsOf[t] /\ Sliced(r) # {}
    <3>1. PICK i \in Sliced(r) : i = Upserted(t)[r] /\ \A j \in Sliced(r) : j <= i
      BY <1>1, <2>1 DEF Upserted
    <3>2. i \in Nat
      BY DEF RawInv, Sliced
    <3> QED BY <3>1, <3>2
  <2>2. CASE ~(r \in RowsOf[t] /\ Sliced(r) # {})
    BY <2>2 DEF Upserted, RawInv
  <2> QED BY <2>1, <2>2
<1>3. Upserted(t) = [r \in Rows |-> Upserted(t)[r]]
  BY DEF Upserted
<1> QED BY <1>2, <1>3

\* So an upsert brings what is in the window, and replaces nothing by an older
\* version: what is staged is from an earlier run, and stamps increase.
LEMMA UpsertGoesOn ==
    ASSUME StagingTypeOK, RawInv, WindowInv, NEW t \in Tables, NEW r \in Rows
    PROVE  /\ Upserted(t)[r] <= Len(ingested[r])
           /\ staged[r] > 0 => Upserted(t)[r] > 0
           /\ Mode = "all_raw" => /\ staged[r] <= Upserted(t)[r]
                                  /\ Upserted(t)[r] > 0 => ingested[r][Upserted(t)[r]] <= upper
           /\ r \in RowsOf[t] => \A i \in Sliced(r) : i <= Upserted(t)[r]
<1> DEFINE v == Upserted(t)[r]
<1>1. /\ staged[r] \in Nat /\ staged[r] <= Len(ingested[r]) /\ Len(ingested[r]) \in Nat
      /\ DOMAIN ingested[r] = 1..Len(ingested[r])
      /\ \A i \in DOMAIN ingested[r] : ingested[r][i] \in Int
      /\ \A i, j \in DOMAIN ingested[r] : i < j => ingested[r][i] < ingested[r][j]
      /\ upper \in Int
  <2>1. ingested[r] \in Seq(Times) /\ staged[r] \in Nat /\ upper \in Times
    BY DEF RawInv, StagingTypeOK
  <2>2. /\ staged[r] <= Len(ingested[r])
        /\ \A i, j \in DOMAIN ingested[r] : i < j => ingested[r][i] < ingested[r][j]
    BY DEF RawInv
  <2>3. DOMAIN ingested[r] = 1..Len(ingested[r]) /\ Len(ingested[r]) \in Nat
    BY <2>1
  <2>4. upper \in Int /\ \A i \in DOMAIN ingested[r] : ingested[r][i] \in Int
    <3>1. Times \subseteq Int
      BY StagingConstants
    <3>2. ASSUME NEW i \in DOMAIN ingested[r] PROVE ingested[r][i] \in Times
      BY <2>1, <2>3
    <3> QED BY <2>1, <3>1, <3>2
  <2> QED BY <2>1, <2>2, <2>3, <2>4
<1>2. CASE v = staged[r] /\ (r \in RowsOf[t] => Sliced(r) = {})
  BY <1>1, <1>2 DEF WindowInv
<1>3. CASE v \in Sliced(r) /\ \A j \in Sliced(r) : j <= v
  <2> HIDE DEF v
  <2>1. v \in DOMAIN ingested[r] /\ upper - Lookback <= ingested[r][v] /\ ingested[r][v] <= upper
    BY <1>3 DEF Sliced
  <2>2. ASSUME Mode = "all_raw", v < staged[r] PROVE FALSE
    <3>1. staged[r] \in DOMAIN ingested[r] /\ ingested[r][v] < ingested[r][staged[r]] /\ ingested[r][staged[r]] <= upper
      BY <1>1, <2>1, <2>2 DEF WindowInv
    <3>2. upper - Lookback <= ingested[r][staged[r]]
      BY <1>1, <2>1, <3>1, StagingConstants
    <3>3. staged[r] \in Sliced(r)
      BY <3>1, <3>2 DEF Sliced
    <3> QED BY <1>1, <1>3, <2>1, <2>2, <3>3
  <2>3. Mode = "all_raw" => staged[r] <= v
    BY <1>1, <2>1, <2>2
  <2> QED BY <1>1, <1>3, <2>1, <2>3 DEF v
<1> QED BY <1>2, <1>3, UpsertTakesLast

-----------------------------------------------------------------------------
LEMMA InitStaging == StagingInit => StagingInv
<1> SUFFICES ASSUME StagingInit PROVE StagingInv
  OBVIOUS
<1> USE StagingConstants DEF StagingInit
<1>1. ingested \in [Rows -> Seq(Times)] /\ \A r \in Rows : ingested[r] = <<>> /\ staged[r] = 0
  OBVIOUS
<1>2. StagingTypeOK
  <2>1. 0 \in Times
    BY DEF Times
  <2>2. \A r \in Rows : ingested[r] \in Seq(Times) /\ Len(ingested[r]) <= MaxRowVersions[r]
                        /\ staged[r] \in 0..MaxRowVersions[r]
    BY <1>1
  <2>3. now \in Times /\ ended \in [Raw -> Times] /\ queued \in [Raw -> Times] /\ upper \in Times /\ cover \in Times
    BY <2>1
  <2>4. stgFaults \in 0..MaxStgFaults
    OBVIOUS
  <2>5. job = "idle" /\ gapped = FALSE /\ counted = {} /\ stgClean = FALSE /\ vault = "idle" /\ hubsLeft = {}
        /\ hub = {} /\ link = {}
    OBVIOUS
  <2> QED BY <2>2, <2>3, <2>4, <2>5 DEF StagingTypeOK
<1>3. RawInv
  BY <1>1 DEF RawInv
<1>4. WindowInv
  BY <1>1 DEF WindowInv
<1>5. RunCovers /\ SliceCovers
  BY <1>1 DEF RunCovers, SliceCovers, Written, Tables
<1>6. VaultInv /\ LinkHasHubs
  BY <1>1 DEF VaultInv, LinkHasHubs, StagedOf, Complete, Tables
<1> QED BY <1>2, <1>3, <1>4, <1>5, <1>6 DEF StagingInv

\* What the invariant says of the numbers.
LEMMA StagingNumbers ==
    ASSUME StagingInv
    PROVE  /\ now \in Times /\ upper \in Times /\ cover \in Times /\ upper <= now /\ cover <= now
           /\ now \in Int /\ upper \in Int /\ cover \in Int
           /\ stgFaults \in 0..MaxStgFaults
           /\ queued \in [Raw -> Times] /\ ended \in [Raw -> Times]
           /\ \A s \in Raw : queued[s] \in Int /\ ended[s] \in Int /\ queued[s] >= 0
           /\ ingested \in [Rows -> Seq(Times)] /\ staged \in [Rows -> Nat]
<1>1. Times \subseteq Int /\ \A x \in Times : x >= 0
  BY StagingConstants DEF Times
<1> QED BY <1>1 DEF StagingInv, StagingTypeOK, RawInv

LEMMA StampNumbers ==
    ASSUME StagingInv, NEW r \in Rows
    PROVE  /\ Len(ingested[r]) \in Nat /\ DOMAIN ingested[r] = 1..Len(ingested[r])
           /\ \A i \in DOMAIN ingested[r] : ingested[r][i] \in Int /\ ingested[r][i] <= now
           /\ staged[r] \in Nat /\ staged[r] <= Len(ingested[r])
           /\ ingested[r] \in Seq(Times) /\ Len(ingested[r]) <= MaxRowVersions[r]
<1>1. ingested[r] \in Seq(Times) /\ staged[r] \in Nat
  BY StagingNumbers
<1>2. Len(ingested[r]) \in Nat /\ DOMAIN ingested[r] = 1..Len(ingested[r])
  BY <1>1
<1>3. \A i \in DOMAIN ingested[r] : ingested[r][i] \in Times
  BY <1>1, <1>2
<1> QED BY <1>1, <1>2, <1>3, StagingConstants DEF StagingInv, StagingTypeOK, RawInv

LEMMA VaultFrame ==
    ASSUME VaultInv, LinkHasHubs, UNCHANGED <<staged, job, stgClean, load, stgFaults>>
    PROVE  VaultInv' /\ LinkHasHubs'
BY DEF VaultInv, LinkHasHubs, StagedOf, Complete, load

LEMMA TickKeeps == ASSUME StagingInv, Tick PROVE StagingInv'
<1>1. /\ now' = now + 1 /\ now' \in Times
      /\ UNCHANGED <<ingested, ended, queued, spark, staged, stgClean, load, stgFaults>>
  BY StagingNumbers, StagingConstants DEF Tick, Times
<1>2. StagingTypeOK'
  BY <1>1 DEF StagingInv, StagingTypeOK, spark, load
<1>3. RawInv'
  <2>1. \A r \in Rows : \A i \in DOMAIN ingested[r] : ingested[r][i] <= now'
    BY <1>1, StampNumbers, StagingNumbers
  <2>2. upper <= now' /\ cover <= now' /\ \A s \in Raw : ended[s] <= now'
    BY <1>1, StagingNumbers DEF StagingInv, RawInv
  <2> QED BY <1>1, <2>1, <2>2 DEF StagingInv, RawInv, spark
<1>4. WindowInv' /\ RunCovers' /\ SliceCovers'
  BY <1>1 DEF StagingInv, WindowInv, RunCovers, SliceCovers, Written, spark
<1>5. VaultInv' /\ LinkHasHubs'
  BY <1>1, VaultFrame DEF StagingInv, spark
<1> QED BY <1>2, <1>3, <1>4, <1>5 DEF StagingInv

\* A version that becomes visible is too young for what the runs have covered.
LEMMA IngestKeeps == ASSUME StagingInv, NEW r \in Rows, Ingest(r) PROVE StagingInv'
<1> DEFINE old == ingested[r]
           k == Len(ingested[r]) + 1
<1>1. PICK at \in Times : /\ now - Delay <= at /\ at <= now
                          /\ \A i \in DOMAIN old : old[i] < at
                          /\ ingested' = [ingested EXCEPT ![r] = Append(old, at)]
  BY DEF Ingest
<1>2. Len(old) < MaxRowVersions[r] /\ UNCHANGED <<now, ended, queued, spark, staged, stgClean, load, stgFaults>>
  BY DEF Ingest
<1>3. /\ ingested' \in [Rows -> Seq(Times)]
      /\ \A q \in Rows \ {r} : ingested'[q] = ingested[q]
      /\ ingested'[r] = Append(old, at)
  BY <1>1, StagingNumbers, StampNumbers
<1>4. /\ at \in Int /\ k \in Nat /\ MaxRowVersions[r] \in Nat
      /\ Len(ingested'[r]) = k /\ DOMAIN ingested'[r] = 1..k /\ ingested'[r][k] = at
      /\ \A i \in DOMAIN old : i \in 1..k /\ i # k /\ ingested'[r][i] = old[i]
      /\ \A i \in 1..k : i = k \/ i \in DOMAIN old
  BY <1>3, StampNumbers, StagingConstants
<1>5. \A q \in Rows : \A i \in DOMAIN ingested'[q] :
         \/ i \in DOMAIN ingested[q] /\ ingested'[q][i] = ingested[q][i]
         \/ q = r /\ i = k /\ ingested'[q][i] = at
  BY <1>3, <1>4
<1>6. ~(at + Delay < upper) /\ ~(at + Delay < cover)
  <2>1. now - Delay <= at /\ at \in Int /\ Delay \in Int
    BY <1>1, <1>4, StagingConstants
  <2>2. upper \in Int /\ cover \in Int /\ now \in Int /\ upper <= now /\ cover <= now
    BY StagingNumbers
  <2> QED BY <2>1, <2>2
<1>7. StagingTypeOK'
  <2>1. \A q \in Rows : ingested'[q] \in Seq(Times) /\ Len(ingested'[q]) <= MaxRowVersions[q]
    BY <1>2, <1>3, <1>4, StampNumbers
  <2> QED BY <1>2, <2>1 DEF StagingInv, StagingTypeOK, spark, load
<1>8. RawInv'
  <2>1. ASSUME NEW q \in Rows
        PROVE  /\ \A i \in DOMAIN ingested'[q] : ingested'[q][i] <= now
               /\ \A i, j \in DOMAIN ingested'[q] : i < j => ingested'[q][i] < ingested'[q][j]
               /\ staged[q] <= Len(ingested'[q])
    <3>1. /\ \A i, j \in DOMAIN ingested[q] : i < j => ingested[q][i] < ingested[q][j]
          /\ \A i \in DOMAIN ingested[q] : ingested[q][i] <= now
          /\ staged[q] <= Len(ingested[q])
      BY DEF StagingInv, RawInv
    <3>2. CASE q # r
      BY <1>3, <3>1, <3>2
    <3>3. CASE q = r
      <4>1. staged[r] <= k /\ Len(old) \in Nat /\ DOMAIN old = 1..Len(old)
        BY StampNumbers
      <4> HIDE DEF k
      <4>2. \A i \in 1..k : ingested'[r][i] <= now
        BY <1>1, <1>4, <3>1, <3>3
      <4>3. ASSUME NEW i \in 1..k, NEW j \in 1..k, i < j
            PROVE  ingested'[r][i] < ingested'[r][j]
        <5>1. i \in DOMAIN old /\ (j = k \/ j \in DOMAIN old)
          BY <1>4, <4>3 
        <5> QED BY <1>1, <1>4, <3>1, <3>3, <4>3, <5>1
      <4> QED BY <1>4, <3>3, <4>1, <4>2, <4>3
    <3> QED BY <3>2, <3>3
  <2> QED BY <1>2, <1>3, <2>1 DEF StagingInv, RawInv, spark
<1>9. WindowInv'
  <2>1. \A q \in Rows : staged[q] > 0 => ingested'[q][staged[q]] = ingested[q][staged[q]]
    <3> SUFFICES ASSUME NEW q \in Rows, staged[q] > 0 PROVE ingested'[q][staged[q]] = ingested[q][staged[q]]
      OBVIOUS
    <3>1. staged[q] \in DOMAIN ingested[q]
      BY StampNumbers
    <3>2. CASE q = r
      <4>1. \A i \in DOMAIN old : ingested'[r][i] = old[i]
        BY <1>4
      <4> QED BY <3>1, <3>2, <4>1
    <3>3. CASE q # r
      BY <1>3, <3>3
    <3> QED BY <3>2, <3>3
  <2> QED BY <1>2, <2>1 DEF StagingInv, WindowInv, spark
<1>10. RunCovers'
  <2> SUFFICES ASSUME Mode = "all_raw", NEW t \in Written, NEW q \in RowsOf[t], NEW i \in DOMAIN ingested'[q],
                      ingested'[q][i] + Delay < upper, upper - Lookback <= ingested'[q][i]
               PROVE  staged[q] >= i
    BY <1>2 DEF RunCovers, Written, spark
  <2>1. q \in Rows
    BY StagingConstants DEF Written, Tables
  <2>2. CASE i \in DOMAIN ingested[q] /\ ingested'[q][i] = ingested[q][i]
    BY <2>2 DEF StagingInv, RunCovers
  <2>3. ingested'[q][i] # at
    BY <1>6
  <2> QED BY <1>5, <2>1, <2>2, <2>3
<1>11. SliceCovers'
  <2> SUFFICES ASSUME Mode = "all_raw", ~gapped, NEW q \in Rows, NEW i \in DOMAIN ingested'[q],
                      ingested'[q][i] + Delay < cover
               PROVE  staged[q] >= i
    BY <1>2 DEF SliceCovers, spark
  <2>2. CASE i \in DOMAIN ingested[q] /\ ingested'[q][i] = ingested[q][i]
    BY <2>2 DEF StagingInv, SliceCovers
  <2>3. ingested'[q][i] # at
    BY <1>6
  <2> QED BY <1>5, <2>2, <2>3
<1>12. VaultInv' /\ LinkHasHubs'
  BY <1>2, VaultFrame DEF StagingInv, spark
<1> QED BY <1>7, <1>8, <1>9, <1>10, <1>11, <1>12 DEF StagingInv

LEMMA PublishRawKeeps == ASSUME StagingInv, NEW s \in Raw, PublishRaw(s) PROVE StagingInv'
<1>1. PICK end \in Times : /\ ended[s] < end /\ end <= now
                           /\ ended' = [ended EXCEPT ![s] = end] /\ queued' = [queued EXCEPT ![s] = end]
  BY DEF PublishRaw
<1>2. UNCHANGED <<now, ingested, spark, staged, stgClean, load, stgFaults>>
  BY DEF PublishRaw
<1>3. end \in Int /\ ended' \in [Raw -> Times] /\ queued' \in [Raw -> Times]
      /\ \A q \in Raw : IF q = s THEN ended'[q] = end /\ queued'[q] = end
                                 ELSE ended'[q] = ended[q] /\ queued'[q] = queued[q]
  BY <1>1, StagingNumbers, StagingConstants
<1>4. StagingTypeOK'
  BY <1>2, <1>3 DEF StagingInv, StagingTypeOK, spark, load
<1>5. RawInv'
  <2>1. \A q \in Raw : queued'[q] <= ended'[q] /\ ended'[q] <= now
    BY <1>1, <1>3 DEF StagingInv, RawInv
  <2> QED BY <1>2, <2>1 DEF StagingInv, RawInv, spark
<1>6. WindowInv'
  <2> SUFFICES ASSUME Mode = "all_raw"
               PROVE  \E q \in Raw : upper <= ended'[q] /\ (queued'[q] > 0 => upper < queued'[q])
    BY <1>2 DEF StagingInv, WindowInv, spark
  <2>1. PICK q \in Raw : upper <= ended[q] /\ (queued[q] > 0 => upper < queued[q])
    BY DEF StagingInv, WindowInv
  <2>2. CASE q = s
    BY <1>1, <1>3, <2>1, <2>2, StagingNumbers
  <2>3. CASE q # s
    BY <1>3, <2>1, <2>3
  <2> QED BY <2>2, <2>3
<1>7. RunCovers' /\ SliceCovers'
  BY <1>2 DEF StagingInv, RunCovers, SliceCovers, Written, spark
<1>8. VaultInv' /\ LinkHasHubs'
  BY <1>2, VaultFrame DEF StagingInv, spark
<1> QED BY <1>4, <1>5, <1>6, <1>7, <1>8 DEF StagingInv

-----------------------------------------------------------------------------
(* dag_spark_preprocess_to_stg.                                            *)

\* What any write of a table keeps, also one whose attempt fails after it.
LEMMA StagedGrows ==
    ASSUME StagingInv, staged' \in {staged} \cup {Upserted(t) : t \in Tables},
           UNCHANGED <<raw, queued, upper, cover, gapped>>
    PROVE  /\ RawInv' /\ WindowInv' /\ SliceCovers'
           /\ \A r \in Rows : staged'[r] \in 0..MaxRowVersions[r]
           /\ Mode = "all_raw" => \A r \in Rows : staged[r] <= staged'[r]
           /\ \A t \in Tables : StagedOf(t) \subseteq StagedOf(t)'
<1>0. RawInv /\ WindowInv /\ SliceCovers /\ StagingTypeOK
  BY DEF StagingInv
<1>1. staged' \in [Rows -> Nat]
  BY <1>0, UpsertTakesLast, StagingNumbers
<1>2. ASSUME NEW r \in Rows
      PROVE  /\ staged'[r] \in Nat /\ staged'[r] <= Len(ingested[r])
             /\ staged[r] > 0 => staged'[r] > 0
             /\ Mode = "all_raw" => /\ staged[r] <= staged'[r]
                                    /\ staged'[r] > 0 => ingested[r][staged'[r]] <= upper
  <2>1. CASE staged' = staged
    BY <1>0, <2>1, StampNumbers DEF WindowInv
  <2>2. ASSUME NEW t \in Tables, staged' = Upserted(t)
        PROVE  /\ staged'[r] \in Nat /\ staged'[r] <= Len(ingested[r])
               /\ staged[r] > 0 => staged'[r] > 0
               /\ Mode = "all_raw" => /\ staged[r] <= staged'[r]
                                      /\ staged'[r] > 0 => ingested[r][staged'[r]] <= upper
    BY <1>0, <1>1, <2>2, UpsertGoesOn
  <2> QED BY <2>1, <2>2
<1>3. RawInv'
  BY <1>0, <1>1, <1>2 DEF RawInv, raw
<1>4. WindowInv'
  BY <1>0, <1>2 DEF WindowInv, raw
<1>5. SliceCovers'
  <2> SUFFICES ASSUME Mode = "all_raw", ~gapped, NEW r \in Rows, NEW i \in DOMAIN ingested[r],
                      ingested[r][i] + Delay < cover
               PROVE  staged'[r] >= i
    BY DEF SliceCovers, raw
  <2>1. staged[r] >= i
    BY <1>0 DEF SliceCovers
  <2>2. i \in Int /\ staged[r] \in Int
    BY StampNumbers
  <2> QED BY <1>2, <2>1, <2>2
<1>6. ASSUME NEW r \in Rows PROVE staged'[r] \in 0..MaxRowVersions[r]
  BY <1>2, StampNumbers, StagingConstants
<1>7. \A t \in Tables : StagedOf(t) \subseteq StagedOf(t)'
  BY <1>2, StagingConstants DEF StagedOf
<1> QED BY <1>2, <1>3, <1>4, <1>5, <1>6, <1>7

LEMMA StartSparkKeeps == ASSUME StagingInv, StartSpark PROVE StagingInv'
<1>1. /\ job' = "precheck" /\ upper' = IntervalEnd /\ queued' = [s \in Raw |-> 0]
      /\ UNCHANGED <<raw, counted, cover, gapped, staged, stgClean, load, stgFaults>>
      /\ Mode = "all_raw" => \A s \in Raw : queued[s] > 0
  BY StagingAssumption DEF StartSpark, Triggered, StagingAssumption
<1>2. upper' \in Times /\ \A s \in Raw : queued[s] <= upper'
  BY <1>1, IntervalEndIs, StagingNumbers
<1>3. PICK last \in Raw : upper' = queued[last]
  BY <1>1, IntervalEndIs, StagingNumbers
<1>4. upper' <= now /\ upper' <= ended[last] /\ upper' \in Int /\ 0 \in Times
  <2>1. queued[last] <= ended[last] /\ ended[last] <= now
    BY DEF StagingInv, RawInv
  <2>2. 0 \in Times
    BY StagingConstants DEF Times
  <2> QED BY <1>3, <2>1, <2>2, StagingNumbers
<1>5. StagingTypeOK'
  BY <1>1, <1>2, <1>4 DEF StagingInv, StagingTypeOK, raw, load
<1>6. RawInv'
  <2>1. \A s \in Raw : queued'[s] <= ended[s]
    BY <1>1, StagingNumbers DEF StagingInv, RawInv
  <2> QED BY <1>1, <1>4, <2>1 DEF StagingInv, RawInv, raw
<1>7. WindowInv'
  <2> SUFFICES ASSUME Mode = "all_raw" PROVE WindowInv'
    BY DEF WindowInv
  <2>1. PICK s \in Raw : upper < queued[s]
    BY <1>1 DEF StagingInv, WindowInv
  <2>2. upper < upper'
    BY <1>2, <1>4, <2>1, StagingNumbers
  <2>3. cover <= upper'
    BY <1>4, <2>2, StagingNumbers DEF StagingInv, WindowInv
  <2>4. upper' <= ended[last] /\ ~(queued'[last] > 0)
    BY <1>1, <1>4
  <2>5. ASSUME NEW r \in Rows, staged[r] > 0 PROVE ingested[r][staged[r]] <= upper'
    <3>1. ingested[r][staged[r]] <= upper /\ staged[r] \in DOMAIN ingested[r]
      BY <2>5, StampNumbers DEF StagingInv, WindowInv
    <3>2. ingested[r][staged[r]] \in Int
      BY <3>1, StampNumbers
    <3> QED BY <1>4, <2>2, <3>1, <3>2, StagingNumbers
  <2> QED BY <1>1, <2>3, <2>4, <2>5 DEF WindowInv, raw
<1>8. RunCovers'
  BY <1>1 DEF RunCovers, Written
<1>9. SliceCovers'
  BY <1>1 DEF StagingInv, SliceCovers, raw
<1>10. VaultInv' /\ LinkHasHubs'
  BY <1>1 DEF StagingInv, VaultInv, LinkHasHubs, StagedOf, load
<1> QED BY <1>5, <1>6, <1>7, <1>8, <1>9, <1>10 DEF StagingInv

LEMMA PrecheckKeeps == ASSUME StagingInv, Precheck PROVE StagingInv'
<1>1. /\ job = "precheck" /\ job' = "customers" /\ counted' \subseteq Hubs
      /\ UNCHANGED <<raw, queued, upper, cover, gapped, staged, stgClean, load, stgFaults>>
  BY DEF Precheck
<1>2. StagingTypeOK' /\ RawInv' /\ WindowInv'
  BY <1>1 DEF StagingInv, StagingTypeOK, RawInv, WindowInv, raw, load, Tables
<1>3. RunCovers' /\ SliceCovers'
  BY <1>1 DEF StagingInv, RunCovers, SliceCovers, Written, raw
<1>4. VaultInv' /\ LinkHasHubs'
  BY <1>1 DEF StagingInv, VaultInv, LinkHasHubs, StagedOf, load
<1> QED BY <1>2, <1>3, <1>4 DEF StagingInv

\* The table that is written has all that the window had to bring to it.
LEMMA WriteKeeps == ASSUME StagingInv, WriteTable PROVE StagingInv'
<1>1. /\ job \in Tables /\ staged' = Upserted(job) /\ job' = AfterTable[job]
      /\ UNCHANGED <<raw, queued, upper, counted, cover, gapped, stgClean, load, stgFaults>>
  BY DEF WriteTable
<1>2. job' \in Tables \cup {"validate"} /\ job' # "idle" /\ Written' \subseteq Written \cup {job}
  BY <1>1 DEF AfterTable, Tables, Written
<1>3. /\ RawInv' /\ WindowInv' /\ SliceCovers'
      /\ \A r \in Rows : staged'[r] \in 0..MaxRowVersions[r]
      /\ Mode = "all_raw" => \A r \in Rows : staged[r] <= staged'[r]
      /\ \A t \in Tables : StagedOf(t) \subseteq StagedOf(t)'
  BY <1>1, StagedGrows
<1>4. StagingTypeOK'
  BY <1>1, <1>2, <1>3 DEF StagingInv, StagingTypeOK, raw, load
<1>5. RunCovers'
  <2> SUFFICES ASSUME Mode = "all_raw", NEW t \in Written', NEW r \in RowsOf[t], NEW i \in DOMAIN ingested[r],
                      ingested[r][i] + Delay < upper, upper - Lookback <= ingested[r][i]
               PROVE  staged'[r] >= i
    BY <1>1 DEF RunCovers, raw
  <2>1. t \in Tables /\ r \in Rows /\ i \in Int /\ ingested[r][i] \in Int
    <3>1. Written \subseteq Tables
      BY DEF Written, Tables
    <3>2. t \in Tables /\ r \in Rows
      BY <1>1, <1>2, <3>1, StagingConstants
    <3> QED BY <3>2, StampNumbers
  <2>2. CASE t \in Written
    <3>1. staged[r] >= i
      BY <2>2 DEF StagingInv, RunCovers
    <3> QED BY <1>3, <2>1, <3>1, StampNumbers
  <2>3. CASE t = job
    <3>0. upper \in Int /\ Delay \in Nat
      BY StagingNumbers, StagingConstants
    <3>1. ingested[r][i] <= upper
      BY <2>1, <3>0
    <3>2. i \in Sliced(r)
      BY <3>1 DEF Sliced
    <3>3. i <= Upserted(job)[r]
      BY <1>1, <2>1, <2>3, <3>2, UpsertGoesOn DEF StagingInv
    <3> QED BY <1>1, <1>3, <2>1, <3>3, StagingConstants
  <2> QED BY <1>2, <2>2, <2>3
<1>6. VaultInv'
  BY <1>1, <1>2, <1>3 DEF StagingInv, VaultInv, load, Tables
<1>7. LinkHasHubs'
  BY <1>1 DEF StagingInv, LinkHasHubs, load
<1> QED BY <1>3, <1>4, <1>5, <1>6, <1>7 DEF StagingInv

\* A run that ends without its event has staged nothing that could be linked.
LEMMA ValidateKeeps == ASSUME StagingInv, Validate PROVE StagingInv'
<1>1. /\ job = "validate" /\ (job' = "publish" \/ (job' = "idle" /\ Empty # {}))
      /\ UNCHANGED <<raw, queued, upper, counted, cover, gapped, staged, stgClean, load, stgFaults>>
  BY DEF Validate
<1>2. StagingTypeOK' /\ RawInv' /\ WindowInv'
  BY <1>1 DEF StagingInv, StagingTypeOK, RawInv, WindowInv, raw, load
<1>3. RunCovers' /\ SliceCovers'
  BY <1>1 DEF StagingInv, RunCovers, SliceCovers, Written, raw
<1>4. Empty # {} => ~Complete
  <2> SUFFICES ASSUME NEW t \in Empty, Complete PROVE FALSE
    OBVIOUS
  <2>1. t \in Hubs /\ \A r \in RowsOf[t] : staged[r] = 0
    BY DEF Empty, StagingInv, StagingTypeOK
  <2>2. PICK o \in RowsOf["orders"] : staged[o] > 0 /\ staged[CustomerOf[o]] > 0
    BY DEF Complete, StagedOf
  <2>3. CustomerOf[o] \in RowsOf["customers"]
    BY <2>2, StagingConstants
  <2> QED BY <2>1, <2>2, <2>3 DEF Hubs
<1>5. VaultInv' /\ LinkHasHubs'
  BY <1>1, <1>4 DEF StagingInv, VaultInv, LinkHasHubs, Complete, StagedOf, load
<1> QED BY <1>2, <1>3, <1>5 DEF StagingInv

\* The window of the run meets what the runs before it have covered.
LEMMA PublishStgKeeps == ASSUME StagingInv, PublishStg PROVE StagingInv'
<1>1. /\ job = "publish" /\ job' = "idle" /\ stgClean' = TRUE
      /\ cover' = IF upper > cover THEN upper ELSE cover
      /\ UNCHANGED <<raw, queued, upper, counted, staged, load, stgFaults>>
  BY DEF PublishStg
<1>2. gapped' \in BOOLEAN /\ (~gapped' => ~gapped /\ ~(upper - Lookback > cover - Delay))
  BY DEF PublishStg, StagingInv, StagingTypeOK
<1>3. cover' \in Times /\ cover' <= now /\ (Mode = "all_raw" => cover' = upper)
  BY <1>1, StagingNumbers DEF StagingInv, WindowInv
<1>4. StagingTypeOK' /\ RawInv' /\ WindowInv'
  BY <1>1, <1>2, <1>3, StagingNumbers DEF StagingInv, StagingTypeOK, RawInv, WindowInv, raw, load
<1>5. RunCovers'
  BY <1>1 DEF RunCovers, Written, Tables
<1>6. SliceCovers'
  <2> SUFFICES ASSUME Mode = "all_raw", ~gapped', NEW r \in Rows, NEW i \in DOMAIN ingested[r],
                      ingested[r][i] + Delay < cover'
               PROVE  staged[r] >= i
    BY <1>1 DEF SliceCovers, raw
  <2>1. ingested[r][i] \in Int
    BY StampNumbers
  <2>2. CASE upper - Lookback <= ingested[r][i]
    <3>1. PICK t \in Tables : r \in RowsOf[t]
      BY DEF Rows
    <3>2. t \in Written
      BY <1>1 DEF Written
    <3> QED BY <1>3, <2>2, <3>1, <3>2 DEF StagingInv, RunCovers
  <2>3. CASE ingested[r][i] < upper - Lookback
    <3>0. upper \in Int /\ cover \in Int /\ Delay \in Int /\ Lookback \in Int
      BY StagingNumbers, StagingConstants
    <3>1. ingested[r][i] + Delay < cover
      BY <1>2, <2>1, <2>3, <3>0
    <3> QED BY <1>2, <3>1 DEF StagingInv, SliceCovers
  <2> QED BY <2>1, <2>2, <2>3, StagingNumbers, StagingConstants
<1>7. VaultInv' /\ LinkHasHubs'
  BY <1>1 DEF StagingInv, VaultInv, LinkHasHubs, StagedOf, load
<1> QED BY <1>4, <1>5, <1>6, <1>7 DEF StagingInv

LEMMA SparkFailsKeeps == ASSUME StagingInv, SparkFails PROVE StagingInv'
<1>1. /\ job # "idle" /\ stgFaults' \in 1..MaxStgFaults
      /\ staged' \in {staged} \cup {Upserted(t) : t \in Tables}
      /\ job' \in {TaskStart, "idle"}
      /\ UNCHANGED <<raw, queued, upper, counted, cover, gapped, stgClean, load>>
  BY StagingNumbers, StagingConstants DEF SparkFails, StgFault
<1>2. /\ RawInv' /\ WindowInv' /\ SliceCovers'
      /\ \A r \in Rows : staged'[r] \in 0..MaxRowVersions[r]
      /\ Mode = "all_raw" => \A r \in Rows : staged[r] <= staged'[r]
      /\ \A t \in Tables : StagedOf(t) \subseteq StagedOf(t)'
  BY <1>1, StagedGrows
<1>3. Written' \subseteq Written /\ Written \subseteq Tables
  BY <1>1 DEF Written, TaskStart, Tables
<1>4. StagingTypeOK'
  BY <1>1, <1>2, StagingConstants DEF StagingInv, StagingTypeOK, TaskStart, Tables, raw, load
<1>5. RunCovers'
  <2> SUFFICES ASSUME Mode = "all_raw", NEW t \in Written, NEW r \in RowsOf[t], NEW i \in DOMAIN ingested[r],
                      ingested[r][i] + Delay < upper, upper - Lookback <= ingested[r][i]
               PROVE  staged'[r] >= i
    BY <1>1, <1>3 DEF RunCovers, raw
  <2>1. r \in Rows /\ staged[r] >= i
    BY <1>3, StagingConstants DEF StagingInv, RunCovers
  <2>2. i \in Int /\ staged[r] \in Int /\ staged'[r] \in Int /\ staged[r] <= staged'[r]
    BY <1>2, <2>1, StampNumbers, StagingConstants
  <2> QED BY <2>1, <2>2
<1>6. VaultInv'
  BY <1>1, <1>2 DEF StagingInv, VaultInv, load, Tables
<1>7. LinkHasHubs'
  BY <1>1 DEF StagingInv, LinkHasHubs, load
<1> QED BY <1>2, <1>4, <1>5, <1>6, <1>7 DEF StagingInv

-----------------------------------------------------------------------------
(* dag_load_datavault.                                                     *)

\* What no step of the vault touches.
LEMMA LoadKeepsRest ==
    ASSUME StagingInv, UNCHANGED <<raw, queued, spark, staged>>
    PROVE  RawInv' /\ WindowInv' /\ RunCovers' /\ SliceCovers'
BY DEF StagingInv, RawInv, WindowInv, RunCovers, SliceCovers, Written, raw, spark

LEMMA LoadKeeps == ASSUME StagingInv, Load PROVE StagingInv'
<1>0. /\ StagingTypeOK /\ VaultInv /\ LinkHasHubs
      /\ UNCHANGED <<raw, queued, spark, staged>>
  BY DEF StagingInv, Load, StartVault, LoadHub, LoadLink, LinkFails, PublishVault, VaultFails
<1>1. RawInv' /\ WindowInv' /\ RunCovers' /\ SliceCovers'
  BY <1>0, LoadKeepsRest
<1>2. /\ \A t \in Tables : StagedOf(t)' = StagedOf(t) /\ StagedOf(t) \subseteq RowsOf[t]
      /\ Complete' <=> Complete
  BY <1>0 DEF StagedOf, Complete
<1>3. CASE StartVault
  <2>1. StagingTypeOK'
    BY <1>0, <1>3 DEF StartVault, StagingTypeOK, raw, spark
  <2>2. VaultInv' /\ LinkHasHubs'
    BY <1>0, <1>2, <1>3 DEF StartVault, VaultInv, LinkHasHubs, Tables
  <2> QED BY <1>1, <2>1, <2>2 DEF StagingInv
<1>4. ASSUME NEW t \in Hubs, LoadHub(t) PROVE StagingInv'
  <2>1. StagedOf(t) \subseteq RowsOf["customers"] \cup RowsOf["orders"]
    BY DEF Hubs, StagedOf
  <2>2. StagingTypeOK'
    BY <1>0, <1>4, <2>1 DEF LoadHub, StagingTypeOK, raw, spark
  <2>3. VaultInv'
    BY <1>0, <1>2, <1>4, StagingConstants DEF LoadHub, VaultInv, Tables, Hubs, spark
  <2>4. LinkHasHubs'
    BY <1>0, <1>4 DEF LoadHub, LinkHasHubs
  <2> QED BY <1>1, <2>2, <2>3, <2>4 DEF StagingInv
<1>5. CASE LoadLink
  <2>1. StagedOf("orders") \subseteq RowsOf["orders"]
    BY DEF StagedOf
  <2>2. StagingTypeOK'
    BY <1>0, <1>5, <2>1 DEF LoadLink, StagingTypeOK, raw, spark
  <2>3. VaultInv'
    BY <1>0, <1>2, <1>5 DEF LoadLink, VaultInv, Tables, spark
  <2>4. LinkHasHubs'
    BY <1>0, <1>5 DEF LoadLink, LinkHasHubs, Linkable
  <2> QED BY <1>1, <2>2, <2>3, <2>4 DEF StagingInv
<1>6. CASE LinkFails
  <2>1. StagingTypeOK'
    BY <1>0, <1>6 DEF LinkFails, StagingTypeOK, raw, spark
  <2>2. (\A t \in Hubs : StagedOf(t) \subseteq hub) => ~Complete
    <3> SUFFICES ASSUME \A t \in Hubs : StagedOf(t) \subseteq hub, Complete PROVE FALSE
      OBVIOUS
    <3>1. ASSUME NEW o \in StagedOf("orders") PROVE o \in hub /\ CustomerOf[o] \in hub
      <4>1. CustomerOf[o] \in StagedOf("customers")
        BY StagingConstants DEF Complete, StagedOf
      <4> QED BY <4>1 DEF Hubs
    <3> QED BY <1>6, <3>1 DEF LinkFails, Linkable
  <2>3. VaultInv'
    BY <1>0, <1>2, <1>6, <2>2 DEF LinkFails, VaultInv, Tables, spark
  <2>4. LinkHasHubs'
    BY <1>0, <1>6 DEF LinkFails, LinkHasHubs
  <2> QED BY <1>1, <2>1, <2>3, <2>4 DEF StagingInv
<1>7. CASE PublishVault
  <2>1. StagingTypeOK'
    BY <1>0, <1>7 DEF PublishVault, StagingTypeOK, raw, spark
  <2>2. VaultInv'
    BY <1>0, <1>2, <1>7 DEF PublishVault, VaultInv, Tables, spark
  <2>3. LinkHasHubs'
    BY <1>0, <1>7 DEF PublishVault, LinkHasHubs
  <2> QED BY <1>1, <2>1, <2>2, <2>3 DEF StagingInv
<1>8. CASE VaultFails
  <2>1. /\ stgFaults' \in 1..MaxStgFaults /\ vault' \in {vault, "idle"}
        /\ hub \subseteq hub' /\ hub' \subseteq RowsOf["customers"] \cup RowsOf["orders"]
        /\ link' = link \/ (Linkable /\ link' = link \cup StagedOf("orders"))
        /\ UNCHANGED <<stgClean, hubsLeft>>
    <3>1. stgFaults' \in 1..MaxStgFaults /\ vault' \in {vault, "idle"} /\ UNCHANGED <<stgClean, hubsLeft>>
      BY <1>8, StagingNumbers, StagingConstants DEF VaultFails, StgFault
    <3>2. \A t \in hubsLeft : StagedOf(t) \subseteq RowsOf["customers"] \cup RowsOf["orders"]
      BY <1>0 DEF StagedOf, Hubs, StagingTypeOK
    <3>3. hub \subseteq hub' /\ hub' \subseteq RowsOf["customers"] \cup RowsOf["orders"]
      BY <1>0, <1>8, <3>2 DEF VaultFails, StagingTypeOK
    <3>4. link' = link \/ (Linkable /\ link' = link \cup StagedOf("orders"))
      BY <1>8 DEF VaultFails
    <3> QED BY <3>1, <3>3, <3>4
  <2>2. StagingTypeOK'
    BY <1>0, <1>2, <2>1, StagingConstants DEF StagingTypeOK, raw, spark, Tables
  <2>3. VaultInv'
    BY <1>0, <1>2, <2>1 DEF VaultInv, Tables
  <2>4. LinkHasHubs'
    BY <1>0, <2>1 DEF LinkHasHubs, Linkable
  <2> QED BY <1>1, <2>2, <2>3, <2>4 DEF StagingInv
<1> QED BY <1>3, <1>4, <1>5, <1>6, <1>7, <1>8 DEF Load

LEMMA StepStaging == StagingInv /\ [StagingNext]_stagingVars => StagingInv'
<1> SUFFICES ASSUME StagingInv, [StagingNext]_stagingVars PROVE StagingInv'
  OBVIOUS
<1>1. CASE UNCHANGED stagingVars
  BY <1>1 DEF stagingVars, raw, spark, load, StagingInv, StagingTypeOK, RawInv, WindowInv, RunCovers, SliceCovers,
     Written, VaultInv, Complete, StagedOf, LinkHasHubs
<1>2. CASE Tick \/ (\E r \in Rows : Ingest(r)) \/ (\E s \in Raw : PublishRaw(s))
  BY <1>2, TickKeeps, IngestKeeps, PublishRawKeeps
<1>3. CASE Spark
  BY <1>3, StartSparkKeeps, PrecheckKeeps, WriteKeeps, ValidateKeeps, PublishStgKeeps, SparkFailsKeeps DEF Spark
<1> QED BY <1>1, <1>2, <1>3, LoadKeeps DEF StagingNext

\* The invariant of the way from the raw layer to the vault.
THEOREM StagingInductive == StagingSpec => []StagingInv
BY InitStaging, StepStaging, PTL DEF StagingSpec

\* Every variable of the staging and the vault holds a value of its kind.
THEOREM StagingTyping == StagingSpec => []StagingTypeOK
<1>1. StagingInv => StagingTypeOK
  BY DEF StagingInv
<1> QED BY <1>1, StagingInductive, PTL

\* preprocess_orders_payments.py and loaders.py: no raw version that a run had to
\* bring is missing or replaced by an older one, the link catches up with the
\* staged orders, and every link has its hubs.
THEOREM StagingSound == StagingSpec => []StagingIsSound
<1>1. StagingInv => StagingIsSound
  BY DEF StagingInv, StagingIsSound, VaultInv, VaultSettled, Complete
<1> QED BY <1>1, StagingInductive, PTL

-----------------------------------------------------------------------------
(* The chain of DAGs behind the vault.                                     *)

ChainSpec == ChainInit /\ [][ChainNext]_chainVars

Core == {"scd2", "staging", "vault", "marts", "kpis", "dqc", "quality", "serving"}

\* An active run of a DAG; a DAG with a run at a step; with an event or a run, so
\* that its own event is still to come; with work still to do on what is there now.
Active(d, run) == d \in Dags /\ \E i \in DOMAIN steps[d] : steps[d][i] = run
At(d, phase)   == \E run \in RunSet : Active(d, run) /\ run.at = phase
Coming(d)      == d \in Dags /\ (d \in pending \/ steps[d] # <<>>)
Ahead(d)       == d \in pending \/ At(d, "work")
AnyOf(S)       == \E d \in S : Coming(d)

\* What is computed is not newer than what it is computed from.
InputsInOrder ==
    /\ stgNow <= rawNow /\ extVault <= extNow
    /\ \A run \in RunSet : Active("vault", run) => run.ext <= extNow

\* The attempts that have set the keys, written the rows and set the watermark, in
\* this order; an attempt in its loop has not written the rows yet, and what it has
\* fetched is what Redis has.
DualWrite ==
    /\ watermark <= written /\ written <= attempt /\ snapshotBy \in {0, written}
    /\ \A m \in MetricSet :
          /\ written <= setBy[m] /\ setBy[m] <= attempt
          /\ snapshotBy # 0 /\ setBy[m] = snapshotBy => snapshot[m] = redis[m]
    /\ At("serving", "work") =>
          /\ written < attempt
          /\ \A i \in DOMAIN fetched : setBy[Metrics[i]] = attempt /\ redis[Metrics[i]] = fetched[i]
    /\ At("serving", "write") => written = attempt /\ \A m \in MetricSet : setBy[m] = attempt
    /\ dagFaults = 0 /\ ~At("serving", "work") /\ ~At("serving", "write") =>
          \A m \in MetricSet : setBy[m] = watermark

ChainInv == ChainTypeOK /\ InputsInOrder /\ DualWrite

\* What does not show what its inputs show is still to be computed, by its own DAG
\* or after one upstream.
ToViews == {"scd2", "staging"}
ToMarts == ToViews \cup {"vault", "marts"}
ToServe == {"marts", "dqc", "quality"}
Upstream(reader) == IF reader = "analytics" THEN ToServe \cup {"serving"}
                    ELSE IF reader = "finance" THEN {"marts"} ELSE ToMarts

Behind         == AnyOf(ToServe) \/ "serving" \in pending
Fresh(version) == version = data["facts"] \/ Behind
UpToDate(r)    == IF r = "ml" THEN data[r].raw >= stgNow ELSE data[r] = data["facts"]

\* A run of the vault that has read the newest rows and not written them.
Holds(run)      == Active("vault", run) /\ run.at = "write" /\ Covers(run.read)
HoldsEvents(run) == Active("vault", run) /\ run.at = "write" /\ run.ext = extNow

FreshSatellites == data["satellites"].stg = stgNow \/ Ahead("scd2")
FreshVault      == \/ "vault" \in raced \/ Covers(data["vault"]) \/ AnyOf(ToViews) \/ Ahead("vault")
                   \/ \E run \in RunSet : Holds(run)
FreshExtensions == extVault = extNow \/ Ahead("vault") \/ \E run \in RunSet : HoldsEvents(run)
FreshFacts      == data["facts"] = data["vault"] \/ At("vault", "done") \/ Ahead("marts")
FreshKpis       == "kpis" \in raced \/ data["kpis"] = data["facts"] \/ At("marts", "write") \/ At("marts", "kpis")
FreshReaders    == \A r \in Readers \cap Dags : UpToDate(r) \/ AnyOf(Upstream(r)) \/ Ahead(r)
FreshTables     == FreshSatellites /\ FreshVault /\ FreshExtensions /\ FreshFacts /\ FreshKpis /\ FreshReaders

FreshServing ==
    /\ \A i \in DOMAIN fetched : Fresh(fetched[i])
    /\ \A m \in MetricSet : \/ Fresh(redis[m])
                            \/ At("serving", "work") /\ \E i \in DOMAIN Metrics : Metrics[i] = m /\ Len(fetched) < i
    /\ \A m \in MetricSet : Fresh(snapshot[m]) \/ At("serving", "work")
    /\ snapshotBy = attempt \/ Behind \/ At("serving", "work")

FreshInv == dagFaults = 0 => FreshTables /\ FreshServing
-----------------------------------------------------------------------------
LEMMA ChainConstants ==
    /\ Dags \subseteq DOMAIN Registry /\ MaxEvents \in Nat /\ MaxDagFaults \in Nat
    /\ Len(Metrics) \in Nat /\ DOMAIN Metrics = 1..Len(Metrics)
    /\ \A i \in DOMAIN Metrics : Metrics[i] \in MetricSet
    /\ \A i, j \in DOMAIN Metrics : Metrics[i] = Metrics[j] => i = j
    /\ 0 \in Numbers /\ Numbers \subseteq Nat /\ Nothing \in Versions
BY ChainAssumption DEF ChainAssumption, MetricSet, Numbers, Versions, Nothing, Shows

\* A run at a step that has nothing in its hands.
LEMMA RunIs ==
    ASSUME NEW p \in Phases
    PROVE  Run(p) \in RunSet /\ Run(p).at = p /\ Run(p).ext = 0
BY ChainConstants DEF Run, RunSet

\* The schedules: who starts after whom, and how many runs a DAG may have.
LEMMA Schedules ==
    /\ DOMAIN Registry = Core \cup Readers
    /\ \A d \in DOMAIN Registry : Registry[d].runs \in Nat
    /\ \A d \in Core \ {"vault"} : Registry[d].runs = 1
    /\ "scd2" \in Dags => "scd2" \in Scheduled("vault_loaded")
    /\ "staging" \in Dags => "staging" \in Scheduled(Registry["scd2"].out)
    /\ "vault" \in Dags => "vault" \in Scheduled(Registry["staging"].out)
    /\ "vault" \in Dags => "vault" \in Scheduled("raw_kafka_extensions")
    /\ "marts" \in Dags => "marts" \in Scheduled(Registry["vault"].out)
    /\ "dqc" \in Dags => "dqc" \in Scheduled(Registry["marts"].out)
    /\ "quality" \in Dags => "quality" \in Scheduled(Registry["dqc"].out)
    /\ "serving" \in Dags => "serving" \in Scheduled(Registry["quality"].out)
    /\ "analytics" \in Dags => "analytics" \in Scheduled(Registry["serving"].out)
    /\ \A d \in {"finance", "ml"} \cap Dags : d \in Scheduled(Registry["marts"].out)
    /\ \A dataset : Scheduled(dataset) \subseteq Dags
<1>1. DOMAIN Registry = Core \cup Readers
  BY DEF Registry, Core, Readers
<1>2. /\ Registry["scd2"] = Scd2Dag /\ Registry["staging"] = StagingDag /\ Registry["vault"] = VaultDag
      /\ Registry["marts"] = MartsDag /\ Registry["kpis"] = KpisDag /\ Registry["dqc"] = DqcDag
      /\ Registry["quality"] = QualityDag /\ Registry["serving"] = ServingDag
      /\ Registry["analytics"] = AnalyticsDag /\ Registry["finance"] = FinanceDag /\ Registry["ml"] = MlDag
  BY DEF Registry
<1> USE DEF Scd2Dag, StagingDag, VaultDag, MartsDag, KpisDag, DqcDag, QualityDag, ServingDag, AnalyticsDag,
            FinanceDag, MlDag, Dag
<1>3. /\ \A d \in Core \cup Readers : Registry[d].runs \in Nat
      /\ \A d \in Core \ {"vault"} : Registry[d].runs = 1
  BY <1>2 DEF Core, Readers
<1> QED BY <1>1, <1>2, <1>3 DEF Scheduled

\* A sequence without its i-th member.
Omit(s, i) == SubSeq(s, 1, i - 1) \o SubSeq(s, i + 1, Len(s))

LEMMA Omitted ==
    ASSUME NEW T, NEW s \in Seq(T), NEW i \in DOMAIN s
    PROVE  /\ Omit(s, i) \in Seq(T) /\ Len(Omit(s, i)) = Len(s) - 1
           /\ \A j \in DOMAIN s : j # i => \E k \in DOMAIN Omit(s, i) : Omit(s, i)[k] = s[j]
           /\ \A k \in DOMAIN Omit(s, i) : \E j \in DOMAIN s : j # i /\ Omit(s, i)[k] = s[j]
<1> DEFINE a == SubSeq(s, 1, i - 1)
           b == SubSeq(s, i + 1, Len(s))
           w == Omit(s, i)
<1>0. w = a \o b
  BY DEF Omit
<1> HIDE DEF w
<1>1. Len(s) \in Nat /\ DOMAIN s = 1..Len(s) /\ i \in 1..Len(s)
  OBVIOUS
<1>2. a \in Seq(T) /\ Len(a) = i - 1 /\ \A k \in 1..(i - 1) : a[k] = s[k]
  BY <1>1
<1>3. b \in Seq(T) /\ Len(b) = Len(s) - i /\ \A k \in 1..(Len(s) - i) : b[k] = s[k + i]
  BY <1>1
<1> HIDE DEF a, b
<1>4. w \in Seq(T) /\ Len(w) = Len(s) - 1 /\ DOMAIN w = 1..(Len(s) - 1)
  <2>1. w \in Seq(T) /\ Len(w) = Len(a) + Len(b)
    BY <1>0, <1>2, <1>3, ConcatProperties
  <2>2. Len(w) = Len(s) - 1
    BY <1>1, <1>2, <1>3, <2>1
  <2> QED BY <2>1, <2>2
<1>5. \A k \in 1..(Len(s) - 1) : w[k] = IF k < i THEN s[k] ELSE s[k + 1]
  <2>1. \A k \in 1..(Len(a) + Len(b)) : w[k] = IF k <= Len(a) THEN a[k] ELSE b[k - Len(a)]
    BY <1>0, <1>2, <1>3, ConcatProperties
  <2> SUFFICES ASSUME NEW k \in 1..(Len(s) - 1) PROVE w[k] = IF k < i THEN s[k] ELSE s[k + 1]
    OBVIOUS
  <2>2. k \in 1..(Len(a) + Len(b))
    BY <1>1, <1>2, <1>3
  <2>3. CASE k < i
    <3>1. k \in 1..(i - 1) /\ k <= Len(a)
      BY <1>1, <1>2, <2>3
    <3> QED BY <1>2, <2>1, <2>2, <2>3, <3>1
  <2>4. CASE ~(k < i)
    <3>1. k - (i - 1) \in 1..(Len(s) - i) /\ (k - (i - 1)) + i = k + 1 /\ ~(k <= i - 1)
      BY <1>1, <2>4
    <3> QED BY <1>2, <1>3, <2>1, <2>2, <2>4, <3>1
  <2> QED BY <2>3, <2>4
<1>6. ASSUME NEW j \in DOMAIN s, j # i PROVE \E k \in DOMAIN w : w[k] = s[j]
  <2>1. CASE j < i
    <3>1. j \in 1..(Len(s) - 1)
      BY <1>1, <2>1
    <3> QED BY <1>4, <1>5, <2>1, <3>1
  <2>2. CASE j > i
    <3>1. j - 1 \in 1..(Len(s) - 1) /\ ~(j - 1 < i) /\ (j - 1) + 1 = j
      BY <1>1, <2>2
    <3> QED BY <1>4, <1>5, <3>1
  <2> QED BY <1>1, <1>6, <2>1, <2>2
<1>7. ASSUME NEW k \in DOMAIN w PROVE \E j \in DOMAIN s : j # i /\ w[k] = s[j]
  <2>1. k \in 1..(Len(s) - 1) /\ w[k] = IF k < i THEN s[k] ELSE s[k + 1]
    BY <1>4, <1>5
  <2>2. CASE k < i
    <3>1. k \in DOMAIN s /\ k # i
      BY <1>1, <2>1, <2>2
    <3> QED BY <2>1, <2>2, <3>1
  <2>3. CASE ~(k < i)
    <3>1. k + 1 \in DOMAIN s /\ k + 1 # i
      BY <1>1, <2>1, <2>3
    <3> QED BY <2>1, <2>3, <3>1
  <2> QED BY <2>2, <2>3
<1> QED BY <1>4, <1>6, <1>7 DEF w

StepsOK == steps \in [Dags -> Seq(RunSet)] /\ \A d \in Dags : Len(steps[d]) <= Registry[d].runs

LEMMA StepNumbers ==
    ASSUME StepsOK, NEW d \in Dags
    PROVE  /\ steps[d] \in Seq(RunSet) /\ Len(steps[d]) \in Nat /\ DOMAIN steps[d] = 1..Len(steps[d])
           /\ \A i \in DOMAIN steps[d] : steps[d][i] \in RunSet /\ Active(d, steps[d][i])
           /\ Registry[d].runs \in Nat /\ Len(steps[d]) <= Registry[d].runs
           /\ d \in Core \ {"vault"} => Registry[d].runs = 1 /\ Len(steps[d]) <= 1
           /\ d # "none"
<1>1. steps[d] \in Seq(RunSet) /\ Len(steps[d]) <= Registry[d].runs
  BY DEF StepsOK
<1>2. Registry[d].runs \in Nat /\ (d \in Core \ {"vault"} => Registry[d].runs = 1) /\ d # "none"
  BY ChainConstants, Schedules DEF Core, Readers
<1>3. \A i \in DOMAIN steps[d] : steps[d][i] \in RunSet /\ Active(d, steps[d][i])
  BY <1>1 DEF Active
<1> QED BY <1>1, <1>2, <1>3

\* A DAG with one run at a time is at one step.
LEMMA OneRun ==
    ASSUME StepsOK, NEW d \in Core \ {"vault"}, NEW p, NEW q, At(d, p), At(d, q)
    PROVE  p = q
<1>1. d \in Dags
  BY DEF At, Active
<1>2. DOMAIN steps[d] = 1..Len(steps[d]) /\ Len(steps[d]) \in Nat /\ Len(steps[d]) <= 1
  BY <1>1, StepNumbers
<1>3. \A i, j \in DOMAIN steps[d] : i = j
  BY <1>2
<1> QED BY <1>3 DEF At, Active

\* An event starts a run, and the others go on.
LEMMA StartEffect ==
    ASSUME StepsOK, NEW d \in Dags, Start(d)
    PROVE  /\ StepsOK' /\ pending' = pending \ {d}
           /\ At(d, "work")' /\ steps'[d] # <<>>
           /\ \A e \in Dags : e # d => steps'[e] = steps[e]
           /\ \A e, run : Active(e, run) => Active(e, run)'
           /\ \A e, run : Active(e, run)' => Active(e, run) \/ (e = d /\ run = Run("work"))
           /\ d \in Core \ {"vault"} => \A p : ~At(d, p) /\ (At(d, p)' => p = "work")
<1>1. /\ pending' = pending \ {d} /\ Len(steps[d]) < Registry[d].runs
      /\ steps' = [steps EXCEPT ![d] = Append(steps[d], Run("work"))]
  BY DEF Start
<1>2. /\ steps[d] \in Seq(RunSet) /\ Len(steps[d]) \in Nat /\ DOMAIN steps[d] = 1..Len(steps[d])
      /\ Registry[d].runs \in Nat
      /\ d \in Core \ {"vault"} => Registry[d].runs = 1
  BY StepNumbers
<1>r. Run("work") \in RunSet /\ Run("work").at = "work"
  BY RunIs DEF Phases
<1> DEFINE new == Append(steps[d], Run("work"))
<1>3. /\ new \in Seq(RunSet) /\ Len(new) = Len(steps[d]) + 1 /\ DOMAIN new = 1..(Len(steps[d]) + 1)
      /\ new[Len(steps[d]) + 1] = Run("work")
      /\ \A i \in DOMAIN steps[d] : new[i] = steps[d][i] /\ i \in DOMAIN new
      /\ \A i \in DOMAIN new : i \in DOMAIN steps[d] \/ i = Len(steps[d]) + 1
  BY <1>2, <1>r
<1> HIDE DEF new
<1>4. /\ steps' \in [Dags -> Seq(RunSet)] /\ steps'[d] = new
      /\ \A e \in Dags : e # d => steps'[e] = steps[e]
  BY <1>1, <1>3 DEF StepsOK, new
<1>5. StepsOK'
  <2>1. Len(new) <= Registry[d].runs
    BY <1>1, <1>2, <1>3
  <2> QED BY <1>4, <2>1 DEF StepsOK
<1>6. Len(steps[d]) + 1 \in DOMAIN new
  BY <1>2, <1>3
<1>7. At(d, "work")' /\ steps'[d] # <<>>
  <2>1. At(d, "work")'
    BY <1>r, <1>3, <1>4, <1>6 DEF At, Active
  <2>2. new # <<>>
    BY <1>2, <1>3
  <2> QED BY <1>4, <2>1, <2>2
<1>8. \A e, run : Active(e, run) => Active(e, run)'
  BY <1>3, <1>4 DEF Active
<1>9. \A e, run : Active(e, run)' => Active(e, run) \/ (e = d /\ run = Run("work"))
  BY <1>3, <1>4 DEF Active
<1>10. d \in Core \ {"vault"} => \A p : ~At(d, p) /\ (At(d, p)' => p = "work")
  <2>1. d \in Core \ {"vault"} => DOMAIN steps[d] = {}
    BY <1>1, <1>2
  <2>2. d \in Core \ {"vault"} => \A run : ~Active(d, run)
    BY <2>1 DEF Active
  <2> QED BY <1>r, <1>9, <2>2 DEF At
<1> QED BY <1>1, <1>4, <1>5, <1>7, <1>8, <1>9, <1>10

\* A run goes on to another step: the runs of before and after it.
LEMMA RunOld ==
    ASSUME StepsOK, NEW d \in Dags, NEW i \in DOMAIN steps[d], NEW to,
           steps' = [steps EXCEPT ![d][i] = to], NEW e, NEW run, Active(e, run)
    PROVE  Active(e, run)' \/ (e = d /\ run = steps[d][i])
<1>1. PICK j \in DOMAIN steps[e] : steps[e][j] = run
  BY DEF Active
<1>2. steps'[e] = IF e = d THEN [steps[d] EXCEPT ![i] = to] ELSE steps[e]
  BY DEF Active, StepsOK
<1> QED BY <1>1, <1>2 DEF Active

LEMMA RunNew ==
    ASSUME StepsOK, NEW d \in Dags, NEW i \in DOMAIN steps[d], NEW to,
           steps' = [steps EXCEPT ![d][i] = to], NEW e, NEW run, Active(e, run)'
    PROVE  Active(e, run) \/ (e = d /\ run = to)
<1>1. PICK j \in DOMAIN steps'[e] : steps'[e][j] = run
  BY DEF Active
<1>2. steps'[e] = IF e = d THEN [steps[d] EXCEPT ![i] = to] ELSE steps[e]
  BY DEF Active, StepsOK
<1> QED BY <1>1, <1>2 DEF Active

\* And what else there is of it.
LEMMA RunEffect ==
    ASSUME StepsOK, NEW d \in Dags, NEW i \in DOMAIN steps[d], NEW to \in RunSet,
           steps' = [steps EXCEPT ![d][i] = to]
    PROVE  /\ StepsOK' /\ Active(d, to)' /\ steps'[d] # <<>>
           /\ \A e \in Dags : e # d => steps'[e] = steps[e]
           /\ \A e, run : Active(e, run) => Active(e, run)' \/ (e = d /\ run = steps[d][i])
           /\ \A e, run : Active(e, run)' => Active(e, run) \/ (e = d /\ run = to)
           /\ d \in Core \ {"vault"} => \A p : At(d, p)' => p = to.at
<1>2. steps' = [steps EXCEPT ![d] = [steps[d] EXCEPT ![i] = to]]
  OBVIOUS
<1>3. /\ steps[d] \in Seq(RunSet) /\ Len(steps[d]) \in Nat /\ DOMAIN steps[d] = 1..Len(steps[d])
      /\ d \in Core \ {"vault"} => Len(steps[d]) <= 1
  BY StepNumbers
<1> DEFINE new == [steps[d] EXCEPT ![i] = to]
<1>4. /\ new \in Seq(RunSet) /\ Len(new) = Len(steps[d]) /\ DOMAIN new = DOMAIN steps[d]
      /\ new[i] = to /\ \A j \in DOMAIN steps[d] : j # i => new[j] = steps[d][j]
  BY <1>3
<1> HIDE DEF new
<1>5. /\ steps' \in [Dags -> Seq(RunSet)] /\ steps'[d] = new
      /\ \A e \in Dags : e # d => steps'[e] = steps[e]
  BY <1>2, <1>4 DEF StepsOK, new
<1>6. StepsOK'
  BY <1>4, <1>5 DEF StepsOK
<1>7. Active(d, to)' /\ steps'[d] # <<>>
  <2>1. new # <<>>
    BY <1>3, <1>4
  <2> QED BY <1>4, <1>5, <2>1 DEF Active
<1>8. \A e, run : Active(e, run) => Active(e, run)' \/ (e = d /\ run = steps[d][i])
  BY <1>4, <1>5 DEF Active
<1>9. \A e, run : Active(e, run)' => Active(e, run) \/ (e = d /\ run = to)
  BY <1>4, <1>5 DEF Active
<1>10. d \in Core \ {"vault"} => \A p : At(d, p)' => p = to.at
  <2>1. d \in Core \ {"vault"} => \A j \in DOMAIN new : new[j] = to
    BY <1>3, <1>4
  <2>2. d \in Core \ {"vault"} => \A run : Active(d, run)' => run = to
    BY <1>5, <2>1 DEF Active
  <2> QED BY <2>2 DEF At
<1> QED BY <1>5, <1>6, <1>7, <1>8, <1>9, <1>10

\* A task moves its run on.
LEMMA MoveEffect ==
    ASSUME StepsOK, NEW d \in Dags, NEW from, NEW to \in RunSet,
           \E i \in DOMAIN steps[d] : Moves(d, i, from, to)
    PROVE  /\ StepsOK' /\ UNCHANGED <<rawNow, stgNow, extNow, pending, dagFaults>>
           /\ At(d, from) /\ Active(d, to)' /\ At(d, to.at)' /\ steps'[d] # <<>>
           /\ \A e \in Dags : e # d => steps'[e] = steps[e]
           /\ \A e, run : Active(e, run) => Active(e, run)' \/ (e = d /\ run.at = from)
           /\ \A e, run : Active(e, run)' => Active(e, run) \/ (e = d /\ run = to)
           /\ \A e, p : At(e, p) => At(e, p)' \/ (e = d /\ p = from)
           /\ \A e, p : At(e, p)' => At(e, p) \/ (e = d /\ p = to.at)
           /\ d \in Core \ {"vault"} => \A p : At(d, p)' => p = to.at
<1>1. PICK i \in DOMAIN steps[d] : Moves(d, i, from, to)
  OBVIOUS
<1>2. /\ steps[d][i].at = from /\ UNCHANGED <<rawNow, stgNow, extNow, pending, dagFaults>>
      /\ steps' = [steps EXCEPT ![d][i] = to]
  BY <1>1 DEF Moves, inputs
<1>3. At(d, from)
  BY <1>2, StepNumbers DEF At
<1>4. /\ StepsOK' /\ Active(d, to)' /\ steps'[d] # <<>>
      /\ \A e \in Dags : e # d => steps'[e] = steps[e]
      /\ \A e, run : Active(e, run) => Active(e, run)' \/ (e = d /\ run = steps[d][i])
      /\ \A e, run : Active(e, run)' => Active(e, run) \/ (e = d /\ run = to)
      /\ d \in Core \ {"vault"} => \A p : At(d, p)' => p = to.at
  BY <1>2, RunEffect
<1>5. \A e, run : Active(e, run) => Active(e, run)' \/ (e = d /\ run.at = from)
  BY <1>2, <1>4
<1>6. /\ \A e, p : At(e, p) => At(e, p)' \/ (e = d /\ p = from)
      /\ \A e, p : At(e, p)' => At(e, p) \/ (e = d /\ p = to.at)
      /\ At(d, to.at)'
  BY <1>4, <1>5 DEF At
<1> QED BY <1>2, <1>3, <1>4, <1>5, <1>6

\* Of these: the runs that are there before and after it.
LEMMA MoveOld ==
    ASSUME StepsOK, NEW d \in Dags, NEW from, NEW to \in RunSet,
           \E i \in DOMAIN steps[d] : Moves(d, i, from, to), NEW e, NEW run, Active(e, run)
    PROVE  Active(e, run)' \/ (e = d /\ run.at = from)
<1>1. PICK i \in DOMAIN steps[d] : steps[d][i].at = from /\ steps' = [steps EXCEPT ![d][i] = to]
  BY DEF Moves
<1>2. Active(e, run)' \/ (e = d /\ run = steps[d][i])
  BY <1>1, RunOld
<1> QED BY <1>1, <1>2

LEMMA MoveNew ==
    ASSUME StepsOK, NEW d \in Dags, NEW from, NEW to \in RunSet,
           \E i \in DOMAIN steps[d] : Moves(d, i, from, to), NEW e, NEW run, Active(e, run)'
    PROVE  Active(e, run) \/ (e = d /\ run = to)
<1>1. PICK i \in DOMAIN steps[d] : steps' = [steps EXCEPT ![d][i] = to]
  BY DEF Moves
<1> QED BY <1>1, RunNew

\* The same, when the run has nothing in its hands after it.
LEMMA GoEffect ==
    ASSUME NEW d, NEW from, NEW to \in Phases, Goes(d, from, to)
    PROVE  Run(to) \in RunSet /\ Run(to).at = to /\ \E i \in DOMAIN steps[d] : Moves(d, i, from, Run(to))
BY RunIs DEF Goes

\* A run ends, and the others of the DAG go on.
LEMMA EndEffect ==
    ASSUME StepsOK, NEW d \in Dags, NEW i \in DOMAIN steps[d],
           steps' = [steps EXCEPT ![d] = WithoutRun(d, i)]
    PROVE  /\ StepsOK'
           /\ \A e \in Dags : e # d => steps'[e] = steps[e]
           /\ \A e, run : Active(e, run) => Active(e, run)' \/ (e = d /\ run = steps[d][i])
           /\ \A e, run : Active(e, run)' => Active(e, run)
           /\ d \in Core \ {"vault"} => \A p : ~At(d, p)'
<1>1. /\ steps[d] \in Seq(RunSet) /\ Len(steps[d]) \in Nat /\ DOMAIN steps[d] = 1..Len(steps[d])
      /\ Registry[d].runs \in Nat /\ Len(steps[d]) <= Registry[d].runs
      /\ d \in Core \ {"vault"} => Len(steps[d]) <= 1
  BY StepNumbers
<1> DEFINE new == WithoutRun(d, i)
<1>2. /\ new \in Seq(RunSet) /\ Len(new) = Len(steps[d]) - 1
      /\ \A j \in DOMAIN steps[d] : j # i => \E k \in DOMAIN new : new[k] = steps[d][j]
      /\ \A k \in DOMAIN new : \E j \in DOMAIN steps[d] : j # i /\ new[k] = steps[d][j]
  <2> DEFINE s == steps[d]
  <2>1. s \in Seq(RunSet) /\ i \in DOMAIN s
    BY <1>1
  <2>2. new = Omit(s, i)
    BY DEF WithoutRun, Omit
  <2> HIDE DEF s, new
  <2>3. /\ new \in Seq(RunSet) /\ Len(new) = Len(s) - 1
        /\ \A j \in DOMAIN s : j # i => \E k \in DOMAIN new : new[k] = s[j]
        /\ \A k \in DOMAIN new : \E j \in DOMAIN s : j # i /\ new[k] = s[j]
    BY <2>1, <2>2, Omitted
  <2> QED BY <2>3 DEF s
<1> HIDE DEF new
<1>3. /\ steps' \in [Dags -> Seq(RunSet)] /\ steps'[d] = new
      /\ \A e \in Dags : e # d => steps'[e] = steps[e]
  BY <1>2 DEF StepsOK, new
<1>4. StepsOK'
  <2>1. Len(new) <= Registry[d].runs
    BY <1>1, <1>2
  <2> QED BY <1>3, <2>1 DEF StepsOK
<1>5. \A e, run : Active(e, run) => Active(e, run)' \/ (e = d /\ run = steps[d][i])
  BY <1>2, <1>3 DEF Active
<1>6. \A e, run : Active(e, run)' => Active(e, run)
  BY <1>2, <1>3 DEF Active
<1>7. d \in Core \ {"vault"} => \A p : ~At(d, p)'
  <2>1. d \in Core \ {"vault"} => DOMAIN new = {}
    BY <1>1, <1>2
  <2> QED BY <1>3, <2>1 DEF At, Active
<1> QED BY <1>3, <1>4, <1>5, <1>6, <1>7

-----------------------------------------------------------------------------
(* Types and the dual write.                                               *)

\* What a step does to everything but the serving layer.
DataStep ==
    /\ StepsOK' /\ InputsInOrder'
    /\ {rawNow', stgNow', extNow', extVault'} \subseteq Numbers /\ pending' \subseteq Dags
    /\ data' \in [Data -> Versions] /\ raced' \subseteq {"vault", "kpis"}
    /\ dagFaults' \in 0..MaxDagFaults /\ (dagFaults' = 0 => dagFaults = 0)

\* What the invariant says of the values.
LEMMA ChainNumbers ==
    ASSUME ChainInv
    PROVE  /\ StepsOK /\ pending \subseteq Dags
           /\ {rawNow, stgNow, extNow, extVault} \subseteq Numbers
           /\ rawNow \in Nat /\ stgNow \in Nat /\ extNow \in Nat /\ extVault \in Nat
           /\ stgNow <= rawNow /\ extVault <= extNow
           /\ data \in [Data -> Versions] /\ \A t \in Data : data[t] \in Versions
           /\ {"satellites", "vault", "facts", "kpis", "analytics", "finance", "ml"} = Data
           /\ raced \subseteq {"vault", "kpis"}
           /\ redis \in [MetricSet -> Versions] /\ snapshot \in [MetricSet -> Versions]
           /\ setBy \in [MetricSet -> Nat] /\ \A m \in MetricSet : setBy[m] \in Nat
           /\ fetched \in Seq(Versions) /\ Len(fetched) \in Nat /\ Len(fetched) <= Len(Metrics)
           /\ DOMAIN fetched = 1..Len(fetched)
           /\ \A i \in DOMAIN fetched : fetched[i] \in Versions /\ i \in DOMAIN Metrics
           /\ attempt \in Nat /\ snapshotBy \in Nat /\ written \in Nat /\ watermark \in Nat
           /\ dagFaults \in 0..MaxDagFaults
<1>1. ChainTypeOK /\ InputsInOrder
  BY DEF ChainInv
<1>2. StepsOK
  BY <1>1 DEF ChainTypeOK, StepsOK
<1>3. /\ {rawNow, stgNow, extNow, extVault} \subseteq Numbers
      /\ rawNow \in Nat /\ stgNow \in Nat /\ extNow \in Nat /\ extVault \in Nat
  BY <1>1, ChainConstants DEF ChainTypeOK
<1>4. {"satellites", "vault", "facts", "kpis", "analytics", "finance", "ml"} = Data
  BY DEF Data, Readers
<1>5. /\ fetched \in Seq(Versions) /\ Len(fetched) \in Nat /\ Len(fetched) <= Len(Metrics)
      /\ DOMAIN fetched = 1..Len(fetched) /\ \A i \in DOMAIN fetched : fetched[i] \in Versions
  BY <1>1 DEF ChainTypeOK
<1>6. \A i \in DOMAIN fetched : i \in DOMAIN Metrics
  BY <1>5, ChainConstants
<1>7. /\ data \in [Data -> Versions] /\ redis \in [MetricSet -> Versions] /\ snapshot \in [MetricSet -> Versions]
      /\ setBy \in [MetricSet -> Nat] /\ pending \subseteq Dags /\ raced \subseteq {"vault", "kpis"}
      /\ attempt \in Nat /\ snapshotBy \in Nat /\ written \in Nat /\ watermark \in Nat
      /\ dagFaults \in 0..MaxDagFaults
  BY <1>1 DEF ChainTypeOK
<1>8. stgNow <= rawNow /\ extVault <= extNow
  BY <1>1 DEF InputsInOrder
<1> QED BY <1>2, <1>3, <1>4, <1>5, <1>6, <1>7, <1>8

\* A step that leaves the data: at most one run is new in it.
LEMMA SameData ==
    ASSUME ChainInv, StepsOK', UNCHANGED <<rawNow, stgNow, extNow, data, extVault, raced>>,
           pending' \subseteq Dags, dagFaults' \in 0..MaxDagFaults, dagFaults' = 0 => dagFaults = 0,
           NEW to \in RunSet, to.ext <= extNow,
           \A run : Active("vault", run)' => Active("vault", run) \/ run = to
    PROVE  DataStep
<1>1. InputsInOrder'
  BY DEF ChainInv, InputsInOrder
<1> QED BY <1>1, ChainNumbers DEF DataStep

\* What the data and the runs need for the types.
LEMMA DataTypes ==
    ASSUME DataStep, redis' \in [MetricSet -> Versions], snapshot' \in [MetricSet -> Versions],
           setBy' \in [MetricSet -> Nat], fetched' \in Seq(Versions), Len(fetched') <= Len(Metrics),
           attempt' \in Nat, snapshotBy' \in Nat, written' \in Nat, watermark' \in Nat
    PROVE  ChainTypeOK'
BY DEF DataStep, StepsOK, ChainTypeOK

\* A step that does not belong to the serving task keeps its order: it may build
\* the rows of the snapshot anew, as dbt does.
LEMMA ServingAside ==
    ASSUME ChainInv, DataStep, UNCHANGED <<redis, setBy, written, fetched, attempt, watermark>>,
           \/ UNCHANGED <<snapshot, snapshotBy>>
           \/ snapshotBy' = 0 /\ snapshot' \in [MetricSet -> Versions],
           \A p \in {"work", "write"} : At("serving", p)' <=> At("serving", p)
    PROVE  ChainInv'
<1>1. ChainTypeOK'
  BY ChainNumbers, DataTypes
<1>2. DualWrite'
  BY DEF ChainInv, DualWrite, DataStep
<1> QED BY <1>1, <1>2 DEF ChainInv, DataStep

\* So does a run of another DAG that moves, starts or ends.
LEMMA OtherRuns ==
    ASSUME "serving" \notin Dags \/ steps'["serving"] = steps["serving"]
    PROVE  \A p : At("serving", p)' <=> At("serving", p)
BY DEF At, Active

LEMMA InitChain == ChainInit => ChainInv
<1> SUFFICES ASSUME ChainInit PROVE ChainInv
  OBVIOUS
<1> USE ChainConstants
<1>1. StepsOK /\ \A d, run : ~Active(d, run)
  <2>1. \A d \in Dags : Registry[d].runs \in Nat
    BY Schedules
  <2> QED BY <2>1 DEF ChainInit, StepsOK, Active
<1>2. ChainTypeOK
  <2>1. /\ data \in [Data -> Versions] /\ redis \in [MetricSet -> Versions] /\ snapshot \in [MetricSet -> Versions]
        /\ {rawNow, stgNow, extNow, extVault} \subseteq Numbers /\ setBy \in [MetricSet -> Nat]
    BY DEF ChainInit
  <2>2. fetched \in Seq(Versions) /\ Len(fetched) <= Len(Metrics)
    BY DEF ChainInit
  <2>3. pending \subseteq Dags /\ raced \subseteq {"vault", "kpis"}
    BY DEF ChainInit
  <2>4. {attempt, snapshotBy, written, watermark} \subseteq Nat /\ dagFaults \in 0..MaxDagFaults
    BY DEF ChainInit
  <2> QED BY <1>1, <2>1, <2>2, <2>3, <2>4 DEF ChainTypeOK, StepsOK
<1>3. InputsInOrder
  BY <1>1 DEF ChainInit, InputsInOrder
<1>4. DualWrite
  BY <1>1 DEF ChainInit, DualWrite, At
<1> QED BY <1>2, <1>3, <1>4 DEF ChainInv

LEMMA EventKeeps ==
    ASSUME ChainInv, RawIngested \/ VaultLoaded \/ ExtensionsIngested
    PROVE  ChainInv'
<1>1. /\ UNCHANGED <<steps, data, extVault, raced, redis, setBy, snapshot, snapshotBy, written, fetched, attempt,
                     watermark, dagFaults>>
      /\ pending' \subseteq Dags
  BY ChainNumbers, Schedules DEF RawIngested, VaultLoaded, ExtensionsIngested, tables, serving
<1>2. /\ {rawNow', stgNow', extNow'} \subseteq Numbers /\ stgNow' <= rawNow' /\ extNow <= extNow'
  <2>1. /\ rawNow \in Numbers /\ stgNow \in Numbers /\ extNow \in Numbers /\ stgNow <= rawNow
        /\ rawNow \in Nat /\ stgNow \in Nat /\ extNow \in Nat /\ MaxEvents \in Nat
    BY ChainNumbers, ChainConstants
  <2>2. CASE RawIngested
    BY <2>1, <2>2 DEF RawIngested, Numbers
  <2>3. CASE VaultLoaded
    BY <2>1, <2>3 DEF VaultLoaded, Numbers
  <2>4. CASE ExtensionsIngested
    BY <2>1, <2>4 DEF ExtensionsIngested, Numbers
  <2> QED BY <2>2, <2>3, <2>4
<1>3. StepsOK' /\ \A e, run : Active(e, run)' <=> Active(e, run)
  BY <1>1, ChainNumbers DEF StepsOK, Active
<1>4. InputsInOrder'
  <2>1. extNow \in Nat /\ extNow' \in Nat /\ extVault \in Nat /\ extVault <= extNow
    BY <1>2, ChainNumbers, ChainConstants
  <2>2. ASSUME NEW run \in RunSet, Active("vault", run)' PROVE run.ext <= extNow'
    <3>1. run.ext \in Nat
      BY ChainConstants DEF RunSet
    <3>2. run.ext <= extNow
      BY <1>3, <2>2 DEF ChainInv, InputsInOrder
    <3> QED BY <1>2, <2>1, <3>1, <3>2
  <2> QED BY <1>1, <1>2, <2>1, <2>2 DEF InputsInOrder
<1>5. DataStep
  BY <1>1, <1>2, <1>3, <1>4, ChainNumbers DEF DataStep
<1> QED BY <1>1, <1>5, ServingAside, OtherRuns

\* A task of another DAG than the serving one.
LEMMA TaskKeeps ==
    ASSUME ChainInv, NEW d \in Dags, d # "serving", NEW from, NEW to \in RunSet, to.ext <= extNow,
           \E i \in DOMAIN steps[d] : Moves(d, i, from, to),
           UNCHANGED <<redis, setBy, written, fetched, attempt, watermark>>,
           \/ UNCHANGED <<snapshot, snapshotBy>>
           \/ snapshotBy' = 0 /\ snapshot' \in [MetricSet -> Versions],
           data' \in [Data -> Versions], raced' \subseteq {"vault", "kpis"},
           extVault' \in Numbers, extVault' <= extNow
    PROVE  ChainInv'
<1>1. StepsOK
  BY ChainNumbers
<1>2. /\ StepsOK' /\ UNCHANGED <<rawNow, stgNow, extNow, pending, dagFaults>>
      /\ \A e \in Dags : e # d => steps'[e] = steps[e]
      /\ \A e, run : Active(e, run)' => Active(e, run) \/ (e = d /\ run = to)
  BY <1>1, MoveEffect
<1>3. InputsInOrder'
  BY <1>2 DEF ChainInv, InputsInOrder
<1>4. DataStep
  BY <1>2, <1>3, ChainNumbers DEF DataStep
<1> QED BY <1>2, <1>4, ServingAside, OtherRuns

\* The same, for a run that has nothing in its hands after it.
LEMMA GoKeeps ==
    ASSUME ChainInv, NEW d \in Dags, d # "serving", NEW from, NEW to \in Phases, Goes(d, from, to),
           UNCHANGED <<redis, setBy, written, fetched, attempt, watermark, extVault>>,
           \/ UNCHANGED <<snapshot, snapshotBy>>
           \/ snapshotBy' = 0 /\ snapshot' \in [MetricSet -> Versions],
           data' \in [Data -> Versions], raced' \subseteq {"vault", "kpis"}
    PROVE  ChainInv'
<1>1. /\ Run(to) \in RunSet /\ Run(to).ext = 0
      /\ \E i \in DOMAIN steps[d] : Moves(d, i, from, Run(to))
  BY GoEffect, RunIs
<1>2. Run(to).ext <= extNow /\ extVault' \in Numbers /\ extVault' <= extNow
  BY <1>1, ChainNumbers
<1> QED BY <1>1, <1>2, TaskKeeps

\* What a run writes in place of a table.
LEMMA ReplaceEffect ==
    ASSUME ChainInv, NEW t \in {"vault", "kpis"}, NEW v \in Versions, NEW a, NEW b, Replace(t, v, a, b)
    PROVE  /\ data' \in [Data -> Versions] /\ raced' \subseteq {"vault", "kpis"}
           /\ data'[t] = v /\ \A u \in Data : u # t => data'[u] = data[u]
           /\ \A u : u # t => (u \in raced <=> u \in raced')
           /\ ~a => (t \in raced => t \in raced') /\ (b => t \in raced')
<1>1. t \in Data
  BY DEF Data
<1> QED BY <1>1, ChainNumbers DEF Replace

LEMMA CopiesKeep ==
    ASSUME ChainInv,
           \/ "scd2" \in Dags /\ LoadSatellites
           \/ "marts" \in Dags /\ (BuildFacts \/ BuildMartKpis \/ BuildSnapshot)
           \/ \E d \in Readers \cap Dags : Derive(d)
    PROVE  ChainInv'
<1>1. /\ data["facts"] \in Versions /\ data["vault"] \in Versions
      /\ Shows(0, stgNow) \in Versions /\ Shows(rawNow, 0) \in Versions
      /\ {"satellites", "vault", "facts", "kpis", "analytics", "finance", "ml"} = Data
      /\ \A t \in Data, v \in Versions : [data EXCEPT ![t] = v] \in [Data -> Versions]
      /\ {"work", "write", "kpis", "snapshot", "done"} = Phases
  BY ChainNumbers, ChainConstants DEF Shows, Versions, Phases
<1> USE DEF tables, serving
<1>2. CASE "scd2" \in Dags /\ LoadSatellites
  BY <1>1, <1>2, ChainNumbers, GoKeeps DEF LoadSatellites, Compute
<1>3. CASE "marts" \in Dags /\ BuildFacts
  BY <1>1, <1>3, ChainNumbers, GoKeeps DEF BuildFacts
<1>4. CASE "marts" \in Dags /\ BuildMartKpis
  <2>1. data' \in [Data -> Versions] /\ raced' \subseteq {"vault", "kpis"}
    BY <1>1, <1>4, ReplaceEffect DEF BuildMartKpis
  <2> QED BY <1>1, <1>4, <2>1, GoKeeps DEF BuildMartKpis
<1>5. CASE "marts" \in Dags /\ BuildSnapshot
  <2>1. snapshot' \in [MetricSet -> Versions] /\ snapshotBy' = 0
    BY <1>1, <1>5 DEF BuildSnapshot
  <2> QED BY <1>1, <1>5, <2>1, ChainNumbers, GoKeeps DEF BuildSnapshot
<1>6. ASSUME NEW d \in Readers \cap Dags, Derive(d) PROVE ChainInv'
  <2> DEFINE v == IF d = "ml" THEN Shows(rawNow, 0) ELSE data["facts"]
  <2>1. v \in Versions /\ d \in Data /\ d # "serving"
    BY <1>1 DEF Readers, Data
  <2>2. /\ Goes(d, "work", "done") /\ data' = [data EXCEPT ![d] = v]
        /\ UNCHANGED <<redis, setBy, written, fetched, attempt, watermark, extVault>>
        /\ UNCHANGED <<snapshot, snapshotBy>> /\ raced' = raced
    BY <1>6 DEF Derive, Compute
  <2> HIDE DEF v
  <2>3. data' \in [Data -> Versions] /\ raced' \subseteq {"vault", "kpis"}
    BY <1>1, <2>1, <2>2, ChainNumbers
  <2>4. d \in Dags /\ "done" \in Phases
    BY <1>1
  <2> QED BY <2>1, <2>2, <2>3, <2>4, GoKeeps
<1> QED BY <1>2, <1>3, <1>4, <1>5, <1>6

\* The two tables that are read first and replaced later.
LEMMA SelectsKeep ==
    ASSUME ChainInv, \/ "vault" \in Dags /\ SelectVault
                     \/ "kpis" \in Dags /\ SelectKpis
    PROVE  ChainInv'
<1>1. PICK d \in {"vault", "kpis"} \cap Dags, v \in Versions, n \in {0, extNow} :
          \E i \in DOMAIN steps[d] : Moves(d, i, "work", [at |-> "write", read |-> v, ext |-> n])
  <2>1. Shows(rawNow, stgNow) \in Versions /\ data["facts"] \in Versions
    BY ChainNumbers DEF Shows, Versions
  <2> QED BY <2>1 DEF SelectVault, SelectKpis
<1>2. UNCHANGED <<data, extVault, raced, redis, setBy, snapshot, snapshotBy, written, fetched, attempt, watermark>>
  BY DEF SelectVault, SelectKpis, tables, serving
<1> DEFINE to == [at |-> "write", read |-> v, ext |-> n]
<1>3. n \in Numbers /\ n <= extNow
  BY ChainNumbers, ChainConstants
<1>4. to \in RunSet /\ to.ext = n
  BY <1>3 DEF RunSet, Phases
<1>5. \E i \in DOMAIN steps[d] : Moves(d, i, "work", to)
  BY <1>1
<1> HIDE DEF to
<1> QED BY <1>2, <1>3, <1>4, <1>5, ChainNumbers, TaskKeeps

LEMMA ReplacesKeep ==
    ASSUME ChainInv, \/ "vault" \in Dags /\ ReplaceVault
                     \/ "kpis" \in Dags /\ ReplaceKpis
    PROVE  ChainInv'
<1>0. PICK d \in {"vault", "kpis"} \cap Dags : \E i \in DOMAIN steps[d] :
          /\ Moves(d, i, "write", Run("done"))
          /\ \E a, b : Replace(d, steps[d][i].read, a, b)
          /\ extVault' \in {extVault, steps[d][i].ext} /\ (d = "kpis" => extVault' = extVault)
  BY DEF ReplaceVault, ReplaceKpis, Newer
<1>1. PICK i \in DOMAIN steps[d] :
          /\ Moves(d, i, "write", Run("done"))
          /\ \E a, b : Replace(d, steps[d][i].read, a, b)
          /\ extVault' \in {extVault, steps[d][i].ext} /\ (d = "kpis" => extVault' = extVault)
  BY <1>0
<1>2. UNCHANGED <<redis, setBy, snapshot, snapshotBy, written, fetched, attempt, watermark>>
  BY DEF ReplaceVault, ReplaceKpis, serving
<1>3. steps[d][i] \in RunSet /\ Active(d, steps[d][i])
  BY <1>1, ChainNumbers, StepNumbers
<1>4. steps[d][i].read \in Versions /\ steps[d][i].ext \in Numbers
  BY <1>3 DEF RunSet
<1>5. data' \in [Data -> Versions] /\ raced' \subseteq {"vault", "kpis"}
  BY <1>1, <1>4, ReplaceEffect
<1>6. extVault' \in Numbers /\ extVault' <= extNow
  <2>1. d = "vault" => steps[d][i].ext <= extNow
    BY <1>3 DEF ChainInv, InputsInOrder
  <2> QED BY <1>1, <1>4, <2>1, ChainNumbers
<1>7. Run("done") \in RunSet /\ Run("done").ext <= extNow
  BY RunIs, ChainNumbers DEF Phases
<1> QED BY <1>1, <1>2, <1>5, <1>6, <1>7, TaskKeeps

LEMMA ChecksKeep ==
    ASSUME ChainInv,
           \/ "staging" \in Dags /\ BuildViews
           \/ "dqc" \in Dags /\ RunTests
           \/ "quality" \in Dags /\ ExecuteChecks
    PROVE  ChainInv'
<1>1. PICK d \in {"staging", "dqc", "quality"} \cap Dags : Goes(d, "work", "done")
  BY DEF BuildViews, RunTests, ExecuteChecks, Check
<1>2. UNCHANGED <<data, extVault, raced, redis, setBy, snapshot, snapshotBy, written, fetched, attempt, watermark>>
  BY DEF BuildViews, RunTests, ExecuteChecks, Check, tables, serving
<1> QED BY <1>1, <1>2, ChainNumbers, GoKeeps DEF Phases

\* A task of the serving DAG: what is left to show is the order of the dual write.
LEMMA ServingTask ==
    ASSUME ChainInv, "serving" \in Dags, NEW from, NEW to \in Phases, Goes("serving", from, to),
           UNCHANGED <<data, extVault, raced>>
    PROVE  /\ DataStep /\ UNCHANGED <<rawNow, stgNow, extNow, pending, dagFaults>>
           /\ At("serving", from) /\ \A p : At("serving", p) => p = from
           /\ At("serving", to)' /\ \A p : At("serving", p)' => p = to
<1>1. PICK run \in RunSet :
          run.at = to /\ run.ext = 0 /\ \E i \in DOMAIN steps["serving"] : Moves("serving", i, from, run)
  BY GoEffect, RunIs
<1>2. StepsOK /\ "serving" \in Core \ {"vault"} /\ run.ext <= extNow
  BY <1>1, ChainNumbers DEF Core
<1>3. /\ StepsOK' /\ UNCHANGED <<rawNow, stgNow, extNow, pending, dagFaults>>
      /\ At("serving", from) /\ At("serving", to)' /\ \A p : At("serving", p)' => p = to
      /\ \A e, r : Active(e, r)' => Active(e, r) \/ r = run
  <2> DEFINE d == "serving"
  <2>1. d \in Dags /\ d \in Core \ {"vault"} /\ \E i \in DOMAIN steps[d] : Moves(d, i, from, run)
    BY <1>1, <1>2
  <2> HIDE DEF d
  <2>2. /\ StepsOK' /\ UNCHANGED <<rawNow, stgNow, extNow, pending, dagFaults>>
    BY <1>2, <2>1, MoveEffect
  <2>3. At(d, from)
    BY <1>2, <2>1, MoveEffect
  <2>4. At(d, run.at)'
    BY <1>2, <2>1, MoveEffect
  <2>5. \A p : At(d, p)' => p = run.at
    BY <1>2, <2>1, MoveEffect
  <2>6. \A e, r : Active(e, r)' => Active(e, r) \/ (e = d /\ r = run)
    BY <1>2, <2>1, MoveNew
  <2> QED BY <1>1, <2>2, <2>3, <2>4, <2>5, <2>6 DEF d
<1>4. \A p : At("serving", p) => p = from
  BY <1>2, <1>3, OneRun
<1>5. DataStep
  BY <1>2, <1>3, ChainNumbers, SameData
<1>6. /\ UNCHANGED <<rawNow, stgNow, extNow, pending, dagFaults>>
      /\ At("serving", from) /\ At("serving", to)'
  BY <1>3
<1>7. \A p : At("serving", p)' => p = to
  BY <1>3
<1> QED BY <1>4, <1>5, <1>6, <1>7

\* A metric of the loop goes to Redis: no row of this attempt is there yet.
LEMMA SetMetricKeeps == ASSUME ChainInv, "serving" \in Dags, SetMetric PROVE ChainInv'
<1> DEFINE n == Len(fetched)
           k == Metrics[n + 1]
<1>1. /\ n < Len(Metrics) /\ fetched' = Append(fetched, data["facts"])
      /\ redis' = [redis EXCEPT ![k] = data["facts"]]
      /\ setBy' = [setBy EXCEPT ![k] = attempt]
      /\ Goes("serving", "work", "work")
      /\ UNCHANGED <<data, extVault, raced, snapshot, snapshotBy, written, attempt, watermark>>
  BY DEF SetMetric, tables
<1>2. /\ DataStep /\ dagFaults' = dagFaults /\ At("serving", "work")
      /\ At("serving", "work")' /\ ~At("serving", "write")'
  <2>1. "work" \in Phases /\ "work" # "write"
    BY DEF Phases
  <2> QED BY <1>1, <2>1, ServingTask
<1>3. /\ n \in Nat /\ n + 1 \in DOMAIN Metrics /\ k \in MetricSet
      /\ data["facts"] \in Versions
  BY <1>1, ChainNumbers, ChainConstants
<1>4. /\ fetched' \in Seq(Versions) /\ Len(fetched') = n + 1 /\ DOMAIN fetched' = 1..(n + 1)
      /\ fetched'[n + 1] = data["facts"] /\ \A i \in 1..n : fetched'[i] = fetched[i]
  BY <1>1, <1>3, ChainNumbers
<1>5. /\ redis' \in [MetricSet -> Versions] /\ redis'[k] = data["facts"]
      /\ setBy' \in [MetricSet -> Nat] /\ setBy'[k] = attempt
      /\ \A m \in MetricSet : m # k => redis'[m] = redis[m] /\ setBy'[m] = setBy[m]
  BY <1>1, <1>3, ChainNumbers
<1>6. \A i \in DOMAIN Metrics : Metrics[i] = k => i = n + 1
  BY <1>3, ChainConstants
<1> HIDE DEF n, k
<1>7. ChainTypeOK'
  <2>1. Len(fetched') <= Len(Metrics)
    BY <1>1, <1>3, <1>4, ChainConstants
  <2> QED BY <1>1, <1>2, <1>4, <1>5, <2>1, ChainNumbers, DataTypes
<1>8. DualWrite'
  <2>1. /\ watermark <= written /\ written < attempt /\ snapshotBy \in {0, written}
        /\ \A m \in MetricSet :
              /\ written <= setBy[m] /\ setBy[m] <= attempt
              /\ snapshotBy # 0 /\ setBy[m] = snapshotBy => snapshot[m] = redis[m]
        /\ \A i \in DOMAIN fetched : setBy[Metrics[i]] = attempt /\ redis[Metrics[i]] = fetched[i]
    BY <1>2 DEF ChainInv, DualWrite
  <2>2. ASSUME NEW m \in MetricSet
        PROVE  /\ written <= setBy'[m] /\ setBy'[m] <= attempt
               /\ snapshotBy # 0 /\ setBy'[m] = snapshotBy => snapshot[m] = redis'[m]
    <3>1. CASE m = k
      BY <1>5, <2>1, <3>1, ChainNumbers
    <3>2. CASE m # k
      BY <1>5, <2>1, <3>2
    <3> QED BY <3>1, <3>2
  <2>3. ASSUME NEW i \in DOMAIN fetched' PROVE setBy'[Metrics[i]] = attempt /\ redis'[Metrics[i]] = fetched'[i]
    <3>1. CASE i = n + 1
      BY <1>4, <1>5, <3>1 DEF k
    <3>2. CASE i # n + 1
      <4>1. i \in 1..n
        BY <1>3, <1>4, <3>2
      <4>2. i \in DOMAIN fetched
        BY <4>1, ChainNumbers DEF n
      <4>3. Metrics[i] \in MetricSet /\ Metrics[i] # k
        BY <1>6, <3>2, <4>2, ChainNumbers, ChainConstants
      <4> QED BY <1>4, <1>5, <2>1, <4>1, <4>2, <4>3
    <3> QED BY <3>1, <3>2
  <2> QED BY <1>1, <1>2, <2>1, <2>2, <2>3, ChainNumbers DEF DualWrite
<1> QED BY <1>2, <1>7, <1>8 DEF ChainInv, DataStep

\* What the statement of the snapshot writes.
LEMMA SnapshotOf ==
    ASSUME UpsertSnapshot, NEW i \in DOMAIN Metrics
    PROVE  snapshot'[Metrics[i]] = fetched[i]
<1>1. Metrics[i] \in MetricSet /\ \A k \in DOMAIN Metrics : Metrics[k] = Metrics[i] => k = i
  BY ChainConstants
<1>2. (CHOOSE k \in DOMAIN Metrics : Metrics[k] = Metrics[i]) = i
  BY <1>1
<1>3. snapshot' = [m \in MetricSet |-> fetched[CHOOSE k \in DOMAIN Metrics : Metrics[k] = m]]
  BY DEF UpsertSnapshot
<1> QED BY <1>1, <1>2, <1>3

\* The snapshot takes over all of what the loop has set.
LEMMA UpsertKeeps == ASSUME ChainInv, "serving" \in Dags, UpsertSnapshot PROVE ChainInv'
<1>1. /\ Len(fetched) = Len(Metrics) /\ fetched' = <<>> /\ snapshotBy' = attempt /\ written' = attempt
      /\ snapshot' = [m \in MetricSet |-> fetched[CHOOSE i \in DOMAIN Metrics : Metrics[i] = m]]
      /\ Goes("serving", "work", "write")
      /\ UNCHANGED <<data, extVault, raced, redis, setBy, attempt, watermark>>
  BY DEF UpsertSnapshot, tables
<1>2. /\ DataStep /\ At("serving", "work") /\ At("serving", "write")' /\ ~At("serving", "work")'
  <2>1. {"work", "write"} \subseteq Phases /\ "work" # "write"
    BY DEF Phases
  <2> QED BY <1>1, <2>1, ServingTask
<1>3. \A m \in MetricSet : \E i \in DOMAIN Metrics : Metrics[i] = m
  BY DEF MetricSet
<1>4. \A i \in DOMAIN Metrics : snapshot'[Metrics[i]] = fetched[i]
  BY SnapshotOf
<1>5. \A i \in DOMAIN Metrics : i \in DOMAIN fetched /\ fetched[i] \in Versions
  BY <1>1, ChainNumbers, ChainConstants
<1>6. snapshot' \in [MetricSet -> Versions]
  BY <1>1, <1>3, <1>4, <1>5
<1>7. ChainTypeOK'
  <2>1. fetched' \in Seq(Versions) /\ Len(fetched') <= Len(Metrics)
    BY <1>1, ChainConstants
  <2> QED BY <1>1, <1>2, <1>6, <2>1, ChainNumbers, DataTypes
<1>8. DualWrite'
  <2>1. /\ watermark <= written /\ written < attempt
        /\ \A i \in DOMAIN fetched : setBy[Metrics[i]] = attempt /\ redis[Metrics[i]] = fetched[i]
    BY <1>2 DEF ChainInv, DualWrite
  <2>2. \A m \in MetricSet : setBy[m] = attempt /\ snapshot'[m] = redis[m]
    BY <1>3, <1>4, <1>5, <2>1
  <2>3. watermark <= attempt
    BY <2>1, ChainNumbers
  <2>4. /\ watermark' <= written' /\ written' <= attempt' /\ snapshotBy' \in {0, written'}
        /\ \A m \in MetricSet :
              /\ written' <= setBy'[m] /\ setBy'[m] <= attempt'
              /\ snapshotBy' # 0 /\ setBy'[m] = snapshotBy' => snapshot'[m] = redis'[m]
    BY <1>1, <2>2, <2>3, ChainNumbers
  <2>5. written' = attempt' /\ \A m \in MetricSet : setBy'[m] = attempt'
    BY <1>1, <2>2
  <2> QED BY <1>2, <2>4, <2>5 DEF DualWrite
<1> QED BY <1>2, <1>7, <1>8 DEF ChainInv, DataStep

LEMMA MarkKeeps == ASSUME ChainInv, "serving" \in Dags, MarkServing PROVE ChainInv'
<1>1. /\ watermark' = attempt /\ Goes("serving", "write", "done")
      /\ UNCHANGED <<data, extVault, raced, redis, setBy, snapshot, snapshotBy, written, fetched, attempt>>
  BY DEF MarkServing, tables
<1>2. DataStep /\ At("serving", "write") /\ ~At("serving", "write")' /\ ~At("serving", "work")'
  <2>1. {"work", "write", "done"} \subseteq Phases /\ "done" \notin {"work", "write"}
    BY DEF Phases
  <2> QED BY <1>1, <2>1, ServingTask
<1>3. ChainTypeOK'
  BY <1>1, <1>2, ChainNumbers, DataTypes
<1>4. DualWrite'
  BY <1>1, <1>2, ChainNumbers DEF ChainInv, DualWrite
<1> QED BY <1>2, <1>3, <1>4 DEF ChainInv, DataStep

\* A new attempt of the serving task, with no rows yet.
LEMMA AttemptKeeps ==
    ASSUME ChainInv, DataStep, At("serving", "work")', ~At("serving", "write")',
           attempt' = attempt + 1, fetched' = <<>>,
           UNCHANGED <<redis, setBy, snapshot, snapshotBy, written, watermark>>
    PROVE  ChainInv'
<1>1. fetched' \in Seq(Versions) /\ Len(fetched') <= Len(Metrics) /\ DOMAIN fetched' = {} /\ attempt' \in Nat
  BY ChainNumbers, ChainConstants
<1>2. ChainTypeOK'
  BY <1>1, ChainNumbers, DataTypes
<1>3. DualWrite'
  <2>1. written <= attempt /\ \A m \in MetricSet : setBy[m] <= attempt
    BY DEF ChainInv, DualWrite
  <2>2. written < attempt' /\ written <= attempt' /\ \A m \in MetricSet : setBy[m] <= attempt'
    BY <2>1, ChainNumbers
  <2> QED BY <1>1, <2>2 DEF ChainInv, DualWrite
<1> QED BY <1>2, <1>3 DEF ChainInv, DataStep

\* The run of a DAG starts.
LEMMA StartKeeps == ASSUME ChainInv, NEW d \in Dags, Start(d) PROVE ChainInv'
<1>1. /\ UNCHANGED <<rawNow, stgNow, extNow, data, extVault, raced, redis, setBy, snapshot, snapshotBy, written,
                     watermark, dagFaults>>
      /\ pending' = pending \ {d} /\ NewAttempt(d)
  BY DEF Start, inputs, tables
<1>2. StepsOK /\ Run("work") \in RunSet /\ Run("work").ext <= extNow
  BY ChainNumbers, RunIs DEF Phases
<1>3. /\ StepsOK' /\ \A e \in Dags : e # d => steps'[e] = steps[e]
      /\ \A e, run : Active(e, run)' => Active(e, run) \/ (e = d /\ run = Run("work"))
  BY <1>2, StartEffect
<1>4. DataStep
  BY <1>1, <1>2, <1>3, ChainNumbers, SameData
<1>5. CASE d # "serving"
  BY <1>1, <1>3, <1>4, <1>5, ServingAside, OtherRuns DEF NewAttempt
<1>6. CASE d = "serving"
  <2>1. attempt' = attempt + 1 /\ fetched' = <<>>
    BY <1>1, <1>6 DEF NewAttempt
  <2>2. At("serving", "work")' /\ ~At("serving", "write")'
    <3>1. "serving" \in Core \ {"vault"} /\ "work" # "write"
      BY DEF Core
    <3>2. At(d, "work")' /\ \A p : At(d, p)' => p = "work"
      BY <1>2, <1>6, <3>1, StartEffect
    <3> QED BY <1>6, <3>1, <3>2
  <2> QED BY <1>1, <1>4, <2>1, <2>2, AttemptKeeps
<1> QED BY <1>5, <1>6

\* A run that has done its work leaves, and tells the DAGs behind it.
LEMMA PublishKeeps == ASSUME ChainInv, NEW d \in Dags, Publish(d) PROVE ChainInv'
<1>1. /\ UNCHANGED <<rawNow, stgNow, extNow, data, extVault, raced, redis, setBy, snapshot, snapshotBy, written,
                     fetched, attempt, watermark, dagFaults>>
      /\ pending' = pending \cup Scheduled(Registry[d].out)
  BY DEF Publish, inputs, tables, serving
<1>2. PICK i \in DOMAIN steps[d] : steps[d][i].at = "done" /\ steps' = [steps EXCEPT ![d] = WithoutRun(d, i)]
  BY DEF Publish
<1>3. StepsOK /\ Run("work") \in RunSet /\ Run("work").ext <= extNow
  BY ChainNumbers, RunIs DEF Phases
<1>4. /\ StepsOK'
      /\ \A e, run : Active(e, run) => Active(e, run)' \/ (e = d /\ run = steps[d][i])
      /\ \A e, run : Active(e, run)' => Active(e, run)
  BY <1>2, <1>3, EndEffect
<1>5. DataStep
  <2>1. pending' \subseteq Dags
    BY <1>1, ChainNumbers, Schedules
  <2> QED BY <1>1, <1>3, <1>4, <2>1, ChainNumbers, SameData
<1>6. \A p \in {"work", "write"} : At("serving", p)' <=> At("serving", p)
  BY <1>2, <1>4 DEF At
<1> QED BY <1>1, <1>5, <1>6, ServingAside

\* An attempt fails: after it, the dual write may be left half way.
LEMMA FailsKeeps == ASSUME ChainInv, NEW d \in Dags, Fails(d) PROVE ChainInv'
<1>1. /\ UNCHANGED <<rawNow, stgNow, extNow, pending, data, extVault, raced, redis, setBy, snapshot, snapshotBy,
                     written, watermark>>
      /\ dagFaults < MaxDagFaults /\ dagFaults' = dagFaults + 1
  BY DEF Fails, DagFault, inputs, tables
<1>2. PICK i \in DOMAIN steps[d] :
          \/ steps' = [steps EXCEPT ![d][i] = Run("work")] /\ NewAttempt(d)
          \/ steps' = [steps EXCEPT ![d] = WithoutRun(d, i)] /\ UNCHANGED <<attempt, fetched>>
  BY DEF Fails
<1>3. StepsOK /\ Run("work") \in RunSet /\ Run("work").at = "work" /\ Run("work").ext <= extNow
  BY ChainNumbers, RunIs DEF Phases
<1>4. /\ StepsOK' /\ \A e \in Dags : e # d => steps'[e] = steps[e]
      /\ \A e, run : Active(e, run)' => Active(e, run) \/ run = Run("work")
  <2>1. CASE steps' = [steps EXCEPT ![d][i] = Run("work")]
    <3>1. StepsOK' /\ \A e \in Dags : e # d => steps'[e] = steps[e]
      BY <1>3, <2>1, RunEffect
    <3>2. \A e, run : Active(e, run)' => Active(e, run) \/ (e = d /\ run = Run("work"))
      BY <1>3, <2>1, RunNew
    <3> QED BY <3>1, <3>2
  <2>2. CASE steps' = [steps EXCEPT ![d] = WithoutRun(d, i)]
    BY <1>3, <2>2, EndEffect
  <2> QED BY <1>2, <2>1, <2>2
<1>5. dagFaults' \in 0..MaxDagFaults /\ dagFaults' # 0
  BY <1>1, ChainNumbers, ChainConstants
<1>6. DataStep
  BY <1>1, <1>3, <1>4, <1>5, ChainNumbers, SameData
<1>7. CASE d # "serving"
  BY <1>1, <1>2, <1>4, <1>6, <1>7, ServingAside, OtherRuns DEF NewAttempt
<1>8. CASE d = "serving"
  <2>0. "serving" \in Core \ {"vault"}
    BY DEF Core
  <2>1. CASE steps' = [steps EXCEPT ![d][i] = Run("work")] /\ NewAttempt(d)
    <3>1. At("serving", "work")' /\ ~At("serving", "write")'
      <4>1. d \in Core \ {"vault"}
        BY <1>8, <2>0
      <4>2. Active(d, Run("work"))'
        BY <1>3, <2>1, RunEffect
      <4>3. \A p : At(d, p)' => p = "work"
        BY <1>3, <2>1, <4>1, RunEffect
      <4> QED BY <1>3, <1>8, <4>2, <4>3 DEF At
    <3>2. attempt' = attempt + 1 /\ fetched' = <<>>
      BY <1>8, <2>1 DEF NewAttempt
    <3> QED BY <1>1, <1>6, <3>1, <3>2, AttemptKeeps
  <2>2. CASE steps' = [steps EXCEPT ![d] = WithoutRun(d, i)] /\ UNCHANGED <<attempt, fetched>>
    <3>1. \A p : ~At("serving", p)'
      BY <1>3, <1>8, <2>0, <2>2, EndEffect
    <3>2. ChainTypeOK'
      BY <1>1, <1>6, <2>2, ChainNumbers, DataTypes
    <3>3. DualWrite'
      BY <1>1, <1>5, <2>2, <3>1 DEF ChainInv, DualWrite
    <3> QED BY <1>6, <3>2, <3>3 DEF ChainInv, DataStep
  <2> QED BY <1>2, <2>1, <2>2
<1> QED BY <1>7, <1>8

LEMMA StepChain == ChainInv /\ [ChainNext]_chainVars => ChainInv'
<1> SUFFICES ASSUME ChainInv, [ChainNext]_chainVars PROVE ChainInv'
  OBVIOUS
<1>1. CASE RawIngested \/ VaultLoaded \/ ExtensionsIngested
  BY <1>1, EventKeeps
<1>2. CASE \E d \in Dags : Start(d) \/ Publish(d) \/ Fails(d)
  BY <1>2, StartKeeps, PublishKeeps, FailsKeeps
<1>3. CASE Work
  BY <1>3, CopiesKeep, SelectsKeep, ReplacesKeep, ChecksKeep, SetMetricKeeps, UpsertKeeps, MarkKeeps DEF Work
<1>4. CASE UNCHANGED chainVars
  <2>1. UNCHANGED <<rawNow, stgNow, extNow, pending, steps, data, extVault, raced, redis, setBy, snapshot, snapshotBy,
                    written, fetched, attempt, watermark, dagFaults>>
    BY <1>4 DEF chainVars, inputs, tables, serving
  <2>2. ChainTypeOK' /\ InputsInOrder' /\ DualWrite'
    BY <2>1 DEF ChainInv, ChainTypeOK, InputsInOrder, DualWrite, At, Active
  <2> QED BY <2>2 DEF ChainInv
<1> QED BY <1>1, <1>2, <1>3, <1>4 DEF ChainNext

\* The types, the order of the inputs and the order of the dual write hold in
\* every state of the chain.
THEOREM ChainInductive == ChainSpec => []ChainInv
BY InitChain, StepChain, PTL DEF ChainSpec

\* The part of the type invariant that is the chain's.
LEMMA ChainTyping == ChainSpec => []ChainTypeOK
<1>1. ChainInv => ChainTypeOK
  BY DEF ChainInv
<1> QED BY <1>1, ChainInductive, PTL

\* docs/PIPELINES.md: the watermark serving.redis comes after the dual write.
\* For every set of metrics, any marts that change under the loop or build the
\* snapshot in between, and any attempts that stop half way: the attempt of the
\* watermark has written the snapshot, no key is older than the last attempt to
\* write it, and rows that are that attempt's show what Redis has of the keys it
\* was the last to set; when nothing has failed, all keys are of the watermark
\* between runs.
THEOREM ServingInOrder == ChainSpec => []ServingIsSound
<1>1. ChainInv => ServingIsSound
  <2> SUFFICES ASSUME ChainInv PROVE ServingIsSound
    OBVIOUS
  <2>1. ("serving" \in Dags => steps["serving"] = <<>>) => ~At("serving", "work") /\ ~At("serving", "write")
    BY DEF At, Active
  <2> QED BY <2>1 DEF ChainInv, DualWrite, ServingIsSound
<1> QED BY <1>1, ChainInductive, PTL

-----------------------------------------------------------------------------
(* Freshness: what is stale is still to be computed.                       *)

\* A step that loses no event: a DAG that is not any more to come has told the
\* DAGs behind it.
Onward ==
    /\ UNCHANGED <<stgNow, extNow>>
    /\ \A e \in Dags : Coming(e) => Coming(e)' \/ Scheduled(Registry[e].out) \subseteq pending'

LEMMA OnwardUp ==
    ASSUME Core \subseteq Dags, Onward
    PROVE  /\ AnyOf(ToViews) => AnyOf(ToViews)' \/ Ahead("vault")'
           /\ AnyOf(ToServe) => AnyOf(ToServe)' \/ "serving" \in pending'
           /\ ("serving" \in pending => "serving" \in pending') => (Behind => Behind')
           /\ \A r \in Readers \cap Dags : AnyOf(Upstream(r)) => AnyOf(Upstream(r))' \/ r \in pending'
<1>1. \A e \in Dags : Coming(e) => Coming(e)' \/ Scheduled(Registry[e].out) \subseteq pending'
  BY DEF Onward
<1>2. \A e \in Core : e \in pending' => Coming(e)'
  BY DEF Coming
<1>3. /\ Coming("scd2") => Coming("scd2")' \/ Coming("staging")'
      /\ Coming("staging") => Coming("staging")' \/ "vault" \in pending'
      /\ Coming("vault") => Coming("vault")' \/ Coming("marts")'
      /\ Coming("marts") => Coming("marts")' \/ Coming("dqc")'
      /\ Coming("marts") => Coming("marts")' \/ \A r \in {"finance", "ml"} \cap Dags : r \in pending'
      /\ Coming("dqc") => Coming("dqc")' \/ Coming("quality")'
      /\ Coming("quality") => Coming("quality")' \/ "serving" \in pending'
      /\ Coming("serving") => Coming("serving")' \/ ("analytics" \in Dags => "analytics" \in pending')
  BY <1>1, <1>2, Schedules DEF Core
<1>4. "vault" \in pending' => Coming("vault")'
  BY <1>2 DEF Core
<1>5. "serving" \in pending' => Coming("serving")'
  BY <1>2 DEF Core
<1>6. AnyOf(ToViews) => AnyOf(ToViews)' \/ "vault" \in pending'
  BY <1>3 DEF AnyOf, ToViews
<1>7. AnyOf(ToServe) => AnyOf(ToServe)' \/ "serving" \in pending'
  BY <1>3 DEF AnyOf, ToServe
<1>8. ("serving" \in pending => "serving" \in pending') => (Behind => Behind')
  BY <1>7 DEF Behind
<1>9. ASSUME NEW r \in Readers \cap Dags, AnyOf(Upstream(r)) PROVE AnyOf(Upstream(r))' \/ r \in pending'
  <2>1. CASE r = "analytics"
    BY <1>3, <1>5, <1>9, <2>1 DEF AnyOf, Upstream, ToServe
  <2>2. CASE r = "finance"
    BY <1>3, <1>9, <2>2 DEF AnyOf, Upstream
  <2>3. CASE r = "ml"
    BY <1>3, <1>4, <1>9, <2>3 DEF AnyOf, Upstream, ToMarts, ToViews
  <2> QED BY <2>1, <2>2, <2>3 DEF Readers
<1> QED BY <1>6, <1>7, <1>8, <1>9 DEF Ahead

\* A run of the vault keeps what it has read until it has written it.
VaultRunsKept == \A run : Active("vault", run) /\ run.at = "write" => Active("vault", run)'

\* A table that a step leaves alone, and whose DAG keeps its work, stays fresh or
\* to be computed.
LEMMA TablesKept ==
    ASSUME Core \subseteq Dags, FreshTables, Onward
    PROVE  /\ data'["satellites"] = data["satellites"] /\ (Ahead("scd2") => Ahead("scd2")') => FreshSatellites'
           /\ data'["vault"] = data["vault"] /\ ("vault" \in raced => "vault" \in raced')
                 /\ (Ahead("vault") => Ahead("vault")') /\ VaultRunsKept => FreshVault'
           /\ extVault' = extVault /\ (Ahead("vault") => Ahead("vault")') /\ VaultRunsKept => FreshExtensions'
           /\ data'["facts"] = data["facts"] /\ data'["vault"] = data["vault"]
                 /\ (Ahead("marts") => Ahead("marts")')
                 /\ (At("vault", "done") => At("vault", "done")' \/ Ahead("marts")') => FreshFacts'
           /\ data'["kpis"] = data["kpis"] /\ data'["facts"] = data["facts"]
                 /\ ("kpis" \in raced => "kpis" \in raced')
                 /\ (\A p \in {"write", "kpis"} : At("marts", p) => At("marts", p)') => FreshKpis'
           /\ \A r \in Readers \cap Dags :
                 data'[r] = data[r] /\ data'["facts"] = data["facts"] /\ (Ahead(r) => Ahead(r)') =>
                    UpToDate(r)' \/ AnyOf(Upstream(r))' \/ Ahead(r)'
<1>1. /\ stgNow' = stgNow /\ extNow' = extNow
      /\ FreshSatellites /\ FreshVault /\ FreshExtensions /\ FreshFacts /\ FreshKpis /\ FreshReaders
  BY DEF Onward, FreshTables
<1>2. /\ AnyOf(ToViews) => AnyOf(ToViews)' \/ Ahead("vault")'
      /\ \A r \in Readers \cap Dags : AnyOf(Upstream(r)) => AnyOf(Upstream(r))' \/ r \in pending'
  BY OnwardUp
<1>3. data'["satellites"] = data["satellites"] /\ (Ahead("scd2") => Ahead("scd2")') => FreshSatellites'
  BY <1>1 DEF FreshSatellites
<1>4. ASSUME data'["vault"] = data["vault"], "vault" \in raced => "vault" \in raced',
             Ahead("vault") => Ahead("vault")', VaultRunsKept
      PROVE  FreshVault'
  <2>1. \A run : Holds(run) => Holds(run)'
    BY <1>1, <1>4 DEF VaultRunsKept, Holds, Covers
  <2>2. Covers(data["vault"]) => Covers(data["vault"])'
    BY <1>1, <1>4 DEF Covers
  <2> QED BY <1>1, <1>2, <1>4, <2>1, <2>2 DEF FreshVault
<1>5. ASSUME extVault' = extVault, Ahead("vault") => Ahead("vault")', VaultRunsKept
      PROVE  FreshExtensions'
  <2>1. \A run : HoldsEvents(run) => HoldsEvents(run)'
    BY <1>1, <1>5 DEF VaultRunsKept, HoldsEvents
  <2> QED BY <1>1, <1>5, <2>1 DEF FreshExtensions
<1>6. ASSUME data'["facts"] = data["facts"], data'["vault"] = data["vault"],
             Ahead("marts") => Ahead("marts")', At("vault", "done") => At("vault", "done")' \/ Ahead("marts")'
      PROVE  FreshFacts'
  BY <1>1, <1>6 DEF FreshFacts
<1>7. ASSUME data'["kpis"] = data["kpis"], data'["facts"] = data["facts"], "kpis" \in raced => "kpis" \in raced',
             \A p \in {"write", "kpis"} : At("marts", p) => At("marts", p)'
      PROVE  FreshKpis'
  BY <1>1, <1>7 DEF FreshKpis
<1>8. ASSUME NEW r \in Readers \cap Dags, data'[r] = data[r], data'["facts"] = data["facts"], Ahead(r) => Ahead(r)'
      PROVE  UpToDate(r)' \/ AnyOf(Upstream(r))' \/ Ahead(r)'
  <2>1. UpToDate(r) => UpToDate(r)'
    BY <1>1, <1>8 DEF UpToDate
  <2>2. r \in pending' => Ahead(r)'
    BY DEF Ahead
  <2> QED BY <1>1, <1>2, <1>8, <2>1, <2>2 DEF FreshReaders
<1> QED BY <1>3, <1>4, <1>5, <1>6, <1>7, <1>8

\* A step of another DAG that leaves the serving layer, and the facts.
LEMMA ServingKept ==
    ASSUME Core \subseteq Dags, FreshServing, Onward, data'["facts"] = data["facts"],
           UNCHANGED <<fetched, redis, snapshot, snapshotBy, attempt>>,
           "serving" \in pending => "serving" \in pending',
           At("serving", "work") => At("serving", "work")'
    PROVE  FreshServing'
<1>1. Behind => Behind'
  BY OnwardUp
<1> QED BY <1>1 DEF FreshServing, Fresh

\* A task that moves its run on.
LEMMA MoveOnward ==
    ASSUME ChainInv, NEW d \in Dags, NEW from, NEW to \in RunSet,
           \E i \in DOMAIN steps[d] : Moves(d, i, from, to)
    PROVE  /\ Onward /\ pending' = pending /\ \A e \in Dags : Coming(e) => Coming(e)'
           /\ \A e : e # d \/ from # "work" => (Ahead(e) => Ahead(e)')
           /\ d # "vault" \/ from # "write" => VaultRunsKept
           /\ \A e, p : e # d \/ p # from => (At(e, p) => At(e, p)')
           /\ Active(d, to)' /\ At(d, to.at)' /\ Coming(d)'
<1>1. StepsOK
  BY ChainNumbers
<1>2. UNCHANGED <<stgNow, extNow, pending>> /\ steps'[d] # <<>>
  BY <1>1, MoveEffect
<1>3. Active(d, to)' /\ At(d, to.at)'
  BY <1>1, MoveEffect
<1>4. \A e \in Dags : e # d => steps'[e] = steps[e]
  BY <1>1, MoveEffect
<1>5. \A e, run : Active(e, run) => Active(e, run)' \/ (e = d /\ run.at = from)
  BY <1>1, MoveOld
<1>6. \A e, p : At(e, p) => At(e, p)' \/ (e = d /\ p = from)
  BY <1>1, MoveEffect
<1>7. Coming(d)' /\ \A e \in Dags : Coming(e) => Coming(e)'
  BY <1>2, <1>4 DEF Coming
<1>8. \A e : e # d \/ from # "work" => (Ahead(e) => Ahead(e)')
  BY <1>2, <1>6 DEF Ahead
<1>9. d # "vault" \/ from # "write" => VaultRunsKept
  BY <1>5 DEF VaultRunsKept
<1>10. Onward
  BY <1>2, <1>7 DEF Onward
<1> QED BY <1>2, <1>3, <1>6, <1>7, <1>8, <1>9, <1>10

\* The same, for a run that has nothing in its hands after it.
LEMMA GoOnward ==
    ASSUME ChainInv, NEW d \in Dags, NEW from, NEW to \in Phases, Goes(d, from, to)
    PROVE  /\ Onward /\ pending' = pending /\ \A e \in Dags : Coming(e) => Coming(e)'
           /\ \A e : e # d \/ from # "work" => (Ahead(e) => Ahead(e)')
           /\ d # "vault" \/ from # "write" => VaultRunsKept
           /\ \A e, p : e # d \/ p # from => (At(e, p) => At(e, p)')
           /\ At(d, to)' /\ Coming(d)'
<1>1. PICK run \in RunSet : run.at = to /\ \E i \in DOMAIN steps[d] : Moves(d, i, from, run)
  BY GoEffect
<1>2. /\ Onward /\ pending' = pending /\ \A e \in Dags : Coming(e) => Coming(e)'
      /\ \A e : e # d \/ from # "work" => (Ahead(e) => Ahead(e)')
      /\ d # "vault" \/ from # "write" => VaultRunsKept
  BY <1>1, MoveOnward
<1>3. \A e, p : e # d \/ p # from => (At(e, p) => At(e, p)')
  BY <1>1, MoveOnward
<1>4. At(d, to)' /\ Coming(d)'
  BY <1>1, MoveOnward
<1> QED BY <1>2, <1>3, <1>4

\* A task of another DAG than the serving one that leaves the facts.
LEMMA MoveAside ==
    ASSUME Core \subseteq Dags, ChainInv, FreshServing, NEW d \in Dags, d # "serving",
           NEW from, NEW to \in RunSet, \E i \in DOMAIN steps[d] : Moves(d, i, from, to),
           data'["facts"] = data["facts"], UNCHANGED serving
    PROVE  FreshServing'
<1>1. Onward /\ pending' = pending
  BY MoveOnward
<1>2. At("serving", "work") => At("serving", "work")'
  BY MoveOnward
<1> QED BY <1>1, <1>2, ServingKept DEF serving

LEMMA GoAside ==
    ASSUME Core \subseteq Dags, ChainInv, FreshServing, NEW d \in Dags, d # "serving",
           NEW from, NEW to \in Phases, Goes(d, from, to),
           data'["facts"] = data["facts"], UNCHANGED serving
    PROVE  FreshServing'
<1>1. PICK run \in RunSet : \E i \in DOMAIN steps[d] : Moves(d, i, from, run)
  BY GoEffect
<1> QED BY <1>1, MoveAside

\* A task that writes no table that others read, or none at all.
LEMMA AsideFresh ==
    ASSUME Core \subseteq Dags, ChainInv, FreshTables, FreshServing,
           BuildViews \/ RunTests \/ ExecuteChecks \/ SelectKpis
    PROVE  FreshTables' /\ FreshServing'
<1>1. PICK d \in {"staging", "dqc", "quality", "kpis"}, to \in RunSet :
          \E i \in DOMAIN steps[d] : Moves(d, i, "work", to)
  <2>1. ASSUME NEW d \in {"staging", "dqc", "quality"}, Goes(d, "work", "done")
        PROVE  \E to \in RunSet : \E i \in DOMAIN steps[d] : Moves(d, i, "work", to)
    BY <2>1, GoEffect DEF Phases
  <2>2. [at |-> "write", read |-> data["facts"], ext |-> 0] \in RunSet
    BY ChainNumbers, ChainConstants DEF RunSet, Phases
  <2> QED BY <2>1, <2>2 DEF BuildViews, RunTests, ExecuteChecks, Check, SelectKpis
<1>2. UNCHANGED <<data, extVault, raced, serving>>
  BY DEF BuildViews, RunTests, ExecuteChecks, Check, SelectKpis, tables
<1>3. d \in Dags /\ d \notin {"scd2", "vault", "marts", "serving", "analytics", "finance", "ml"}
  BY DEF Core
<1>4. Onward /\ VaultRunsKept /\ \A e : e # d => (Ahead(e) => Ahead(e)')
  BY <1>1, <1>3, MoveOnward
<1>5. \A e, p : e # d => (At(e, p) => At(e, p)')
  BY <1>1, <1>3, MoveOnward
<1>6. FreshSatellites' /\ FreshVault' /\ FreshExtensions' /\ FreshFacts' /\ FreshKpis'
  BY <1>2, <1>3, <1>4, <1>5, TablesKept
<1>7. FreshReaders'
  BY <1>2, <1>3, <1>4, TablesKept DEF FreshReaders, Readers
<1> QED BY <1>1, <1>2, <1>3, <1>6, <1>7, MoveAside DEF FreshTables

\* The satellites are computed from what is staged.
LEMMA SatellitesFresh ==
    ASSUME Core \subseteq Dags, ChainInv, FreshTables, FreshServing, LoadSatellites
    PROVE  FreshTables' /\ FreshServing'
<1>1. /\ Goes("scd2", "work", "done") /\ data' = [data EXCEPT !["satellites"] = Shows(0, stgNow)]
      /\ UNCHANGED <<extVault, raced, serving>>
  BY DEF LoadSatellites, Compute
<1>2. data'["satellites"].stg = stgNow /\ \A u \in Data \ {"satellites"} : data'[u] = data[u]
  BY <1>1, ChainNumbers DEF Data, Shows
<1>3. "scd2" \in Dags /\ "done" \in Phases
  BY DEF Phases, Core
<1>4. Onward /\ VaultRunsKept /\ \A e : e # "scd2" => (Ahead(e) => Ahead(e)')
  BY <1>1, <1>3, GoOnward
<1>5. \A e, p : e # "scd2" => (At(e, p) => At(e, p)')
  BY <1>1, <1>3, GoOnward
<1>6. FreshSatellites'
  BY <1>2, <1>4 DEF FreshSatellites, Onward
<1>7. FreshVault' /\ FreshExtensions' /\ FreshFacts' /\ FreshKpis'
  BY <1>1, <1>2, <1>4, <1>5, TablesKept DEF Data
<1>8. FreshReaders'
  BY <1>1, <1>2, <1>4, TablesKept DEF FreshReaders, Readers, Data
<1>9. FreshServing'
  BY <1>1, <1>2, <1>3, GoAside DEF Data
<1> QED BY <1>6, <1>7, <1>8, <1>9 DEF FreshTables

\* A run of the vault reads: it has the newest rows and events in its hands.
LEMMA SelectVaultFresh ==
    ASSUME Core \subseteq Dags, ChainInv, FreshTables, FreshServing, SelectVault
    PROVE  FreshTables' /\ FreshServing'
<1>1. PICK to \in RunSet :
          /\ to.at = "write" /\ to.ext = extNow /\ to.read.stg = stgNow /\ to.read.raw >= stgNow
          /\ \E i \in DOMAIN steps["vault"] : Moves("vault", i, "work", to)
  <2> DEFINE run == [at |-> "write", read |-> Shows(rawNow, stgNow), ext |-> extNow]
  <2>1. \E i \in DOMAIN steps["vault"] : Moves("vault", i, "work", run)
    BY DEF SelectVault
  <2>2. run \in RunSet /\ run.at = "write" /\ run.ext = extNow /\ run.read.stg = stgNow /\ run.read.raw >= stgNow
    BY ChainNumbers DEF RunSet, Shows, Versions, Phases
  <2> QED BY <2>1, <2>2
<1>2. UNCHANGED <<data, extVault, raced, serving>> /\ "vault" \in Dags
  BY DEF SelectVault, tables, Core
<1>3. Onward /\ \A e : e # "vault" => (Ahead(e) => Ahead(e)')
  BY <1>1, <1>2, MoveOnward
<1>4. \A e, p : e # "vault" \/ p # "work" => (At(e, p) => At(e, p)')
  BY <1>1, <1>2, MoveOnward
<1>5. Active("vault", to)'
  BY <1>1, <1>2, MoveOnward
<1>6. FreshVault' /\ FreshExtensions'
  <2>1. stgNow' = stgNow /\ extNow' = extNow
    BY <1>3 DEF Onward
  <2>2. Holds(to)' /\ HoldsEvents(to)'
    BY <1>1, <1>5, <2>1 DEF Holds, HoldsEvents, Covers
  <2> QED BY <1>1, <2>2 DEF FreshVault, FreshExtensions
<1>7. FreshSatellites' /\ FreshFacts' /\ FreshKpis'
  BY <1>2, <1>3, <1>4, TablesKept
<1>8. FreshReaders'
  BY <1>2, <1>3, TablesKept DEF FreshReaders, Readers
<1>9. FreshServing'
  BY <1>1, <1>2, MoveAside
<1> QED BY <1>6, <1>7, <1>8, <1>9 DEF FreshTables

\* A run of the vault writes: what was current and is not any more has been raced,
\* what another run has in its hands stays there, and the marts hear of this run.
LEMMA ReplaceVaultFresh ==
    ASSUME Core \subseteq Dags, ChainInv, FreshTables, FreshServing, ReplaceVault
    PROVE  FreshTables' /\ FreshServing'
<1>1. PICK i \in DOMAIN steps["vault"] :
          /\ Moves("vault", i, "write", Run("done"))
          /\ Replace("vault", steps["vault"][i].read, Covers(steps["vault"][i].read), Covers(data["vault"]))
          /\ extVault' = Newer(steps["vault"][i].ext, extVault)
  BY DEF ReplaceVault
<1>2. UNCHANGED serving
  BY DEF ReplaceVault
<1>3. "vault" \in Dags /\ "done" \in Phases /\ StepsOK /\ Run("done") \in RunSet
  BY ChainNumbers, RunIs DEF Core, Phases
<1>4. PICK old \in RunSet : old = steps["vault"][i] /\ Active("vault", old)
  BY <1>3, StepNumbers
<1>5. old.read \in Versions /\ old.ext \in Nat /\ old.ext <= extNow
  BY <1>4, ChainConstants DEF RunSet, ChainInv, InputsInOrder
<1>6. /\ data'["vault"] = old.read /\ \A u \in Data : u # "vault" => data'[u] = data[u]
      /\ ("kpis" \in raced <=> "kpis" \in raced')
  BY <1>1, <1>4, <1>5, ReplaceEffect
<1>7. ~Covers(old.read) => ("vault" \in raced => "vault" \in raced') /\ (Covers(data["vault"]) => "vault" \in raced')
  BY <1>1, <1>4, <1>5, ReplaceEffect
<1>8. Goes("vault", "write", "done")
  BY <1>1 DEF Goes
<1>9. Onward /\ \A e : Ahead(e) => Ahead(e)'
  BY <1>3, <1>8, GoOnward
<1>10. \A e, p : e # "vault" \/ p # "write" => (At(e, p) => At(e, p)')
  BY <1>3, <1>8, GoOnward
<1>11. At("vault", "done")'
  BY <1>3, <1>8, GoOnward
<1>12. \A run : Active("vault", run) => Active("vault", run)' \/ run = old
  <2>1. steps' = [steps EXCEPT !["vault"][i] = Run("done")]
    BY <1>1 DEF Moves
  <2>2. \A e, run : Active(e, run) => Active(e, run)' \/ (e = "vault" /\ run = steps["vault"][i])
    BY <1>3, <2>1, RunEffect
  <2> QED BY <1>4, <2>2
<1>13. stgNow' = stgNow /\ extNow' = extNow
  BY <1>9 DEF Onward
<1>14. FreshVault'
  <2>1. CASE Covers(old.read)
    BY <1>6, <1>13, <2>1 DEF FreshVault, Covers
  <2>2. CASE ~Covers(old.read)
    <3>1. \A run : Holds(run) => Holds(run)'
      BY <1>12, <1>13, <2>2 DEF Holds, Covers
    <3>2. AnyOf(ToViews) => AnyOf(ToViews)' \/ Ahead("vault")'
      BY <1>9, OnwardUp
    <3> QED BY <1>7, <1>9, <2>2, <3>1, <3>2 DEF FreshTables, FreshVault
  <2> QED BY <2>1, <2>2
<1>15. FreshExtensions'
  <2>1. CASE old.ext = extNow \/ extVault = extNow
    BY <1>1, <1>4, <1>5, <1>13, <2>1, ChainNumbers DEF FreshExtensions, Newer
  <2>2. CASE old.ext # extNow /\ extVault # extNow
    <3>1. \A run : HoldsEvents(run) => HoldsEvents(run)'
      BY <1>12, <1>13, <2>2 DEF HoldsEvents
    <3> QED BY <1>9, <2>2, <3>1 DEF FreshTables, FreshExtensions
  <2> QED BY <2>1, <2>2
<1>16. FreshFacts'
  BY <1>11 DEF FreshFacts
<1>17. FreshSatellites' /\ FreshKpis'
  BY <1>6, <1>9, <1>10, TablesKept DEF Data
<1>18. FreshReaders'
  BY <1>6, <1>9, TablesKept DEF FreshReaders, Readers, Data
<1>19. FreshServing'
  BY <1>2, <1>3, <1>6, <1>8, GoAside DEF Data
<1> QED BY <1>14, <1>15, <1>16, <1>17, <1>18, <1>19 DEF FreshTables

\* The facts follow the vault; the KPI model and the snapshot of the same run follow
\* them, and then the DAGs behind it.
LEMMA BuildFactsFresh ==
    ASSUME Core \subseteq Dags, ChainInv, FreshTables, FreshServing, BuildFacts
    PROVE  FreshTables' /\ FreshServing'
<1>1. /\ Goes("marts", "work", "write") /\ data' = [data EXCEPT !["facts"] = data["vault"]]
      /\ UNCHANGED <<extVault, raced>>
  BY DEF BuildFacts
<1>2. data'["facts"] = data["vault"] /\ \A u \in Data \ {"facts"} : data'[u] = data[u]
  BY <1>1, ChainNumbers DEF Data
<1>3. "marts" \in Dags /\ "write" \in Phases
  BY DEF Phases, Core
<1>4. Onward /\ VaultRunsKept /\ \A e : e # "marts" => (Ahead(e) => Ahead(e)')
  BY <1>1, <1>3, GoOnward
<1>5. At("marts", "write")' /\ Coming("marts")'
  BY <1>1, <1>3, GoOnward
<1>6. FreshSatellites' /\ FreshVault' /\ FreshExtensions'
  BY <1>1, <1>2, <1>4, TablesKept DEF Data
<1>7. FreshFacts' /\ FreshKpis'
  BY <1>2, <1>5 DEF FreshFacts, FreshKpis, Data
<1>8. ASSUME NEW r \in Readers \cap Dags PROVE UpToDate(r)' \/ AnyOf(Upstream(r))' \/ Ahead(r)'
  BY <1>5 DEF Upstream, ToServe, ToMarts, AnyOf, Readers
<1>9. FreshServing'
  BY <1>5 DEF FreshServing, Fresh, Behind, AnyOf, ToServe
<1> QED BY <1>6, <1>7, <1>8, <1>9 DEF FreshTables, FreshReaders

LEMMA MartKpisFresh ==
    ASSUME Core \subseteq Dags, ChainInv, FreshTables, FreshServing, BuildMartKpis
    PROVE  FreshTables' /\ FreshServing'
<1>1. PICK from \in {"write", "kpis"}, to \in {"snapshot", "done"} : Goes("marts", from, to)
  BY DEF BuildMartKpis
<1>2. Replace("kpis", data["facts"], TRUE, FALSE) /\ UNCHANGED <<extVault, serving>> /\ data["facts"] \in Versions
  BY ChainNumbers DEF BuildMartKpis
<1>3. /\ data'["kpis"] = data["facts"] /\ \A u \in Data : u # "kpis" => data'[u] = data[u]
      /\ ("vault" \in raced <=> "vault" \in raced')
  BY <1>2, ReplaceEffect
<1>4. "marts" \in Dags /\ to \in Phases
  BY DEF Phases, Core
<1>5. Onward /\ VaultRunsKept /\ \A e : Ahead(e) => Ahead(e)'
  BY <1>1, <1>4, GoOnward
<1>6. \A e, p : e # "marts" => (At(e, p) => At(e, p)')
  BY <1>1, <1>4, GoOnward
<1>7. FreshSatellites' /\ FreshVault' /\ FreshExtensions' /\ FreshFacts'
  BY <1>2, <1>3, <1>5, <1>6, TablesKept DEF Data
<1>8. FreshKpis'
  BY <1>3 DEF FreshKpis, Data
<1>9. FreshReaders'
  BY <1>3, <1>5, TablesKept DEF FreshReaders, Readers, Data
<1>10. FreshServing'
  BY <1>1, <1>2, <1>3, <1>4, GoAside DEF Data
<1> QED BY <1>7, <1>8, <1>9, <1>10 DEF FreshTables

\* dbt builds the snapshot anew: the serving run that its marts run leads to comes
\* after it.
LEMMA BuildSnapshotFresh ==
    ASSUME Core \subseteq Dags, ChainInv, FreshTables, FreshServing, BuildSnapshot
    PROVE  FreshTables' /\ FreshServing'
<1>1. PICK from \in {"write", "snapshot"}, to \in {"kpis", "done"} :
          Goes("marts", from, to) /\ (from = "write" <=> to = "kpis")
  BY DEF BuildSnapshot
<1>2. UNCHANGED <<data, extVault, raced>>
  BY DEF BuildSnapshot, tables
<1>3. "marts" \in Dags /\ to \in Phases
  BY DEF Phases, Core
<1>4. Onward /\ VaultRunsKept /\ \A e : Ahead(e) => Ahead(e)'
  BY <1>1, <1>3, GoOnward
<1>5. \A e, p : e # "marts" \/ p # from => (At(e, p) => At(e, p)')
  BY <1>1, <1>3, GoOnward
<1>6. At("marts", to)' /\ Coming("marts")'
  BY <1>1, <1>3, GoOnward
<1>7. FreshSatellites' /\ FreshVault' /\ FreshExtensions' /\ FreshFacts'
  BY <1>2, <1>4, <1>5, TablesKept
<1>8. FreshKpis'
  <2>1. CASE from = "write"
    BY <1>1, <1>6, <2>1 DEF FreshKpis
  <2>2. CASE from = "snapshot"
    BY <1>2, <1>5, <2>2, TablesKept, <1>4
  <2> QED BY <2>1, <2>2
<1>9. FreshReaders'
  BY <1>2, <1>4, TablesKept DEF FreshReaders
<1>10. FreshServing'
  BY <1>6 DEF FreshServing, Fresh, Behind, AnyOf, ToServe
<1> QED BY <1>7, <1>8, <1>9, <1>10 DEF FreshTables

\* The other writer of the KPI table: rows that are current and are replaced by
\* others have been raced.
LEMMA ReplaceKpisFresh ==
    ASSUME Core \subseteq Dags, ChainInv, FreshTables, FreshServing, ReplaceKpis
    PROVE  FreshTables' /\ FreshServing'
<1>1. PICK i \in DOMAIN steps["kpis"] :
          /\ Moves("kpis", i, "write", Run("done"))
          /\ Replace("kpis", steps["kpis"][i].read, steps["kpis"][i].read = data["facts"], data["kpis"] = data["facts"])
  BY DEF ReplaceKpis
<1>2. UNCHANGED <<extVault, serving>> /\ Goes("kpis", "write", "done") /\ "kpis" \in Dags /\ "done" \in Phases /\ StepsOK
  BY <1>1, ChainNumbers DEF ReplaceKpis, Goes, Core, Phases
<1>3. PICK v \in Versions : v = steps["kpis"][i].read
  <2>1. steps["kpis"][i] \in RunSet
    BY <1>2, StepNumbers
  <2> QED BY <2>1 DEF RunSet
<1>4. Replace("kpis", v, v = data["facts"], data["kpis"] = data["facts"])
  BY <1>1, <1>3
<1>5. /\ data'["kpis"] = v /\ \A u \in Data : u # "kpis" => data'[u] = data[u]
      /\ ("vault" \in raced <=> "vault" \in raced')
  BY <1>4, ReplaceEffect
<1>6. v # data["facts"] => ("kpis" \in raced => "kpis" \in raced') /\ (data["kpis"] = data["facts"] => "kpis" \in raced')
  BY <1>4, ReplaceEffect
<1>7. Onward /\ VaultRunsKept /\ \A e : Ahead(e) => Ahead(e)'
  BY <1>2, GoOnward
<1>8. \A e, p : e # "kpis" => (At(e, p) => At(e, p)')
  BY <1>2, GoOnward
<1>9. FreshSatellites' /\ FreshVault' /\ FreshExtensions' /\ FreshFacts'
  BY <1>2, <1>5, <1>7, <1>8, TablesKept DEF Data
<1>10. FreshKpis'
  BY <1>5, <1>6, <1>8 DEF FreshTables, FreshKpis, Data
<1>11. FreshReaders'
  BY <1>5, <1>7, TablesKept DEF FreshReaders, Readers, Data
<1>12. FreshServing'
  BY <1>2, <1>5, GoAside DEF Data
<1> QED BY <1>9, <1>10, <1>11, <1>12 DEF FreshTables

LEMMA DeriveFresh ==
    ASSUME Core \subseteq Dags, ChainInv, FreshTables, FreshServing, NEW d \in Readers \cap Dags, Derive(d)
    PROVE  FreshTables' /\ FreshServing'
<1>1. /\ Goes(d, "work", "done") /\ UNCHANGED <<extVault, raced, serving>>
      /\ data' = [data EXCEPT ![d] = IF d = "ml" THEN Shows(rawNow, 0) ELSE data["facts"]]
  BY DEF Derive, Compute
<1>2. d \in Data /\ d \notin {"satellites", "vault", "facts", "kpis", "scd2", "marts", "serving"} /\ "done" \in Phases
  BY DEF Readers, Data, Phases
<1>3. /\ data'[d] = IF d = "ml" THEN Shows(rawNow, 0) ELSE data["facts"]
      /\ \A u \in Data \ {d} : data'[u] = data[u]
  BY <1>1, <1>2, ChainNumbers
<1>4. Onward /\ VaultRunsKept /\ \A e : e # d => (Ahead(e) => Ahead(e)')
  BY <1>1, <1>2, GoOnward
<1>5. \A e, p : e # d => (At(e, p) => At(e, p)')
  BY <1>1, <1>2, GoOnward
<1>6. FreshSatellites' /\ FreshVault' /\ FreshExtensions' /\ FreshFacts' /\ FreshKpis'
  BY <1>1, <1>2, <1>3, <1>4, <1>5, TablesKept DEF Data
<1>7. ASSUME NEW r \in Readers \cap Dags PROVE UpToDate(r)' \/ AnyOf(Upstream(r))' \/ Ahead(r)'
  <2>1. CASE r # d
    BY <1>2, <1>3, <1>4, <2>1, TablesKept DEF Readers, Data
  <2>2. CASE r = d
    <3>1. stgNow' = stgNow /\ stgNow <= rawNow /\ stgNow \in Nat /\ rawNow \in Nat
      BY <1>4, ChainNumbers DEF Onward
    <3> QED BY <1>2, <1>3, <2>2, <3>1 DEF UpToDate, Shows, Data
  <2> QED BY <2>1, <2>2
<1>8. FreshServing'
  BY <1>1, <1>2, <1>3, GoAside DEF Data
<1> QED BY <1>6, <1>7, <1>8 DEF FreshTables, FreshReaders

\* The serving task leaves the tables.
LEMMA ServingTables ==
    ASSUME Core \subseteq Dags, ChainInv, FreshTables, NEW from, NEW to \in Phases, Goes("serving", from, to),
           UNCHANGED <<data, extVault, raced>>
    PROVE  FreshTables' /\ (Behind => Behind') /\ At("serving", to)'
<1>1. "serving" \in Dags
  BY DEF Core
<1>2. Onward /\ pending' = pending /\ VaultRunsKept /\ \A e : e # "serving" => (Ahead(e) => Ahead(e)')
  BY <1>1, GoOnward
<1>3. \A e, p : e # "serving" => (At(e, p) => At(e, p)')
  BY <1>1, GoOnward
<1>4. At("serving", to)'
  BY <1>1, GoOnward
<1>5. FreshSatellites' /\ FreshVault' /\ FreshExtensions' /\ FreshFacts' /\ FreshKpis'
  BY <1>2, <1>3, TablesKept
<1>6. FreshReaders'
  BY <1>2, TablesKept DEF FreshReaders, Readers
<1>7. Behind => Behind'
  BY <1>2, OnwardUp
<1> QED BY <1>4, <1>5, <1>6, <1>7 DEF FreshTables

LEMMA SetMetricFresh ==
    ASSUME Core \subseteq Dags, ChainInv, FreshTables, FreshServing, SetMetric
    PROVE  FreshTables' /\ FreshServing'
<1> DEFINE n == Len(fetched)
<1>1. /\ n < Len(Metrics) /\ fetched' = Append(fetched, data["facts"])
      /\ redis' = [redis EXCEPT ![Metrics[n + 1]] = data["facts"]]
      /\ Goes("serving", "work", "work")
      /\ UNCHANGED <<data, extVault, raced, snapshot>>
  BY DEF SetMetric, tables
<1>2. FreshTables' /\ (Behind => Behind') /\ At("serving", "work")' /\ data'["facts"] = data["facts"]
  BY <1>1, ServingTables DEF Phases
<1>3. n \in Nat /\ n + 1 \in DOMAIN Metrics /\ Metrics[n + 1] \in MetricSet
  BY <1>1, ChainNumbers, ChainConstants
<1>4. /\ Len(fetched') = n + 1 /\ DOMAIN fetched' = 1..(n + 1)
      /\ fetched'[n + 1] = data["facts"] /\ \A i \in 1..n : fetched'[i] = fetched[i]
  BY <1>1, <1>3, ChainNumbers
<1>5. /\ redis'[Metrics[n + 1]] = data["facts"]
      /\ \A m \in MetricSet : m # Metrics[n + 1] => redis'[m] = redis[m]
  BY <1>1, <1>3, ChainNumbers
<1>6. \A i \in DOMAIN fetched' : i \in DOMAIN fetched \/ i = n + 1
  BY <1>3, <1>4, ChainNumbers
<1>7. \A i \in DOMAIN fetched : i \in 1..n
  BY ChainNumbers
<1> HIDE DEF n
<1>8. \A i \in DOMAIN fetched' : fetched'[i] = data'["facts"] \/ Behind'
  BY <1>2, <1>4, <1>6, <1>7 DEF FreshServing, Fresh
<1>9. ASSUME NEW m \in MetricSet
      PROVE  redis'[m] = data'["facts"] \/ Behind' \/ \E i \in DOMAIN Metrics : Metrics[i] = m /\ n + 1 < i
  <2>1. CASE m = Metrics[n + 1]
    BY <1>2, <1>5, <2>1
  <2>2. CASE m # Metrics[n + 1]
    <3>1. redis[m] = data["facts"] \/ Behind \/ \E i \in DOMAIN Metrics : Metrics[i] = m /\ n < i
      BY DEF FreshServing, Fresh, n
    <3>2. ASSUME NEW i \in DOMAIN Metrics, Metrics[i] = m, n < i PROVE n + 1 < i
      BY <1>3, <2>2, <3>2, ChainConstants
    <3> QED BY <1>2, <1>5, <2>2, <3>1, <3>2
  <2> QED BY <2>1, <2>2
<1> QED BY <1>2, <1>4, <1>8, <1>9 DEF FreshServing, Fresh

LEMMA UpsertFresh ==
    ASSUME Core \subseteq Dags, ChainInv, FreshTables, FreshServing, UpsertSnapshot
    PROVE  FreshTables' /\ FreshServing'
<1>1. /\ Len(fetched) = Len(Metrics) /\ fetched' = <<>>
      /\ UNCHANGED <<data, extVault, raced, redis, attempt>> /\ snapshotBy' = attempt
      /\ snapshot' = [m \in MetricSet |-> fetched[CHOOSE i \in DOMAIN Metrics : Metrics[i] = m]]
      /\ Goes("serving", "work", "write")
  BY DEF UpsertSnapshot, tables
<1>2. FreshTables' /\ (Behind => Behind') /\ data'["facts"] = data["facts"]
  BY <1>1, ServingTables DEF Phases
<1>3. \A m \in MetricSet : \E i \in DOMAIN Metrics : Metrics[i] = m /\ snapshot'[m] = fetched[i]
  <2>1. \A i \in DOMAIN Metrics : snapshot'[Metrics[i]] = fetched[i]
    BY SnapshotOf
  <2> QED BY <2>1 DEF MetricSet
<1>4. \A i \in DOMAIN Metrics : i \in DOMAIN fetched /\ ~(Len(fetched) < i)
  BY <1>1, ChainNumbers, ChainConstants
<1>5. \A m \in MetricSet : snapshot'[m] = data'["facts"] \/ Behind'
  BY <1>2, <1>3, <1>4 DEF FreshServing, Fresh
<1>6. \A m \in MetricSet : redis[m] = data'["facts"] \/ Behind'
  BY <1>2, <1>4 DEF FreshServing, Fresh
<1>7. DOMAIN fetched' = {}
  BY <1>1
<1> QED BY <1>1, <1>2, <1>5, <1>6, <1>7 DEF FreshServing, Fresh

LEMMA MarkFresh ==
    ASSUME Core \subseteq Dags, ChainInv, FreshTables, FreshServing, MarkServing
    PROVE  FreshTables' /\ FreshServing'
<1>1. /\ Goes("serving", "write", "done")
      /\ UNCHANGED <<data, extVault, raced, redis, snapshot, snapshotBy, fetched, attempt>>
  BY DEF MarkServing, tables
<1>2. FreshTables' /\ (Behind => Behind')
  BY <1>1, ServingTables DEF Phases
<1>3. At("serving", "work") => At("serving", "work")'
  <2>1. "serving" \in Dags /\ "done" \in Phases
    BY DEF Core, Phases
  <2> QED BY <1>1, <2>1, GoOnward
<1> QED BY <1>1, <1>2, <1>3 DEF FreshServing, Fresh

\* Every table stays as it is, and all the work and the events of its DAG.
LEMMA AllKept ==
    ASSUME Core \subseteq Dags, FreshTables, Onward, UNCHANGED <<data, extVault, raced>>,
           \A e \in Dags : Ahead(e) => Ahead(e)', VaultRunsKept,
           \A p \in {"write", "kpis"} : At("marts", p) => At("marts", p)',
           At("vault", "done") => At("vault", "done")' \/ Ahead("marts")'
    PROVE  FreshTables'
<1>1. {"scd2", "vault", "marts"} \subseteq Dags
  BY DEF Core
<1>2. FreshSatellites' /\ FreshVault' /\ FreshExtensions' /\ FreshFacts' /\ FreshKpis'
  BY <1>1, TablesKept
<1>3. FreshReaders'
  BY TablesKept DEF FreshReaders
<1> QED BY <1>2, <1>3 DEF FreshTables

\* A DAG starts: its work is now what its event was.
LEMMA StartFresh ==
    ASSUME Core \subseteq Dags, ChainInv, FreshTables, FreshServing, NEW d \in Dags, Start(d)
    PROVE  FreshTables' /\ FreshServing'
<1>1. /\ UNCHANGED <<stgNow, extNow, data, extVault, raced, redis, snapshot, snapshotBy>>
      /\ pending' = pending \ {d} /\ NewAttempt(d)
  BY DEF Start, inputs, tables
<1>2. StepsOK
  BY ChainNumbers
<1>3. /\ At(d, "work")' /\ steps'[d] # <<>>
      /\ \A e \in Dags : e # d => steps'[e] = steps[e]
      /\ \A e, run : Active(e, run) => Active(e, run)'
  BY <1>2, StartEffect
<1>4. VaultRunsKept /\ \A e, p : At(e, p) => At(e, p)'
  BY <1>3 DEF VaultRunsKept, At
<1>5. \A e \in Dags : (Coming(e) => Coming(e)') /\ (Ahead(e) => Ahead(e)')
  BY <1>1, <1>3, <1>4 DEF Coming, Ahead
<1>6. Onward
  BY <1>1, <1>5 DEF Onward
<1>7. FreshTables'
  BY <1>1, <1>4, <1>5, <1>6, AllKept
<1>8. FreshServing'
  <2>1. CASE d # "serving"
    BY <1>1, <1>4, <1>6, <2>1, ServingKept DEF NewAttempt
  <2>2. CASE d = "serving"
    <3>1. Len(fetched') = 0 /\ DOMAIN fetched' = {}
      BY <1>1, <2>2 DEF NewAttempt
    <3>2. \A m \in MetricSet : \E i \in DOMAIN Metrics : Metrics[i] = m /\ 0 < i
      BY ChainConstants DEF MetricSet
    <3> QED BY <1>3, <2>2, <3>1, <3>2 DEF FreshServing
  <2> QED BY <2>1, <2>2
<1> QED BY <1>7, <1>8

\* A DAG that is done hands over to the DAGs behind it.
LEMMA PublishFresh ==
    ASSUME Core \subseteq Dags, ChainInv, FreshTables, FreshServing, NEW d \in Dags, Publish(d)
    PROVE  FreshTables' /\ FreshServing'
<1>1. /\ UNCHANGED <<stgNow, extNow, data, extVault, raced, redis, snapshot, snapshotBy, fetched, attempt>>
      /\ pending' = pending \cup Scheduled(Registry[d].out)
  BY DEF Publish, inputs, tables, serving
<1>2. PICK i \in DOMAIN steps[d] : steps[d][i].at = "done" /\ steps' = [steps EXCEPT ![d] = WithoutRun(d, i)]
  BY DEF Publish
<1>3. /\ \A e \in Dags : e # d => steps'[e] = steps[e]
      /\ \A e, run : Active(e, run) => Active(e, run)' \/ (e = d /\ run = steps[d][i])
  <2>1. StepsOK
    BY ChainNumbers
  <2> QED BY <1>2, <2>1, EndEffect
<1>4. \A e, run : Active(e, run) /\ (e # d \/ run.at # "done") => Active(e, run)'
  BY <1>2, <1>3
<1>5. VaultRunsKept /\ \A e, p : At(e, p) /\ (e # d \/ p # "done") => At(e, p)'
  BY <1>4 DEF VaultRunsKept, At
<1>6. \A e \in Dags : Ahead(e) => Ahead(e)'
  BY <1>1, <1>5 DEF Ahead
<1>7. Onward
  <2>1. Scheduled(Registry[d].out) \subseteq pending'
    BY <1>1
  <2>2. \A e \in Dags : e # d => (Coming(e) => Coming(e)')
    BY <1>1, <1>3 DEF Coming
  <2> QED BY <1>1, <2>1, <2>2 DEF Onward
<1>8. At("vault", "done") => At("vault", "done")' \/ Ahead("marts")'
  <2>1. CASE d = "vault"
    <3>1. "marts" \in pending'
      BY <1>1, <2>1, Schedules DEF Core
    <3> QED BY <3>1 DEF Ahead
  <2>2. CASE d # "vault"
    BY <1>5, <2>2
  <2> QED BY <2>1, <2>2
<1> QED BY <1>1, <1>5, <1>6, <1>7, <1>8, AllKept, ServingKept

\* What is staged anew makes everything to come; new raw rows, and an event of the
\* extensions, take nothing away.
LEMMA LoadedFresh ==
    ASSUME Core \subseteq Dags, ChainInv, FreshTables, FreshServing, VaultLoaded
    PROVE  FreshTables' /\ FreshServing'
<1>1. /\ UNCHANGED <<extNow, steps, data, extVault, raced, fetched, redis, snapshot, snapshotBy, attempt>>
      /\ pending \subseteq pending' /\ "scd2" \in pending' /\ "scd2" \in Dags
  BY Schedules DEF VaultLoaded, Core, tables, serving
<1>2. /\ \A e \in Dags : (Coming(e) => Coming(e)') /\ (Ahead(e) => Ahead(e)')
      /\ \A e, p : At(e, p) => At(e, p)'
      /\ \A run : HoldsEvents(run) => HoldsEvents(run)'
  BY <1>1 DEF Coming, Ahead, At, Active, HoldsEvents
<1>3. Coming("scd2")' /\ Ahead("scd2")' /\ {"vault", "marts"} \subseteq Dags
  BY <1>1 DEF Coming, Ahead, Core
<1>4. FreshSatellites' /\ FreshVault'
  BY <1>3 DEF FreshSatellites, FreshVault, AnyOf, ToViews
<1>5. FreshExtensions' /\ FreshFacts' /\ FreshKpis'
  BY <1>1, <1>2, <1>3 DEF FreshTables, FreshExtensions, FreshFacts, FreshKpis
<1>6. \A S : AnyOf(S) => AnyOf(S)'
  BY <1>2 DEF AnyOf, Coming
<1>7. FreshReaders'
  <2>1. ASSUME NEW r \in Readers \cap Dags PROVE UpToDate(r)' \/ AnyOf(Upstream(r))' \/ Ahead(r)'
    <3>1. CASE r = "ml"
      BY <1>3, <3>1 DEF AnyOf, Upstream, ToMarts, ToViews
    <3>2. CASE r # "ml"
      BY <1>1, <1>2, <1>6, <3>2 DEF FreshTables, FreshReaders, UpToDate
    <3> QED BY <3>1, <3>2
  <2> QED BY <2>1 DEF FreshReaders
<1>8. Behind => Behind'
  BY <1>1, <1>6 DEF Behind
<1> QED BY <1>1, <1>2, <1>4, <1>5, <1>7, <1>8 DEF FreshTables, FreshServing, Fresh

LEMMA IngestedFresh ==
    ASSUME Core \subseteq Dags, ChainInv, FreshTables, FreshServing, RawIngested \/ ExtensionsIngested
    PROVE  FreshTables' /\ FreshServing'
<1>1. /\ UNCHANGED <<stgNow, steps, data, extVault, raced, fetched, redis, snapshot, snapshotBy, attempt>>
      /\ pending \subseteq pending'
      /\ extNow' = extNow \/ "vault" \in pending'
  BY Schedules DEF RawIngested, ExtensionsIngested, Core, tables, serving
<1>2. /\ \A e \in Dags : (Coming(e) => Coming(e)') /\ (Ahead(e) => Ahead(e)')
      /\ \A e, p : At(e, p) => At(e, p)'
      /\ \A run : Holds(run) => Holds(run)'
      /\ \A S : AnyOf(S) => AnyOf(S)'
  BY <1>1 DEF Coming, Ahead, At, Active, Holds, Covers, AnyOf
<1>3. {"scd2", "vault", "marts"} \subseteq Dags
  BY DEF Core
<1>4. FreshSatellites' /\ FreshVault' /\ FreshFacts' /\ FreshKpis'
  BY <1>1, <1>2, <1>3 DEF FreshTables, FreshSatellites, FreshVault, FreshFacts, FreshKpis, Covers
<1>5. FreshExtensions'
  <2>1. CASE extNow' = extNow
    <3>1. \A run : HoldsEvents(run) => HoldsEvents(run)'
      BY <1>1, <2>1 DEF HoldsEvents, Active
    <3> QED BY <1>1, <1>2, <1>3, <2>1, <3>1 DEF FreshTables, FreshExtensions
  <2>2. CASE "vault" \in pending'
    BY <2>2 DEF FreshExtensions, Ahead
  <2> QED BY <1>1, <2>1, <2>2
<1>6. FreshReaders'
  BY <1>1, <1>2 DEF FreshTables, FreshReaders, UpToDate
<1>7. Behind => Behind'
  BY <1>1, <1>2 DEF Behind
<1> QED BY <1>1, <1>2, <1>4, <1>5, <1>6, <1>7 DEF FreshTables, FreshServing, Fresh

LEMMA StepFresh ==
    ASSUME Core \subseteq Dags, ChainInv, FreshInv, [ChainNext]_chainVars
    PROVE  FreshInv'
<1> SUFFICES ASSUME dagFaults' = 0 PROVE FreshTables' /\ FreshServing'
  BY DEF FreshInv
<1>1. CASE RawIngested \/ VaultLoaded \/ ExtensionsIngested
  <2>1. dagFaults = 0
    BY <1>1 DEF RawIngested, VaultLoaded, ExtensionsIngested
  <2> QED BY <1>1, <2>1, LoadedFresh, IngestedFresh DEF FreshInv
<1>2. ASSUME NEW d \in Dags, Start(d) PROVE FreshTables' /\ FreshServing'
  BY <1>2, StartFresh DEF FreshInv, Start
<1>3. ASSUME NEW d \in Dags, Publish(d) PROVE FreshTables' /\ FreshServing'
  BY <1>3, PublishFresh DEF FreshInv, Publish
<1>4. ASSUME NEW d \in Dags, Fails(d) PROVE FALSE
  <2>1. dagFaults' = dagFaults + 1 /\ dagFaults \in Nat
    BY <1>4, ChainNumbers DEF Fails, DagFault
  <2> QED BY <2>1
<1>5. CASE Work
  <2>1. dagFaults' = dagFaults
    BY <1>5 DEF Work, LoadSatellites, BuildViews, SelectVault, ReplaceVault, BuildFacts, BuildMartKpis, BuildSnapshot,
                SelectKpis, ReplaceKpis, RunTests, ExecuteChecks, Check, SetMetric, UpsertSnapshot, MarkServing,
                Derive, Compute, Goes, Moves
  <2> QED BY <1>5, <2>1, AsideFresh, SatellitesFresh, SelectVaultFresh, ReplaceVaultFresh, BuildFactsFresh,
             MartKpisFresh, BuildSnapshotFresh, ReplaceKpisFresh, DeriveFresh, SetMetricFresh, UpsertFresh, MarkFresh
          DEF Work, FreshInv
<1>6. CASE UNCHANGED chainVars
  <2>1. UNCHANGED <<stgNow, extNow, pending, steps, data, extVault, raced, redis, snapshot, snapshotBy, fetched,
                    attempt, dagFaults>>
    BY <1>6 DEF chainVars, inputs, tables, serving
  <2>2. \A e \in Dags : (Coming(e) => Coming(e)') /\ (Ahead(e) => Ahead(e)')
    BY <2>1 DEF Coming, Ahead, At, Active
  <2>3. VaultRunsKept /\ \A e, p : At(e, p) => At(e, p)'
    BY <2>1 DEF VaultRunsKept, At, Active
  <2>4. Onward
    BY <2>1, <2>2 DEF Onward
  <2> QED BY <2>1, <2>2, <2>3, <2>4, AllKept, ServingKept DEF FreshInv
<1> QED BY <1>1, <1>2, <1>3, <1>4, <1>5, <1>6 DEF ChainNext

LEMMA InitFresh == ChainInit => FreshInv
<1> SUFFICES ASSUME ChainInit PROVE FreshTables /\ FreshServing
  BY DEF FreshInv
<1>1. \A t \in Data : data[t] = Nothing /\ Nothing.stg = 0 /\ Nothing.raw = 0
  BY DEF ChainInit, Nothing, Shows
<1>2. FreshTables
  BY <1>1 DEF ChainInit, FreshTables, FreshSatellites, FreshVault, FreshExtensions, FreshFacts, FreshKpis, FreshReaders,
              UpToDate, Covers, Data
<1>3. DOMAIN fetched = {}
  BY DEF ChainInit
<1>4. (\A m \in MetricSet : redis[m] = data["facts"] /\ snapshot[m] = data["facts"]) /\ snapshotBy = attempt
  BY DEF ChainInit, Data
<1> QED BY <1>2, <1>3, <1>4 DEF FreshServing, Fresh

\* The schedules of the chain, when none of its DAGs is paused: as long as nothing
\* has failed, whatever does not show what its inputs show is still to be computed,
\* by a run at hand or by one that an event upstream will start, or is one of the
\* two tables whose current rows an older run has replaced.
THEOREM FreshInductive == ASSUME Core \subseteq Dags PROVE ChainSpec => []FreshInv
BY InitFresh, StepFresh, ChainInductive, PTL DEF ChainSpec

\* So when nothing is left to do, each table shows what its inputs show, however
\* the events of several versions and of the extensions were joined, whichever runs
\* of the vault overlapped, and however many readers are paused.
THEOREM FreshInTheEnd == ASSUME Core \subseteq Dags PROVE ChainSpec => []FreshAtRest
<1>1. FreshInv => FreshAtRest
  <2> SUFFICES ASSUME FreshInv, pending = {}, dagFaults = 0, \A d \in Dags : steps[d] = <<>>
               PROVE  /\ data["satellites"].stg = stgNow
                      /\ extVault = extNow /\ ("vault" \in raced \/ Covers(data["vault"]))
                      /\ data["facts"] = data["vault"] /\ ("kpis" \in raced \/ data["kpis"] = data["facts"])
                      /\ \A m \in MetricSet : redis[m] = data["facts"] /\ snapshot[m] = data["facts"]
                      /\ snapshotBy = attempt
                      /\ \A d \in {"analytics", "finance"} \cap Dags : data[d] = data["facts"]
                      /\ "ml" \in Dags => data["ml"].raw >= stgNow
    BY DEF FreshAtRest
  <2>1. \A d : ~Coming(d) /\ (\A p : ~At(d, p)) /\ \A run : ~Active(d, run)
    BY DEF Coming, At, Active
  <2>2. (\A S : ~AnyOf(S)) /\ \A run : ~Holds(run) /\ ~HoldsEvents(run)
    BY <2>1 DEF AnyOf, Holds, HoldsEvents
  <2>3. ~Behind /\ \A d : ~Ahead(d)
    BY <2>1, <2>2 DEF Behind, Ahead
  <2>4. FreshTables /\ FreshServing
    BY DEF FreshInv
  <2>5. \A r \in Readers \cap Dags : UpToDate(r)
    BY <2>2, <2>3, <2>4 DEF FreshTables, FreshReaders
  <2>6. /\ \A d \in {"analytics", "finance"} \cap Dags : data[d] = data["facts"]
        /\ "ml" \in Dags => data["ml"].raw >= stgNow
    BY <2>5 DEF UpToDate, Readers
  <2>7. (\A m \in MetricSet : redis[m] = data["facts"] /\ snapshot[m] = data["facts"]) /\ snapshotBy = attempt
    BY <2>1, <2>3, <2>4 DEF FreshServing, Fresh
  <2> QED BY <2>1, <2>2, <2>3, <2>4, <2>6, <2>7 DEF FreshTables, FreshSatellites, FreshVault, FreshExtensions,
                                                    FreshFacts, FreshKpis
<1> QED BY <1>1, FreshInductive, PTL

-----------------------------------------------------------------------------
(* The warehouse as a whole.                                               *)

\* Airflow's datasets are all that the parts have in common: a behaviour of the
\* warehouse is a behaviour of each of them.
THEOREM EachPart == Spec => MinioSpec /\ StagingSpec /\ ChainSpec
<1>1. Init => MinioInit /\ StagingInit /\ ChainInit
  BY DEF Init
<1>2. ASSUME [Next]_warehouseVars
      PROVE  [MinioNext]_minioVars /\ [StagingNext]_stagingVars /\ [ChainNext]_chainVars
  BY <1>2 DEF Next, warehouseVars
<1> QED BY <1>1, <1>2, PTL DEF Spec, MinioSpec, StagingSpec, ChainSpec

\* Every variable of the landing, the staging with the vault, and the chain holds
\* a value of its kind, for any bucket, tables, metrics and bounds.
THEOREM TypeCorrect == Spec => []TypeOK
<1>1. Init => part \in Parts
  BY DEF Init
<1>2. part \in Parts /\ [Next]_warehouseVars => (part \in Parts)'
  BY DEF Next, warehouseVars
<1>3. Spec => [](part \in Parts)
  BY <1>1, <1>2, PTL DEF Spec
<1>4. part \in Parts /\ MinioTypeOK /\ StagingTypeOK /\ ChainTypeOK => TypeOK
  BY DEF TypeOK
<1> QED BY <1>3, <1>4, EachPart, MinioTyping, StagingTyping, ChainTyping, PTL

\* The safety that the run checks, of the whole: the manifest tells what is staged,
\* the staging and the vault are sound, and the watermark, the rows and the keys of
\* the serving task are in order, whatever dbt does to its snapshot.
THEOREM WarehouseIsSound == Spec => [](ManifestIsTrue /\ StagingIsSound /\ ServingIsSound)
  BY EachPart, ManifestTells, StagingSound, ServingInOrder, PTL

\* And when nothing is left to do in a chain of which no core DAG is paused, each
\* table shows what its inputs show.
THEOREM WarehouseIsFresh == ASSUME Core \subseteq Dags PROVE Spec => []FreshAtRest
  BY EachPart, FreshInTheEnd, PTL
=============================================================================
