------------------------- MODULE OltpExtractProofs -------------------------
(***************************************************************************)
(* Safety of the incremental extract, for any number of rows, batch size   *)
(* and failures, and in whatever order rows become visible.  The cursor is *)
(* a row of an earlier batch, so what it covers depends on what the batch  *)
(* in hand covered when it was queried and on which rows have become       *)
(* visible since; and that the extract implements CursorSink.              *)
(***************************************************************************)
EXTENDS OltpExtract, FiniteSetTheorems, WellFoundedInduction, TLAPS

Cursors == Rows \cup {Fallback}

\* What an attempt holds: rows after the cursor, stored before the cursor moves.
BatchInv ==
    /\ IsFiniteSet(src) /\ IsFiniteSet(batch)
    /\ pc = "watermark" => Watermarked /\ \A b \in batch : raw[b] > 0
    /\ Holding => batch # {}
    /\ Holding /\ Watermarked => \A b \in batch : Before(wm, b)

\* But for the rows that came too late, the batch has no gap and what the cursor
\* is past is stored; a table without a cursor is never past a row.
OrderInv ==
    /\ Holding /\ Watermarked => \A r \in src \ late, b \in batch : Before(wm, r) /\ ~Before(b, r) => r \in batch
    /\ CursorCovered

\* Each copy after the first was paid for with a failure; a row beyond the cursor
\* that is not just stored was paid for each time.
CopyInv == Watermarked => \A r \in Rows :
    /\ raw[r] <= 1 + faults
    /\ Before(wm, r) => raw[r] <= faults \/ (pc = "watermark" /\ r \in batch)

IInv == TypeOK /\ BatchInv /\ OrderInv /\ CopyInv
-----------------------------------------------------------------------------
\* The row comparison is a strict total preorder, with the fallback below all rows.
LEMMA RowOrder ==
    /\ \A a, b, c \in Cursors :
          /\ ~Before(a, a)
          /\ Before(a, b) /\ Before(b, c) => Before(a, c)
          /\ Before(a, b) /\ ~Before(c, b) => Before(a, c)
          /\ ~Before(b, a) /\ Before(b, c) => Before(a, c)
    /\ \A r \in Rows : Before(Fallback, r)
<1>1. \A a \in Cursors : a.ts \in Int /\ a.pk \in Int
  BY OltpAssumption DEF OltpAssumption, Cursors, Rows, Fallback
<1>2. \A r \in Rows : Before(Fallback, r)
  BY OltpAssumption DEF OltpAssumption, Before, Rows, Fallback
<1> QED  BY <1>1, <1>2 DEF Before

\* A finite set of rows that is not empty has a last row.
LEMMA LastExists ==
    ASSUME NEW S \in SUBSET Rows, IsFiniteSet(S), S # {}
    PROVE  \E r \in S : \A x \in S : ~Before(r, x)
<1> DEFINE After(r) == {x \in S : Before(r, x)}
           Family == {After(r) : r \in S}
<1>1. Family \subseteq FiniteSubsetsOf(S)
  BY FS_Subset DEF FiniteSubsetsOf
<1>2. IsWellFoundedOn(StrictSubsetOrdering(S), FiniteSubsetsOf(S))
  BY FS_StrictSubsetOrderingWellFounded
<1>3. Family # {}
  OBVIOUS
<1>4. \E A \in Family : \A B \in Family : <<B, A>> \notin StrictSubsetOrdering(S)
  <2> HIDE DEF Family
  <2> QED  BY <1>1, <1>2, <1>3, WFMin
<1>5. PICK r \in S : \A x \in S : <<After(x), After(r)>> \notin StrictSubsetOrdering(S)
  BY <1>4
<1>6. ASSUME NEW x \in S, Before(r, x) PROVE FALSE
  <2>1. After(x) \subseteq After(r) /\ x \in After(r) /\ x \notin After(x)
    BY <1>6, RowOrder DEF Cursors
  <2> QED  BY <2>1, <1>5 DEF StrictSubsetOrdering
<1> QED  BY <1>6

\* The cursor that SetWatermark writes.
LEMMA LastRowIsLast ==
    ASSUME TypeOK, BatchInv, Holding
    PROVE  LastRow \in batch /\ \A x \in batch : ~Before(LastRow, x)
  BY LastExists DEF TypeOK, BatchInv, LastRow

\* The query leaves no gap: with a row it returns every earlier one it selects.
LEMMA QueryHasNoGap ==
    ASSUME TypeOK, IsFiniteSet(src), Watermarked, NEW b \in Query, NEW r \in Selected, ~Before(b, r)
    PROVE  r \in Query
<1> DEFINE Earlier(y) == {x \in Selected : Precedes(x, y)}
<1>1. Selected \subseteq src /\ src \subseteq Rows
  BY DEF Selected, TypeOK
<1>2. \A x, y : Precedes(x, y) <=> Before(x, y)
  BY DEF Precedes
<1>3. b \in Selected /\ Cardinality(Earlier(b)) < BatchSize
  BY DEF Query
<1>4. Earlier(r) \subseteq Earlier(b)
  BY <1>1, <1>2, <1>3, RowOrder DEF Cursors
<1>5. IsFiniteSet(Earlier(b))
  BY <1>1, FS_Subset
<1>6. Cardinality(Earlier(r)) <= Cardinality(Earlier(b)) /\ IsFiniteSet(Earlier(r))
  BY <1>4, <1>5, FS_Subset
<1>7. Cardinality(Earlier(r)) \in Nat /\ Cardinality(Earlier(b)) \in Nat
  BY <1>5, <1>6, FS_CardinalityType
<1>8. Cardinality(Earlier(r)) < BatchSize
  <2> HIDE DEF Earlier
  <2>1. BatchSize \in Nat  BY OltpAssumption DEF OltpAssumption
  <2> QED  BY <1>3, <1>6, <1>7, <2>1
<1> QED  BY <1>8 DEF Query
-----------------------------------------------------------------------------
LEMMA InitIInv == Init => IInv
<1> SUFFICES ASSUME Init PROVE IInv
  OBVIOUS
<1>1. TypeOK  BY DEF Init, TypeOK, Fallback
<1>2. BatchInv  BY FS_EmptySet DEF Init, BatchInv, Holding
<1>3. OrderInv  BY DEF Init, OrderInv, Holding, CursorCovered
<1>4. CopyInv  BY DEF Init, CopyInv
<1> QED  BY <1>1, <1>2, <1>3, <1>4 DEF IInv

\* A row that becomes visible is late, or after the cursor and the batch.
LEMMA AppearKeeps == ASSUME IInv, NEW r \in Rows, Appear(r) PROVE IInv'
<1> USE DEF IInv
<1>1. TypeOK'  BY DEF Appear, TypeOK
<1>2. BatchInv'
  <2>1. IsFiniteSet({x \in src : x.pk # r.pk})  BY FS_Subset DEF BatchInv
  <2>2. IsFiniteSet(src')  BY <2>1, FS_AddElement DEF Appear
  <2> QED  BY <2>2 DEF Appear, BatchInv, Holding
<1>3. OrderInv'
  <2>1. src' \ late' \subseteq (src \ late) \cup {r} /\ (r \in src' \ late' => ~TooLate(r))
    BY DEF Appear
  <2>2. UNCHANGED <<raw, wm, pc, batch>>
    BY DEF Appear
  <2>3. ~TooLate(r) => Before(wm, r) /\ (Holding => \A b \in batch : Before(b, r))
    BY DEF TooLate
  <2> QED  BY <2>1, <2>2, <2>3 DEF OrderInv, Holding, CursorCovered
<1>4. CopyInv'  BY DEF Appear, CopyInv
<1> QED  BY <1>1, <1>2, <1>3, <1>4

LEMMA FetchKeeps == ASSUME IInv, Fetch PROVE IInv'
<1> USE DEF IInv
<1>0. Query \subseteq Selected /\ Selected \subseteq src
  BY DEF Query, Selected
<1>1. TypeOK'  BY <1>0 DEF Fetch, Continue, TypeOK
<1>2. BatchInv'
  <2>1. IsFiniteSet(Query)  BY <1>0, FS_Subset DEF BatchInv
  <2>2. Watermarked => \A b \in Query : Before(wm, b)  BY <1>0 DEF Selected
  <2>3. pc' = "insert" => Query # {}  BY DEF Fetch, Continue
  <2>4. pc' # "watermark"  BY DEF Fetch, Continue
  <2> QED  BY <2>1, <2>2, <2>3, <2>4 DEF Fetch, BatchInv, Holding
<1>3. OrderInv'
  <2>1. Watermarked => \A r \in src, b \in Query : Before(wm, r) /\ ~Before(b, r) => r \in Query
    BY QueryHasNoGap DEF BatchInv, Selected
  <2> QED  BY <2>1 DEF Fetch, OrderInv, CursorCovered
<1>4. CopyInv'
  <2>1. faults <= faults' /\ faults' \in Nat  BY DEF Fetch, Continue, TypeOK
  <2>2. pc = "fetch" /\ UNCHANGED <<raw, wm>>  BY DEF Fetch
  <2> QED  BY <2>1, <2>2 DEF CopyInv, TypeOK
<1> QED  BY <1>1, <1>2, <1>3, <1>4

LEMMA InsertKeeps == ASSUME IInv, Insert PROVE IInv'
<1> USE DEF IInv
<1> DEFINE Stored == [r \in Rows |-> IF r \in batch THEN raw[r] + 1 ELSE raw[r]]
<1>0. pc = "insert" /\ UNCHANGED <<src, wm, meta, batch, late>>
  BY DEF Insert
<1>a. raw' = Stored \/ (raw' = raw /\ pc' = "failing" /\ faults' = faults + 1)
  BY DEF Insert, Continue, Applied
<1>b. \/ faults' = faults /\ pc' = IF Watermarked THEN "watermark" ELSE "finish"
      \/ faults' = faults + 1 /\ pc' = "failing"
  BY DEF Insert, Continue
<1>c. raw' \in [Rows -> Nat] /\ \A r \in Rows : raw[r] <= raw'[r]
  BY <1>a DEF TypeOK
<1>d. pc' = "watermark" => Watermarked /\ raw' = Stored
  BY <1>a, <1>b
<1>1. TypeOK'  BY <1>0, <1>b, <1>c DEF TypeOK
<1>2. BatchInv'
  <2>1. pc' = "watermark" => \A b \in batch : raw'[b] > 0
    BY <1>d DEF TypeOK
  <2> QED  BY <1>0, <1>b, <1>d, <2>1 DEF BatchInv, Holding
<1>3. OrderInv'
  <2>1. \A r \in Rows : raw[r] > 0 => raw'[r] > 0  BY <1>c DEF TypeOK
  <2> QED  BY <1>0, <1>b, <2>1 DEF OrderInv, Holding, CursorCovered, TypeOK
<1>4. CopyInv'
  <2> SUFFICES ASSUME Watermarked, NEW r \in Rows
               PROVE  /\ raw'[r] <= 1 + faults'
                      /\ Before(wm, r) => raw'[r] <= faults' \/ (pc' = "watermark" /\ r \in batch)
    BY <1>0 DEF CopyInv
  <2>1. raw[r] \in Nat /\ faults \in Nat /\ raw[r] <= 1 + faults /\ (Before(wm, r) => raw[r] <= faults)
    BY <1>0 DEF CopyInv, TypeOK
  <2>2. r \in batch => Before(wm, r)  BY <1>0 DEF BatchInv, Holding
  <2>3. raw'[r] = raw[r] \/ (r \in batch /\ raw'[r] = raw[r] + 1)
    BY <1>a
  <2> QED  BY <1>a, <1>b, <2>1, <2>2, <2>3
<1> QED  BY <1>1, <1>2, <1>3, <1>4

LEMMA SetWatermarkKeeps == ASSUME IInv, SetWatermark PROVE IInv' /\ (wm' = wm \/ Before(wm, wm'))
<1> USE DEF IInv
<1>0. pc = "watermark" /\ Watermarked /\ UNCHANGED <<src, raw, meta, batch, late>>
  BY DEF SetWatermark, BatchInv
<1>a. LastRow \in batch /\ \A x \in batch : ~Before(LastRow, x)
  BY <1>0, LastRowIsLast DEF Holding
<1>b. wm' = LastRow \/ (wm' = wm /\ pc' = "failing" /\ faults' = faults + 1)
  BY DEF SetWatermark, Continue, Applied
<1>c. (faults' = faults /\ pc' = "finish") \/ (faults' = faults + 1 /\ pc' = "failing")
  BY DEF SetWatermark, Continue
<1>d. Before(wm, LastRow)  BY <1>0, <1>a DEF BatchInv, Holding
<1>e. src \subseteq Cursors /\ wm \in Cursors /\ batch \subseteq Cursors /\ LastRow \in Cursors
  BY <1>a DEF TypeOK, Cursors
<1>1. TypeOK'  BY <1>0, <1>a, <1>b, <1>c DEF TypeOK
<1>2. BatchInv'  BY <1>0, <1>c DEF BatchInv, Holding
<1>3. OrderInv'
  <2> SUFFICES ASSUME wm' = LastRow PROVE OrderInv'
    BY <1>0, <1>b, <1>c DEF OrderInv, Holding, CursorCovered
  <2>2. ASSUME NEW r \in src \ late, ~Before(LastRow, r) PROVE raw[r] > 0
    <3>1. CASE ~Before(wm, r)  BY <3>1 DEF OrderInv, CursorCovered
    <3>2. CASE Before(wm, r)
      <4>1. r \in batch  BY <1>0, <1>a, <2>2, <3>2 DEF OrderInv, Holding
      <4> QED  BY <1>0, <4>1 DEF BatchInv
    <3> QED  BY <3>1, <3>2
  <2> QED  BY <1>0, <1>c, <2>2 DEF OrderInv, Holding, CursorCovered
<1>4. CopyInv'
  <2> SUFFICES ASSUME NEW r \in Rows
               PROVE  /\ raw[r] <= 1 + faults'
                      /\ Before(wm', r) => raw[r] <= faults'
    BY <1>0 DEF CopyInv
  <2>1. raw[r] \in Nat /\ faults \in Nat /\ raw[r] <= 1 + faults
        /\ (Before(wm, r) => raw[r] <= faults \/ r \in batch)
    BY <1>0 DEF CopyInv, TypeOK
  <2>2. wm' = LastRow /\ Before(wm', r) => r \notin batch /\ Before(wm, r)
    BY <1>a, <1>d, <1>e, RowOrder DEF Cursors
  <2> QED  BY <1>b, <1>c, <2>1, <2>2
<1> QED  BY <1>1, <1>2, <1>3, <1>4, <1>b, <1>d

\* The steps that move neither rows nor the cursor.
LEMMA OthersKeep == ASSUME IInv, Start \/ Finish \/ Fail \/ Crash \/ UNCHANGED vars PROVE IInv'
<1> USE DEF IInv
<1>1. /\ UNCHANGED <<src, raw, wm, batch, late>>
      /\ pc' \in {"idle", "fetch", "failing"} \/ (pc' = pc /\ faults' = faults)
      /\ faults' \in Nat /\ faults <= faults'
      /\ pc = "watermark" => faults' = faults + 1 \/ (pc' = pc /\ faults' = faults)
  BY DEF Start, Finish, Fail, Crash, Continue, vars, TypeOK
<1>2. meta' \in {"none", "running", "success", "failed"} /\ pc' \in {"idle", "fetch", "insert", "watermark", "finish", "failing"}
  BY DEF Start, Finish, Fail, Crash, Continue, vars, TypeOK
<1>3. TypeOK'  BY <1>1, <1>2 DEF TypeOK
<1>4. BatchInv'  BY <1>1 DEF BatchInv, Holding
<1>5. OrderInv'  BY <1>1 DEF OrderInv, Holding, CursorCovered
<1>6. CopyInv'
  <2> SUFFICES ASSUME Watermarked, NEW r \in Rows
               PROVE  /\ raw[r] <= 1 + faults'
                      /\ Before(wm, r) => raw[r] <= faults' \/ (pc' = "watermark" /\ r \in batch)
    BY <1>1 DEF CopyInv
  <2>1. raw[r] \in Nat /\ faults \in Nat  BY DEF TypeOK
  <2>2. raw[r] <= 1 + faults /\ (Before(wm, r) => raw[r] <= faults \/ (pc = "watermark" /\ r \in batch))
    BY DEF CopyInv
  <2> QED  BY <1>1, <2>1, <2>2
<1> QED  BY <1>3, <1>4, <1>5, <1>6

LEMMA StepInv == IInv /\ [Next]_vars => IInv' /\ (wm' = wm \/ Before(wm, wm'))
<1> SUFFICES ASSUME IInv, [Next]_vars PROVE IInv' /\ (wm' = wm \/ Before(wm, wm'))
  OBVIOUS
<1>1. CASE SetWatermark  BY <1>1, SetWatermarkKeeps
<1>2. CASE ~SetWatermark
  <2>1. wm' = wm
    BY <1>2 DEF Next, Task, Appear, Start, Fetch, Insert, Finish, Fail, Crash, vars
  <2> QED  BY <1>2, <2>1, AppearKeeps, FetchKeeps, InsertKeeps, OthersKeep DEF Next, Task
<1> QED  BY <1>1, <1>2

\* The relations between cursor, batch and tables that the properties rest on.
THEOREM Inductive == Spec => []IInv
  BY InitIInv, StepInv, PTL DEF Spec

\* Type correctness of extract_table's state.
THEOREM TypeCorrect == Spec => []TypeOK
  BY Inductive, PTL DEF IInv

\* No row is skipped but those whose writers committed too late: all others that
\* are visible at or before the cursor are in the raw table.
THEOREM CursorIsCovered == Spec => []CursorCovered
<1>1. IInv => CursorCovered
  BY DEF IInv, OrderInv
<1> QED  BY <1>1, Inductive, PTL

\* A row of a table with a cursor has at most one copy more than there were
\* failures of any kind.
THEOREM CopiesNeedFaults == ASSUME Watermarked PROVE Spec => []CopiesAreFaults
<1>1. IInv => CopiesAreFaults
  BY DEF IInv, CopyInv, CopiesAreFaults
<1> QED  BY <1>1, Inductive, PTL

\* The stored cursor never moves back, whichever statements fail.
THEOREM CursorOnlyAdvances == Spec => CursorAdvances
<1>1. IInv /\ [Next]_vars => [Before(wm, wm')]_wm
  BY StepInv
<1> QED  BY <1>1, Inductive, PTL DEF Spec, CursorAdvances
-----------------------------------------------------------------------------
\* The frontier of CursorSink in the states of the extract.
Frontier == IF Holding THEN LastRow ELSE wm

\* A row comes too late exactly when it comes behind the frontier.
LEMMA TooLateIsBehindFrontier ==
    ASSUME IInv, Watermarked, NEW r \in Rows
    PROVE  TooLate(r) <=> ~Before(Frontier, r)
<1> USE DEF IInv
<1>1. CASE ~Holding  BY <1>1 DEF TooLate, Frontier
<1>2. CASE Holding
  <2>1. LastRow \in batch /\ \A x \in batch : ~Before(LastRow, x)
    BY <1>2, LastRowIsLast
  <2>2. Before(wm, LastRow)  BY <1>2, <2>1 DEF BatchInv
  <2>3. wm \in Cursors /\ batch \subseteq Cursors /\ r \in Cursors
    BY DEF TypeOK, Cursors
  <2>4. Before(LastRow, r) => Before(wm, r) /\ \A b \in batch : Before(b, r)
    BY <2>1, <2>2, <2>3, RowOrder
  <2> QED  BY <1>2, <2>1, <2>4 DEF TooLate, Frontier
<1> QED  BY <1>1, <1>2

\* A query with rows is a look ahead to its last row.
LEMMA FetchSimulates ==
    ASSUME IInv, IInv', Watermarked, Fetch
    PROVE  Sink!LookAhead \/ UNCHANGED Sink!vars
<1> USE DEF IInv
<1>1. pc = "fetch" /\ batch' = Query /\ UNCHANGED <<src, raw, wm, late>>
      /\ pc' \in {"insert", "finish", "failing"}
  BY DEF Fetch, Continue
<1>2. ~Holding  BY <1>1 DEF Holding
<1>3. CASE pc' = "insert"
  <2>1. Holding'  BY <1>3 DEF Holding
  <2>2. IsFiniteSet(batch') /\ batch' # {} /\ batch' \subseteq Rows
    BY <2>1 DEF BatchInv, TypeOK
  <2>3. LastRow' \in batch'  BY <2>2, LastExists DEF LastRow
  <2>4. LastRow' \in src /\ Before(wm, LastRow')
    BY <1>1, <2>3 DEF Query, Selected
  <2> QED  BY <1>1, <1>2, <2>1, <2>4 DEF Sink!LookAhead
<1>4. CASE pc' # "insert"
  <2>1. ~Holding'  BY <1>1, <1>4 DEF Holding
  <2> QED  BY <1>1, <1>2, <2>1 DEF Sink!vars
<1> QED  BY <1>3, <1>4

\* The insert copies the rows in hand, all that are not late among them, or the
\* attempt is given up.
LEMMA InsertSimulates ==
    ASSUME IInv, Watermarked, Insert
    PROVE  Sink!Copy \/ Sink!GiveUp
<1> USE DEF IInv
<1>1. pc = "insert" /\ UNCHANGED <<src, wm, batch, late>> /\ pc' \in {"watermark", "failing"}
  BY DEF Insert, Continue
<1>2. Holding  BY <1>1 DEF Holding
<1>3. LastRow \in batch /\ \A x \in batch : ~Before(LastRow, x)
  BY <1>2, LastRowIsLast
<1>4. LastRow' = LastRow  BY <1>1 DEF LastRow
<1>5. \/ raw' = [r \in Rows |-> IF r \in batch THEN raw[r] + 1 ELSE raw[r]]
      \/ raw' = raw /\ pc' = "failing"
  BY DEF Insert, Continue, Applied
<1>6. CASE raw' = [r \in Rows |-> IF r \in batch THEN raw[r] + 1 ELSE raw[r]]
  <2>1. \A r \in Rows : raw'[r] = raw[r] \/ (r \in batch /\ raw'[r] = raw[r] + 1)
    BY <1>6
  <2>2. \A r \in batch : Before(wm, r) /\ ~Before(LastRow, r) /\ raw'[r] = raw[r] + 1
    BY <1>2, <1>3, <1>6 DEF BatchInv, TypeOK
  <2>3. \A r \in src \ late : Before(wm, r) /\ ~Before(LastRow, r) => r \in batch
    BY <1>2, <1>3 DEF OrderInv
  <2>4. DOMAIN raw' = Rows
    BY <1>6
  <2>5. (IF Holding' THEN LastRow' ELSE wm') \in {LastRow, wm}
    BY <1>1, <1>4
  <2> QED  BY <1>1, <1>2, <2>1, <2>2, <2>3, <2>4, <2>5 DEF Sink!Copy, Sink!InHand
<1>7. CASE raw' = raw /\ pc' = "failing"
  <2>1. ~Holding'  BY <1>7 DEF Holding
  <2> QED  BY <1>1, <1>7, <2>1 DEF Sink!GiveUp
<1> QED  BY <1>5, <1>6, <1>7

\* The cursor is put at the frontier when all before it is stored.
LEMMA SetWatermarkSimulates ==
    ASSUME IInv, IInv', Watermarked, SetWatermark
    PROVE  Sink!Advance \/ Sink!GiveUp
<1> USE DEF IInv
<1>1. pc = "watermark" /\ UNCHANGED <<src, raw, batch, late>> /\ pc' \in {"finish", "failing"}
      /\ wm' \in {LastRow, wm}
  BY DEF SetWatermark, Continue
<1>2. Holding /\ ~Holding'  BY <1>1 DEF Holding
<1>3. LastRow \in batch  BY <1>2, LastRowIsLast
<1>4. CASE wm' = LastRow
  <2>1. Before(wm, LastRow)  BY <1>2, <1>3 DEF BatchInv
  <2>2. \A r \in src \ late : ~Before(LastRow, r) => raw[r] > 0
    BY <1>1, <1>4 DEF OrderInv, CursorCovered
  <2> QED  BY <1>1, <1>2, <1>4, <2>1, <2>2 DEF Sink!Advance
<1>5. CASE wm' = wm
  BY <1>1, <1>2, <1>5 DEF Sink!GiveUp
<1> QED  BY <1>1, <1>4, <1>5

\* Each step of the extract is a step of CursorSink or changes nothing of it.
LEMMA StepSimulates ==
    ASSUME IInv, IInv', Watermarked, [Next]_vars
    PROVE  [Sink!Next]_(Sink!vars)
<1> USE DEF Sink!Next
<1>1. ASSUME NEW r \in Rows, Appear(r) PROVE Sink!Appear
  <2>1. /\ r \in src' /\ src' \subseteq src \cup {r}
        /\ late' = (late \cap src') \cup {x \in {r} : TooLate(x)}
        /\ UNCHANGED <<raw, wm, pc, batch>>
    BY <1>1 DEF Appear
  <2>2. TooLate(r) <=> ~Before(Frontier, r)  BY TooLateIsBehindFrontier
  <2>3. {x \in {r} : TooLate(x)} = IF Before(Frontier, r) THEN {} ELSE {r}
    BY <2>2
  <2>4. Frontier' = Frontier  BY <2>1 DEF Frontier, Holding, LastRow
  <2> QED  BY <2>1, <2>3, <2>4 DEF Sink!Appear, Frontier
<1>2. CASE Fetch  BY <1>2, FetchSimulates
<1>3. CASE Insert  BY <1>3, InsertSimulates
<1>4. CASE SetWatermark  BY <1>4, SetWatermarkSimulates
<1>5. CASE Start \/ Finish \/ Fail
  <2>1. UNCHANGED <<src, raw, wm, late>> /\ ~Holding /\ ~Holding'
    BY <1>5 DEF Start, Finish, Fail, Continue, Holding
  <2> QED  BY <2>1 DEF Sink!vars
<1>6. CASE Crash
  <2>1. UNCHANGED <<src, raw, wm, late>> /\ ~Holding'
    BY <1>6 DEF Crash, Holding
  <2> QED  BY <2>1 DEF Sink!GiveUp
<1>7. CASE UNCHANGED vars
  <2>1. UNCHANGED <<src, raw, wm, late, Frontier>>
    BY <1>7 DEF vars, Frontier, Holding, LastRow
  <2> QED  BY <2>1 DEF Sink!vars, Frontier
<1> QED  BY <1>1, <1>2, <1>3, <1>4, <1>5, <1>6, <1>7 DEF Next, Task

\* The extract of a table with a watermark column implements CursorSink: the
\* cursor passes no row that was there to be copied, whatever fails in between.
THEOREM Refinement == ASSUME Watermarked PROVE Spec => SinkSpec
<1>1. Init => Sink!Init
  BY DEF Init, Sink!Init, Holding
<1>2. IInv /\ IInv' /\ [Next]_vars => [Sink!Next]_(Sink!vars)
  BY StepSimulates
<1> QED  BY <1>1, <1>2, Inductive, PTL DEF Spec, SinkSpec, Sink!Spec
==============================================================================
