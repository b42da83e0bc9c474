------------------------ MODULE SatelliteScd2Proofs ------------------------
(***************************************************************************)
(* For every set of keys and hashes, any order of arrival and any failures *)
(* and crashes: a successful satellite task leaves at most one current row *)
(* per key and no overlapping intervals, and validate_scd2 never finds a   *)
(* violation.  Both follow from the last write before finish_run being a   *)
(* reconciliation: what it leaves does not depend on what the load did.    *)
(* For a key whose versions arrive in order the rows form one chain at all *)
(* times: a load extends it and a reconciliation does not change it.       *)
(***************************************************************************)
EXTENDS SatelliteScd2, FiniteSetTheorems, TLAPS

\* At most one current row per key, and no row reaching into a later one.
Unique == \A k \in Keys : \A a, b \in Current(sat, k) : a = b
Disjoint ==
    \A a, b \in sat : a.key = b.key /\ a.from < b.from => ~a.current /\ a.to # Open /\ a.to <= b.from

\* The satellite is clean wherever no load can have touched it since the last
\* reconciliation.
Clean == pc \in {"finish", "validate"} \/ meta = "success" => Unique /\ Disjoint

\* While the task writes, its row in meta.pipeline_runs does not say success.
Writing == pc \in {"load", "reconcile"} => meta = "running"

IInv == Clean /\ Writing /\ valid # "violation"

\* The rows of a key in order: no two start together, the current one is the
\* last, and each other one ends where the next one starts, with another hash.
Follows(S, r, n) == r.from < n.from /\ \A x \in S : x.from <= r.from \/ n.from <= x.from
ChainOf(S) ==
    /\ \A a, b \in S : a.from = b.from => a = b
    /\ S # {} => \E c \in S : c.current
    /\ \A c \in S : c.current => \A x \in S : x.from <= c.from
    /\ \A r \in S : ~r.current => \E n \in S : n.from = r.to /\ n.hash # r.hash /\ Follows(S, r, n)

\* What is staged comes after every row, or is the version of the current one.
Awaits(S, v) == \A x \in S : x.from <= v.from /\ (x.from = v.from => x.current /\ x.hash = v.hash)

OrderedInv == \A k \in OrderedKeys :
    /\ ChainOf(Of(sat, k))
    /\ \A u, v \in Of(stg, k) : u = v
    /\ \A v \in Of(stg, k) : Awaits(Of(sat, k), v)
    /\ \A v \in Of(applied, k) : \E r \in Current(sat, k) : r.hash = v.hash
-----------------------------------------------------------------------------
\* Type correctness of the satellite load.
THEOREM TypeCorrect == Spec => []TypeOK
<1>1. Init => TypeOK
  BY DEF Init, TypeOK
<1>2. TypeOK /\ [Next]_vars => TypeOK'
  <2> SUFFICES ASSUME TypeOK, [Next]_vars PROVE TypeOK'
    OBVIOUS
  <2>1. ASSUME NEW v \in Versions, Stage(v) PROVE TypeOK'
    BY <2>1 DEF Stage, TypeOK
  <2>2. CASE LoadHub
    BY <2>2 DEF LoadHub, TypeOK, Versions
  <2>3. CASE Start
    BY <2>3 DEF Start, Continue, Replies, TypeOK
  <2>4. CASE Load
    <3>1. CloseCurrent \in SUBSET Rows
      <4>1. ASSUME NEW r \in sat, NEW v \in stg PROVE Ended(r, v.from) \in Rows
        BY DEF Ended, TypeOK, Rows, Versions
      <4>2. QED
        BY <4>1 DEF CloseCurrent, TypeOK
    <3>2. InsertNew(CloseCurrent) \in SUBSET Rows
      <4>1. ASSUME NEW v \in stg
            PROVE  [key |-> v.key, load |-> runs, from |-> v.from, to |-> Open, current |-> TRUE,
                    hash |-> v.hash] \in Rows
        BY ScdAssumption DEF TypeOK, Rows, Versions, Open
      <4>2. QED
        BY <3>1, <4>1 DEF InsertNew, NewVersions
    <3>3. sat' \in SUBSET Rows /\ applied' \in SUBSET Versions
      BY <2>4, <3>2 DEF Load, TypeOK
    <3>4. pc' \in {"reconcile", "failing"} /\ faults' \in Nat
      BY <2>4 DEF Load, Continue, Replies, TypeOK
    <3>5. QED
      BY <2>4, <3>3, <3>4 DEF Load, TypeOK
  <2>5. CASE Reconcile
    <3>1. ASSUME NEW end \in [{r \in sat : Superseded(r)} -> 1..MaxTime], NEW r \in sat
          PROVE  Reconciled(r, end) \in Rows
      BY <3>1 DEF Reconciled, Ended, Rows, TypeOK
    <3>2. sat' \in SUBSET Rows
      BY <2>5, <3>1 DEF Reconcile, TypeOK
    <3>3. pc' \in {"finish", "failing"} /\ faults' \in Nat
      BY <2>5 DEF Reconcile, Continue, Replies, TypeOK
    <3>4. QED
      BY <2>5, <3>2, <3>3 DEF Reconcile, TypeOK
  <2>6. CASE Finish
    BY <2>6 DEF Finish, Continue, Replies, TypeOK
  <2>7. CASE Fail
    BY <2>7 DEF Fail, Continue, Replies, TypeOK
  <2>8. CASE Validate
    BY <2>8 DEF Validate, TypeOK
  <2>9. CASE Crash
    BY <2>9 DEF Crash, TypeOK
  <2>10. CASE UNCHANGED vars
    BY <2>10 DEF vars, TypeOK
  <2>11. QED
    BY <2>1, <2>2, <2>3, <2>4, <2>5, <2>6, <2>7, <2>8, <2>9, <2>10 DEF Next
<1>3. QED
  BY <1>1, <1>2, PTL DEF Spec

-----------------------------------------------------------------------------
\* A row that is superseded ends within what its successors leave it.
LEMMA EndsBefore ==
    ASSUME TypeOK, NEW a \in sat, NEW b \in sat, a.key = b.key, a.from < b.from,
           NEW n \in EndChoices(a)
    PROVE  Superseded(a) /\ n # Open /\ n <= b.from
<1>1. b \in Later(a)
  BY DEF Later, Of, TypeOK, Rows
<1>2. n \in Ends(a)
  BY DEF EndChoices
<1>3. a.from \in 1..MaxTime /\ \A y \in Later(a) : y.from \in 1..MaxTime
  BY DEF Later, Of, TypeOK, Rows
<1>4. QED
  BY <1>1, <1>2, <1>3, ScdAssumption DEF Ends, Superseded, Open

\* Whatever the table held, one reconciliation leaves it clean.
LEMMA ReconciledIsClean ==
    ASSUME TypeOK,
           NEW end \in [{r \in sat : Superseded(r)} -> 1..MaxTime],
           \A r \in DOMAIN end : end[r] \in EndChoices(r),
           sat' = {Reconciled(r, end) : r \in sat}
    PROVE  Unique' /\ Disjoint'
<1>1. ASSUME NEW r \in sat
      PROVE  /\ Reconciled(r, end).key = r.key
             /\ Reconciled(r, end).from = r.from
             /\ Reconciled(r, end).current => ~Superseded(r) /\ Reconciled(r, end) = r
             /\ Superseded(r) => ~Reconciled(r, end).current /\ Reconciled(r, end).to = end[r]
  BY DEF Reconciled, Ended, TypeOK, Rows
<1>2. Unique'
  <2> SUFFICES ASSUME NEW a \in sat, NEW b \in sat,
                      ~Superseded(a), ~Superseded(b), a.key = b.key
               PROVE  a = b
    BY <1>1 DEF Unique, Current, Of
  <2>1. a.from \in Int /\ b.from \in Int
    BY DEF TypeOK, Rows
  <2>2. QED
    BY <2>1 DEF Superseded, Ties, Later, Of
<1>3. Disjoint'
  <2> SUFFICES ASSUME NEW a \in sat, NEW b \in sat, a.key = b.key, a.from < b.from
               PROVE  /\ ~Reconciled(a, end).current
                      /\ Reconciled(a, end).to # Open
                      /\ Reconciled(a, end).to <= b.from
    BY <1>1 DEF Disjoint
  <2>1. Superseded(a)
    <3>1. b \in Later(a)
      BY DEF Later, Of, TypeOK, Rows
    <3>2. QED
      BY <3>1 DEF Superseded
  <2>2. end[a] \in EndChoices(a)
    BY <2>1
  <2>3. QED
    BY <1>1, <2>1, <2>2, EndsBefore
<1>4. QED
  BY <1>2, <1>3

\* A set without two different members has at most one.
LEMMA AtMostOne ==
    ASSUME NEW S, \A a, b \in S : a = b
    PROVE  Cardinality(S) <= 1
<1>1. CASE S = {}
  BY <1>1, FS_EmptySet
<1>2. CASE S # {}
  <2>1. PICK x \in S : S = {x}
    BY <1>2
  <2>2. QED
    BY <2>1, FS_Singleton
<1>3. QED
  BY <1>1, <1>2

\* Every step preserves the invariant.
LEMMA StepInv == TypeOK /\ TypeOK' /\ IInv /\ [Next]_vars => IInv'
<1> SUFFICES ASSUME TypeOK, IInv, [Next]_vars PROVE IInv'
  OBVIOUS
<1> USE DEF IInv, Clean, Writing
<1>1. ASSUME NEW v \in Versions, Stage(v) PROVE IInv'
  BY <1>1 DEF Stage, Unique, Disjoint
<1>2. CASE LoadHub
  BY <1>2 DEF LoadHub, Unique, Disjoint
<1>3. CASE Start
  BY <1>3 DEF Start, Continue, Replies, Applied, Unique, Disjoint
<1>4. CASE Load
  BY <1>4 DEF Load, Continue, Replies
<1>5. CASE Reconcile
  <2>1. PICK reply \in Replies, end \in [{r \in sat : Superseded(r)} -> 1..MaxTime] :
          /\ \A r \in DOMAIN end : end[r] \in EndChoices(r)
          /\ sat' = IF Applied(reply) THEN {Reconciled(r, end) : r \in sat} ELSE sat
          /\ Continue(reply, "finish", "failing")
    BY <1>5 DEF Reconcile
  <2>2. pc = "reconcile" /\ meta' = "running" /\ valid' = valid
    BY <1>5 DEF Reconcile
  <2>3. CASE reply = "ok"
    <3>1. Unique' /\ Disjoint'
      BY <2>1, <2>3, ReconciledIsClean DEF Applied
    <3>2. QED
      BY <2>1, <2>2, <2>3, <3>1 DEF Continue
  <2>4. CASE reply # "ok"
    BY <2>1, <2>2, <2>4 DEF Continue
  <2>5. QED
    BY <2>3, <2>4
<1>6. CASE Finish
  BY <1>6 DEF Finish, Continue, Replies, Unique, Disjoint
<1>7. CASE Fail
  BY <1>7 DEF Fail, Continue, Replies, Unique, Disjoint
<1>8. CASE Validate
  <2>1. Unique
    BY <1>8 DEF Validate
  <2>2. \A k \in Keys : Cardinality(Current(sat, k)) <= 1
    BY <2>1, AtMostOne DEF Unique
  <2>3. QED
    BY <1>8, <2>2 DEF Validate, Unique, Disjoint
<1>9. CASE Crash
  BY <1>9 DEF Crash, Unique, Disjoint
<1>10. CASE UNCHANGED vars
  BY <1>10 DEF vars, Unique, Disjoint
<1>11. QED
  BY <1>1, <1>2, <1>3, <1>4, <1>5, <1>6, <1>7, <1>8, <1>9, <1>10 DEF Next

\* The invariant holds of the whole specification.
THEOREM Inductive == Spec => [](TypeOK /\ IInv)
<1>1. Init => IInv
  BY DEF Init, IInv, Clean, Writing
<1>2. QED
  BY <1>1, TypeCorrect, StepInv, PTL DEF Spec

\* A successful task leaves one current row per key at most; validate_scd2
\* never stops the chain.
THEOREM AtMostOneCurrent == Spec => []OneCurrent
<1>1. IInv => OneCurrent
  BY DEF IInv, Clean, Unique, OneCurrent
<1>2. QED
  BY <1>1, Inductive, PTL

\* A successful task leaves no overlapping versions.
THEOREM VersionsDoNotOverlap == Spec => []NoOverlap
<1>1. IInv => NoOverlap
  BY DEF IInv, Clean, Disjoint, NoOverlap
<1>2. QED
  BY <1>1, Inductive, PTL

-----------------------------------------------------------------------------
(* Keys whose versions arrive in order.                                    *)

Inserted(v) == [key |-> v.key, load |-> runs, from |-> v.from, to |-> Open, current |-> TRUE, hash |-> v.hash]

\* What a load makes of the rows of a key: nothing, if it is not staged; else the
\* current rows with another hash end, and the staged version follows if it differs.
LEMMA LoadOfKey ==
    ASSUME TypeOK, NEW k
    PROVE  /\ Of(stg, k) = {} => Of(InsertNew(CloseCurrent), k) = Of(sat, k)
           /\ \A v \in Of(stg, k) : (\A u \in Of(stg, k) : u = v) =>
                /\ Of(CloseCurrent, k) = {r \in Of(sat, k) : ~Closes(r, v)}
                                         \cup {Ended(r, v.from) : r \in {x \in Of(sat, k) : Closes(x, v)}}
                /\ Of(InsertNew(CloseCurrent), k) =
                     Of(CloseCurrent, k) \cup (IF Differs(CloseCurrent, v) THEN {Inserted(v)} ELSE {})
<1>1. \A r \in sat, v \in stg : Closes(r, v) => r.key = v.key /\ Ended(r, v.from).key = r.key
  BY DEF Closes, Ended
<1>2. \A x : x \in Of(CloseCurrent, k) <=>
             \/ x \in Of(sat, k) /\ \A v \in Of(stg, k) : ~Closes(x, v)
             \/ \E r \in Of(sat, k), v \in Of(stg, k) : Closes(r, v) /\ x = Ended(r, v.from)
  BY <1>1 DEF CloseCurrent, Of
<1>3. Of(InsertNew(CloseCurrent), k) =
        Of(CloseCurrent, k) \cup {Inserted(v) : v \in {u \in Of(stg, k) : Differs(CloseCurrent, u)}}
  BY DEF InsertNew, NewVersions, Inserted, Of
<1>4. ASSUME Of(stg, k) = {} PROVE Of(InsertNew(CloseCurrent), k) = Of(sat, k)
  <2>1. Of(CloseCurrent, k) = Of(sat, k)
    BY <1>2, <1>4
  <2> QED BY <1>3, <1>4, <2>1
<1>5. ASSUME NEW v \in Of(stg, k), \A u \in Of(stg, k) : u = v
      PROVE  /\ Of(CloseCurrent, k) = {r \in Of(sat, k) : ~Closes(r, v)}
                                      \cup {Ended(r, v.from) : r \in {x \in Of(sat, k) : Closes(x, v)}}
             /\ Of(InsertNew(CloseCurrent), k) =
                  Of(CloseCurrent, k) \cup (IF Differs(CloseCurrent, v) THEN {Inserted(v)} ELSE {})
  <2>1. Of(stg, k) = {v}
    BY <1>5
  <2>2. Of(CloseCurrent, k) = {r \in Of(sat, k) : ~Closes(r, v)}
                              \cup {Ended(r, v.from) : r \in {x \in Of(sat, k) : Closes(x, v)}}
    BY <1>2, <2>1
  <2> QED BY <1>3, <2>1, <2>2
<1> QED BY <1>4, <1>5

\* The rows of an ordered key after a load: as they were if the staged version is
\* the current one, else the current row ends where the new one starts.
LEMMA LoadOrdered ==
    ASSUME TypeOK, NEW k, NEW v \in Of(stg, k), \A u \in Of(stg, k) : u = v,
           ChainOf(Of(sat, k)), Awaits(Of(sat, k), v)
    PROVE  LET S == Of(sat, k)
               T == Of(InsertNew(CloseCurrent), k)
           IN  \/ T = S /\ \E c \in S : c.current /\ c.hash = v.hash
               \/ S = {} /\ T = {Inserted(v)}
               \/ \E c \in S : /\ c.current /\ c.hash # v.hash /\ c.from < v.from
                               /\ T = (S \ {c}) \cup {Ended(c, v.from), Inserted(v)}
<1> DEFINE S == Of(sat, k)
           T == Of(InsertNew(CloseCurrent), k)
<1>1. v.key = k /\ v.from \in 1..MaxTime /\ MaxTime \in Nat
  BY ScdAssumption DEF Of, TypeOK, Versions
<1>2. \A r \in S : r.key = k /\ r.from \in 1..MaxTime /\ r \in Rows
  BY DEF Of, TypeOK, Rows
<1>3. \A c, d \in S : c.current /\ d.current => c = d
  BY <1>2 DEF ChainOf
<1>4. \A r \in S : Closes(r, v) <=> r.current /\ r.hash # v.hash
  <2>1. \A r \in S : r.from <= v.from /\ (r.from = v.from => r.current /\ r.hash = v.hash)
    BY DEF Awaits
  <2> QED BY <1>1, <1>2, <2>1 DEF Closes
<1>5. /\ Of(CloseCurrent, k) = {r \in S : ~Closes(r, v)}
                               \cup {Ended(r, v.from) : r \in {x \in S : Closes(x, v)}}
      /\ T = Of(CloseCurrent, k) \cup (IF Differs(CloseCurrent, v) THEN {Inserted(v)} ELSE {})
  BY LoadOfKey
<1>6. Current(CloseCurrent, v.key) = {r \in S : r.current /\ ~Closes(r, v)}
  <2>1. \A r : ~Ended(r, v.from).current
    BY DEF Ended
  <2> QED BY <1>1, <1>5, <2>1 DEF Current
<1>7. CASE \E c \in S : c.current /\ c.hash = v.hash
  <2>1. PICK c \in S : c.current /\ c.hash = v.hash
    BY <1>7
  <2>2. \A r \in S : ~Closes(r, v)
    BY <1>3, <1>4, <2>1
  <2>3. ~Differs(CloseCurrent, v)
    BY <1>3, <1>6, <2>1, <2>2 DEF Differs
  <2>4. T = S
    BY <1>5, <2>2, <2>3
  <2> QED BY <2>1, <2>4
<1>8. CASE S = {}
  <2>1. Differs(CloseCurrent, v)
    BY <1>6, <1>8 DEF Differs
  <2> QED BY <1>5, <1>8, <2>1
<1>9. CASE S # {} /\ \A c \in S : c.current => c.hash # v.hash
  <2>1. PICK c \in S : c.current /\ c.hash # v.hash
    BY <1>9 DEF ChainOf
  <2>2. \A r \in S : Closes(r, v) <=> r = c
    BY <1>3, <1>4, <1>9, <2>1
  <2>3. Differs(CloseCurrent, v)
    BY <1>4, <1>6, <1>9 DEF Differs
  <2>4. Of(CloseCurrent, k) = (S \ {c}) \cup {Ended(c, v.from)}
    BY <1>5, <2>2
  <2>5. T = (S \ {c}) \cup {Ended(c, v.from), Inserted(v)}
    BY <1>5, <2>3, <2>4
  <2>6. c.from < v.from
    BY <2>2 DEF Closes
  <2> QED BY <2>1, <2>5, <2>6
<1> QED BY <1>7, <1>8, <1>9

\* A chain that is extended by a later version is a chain.
LEMMA ChainGrows ==
    ASSUME TypeOK, NEW k, NEW v \in Of(stg, k), \A u \in Of(stg, k) : u = v,
           ChainOf(Of(sat, k)), Awaits(Of(sat, k), v)
    PROVE  LET T == Of(InsertNew(CloseCurrent), k)
           IN  ChainOf(T) /\ Awaits(T, v) /\ \E r \in T : r.current /\ r.hash = v.hash
<1> DEFINE S == Of(sat, k)
           T == Of(InsertNew(CloseCurrent), k)
           new == Inserted(v)
<1>1. v.from \in Int /\ \A r \in S : r.from \in Int /\ r \in Rows
  BY DEF Of, TypeOK, Versions, Rows
<1>2. new.from = v.from /\ new.current /\ new.hash = v.hash
  BY DEF Inserted
<1>3. CASE T = S /\ \E c \in S : c.current /\ c.hash = v.hash
  BY <1>3
<1>4. CASE T = {new}
  <2>1. ChainOf(T)
    BY <1>1, <1>2, <1>4 DEF ChainOf
  <2>2. Awaits(T, v) /\ \E r \in T : r.current /\ r.hash = v.hash
    BY <1>1, <1>2, <1>4 DEF Awaits
  <2> QED BY <2>1, <2>2
<1>5. ASSUME NEW c \in S, c.current, c.hash # v.hash, c.from < v.from,
             T = (S \ {c}) \cup {Ended(c, v.from), new}
      PROVE  ChainOf(T) /\ Awaits(T, v) /\ \E r \in T : r.current /\ r.hash = v.hash
  <2> DEFINE end == Ended(c, v.from)
  <2>1. end.from = c.from /\ end.to = v.from /\ ~end.current /\ end.hash = c.hash
    BY DEF Ended
  <2>2. /\ \A a, b \in S : a.from = b.from => a = b
        /\ \A d \in S : d.current => \A x \in S : x.from <= d.from
        /\ \A r \in S : ~r.current => \E n \in S : n.from = r.to /\ n.hash # r.hash /\ Follows(S, r, n)
    BY DEF ChainOf
  <2>3. \A x \in S : x.from <= c.from /\ (x # c => x.from < c.from /\ ~x.current)
    <3>1. \A x \in S : x.from <= c.from /\ (x.current => c.from <= x.from) /\ (x.from = c.from => x = c)
      BY <1>5, <2>2
    <3> QED BY <1>1, <3>1
  <2>4. \A x \in T : x = new \/ x = end \/ (x \in S /\ x # c)
    BY <1>5
  <2>5. \A a, b \in T : a.from = b.from => a = b
    <3> HIDE DEF S, T, new, end
    <3> QED BY <1>1, <1>2, <1>5, <2>1, <2>2, <2>3, <2>4
  <2>6. \A d \in T : d.current => \A x \in T : x.from <= d.from
    <3>1. \A d \in T : d.current => d = new
      BY <2>1, <2>3, <2>4
    <3>2. \A x \in T : x.from <= new.from
      BY <1>1, <1>2, <1>5, <2>1, <2>3, <2>4
    <3> QED BY <3>1, <3>2
  <2>7. ASSUME NEW r \in T, ~r.current
        PROVE  \E n \in T : n.from = r.to /\ n.hash # r.hash /\ Follows(T, r, n)
    <3>1. CASE r = end
      <4>1. \A x \in T : x.from <= end.from \/ x = new
        BY <1>1, <2>1, <2>3, <2>4
      <4>2. Follows(T, end, new)
        BY <1>1, <1>2, <1>5, <2>1, <4>1 DEF Follows
      <4> QED BY <1>2, <1>5, <2>1, <3>1, <4>2
    <3>2. CASE r \in S /\ r # c
      <4>1. PICK n \in S : n.from = r.to /\ n.hash # r.hash /\ Follows(S, r, n)
        BY <2>2, <2>7, <3>2
      <4> DEFINE m == IF n = c THEN end ELSE n
      <4>2. m \in T /\ m.from = n.from /\ m.hash = n.hash
        BY <1>5, <2>1
      <4>3. \A x \in T : x.from <= r.from \/ n.from <= x.from
        <5>1. \A x \in S : x.from <= r.from \/ n.from <= x.from
          BY <4>1 DEF Follows
        <5>2. n.from <= c.from /\ c.from < v.from
          BY <1>5, <2>3
        <5>3. \A x \in T : x.from = v.from \/ \E y \in S : y.from = x.from
          BY <1>2, <2>1, <2>4
        <5> QED BY <1>1, <5>1, <5>2, <5>3
      <4>4. Follows(T, r, m)
        BY <4>1, <4>2, <4>3 DEF Follows
      <4> QED BY <4>1, <4>2, <4>4
    <3> QED BY <1>2, <2>4, <2>7, <3>1, <3>2
  <2>8. new \in T
    BY <1>5
  <2>9. ChainOf(T)
    BY <1>2, <2>5, <2>6, <2>7, <2>8 DEF ChainOf
  <2>10. Awaits(T, v)
    BY <1>1, <1>2, <1>5, <2>1, <2>3, <2>4 DEF Awaits
  <2> QED BY <1>2, <2>8, <2>9, <2>10
<1> QED
  <2> HIDE DEF new
  <2>1. \/ T = S /\ \E c \in S : c.current /\ c.hash = v.hash
        \/ S = {} /\ T = {new}
        \/ \E c \in S : /\ c.current /\ c.hash # v.hash /\ c.from < v.from
                        /\ T = (S \ {c}) \cup {Ended(c, v.from), new}
    BY LoadOrdered DEF new
  <2> QED BY <1>3, <1>4, <1>5, <2>1

\* Each row of a chain that is not the last ends where the next one starts, so
\* LEAD finds the end it has.
LEMMA ReconcileOrdered ==
    ASSUME TypeOK, NEW k, ChainOf(Of(sat, k)),
           NEW end \in [{r \in sat : Superseded(r)} -> 1..MaxTime],
           \A r \in DOMAIN end : end[r] \in EndChoices(r)
    PROVE  Of({Reconciled(r, end) : r \in sat}, k) = Of(sat, k)
<1> DEFINE S == Of(sat, k)
<1>1. \A r \in sat : Reconciled(r, end).key = r.key
  BY DEF Reconciled, Ended
<1>2. ASSUME NEW r \in S PROVE Reconciled(r, end) = r
  <2>1. r \in sat /\ r.key = k /\ r \in Rows /\ \A x \in S : x.from \in Int
    BY DEF Of, TypeOK, Rows
  <2>2. CASE ~Superseded(r)
    BY <2>2 DEF Reconciled
  <2>3. CASE Superseded(r)
    <3>1. Ties(r) = {} /\ Later(r) = {x \in S : x.from > r.from}
      BY <2>1 DEF Ties, Later, ChainOf
    <3>2. PICK l \in S : l.from > r.from
      BY <2>3, <3>1 DEF Superseded
    <3>3. ~r.current
      <4>1. r.current => l.from <= r.from
        BY <3>2 DEF ChainOf
      <4> QED BY <2>1, <3>2, <4>1
    <3>4. PICK n \in S : n.from = r.to /\ Follows(S, r, n)
      BY <3>3 DEF ChainOf
    <3>5. \A y \in Later(r) : n.from <= y.from
      BY <2>1, <3>1, <3>4 DEF Follows
    <3>6. n \in Later(r)
      BY <2>1, <3>1, <3>4 DEF Follows
    <3>7. Ends(r) = {r.to}
      <4>1. \A y \in Later(r) : (\A z \in Later(r) : y.from <= z.from) <=> y.from = n.from
        BY <2>1, <3>1, <3>5, <3>6
      <4> HIDE DEF S
      <4> QED BY <3>1, <3>4, <3>6, <4>1 DEF Ends
    <3>8. end[r] = r.to
      BY <2>1, <2>3, <3>7 DEF EndChoices
    <3> QED BY <2>1, <2>3, <3>3, <3>8 DEF Reconciled, Ended, Rows
  <2> QED BY <2>2, <2>3
<1> QED BY <1>1, <1>2 DEF Of

\* The ordered keys stay in order through every step.
LEMMA OrderedStep == TypeOK /\ OrderedInv /\ [Next]_vars => OrderedInv'
<1> SUFFICES ASSUME TypeOK, OrderedInv, [Next]_vars, NEW k \in OrderedKeys
             PROVE  /\ ChainOf(Of(sat', k))
                    /\ \A u, v \in Of(stg', k) : u = v
                    /\ \A v \in Of(stg', k) : Awaits(Of(sat', k), v)
                    /\ \A v \in Of(applied', k) : \E r \in Current(sat', k) : r.hash = v.hash
  BY DEF OrderedInv
<1>a. /\ ChainOf(Of(sat, k))
      /\ \A u, v \in Of(stg, k) : u = v
      /\ \A v \in Of(stg, k) : Awaits(Of(sat, k), v)
      /\ \A v \in Of(applied, k) : \E r \in Current(sat, k) : r.hash = v.hash
  BY DEF OrderedInv
<1>1. ASSUME NEW w \in Versions, Stage(w)
      PROVE  /\ UNCHANGED <<sat, applied>>
             /\ \A u, v \in Of(stg', k) : u = v
             /\ \A v \in Of(stg', k) : Awaits(Of(sat, k), v)
  <2>1. stg' = (stg \ Of(stg, w.key)) \cup {w} /\ UNCHANGED <<sat, applied>>
    BY <1>1 DEF Stage
  <2>2. CASE w.key = k
    <3>1. Of(stg', k) = {w}
      BY <2>1, <2>2 DEF Of
    <3>2. \A x \in Of(sat, k) : x.from < w.from /\ x.from \in Int /\ w.from \in Int
      BY <1>1, <2>2 DEF Stage, Of, TypeOK, Rows, Versions
    <3>3. Awaits(Of(sat, k), w)
      BY <3>2 DEF Awaits
    <3> QED BY <2>1, <3>1, <3>3
  <2>3. CASE w.key # k
    <3>1. Of(stg', k) = Of(stg, k)
      BY <2>1, <2>3 DEF Of
    <3> QED BY <1>a, <2>1, <3>1
  <2> QED BY <2>2, <2>3
<1>2. CASE Load /\ sat' = InsertNew(CloseCurrent) /\ applied' = stg
  <2>0. stg' = stg
    BY <1>2 DEF Load
  <2>1. CASE Of(stg, k) = {}
    BY <1>a, <1>2, <2>0, <2>1, LoadOfKey
  <2>2. ASSUME NEW v \in Of(stg, k)
        PROVE  /\ Of(stg, k) = {v}
               /\ ChainOf(Of(sat', k)) /\ Awaits(Of(sat', k), v)
               /\ \E r \in Of(sat', k) : r.current /\ r.hash = v.hash
    <3>1. \A u \in Of(stg, k) : u = v
      BY <1>a
    <3>2. LET T == Of(InsertNew(CloseCurrent), k)
          IN  ChainOf(T) /\ Awaits(T, v) /\ \E r \in T : r.current /\ r.hash = v.hash
      BY <1>a, <3>1, ChainGrows
    <3> QED BY <1>2, <3>1, <3>2
  <2> QED BY <1>2, <2>0, <2>1, <2>2 DEF Current
<1>3. CASE Load /\ UNCHANGED <<sat, applied>>
  BY <1>a, <1>3 DEF Load
<1>4. CASE Reconcile
  <2>1. Of(sat', k) = Of(sat, k) /\ UNCHANGED <<stg, applied>>
    BY <1>a, <1>4, ReconcileOrdered DEF Reconcile
  <2> QED BY <1>a, <2>1 DEF Current
<1>5. CASE LoadHub \/ Start \/ Finish \/ Fail \/ Validate \/ Crash \/ UNCHANGED vars
  <2>1. UNCHANGED <<stg, sat, applied>>
    BY <1>5 DEF LoadHub, Start, Finish, Fail, Validate, Crash, vars
  <2> QED BY <1>a, <2>1
<1>6. Load => (sat' = InsertNew(CloseCurrent) /\ applied' = stg) \/ UNCHANGED <<sat, applied>>
  BY DEF Load
<1> QED BY <1>a, <1>1, <1>2, <1>3, <1>4, <1>5, <1>6 DEF Next

\* The ordered keys are in order at all times.
THEOREM OrderedInductive == Spec => []OrderedInv
<1>1. Init => OrderedInv
  BY DEF Init, OrderedInv, ChainOf, Of
<1> QED BY <1>1, TypeCorrect, OrderedStep, PTL DEF Spec

\* A key whose versions arrive in order has exactly one current row in every
\* state a reader can see, also between the load and the reconciliation, and
\* after an attempt that died between them.
THEOREM ReadersFindOne == Spec => []OrderedOneCurrent
<1>1. TypeOK /\ OrderedInv => OrderedOneCurrent
  <2> SUFFICES ASSUME TypeOK, OrderedInv, NEW k \in OrderedKeys, Of(sat, k) # {}
               PROVE  Cardinality(Current(sat, k)) = 1
    BY DEF OrderedOneCurrent
  <2>1. ChainOf(Of(sat, k)) /\ \A r \in Of(sat, k) : r.from \in Int
    BY DEF OrderedInv, Of, TypeOK, Rows
  <2>2. PICK c \in Of(sat, k) : c.current
    BY <2>1 DEF ChainOf
  <2>3. \A d \in Of(sat, k) : d.current => d = c
    BY <2>1, <2>2 DEF ChainOf
  <2>4. Current(sat, k) = {c}
    BY <2>2, <2>3 DEF Current
  <2> QED BY <2>4, FS_Singleton
<1> QED BY <1>1, TypeCorrect, OrderedInductive, PTL

\* Such a key shows the version that was loaded last, and each earlier row ends
\* where a row with another hash starts.
THEOREM HistoryIsContiguous == Spec => []OrderedHistory
<1>1. OrderedInv => OrderedHistory
  BY DEF OrderedInv, OrderedHistory, ChainOf
<1> QED BY <1>1, OrderedInductive, PTL

\* Loading the rows again that were loaded last does not change such a key,
\* however often the task is repeated.
THEOREM RerunIsHarmless == Spec => OrderedRerun
<1>1. TypeOK /\ OrderedInv /\ [Next]_vars => [RerunOf(OrderedKeys)]_sat
  <2> SUFFICES ASSUME TypeOK, OrderedInv, [Next]_vars, sat' # sat,
                      NEW k \in OrderedKeys, pc = "load", Of(stg, k) = Of(applied, k)
               PROVE  Of(sat', k) = Of(sat, k)
    BY DEF RerunOf
  <2>1. sat' = InsertNew(CloseCurrent)
    BY DEF Next, Stage, LoadHub, Start, Load, Reconcile, Finish, Fail, Validate, Crash, vars
  <2>2. CASE Of(stg, k) = {}
    BY <2>1, <2>2, LoadOfKey
  <2>3. ASSUME NEW v \in Of(stg, k) PROVE Of(sat', k) = Of(sat, k)
    <3> DEFINE S == Of(sat, k)
    <3>1. /\ \A u \in Of(stg, k) : u = v
          /\ ChainOf(S) /\ Awaits(S, v)
          /\ \E r \in S : r.current /\ r.hash = v.hash
          /\ \A r \in S : r.from \in Int
      BY DEF OrderedInv, Current, Of, TypeOK, Rows
    <3>2. \A c \in S : c.current => c.hash = v.hash
      BY <3>1 DEF ChainOf
    <3>3. LET T == Of(InsertNew(CloseCurrent), k)
          IN  \/ T = S /\ \E c \in S : c.current /\ c.hash = v.hash
              \/ S = {} /\ T = {Inserted(v)}
              \/ \E c \in S : /\ c.current /\ c.hash # v.hash /\ c.from < v.from
                              /\ T = (S \ {c}) \cup {Ended(c, v.from), Inserted(v)}
      BY <3>1, LoadOrdered
    <3> QED BY <2>1, <3>1, <3>2, <3>3
  <2> QED BY <2>2, <2>3
<1> QED BY <1>1, TypeCorrect, OrderedInductive, PTL DEF Spec, OrderedRerun
=============================================================================
