---------------------------- MODULE DbtRestProofs ----------------------------
(***************************************************************************)
(* Safety of a dbt layer driven over HTTP, for any number of runs, retries *)
(* and failures.  The inductive invariant says for each place of a worker  *)
(* thread what its row and its dbt process can be, and for each place of   *)
(* the task what the client knows of the run it follows.                   *)
(***************************************************************************)
EXTENDS DbtRest, TLAPS

\* What a status says of dbt.
Tells(status, end) ==
    /\ status = "success" => end = "zero"
    /\ status = "failed" => end = "nonzero"
    /\ status = "timeout" => end = "killed"
    /\ status \in Terminal => end # "live"

\* What holds of a run at each place of its thread.
RunInv(r) ==
    /\ row[r] = "none" => worker[r] = "none"
    /\ worker[r] \in {"none", "start", "mark"} => row[r] \in {"none", "queued"} /\ dbt[r] = "none"
    /\ worker[r] = "exec" => row[r] = "running" /\ verdict[r] = "error" /\ dbt[r] \in {"none", "live"}
    /\ worker[r] \in {"artifacts", "persist", "force"} =>
           row[r] \in {"queued", "running", verdict[r]} /\ Tells(verdict[r], dbt[r])
    /\ dbt[r] = "live" => worker[r] = "exec"
    /\ Tells(row[r], dbt[r])

\* What the task knows of the run it follows.
TaskInv ==
    /\ task = "posting" => meta = "running"
    /\ task = "polling" => meta = "running" /\ mine \in Runs
    /\ task = "finishing" => mine \in Runs /\ row[mine] = "success"
    /\ meta = "success" /\ mine # NoRun => row[mine] = "success"

IInv == TypeOK /\ (\A r \in Runs : RunInv(r)) /\ TaskInv
-----------------------------------------------------------------------------
\* The bound on the web's runs is a number.
LEMMA WebBound == MaxWeb \in Nat
  BY DbtAssumption DEF DbtAssumption

LEMMA InitIInv == Init => IInv
<1> SUFFICES ASSUME Init PROVE IInv
  OBVIOUS
<1>0. web \in 0..MaxWeb  BY WebBound DEF Init
<1>1. TypeOK  BY <1>0 DEF Init, TypeOK, Terminal
<1>2. \A r \in Runs : RunInv(r)  BY DEF Init, RunInv, Tells, Terminal
<1>3. TaskInv  BY DEF Init, TaskInv
<1> QED  BY <1>1, <1>2, <1>3 DEF IInv

\* What the task does to itself, to the table and to a thread keeps the invariant.
LEMMA TaskKeeps == ASSUME IInv, Task PROVE IInv'
<1> USE DEF IInv
<1>1. CASE Begin
  <2>0. meta' \in {"none", "running", "success", "failed"} /\ faults' \in Nat
    BY <1>1 DEF Begin, TypeOK, Applied, Count
  <2>1. TypeOK'  BY <1>1, <2>0 DEF Begin, server, TypeOK
  <2>2. \A q \in Runs : RunInv(q)'  BY <1>1 DEF Begin, server, RunInv, Tells, Terminal
  <2>3. TaskInv'  BY <1>1 DEF Begin, server, TaskInv, TypeOK, Replies, Applied, Count
  <2> QED  BY <2>1, <2>2, <2>3
<1>2. CASE Retry
  <2>1. TypeOK'  BY <1>2 DEF Retry, server, TypeOK
  <2>2. \A q \in Runs : RunInv(q)'  BY <1>2 DEF Retry, server, RunInv, Tells, Terminal
  <2>3. TaskInv'  BY <1>2 DEF Retry, server, TaskInv, TypeOK
  <2> QED  BY <2>1, <2>2, <2>3
<1>3. CASE PostRefused
  <2>1. TypeOK'  BY <1>3 DEF PostRefused, PostAgain, server, TypeOK
  <2>2. \A q \in Runs : RunInv(q)'  BY <1>3 DEF PostRefused, PostAgain, server, RunInv, Tells, Terminal
  <2>3. TaskInv'  BY <1>3 DEF PostRefused, PostAgain, server, TaskInv, TypeOK
  <2> QED  BY <2>1, <2>2, <2>3
<1>4. ASSUME NEW r \in Runs, Post(r) PROVE IInv'
  <2>1. TypeOK'  BY <1>4 DEF Post, PostAgain, TypeOK, Terminal, Replies, Count
  <2>2. \A q \in Runs : RunInv(q)'  BY <1>4 DEF Post, PostAgain, TypeOK, RunInv, Tells, Terminal
  <2>3. TaskInv'  BY <1>4 DEF Post, PostAgain, TaskInv, TypeOK
  <2> QED  BY <2>1, <2>2, <2>3
<1>5. CASE Poll
  <2>1. TypeOK'  BY <1>5 DEF Poll, Outcome, server, TypeOK
  <2>2. \A q \in Runs : RunInv(q)'  BY <1>5 DEF Poll, server, RunInv, Tells, Terminal
  <2>3. TaskInv'  BY <1>5 DEF Poll, Outcome, server, TaskInv, TypeOK
  <2> QED  BY <2>1, <2>2, <2>3
<1>6. CASE Finish
  <2>1. TypeOK'  BY <1>6 DEF Finish, server, TypeOK, Replies, Applied, Count
  <2>2. \A q \in Runs : RunInv(q)'  BY <1>6 DEF Finish, server, RunInv, Tells, Terminal
  <2>3. TaskInv'  BY <1>6 DEF Finish, server, TaskInv, TypeOK, Replies, Applied
  <2> QED  BY <2>1, <2>2, <2>3
<1>7. CASE Fail
  <2>1. TypeOK'  BY <1>7 DEF Fail, server, TypeOK, Replies, Applied, Count
  <2>2. \A q \in Runs : RunInv(q)'  BY <1>7 DEF Fail, server, RunInv, Tells, Terminal
  <2>3. TaskInv'  BY <1>7 DEF Fail, server, TaskInv, TypeOK, Replies, Applied
  <2> QED  BY <2>1, <2>2, <2>3
<1> QED  BY <1>1, <1>2, <1>3, <1>4, <1>5, <1>6, <1>7 DEF Task

\* Where a thread is and how dbt ended decide what it may write.
LEMMA WorkerKeeps == ASSUME IInv, NEW r \in Runs, Worker(r) PROVE IInv'
<1> USE DEF IInv
<1>1. CASE WorkerStart(r)
  <2>1. TypeOK'  BY <1>1 DEF WorkerStart, Mishap, client, TypeOK
  <2>2. \A q \in Runs : RunInv(q)'  BY <1>1 DEF WorkerStart, TypeOK, RunInv, Tells, Terminal
  <2>3. TaskInv'  BY <1>1 DEF WorkerStart, client, TaskInv
  <2> QED  BY <2>1, <2>2, <2>3
<1>2. CASE MarkRunning(r)
  <2>1. TypeOK'  BY <1>2 DEF MarkRunning, client, TypeOK, Terminal, Count
  <2>2. \A q \in Runs : RunInv(q)'  BY <1>2 DEF MarkRunning, TypeOK, RunInv, Tells, Terminal, Replies, Applied
  <2>3. TaskInv'  BY <1>2 DEF MarkRunning, client, TaskInv, TypeOK, RunInv, Terminal
  <2> QED  BY <2>1, <2>2, <2>3
<1>3. CASE Launch(r)
  <2>1. TypeOK'  BY <1>3 DEF Launch, Mishap, client, TypeOK
  <2>2. \A q \in Runs : RunInv(q)'  BY <1>3 DEF Launch, TypeOK, RunInv, Tells, Terminal
  <2>3. TaskInv'  BY <1>3 DEF Launch, client, TaskInv
  <2> QED  BY <2>1, <2>2, <2>3
<1>4. CASE DbtExit(r)
  <2>a. /\ dbt[r] = "live" /\ worker' = [worker EXCEPT ![r] = "artifacts"]
        /\ UNCHANGED <<row, tries, client, web>>
    BY <1>4 DEF DbtExit
  <2>b. PICK code \in {"zero", "nonzero"} :
           /\ dbt' = [dbt EXCEPT ![r] = code]
           /\ \/ verdict' = [verdict EXCEPT ![r] = Verdict(code)] /\ UNCHANGED faults
              \/ Mishap("output") /\ UNCHANGED verdict
    BY <1>4 DEF DbtExit
  <2>c. faults' \in Nat /\ verdict' \in [Runs -> Terminal]
    BY <2>b DEF Mishap, Verdict, TypeOK, Terminal
  <2>1. TypeOK'  BY <2>a, <2>b, <2>c DEF client, TypeOK
  <2>2. \A q \in Runs : RunInv(q)'
    <3>1. verdict' = [verdict EXCEPT ![r] = Verdict(code)] \/ verdict' = verdict  BY <2>b
    <3> QED  BY <2>a, <2>b, <3>1 DEF Verdict, TypeOK, RunInv, Tells, Terminal
  <2>3. TaskInv'  BY <2>a DEF client, TaskInv
  <2> QED  BY <2>1, <2>2, <2>3
<1>5. CASE Overrun(r)
  <2>a. /\ dbt[r] = "live" /\ dbt' = [dbt EXCEPT ![r] = "killed"]
        /\ UNCHANGED <<row, tries, client, web>>
    BY <1>5 DEF Overrun
  <2>b. \/ verdict' = [verdict EXCEPT ![r] = "timeout"] /\ worker' = [worker EXCEPT ![r] = "artifacts"]
        \/ verdict' = verdict /\ worker' = [worker EXCEPT ![r] = "gone"]
    BY <1>5 DEF Overrun
  <2>c. faults' \in Nat
    <3>1. Mishap("quiet overrun") \/ Mishap("overrun")  BY <1>5 DEF Overrun
    <3>2. faults' = faults + 1  BY <3>1 DEF Mishap
    <3> QED  BY <3>2 DEF TypeOK
  <2>1. TypeOK'
    <3>1. row' \in [Runs -> Terminal \cup {"none", "queued", "running"}]  BY <2>a DEF TypeOK
    <3>2. verdict' \in [Runs -> Terminal]  BY <2>b DEF TypeOK, Terminal
    <3> QED  BY <2>a, <2>b, <2>c, <3>1, <3>2 DEF client, TypeOK
  <2>2. \A q \in Runs : RunInv(q)'  BY <2>a, <2>b DEF TypeOK, RunInv, Tells, Terminal
  <2>3. TaskInv'  BY <1>5 DEF Overrun, client, TaskInv
  <2> QED  BY <2>1, <2>2, <2>3
<1>6. CASE LoadArtifacts(r)
  <2>1. TypeOK'  BY <1>6 DEF LoadArtifacts, Mishap, client, TypeOK
  <2>2. \A q \in Runs : RunInv(q)'  BY <1>6 DEF LoadArtifacts, TypeOK, RunInv, Tells, Terminal
  <2>3. TaskInv'  BY <1>6 DEF LoadArtifacts, client, TaskInv
  <2> QED  BY <2>1, <2>2, <2>3
<1>7. CASE Persist(r)
  <2>1. TypeOK'  BY <1>7 DEF Persist, AfterFailure, client, TypeOK, Terminal, Count
  <2>2. \A q \in Runs : RunInv(q)'  BY <1>7 DEF Persist, AfterFailure, TypeOK, RunInv, Tells, Terminal, Replies, Applied
  <2>3. TaskInv'  BY <1>7 DEF Persist, client, TaskInv, TypeOK, RunInv, Terminal
  <2> QED  BY <2>1, <2>2, <2>3
<1>8. CASE ForceTerminal(r)
  <2>1. TypeOK'  BY <1>8 DEF ForceTerminal, Forced, client, TypeOK, Terminal, Count
  <2>2. \A q \in Runs : RunInv(q)'  BY <1>8 DEF ForceTerminal, Forced, TypeOK, RunInv, Tells, Terminal, Replies, Applied
  <2>3. TaskInv'  BY <1>8 DEF ForceTerminal, Forced, client, TaskInv, TypeOK, RunInv, Terminal
  <2> QED  BY <2>1, <2>2, <2>3
<1>9. CASE ReadFails(r)
  <2>1. TypeOK'  BY <1>9 DEF ReadFails, Mishap, client, TypeOK
  <2>2. \A q \in Runs : RunInv(q)'  BY <1>9 DEF ReadFails, TypeOK, RunInv, Tells, Terminal
  <2>3. TaskInv'  BY <1>9 DEF ReadFails, client, TaskInv
  <2> QED  BY <2>1, <2>2, <2>3
<1> QED  BY <1>1, <1>2, <1>3, <1>4, <1>5, <1>6, <1>7, <1>8, <1>9 DEF Worker

\* A run started from the web, time and a restart of the server.
LEMMA OthersKeep ==
    ASSUME IInv, Deadline \/ ServerRestart \/ \E r \in Runs : WebPost(r)
    PROVE  IInv'
<1> USE DEF IInv
<1>1. CASE Deadline
  <2>1. TypeOK'  BY <1>1 DEF Deadline, server, TypeOK
  <2>2. \A q \in Runs : RunInv(q)'  BY <1>1 DEF Deadline, server, RunInv, Tells, Terminal
  <2>3. TaskInv'  BY <1>1 DEF Deadline, server, TaskInv
  <2> QED  BY <2>1, <2>2, <2>3
<1>2. CASE ServerRestart
  <2>0. \A q \in Runs :
           /\ worker'[q] = IF worker[q] \in {"none", "gone"} THEN worker[q] ELSE "killed"
           /\ dbt'[q] = IF dbt[q] = "live" THEN "killed" ELSE dbt[q]
    BY <1>2 DEF ServerRestart
  <2>a. worker' \in [Runs -> {"none", "start", "mark", "exec", "artifacts", "persist", "force", "gone", "killed"}]
    BY <1>2 DEF ServerRestart
  <2>b. dbt' \in [Runs -> {"none", "live", "zero", "nonzero", "killed"}]
    BY <1>2 DEF ServerRestart, TypeOK
  <2>1. TypeOK'  BY <1>2, <2>a, <2>b DEF ServerRestart, Mishap, client, TypeOK
  <2>2. \A q \in Runs : RunInv(q)'  BY <1>2, <2>0 DEF ServerRestart, TypeOK, RunInv, Tells, Terminal
  <2>3. TaskInv'  BY <1>2 DEF ServerRestart, client, TaskInv
  <2> QED  BY <2>1, <2>2, <2>3
<1>3. ASSUME NEW r \in Runs, WebPost(r) PROVE IInv'
  <2>0. web' \in 0..MaxWeb  BY <1>3, WebBound DEF WebPost, TypeOK
  <2>1. TypeOK'  BY <1>3, <2>0 DEF WebPost, client, TypeOK, Terminal
  <2>2. \A q \in Runs : RunInv(q)'  BY <1>3 DEF WebPost, TypeOK, RunInv, Tells, Terminal
  <2>3. TaskInv'  BY <1>3 DEF WebPost, client, TaskInv, TypeOK
  <2> QED  BY <2>1, <2>2, <2>3
<1> QED  BY <1>1, <1>2, <1>3

LEMMA StepInv == IInv /\ [Next]_vars => IInv'
<1>1. ASSUME IInv, UNCHANGED vars PROVE IInv'
  BY <1>1 DEF vars, server, client, IInv, TypeOK, RunInv, Tells, Terminal, TaskInv
<1> QED  BY <1>1, TaskKeeps, WorkerKeeps, OthersKeep DEF Next

\* The relation between the table, the threads, dbt and the client that the
\* properties below rest on.
THEOREM Inductive == Spec => []IInv
  BY InitIInv, StepInv, PTL DEF Spec

\* Type correctness of the task, the server and its table.
THEOREM TypeCorrect == Spec => []TypeOK
  BY Inductive, PTL DEF IInv

\* In dbt_rest.runs 'success', 'failed' and 'timeout' tell how dbt ended, and no
\* row with a terminal status has a dbt that still runs, whatever fails: also when
\* subprocess.run raises after dbt was started.
THEOREM StatusTellsTheEnd == Spec => []StatusIsTrue
<1>1. IInv => StatusIsTrue
  BY DEF IInv, RunInv, Tells, Terminal, StatusIsTrue
<1> QED  BY <1>1, Inductive, PTL

\* A task attempt recorded as successful stands for a dbt that exited with 0.
THEOREM TaskSuccessStandsForDbt == Spec => []TaskSuccessIsReal
<1>1. IInv => TaskSuccessIsReal
  BY DEF IInv, TypeOK, TaskInv, RunInv, Tells, Terminal, TaskSuccessIsReal
<1> QED  BY <1>1, Inductive, PTL

\* A terminal status is never replaced: mark_running finds the row not yet
\* terminal, and the later writes of a thread all write one verdict.
THEOREM TerminalStatusStays == Spec => TerminalIsFinal
<1> DEFINE Stays == \A r \in Runs : row[r] \in Terminal => row'[r] = row[r]
<1>1. ASSUME IInv, Next PROVE Stays
  <2> USE <1>1 DEF IInv
  <2>1. ASSUME row' = row PROVE Stays  BY <2>1
  <2>2. CASE Begin \/ Retry \/ PostRefused \/ Poll \/ Finish \/ Fail \/ Deadline \/ ServerRestart
    BY <2>1, <2>2 DEF Begin, Retry, PostRefused, Poll, Finish, Fail, Deadline, ServerRestart, server
  <2>3. ASSUME NEW r \in Runs, Post(r) \/ WebPost(r) PROVE Stays
    BY <2>3 DEF Post, WebPost, TypeOK, Terminal
  <2>4. ASSUME NEW r \in Runs, WorkerStart(r) \/ Launch(r) \/ ReadFails(r) \/ DbtExit(r) \/ Overrun(r) \/ LoadArtifacts(r) PROVE Stays
    BY <2>1, <2>4 DEF WorkerStart, Launch, ReadFails, DbtExit, Overrun, LoadArtifacts
  <2>5. ASSUME NEW r \in Runs, MarkRunning(r) PROVE Stays
    BY <2>5 DEF MarkRunning, TypeOK, RunInv, Terminal
  <2>6. ASSUME NEW r \in Runs, Persist(r) PROVE Stays
    BY <2>6 DEF Persist, TypeOK, RunInv, Terminal
  <2>7. ASSUME NEW r \in Runs, ForceTerminal(r) PROVE Stays
    BY <2>7 DEF ForceTerminal, Forced, TypeOK, RunInv, Terminal
  <2> QED  BY <1>1, <2>2, <2>3, <2>4, <2>5, <2>6, <2>7 DEF Next, Task, Worker
<1>2. IInv /\ [Next]_vars => [Stays]_row
  BY <1>1 DEF vars, server
<1> QED  BY <1>2, Inductive, PTL DEF Spec, TerminalIsFinal
==============================================================================
