------------------------------ MODULE DbtRest ------------------------------
(***************************************************************************)
(* One dbt layer driven over HTTP: the Airflow task run_dbt_layer          *)
(* (pipelines/dags/transformation/_dbt_common.py) with its client          *)
(* (services/dbt_client/rest_client.py), and the dbt-rest server with a    *)
(* daemon thread per run (services/dbt_rest/app/main.py) and its table     *)
(* dbt_rest.runs (services/dbt_rest/app/db.py).                            *)
(*                                                                         *)
(* A request may be refused, or served with the response lost; so may      *)
(* every statement on the table.  The server keeps nothing in memory but   *)
(* its threads, and a restart does not look at the table.                  *)
(***************************************************************************)
EXTENDS Integers, FiniteSets

CONSTANTS
    Runs,            \* run ids: one per POST that reaches the handler
    NoRun,           \* the client has no run id
    PostAttempts,    \* trigger_max_attempts
    FinishRetries,   \* FINISH_RETRIES of mark_finished_best_effort
    TaskRetries,     \* Airflow retries of the task
    Mishaps,         \* what else may happen: subset of MishapKinds
    MaxWeb,          \* bound: runs started from the web, which take run ids as well
    MaxFaults        \* bound: failed calls and mishaps of a behaviour

\* The server stops; an error of the disk; dbt at its time limit, with nothing
\* printed or with output; an error in reading or decoding what dbt printed.
MishapKinds == {"crash", "disk", "quiet overrun", "overrun", "output"}

ASSUME DbtAssumption ==
    /\ NoRun \notin Runs
    /\ PostAttempts \in Nat \ {0}
    /\ FinishRetries \in Nat \ {0}
    /\ TaskRetries \in Nat
    /\ Mishaps \subseteq MishapKinds
    /\ {MaxWeb, MaxFaults} \subseteq Nat
    /\ Cardinality(Runs) >= PostAttempts * (TaskRetries + 1)

VARIABLES
    row,       \* row[r]: status of the run in dbt_rest.runs, "none" before the INSERT
    worker,    \* worker[r]: where the run's thread is
    dbt,       \* dbt[r]: the dbt process of the run
    verdict,   \* verdict[r]: local variable status of _worker
    tries,     \* tries[r]: mark_finished attempts made
    task,      \* where run_dbt_layer is
    posts,     \* POST attempts made by trigger_run
    mine,      \* run id the client polls
    late,      \* the poll deadline has passed
    meta,      \* status of the task attempt's row in meta.pipeline_runs
    retries,   \* Airflow retries used
    web,       \* runs started from the web
    faults     \* faults so far

server == <<row, worker, dbt, verdict, tries>>
client == <<task, posts, mine, late, meta, retries>>
vars   == <<server, client, web, faults>>

TerminalNoTimeout == {"success", "failed", "error"}   \* mutant: a state is forgotten
Terminal == {"success", "failed", "error", "timeout"}

TypeOK ==
    /\ row \in [Runs -> Terminal \cup {"none", "queued", "running"}]
    /\ worker \in [Runs -> {"none", "start", "mark", "exec", "artifacts", "persist", "force", "gone", "killed"}]
    /\ dbt \in [Runs -> {"none", "live", "zero", "nonzero", "killed"}]
    /\ verdict \in [Runs -> Terminal]
    /\ tries \in [Runs -> Nat]
    /\ task \in {"idle", "posting", "polling", "finishing", "failing", "success", "failed"}
    /\ posts \in Nat
    /\ mine \in Runs \cup {NoRun}
    /\ late \in BOOLEAN
    /\ meta \in {"none", "running", "success", "failed"}
    /\ retries \in Nat /\ web \in 0..MaxWeb
    /\ faults \in Nat

Init ==
    /\ row = [r \in Runs |-> "none"]
    /\ worker = [r \in Runs |-> "none"]
    /\ dbt = [r \in Runs |-> "none"]
    /\ verdict = [r \in Runs |-> "error"]
    /\ tries = [r \in Runs |-> 0]
    /\ task = "idle"
    /\ posts = 0
    /\ mine = NoRun
    /\ late = FALSE
    /\ meta = "none"
    /\ retries = 0 /\ web = 0
    /\ faults = 0

-----------------------------------------------------------------------------
\* A call is answered, refused, or applied with its answer lost.
Replies == {"ok"} \cup (IF faults < MaxFaults THEN {"refused", "lost"} ELSE {})
Applied(reply) == reply # "refused"
Count(reply) == faults' = IF reply = "ok" THEN faults ELSE faults + 1

Mishap(m) ==
    /\ m \in Mishaps
    /\ faults < MaxFaults
    /\ faults' = faults + 1

(***************************** Airflow task ******************************)

\* start_run, before the try block.
Begin ==
    /\ task = "idle"
    /\ \E reply \in Replies :
          /\ meta' = IF Applied(reply) THEN "running" ELSE meta
          /\ task' = IF reply = "ok" THEN "posting" ELSE "failed"
          /\ Count(reply)
    /\ posts' = 0
    /\ mine' = NoRun
    /\ late' = FALSE
    /\ UNCHANGED <<server, retries, web>>

\* Airflow restarts a failed task while it has retries left.
Retry ==
    /\ task = "failed"
    /\ retries < TaskRetries
    /\ retries' = retries + 1
    /\ task' = "idle"
    /\ UNCHANGED <<server, posts, mine, late, meta, faults, web>>

\* A failed attempt of trigger_run: back off and repeat, or raise.
PostAgain ==
    /\ posts' = posts + 1
    /\ task' = IF posts + 1 < PostAttempts THEN "posting" ELSE "failing"
    /\ UNCHANGED mine

\* POST /runs with insert_queued and Thread.start in the handler.  Only an
\* answer carries the run id; a request whose answer is lost has made a row
\* (insert acknowledged to nobody) or a row and a running thread.
Post(r) ==
    /\ task = "posting"
    /\ row[r] = "none"
    /\ \/ /\ row' = [row EXCEPT ![r] = "queued"]
          /\ worker' = [worker EXCEPT ![r] = "start"]
          /\ \E reply \in {"ok", "lost"} \cap Replies :
                /\ Count(reply)
                /\ IF reply = "ok"
                   THEN task' = "polling" /\ mine' = r /\ UNCHANGED posts
                   ELSE PostAgain
       \/ /\ faults < MaxFaults
          /\ faults' = faults + 1
          /\ row' = [row EXCEPT ![r] = "queued"]
          /\ UNCHANGED worker
          /\ PostAgain
    /\ UNCHANGED <<dbt, verdict, tries, late, meta, retries, web>>

\* POST /jobs/run/{layer}: the same _start_run for somebody at the web page, who
\* does not try again.
WebPost(r) ==
    /\ web < MaxWeb /\ row[r] = "none"
    /\ web' = web + 1
    /\ row' = [row EXCEPT ![r] = "queued"]
    /\ \/ worker' = [worker EXCEPT ![r] = "start"] /\ UNCHANGED faults
       \/ faults < MaxFaults /\ faults' = faults + 1 /\ UNCHANGED worker
    /\ UNCHANGED <<dbt, verdict, tries, client>>

\* POST /runs that fails before the INSERT.
PostRefused ==
    /\ task = "posting"
    /\ faults < MaxFaults
    /\ faults' = faults + 1
    /\ PostAgain
    /\ UNCHANGED <<server, late, meta, retries, web>>

\* What run_dbt_layer does with a terminal status; error and timeout count as
\* failures.
OutcomeUnlessFailed(status) == IF status = "failed" THEN "failing" ELSE "finishing" \* mutant
Outcome(status) == IF status = "success" THEN "finishing" ELSE "failing"

\* poll_max_total_seconds is set and has passed.
NeverExpired == FALSE                        \* mutant: the loop has no deadline
Expired == late

\* The loop of wait_for_completion: the status is read before the deadline is
\* looked at, and a failing GET is not retried.
Poll ==
    /\ task = "polling"
    /\ \/ /\ row[mine] \in Terminal
          /\ task' = Outcome(row[mine])
          /\ UNCHANGED faults
       \/ /\ row[mine] \notin Terminal
          /\ Expired
          /\ task' = "failing"
          /\ UNCHANGED faults
       \/ /\ faults < MaxFaults
          /\ task' = "failing"
          /\ faults' = faults + 1
    /\ UNCHANGED <<server, posts, mine, late, meta, retries, web>>

\* Time: poll_max_total_seconds pass.
Deadline ==
    /\ task = "polling"
    /\ ~late
    /\ late' = TRUE
    /\ UNCHANGED <<server, task, posts, mine, meta, retries, faults, web>>

\* finish_run(status="success"); an error there takes the except branch.
Finish ==
    /\ task = "finishing"
    /\ \E reply \in Replies :
          /\ meta' = IF Applied(reply) THEN "success" ELSE meta
          /\ task' = IF reply = "ok" THEN "success" ELSE "failing"
          /\ Count(reply)
    /\ UNCHANGED <<server, posts, mine, late, retries, web>>

\* finish_run(status="failed"), then raise.
Fail ==
    /\ task = "failing"
    /\ \E reply \in Replies :
          /\ meta' = IF Applied(reply) THEN "failed" ELSE meta
          /\ Count(reply)
    /\ task' = "failed"
    /\ UNCHANGED <<server, posts, mine, late, retries, web>>

(***************************** dbt-rest worker ***************************)

\* os.makedirs, outside every try: an error kills the thread.
WorkerStart(r) ==
    /\ worker[r] = "start"
    /\ \/ worker' = [worker EXCEPT ![r] = "mark"] /\ UNCHANGED faults
       \/ Mishap("disk") /\ worker' = [worker EXCEPT ![r] = "killed"]
    /\ UNCHANGED <<row, dbt, verdict, tries, client, web>>

\* db.mark_running; on an error the run is finished as 'error' without dbt.
MarkRunning(r) ==
    /\ worker[r] = "mark"
    /\ \E reply \in Replies :
          /\ row' = IF Applied(reply) THEN [row EXCEPT ![r] = "running"] ELSE row
          /\ worker' = [worker EXCEPT ![r] = IF reply = "ok" THEN "exec" ELSE "persist"]
          /\ Count(reply)
    /\ verdict' = [verdict EXCEPT ![r] = "error"]
    /\ UNCHANGED <<dbt, tries, client, web>>

\* subprocess.run starts dbt, or raises because it cannot.
Launch(r) ==
    /\ worker[r] = "exec"
    /\ dbt[r] = "none"
    /\ \/ dbt' = [dbt EXCEPT ![r] = "live"] /\ UNCHANGED <<worker, faults>>
       \/ Mishap("disk") /\ worker' = [worker EXCEPT ![r] = "artifacts"] /\ UNCHANGED dbt
    /\ UNCHANGED <<row, verdict, tries, client, web>>

\* subprocess.run raises while dbt runs: it kills dbt before it passes the error
\* on, and except Exception leaves the verdict 'error'.
ReadFails(r) ==
    /\ dbt[r] = "live"
    /\ Mishap("output")
    /\ dbt' = [dbt EXCEPT ![r] = "killed"]
    /\ worker' = [worker EXCEPT ![r] = "artifacts"]
    /\ UNCHANGED <<row, verdict, tries, client, web>>

VerdictBlind(code) == "success"              \* mutant: the return code is ignored
Verdict(code) == IF code = "zero" THEN "success" ELSE "failed"

\* dbt exits by itself.  Its output is decoded before its code is looked at:
\* when that raises, except Exception leaves the verdict 'error'.
DbtExit(r) ==
    /\ dbt[r] = "live"
    /\ \E code \in {"zero", "nonzero"} :
          /\ dbt' = [dbt EXCEPT ![r] = code]
          /\ \/ verdict' = [verdict EXCEPT ![r] = Verdict(code)] /\ UNCHANGED faults
             \/ Mishap("output") /\ UNCHANGED verdict
    /\ worker' = [worker EXCEPT ![r] = "artifacts"]
    /\ UNCHANGED <<row, tries, client, web>>

\* dbt outlives the 7200 s and is killed.  The handler joins the captured
\* output, which TimeoutExpired carries as bytes, with a str: when dbt has
\* printed anything, that raises TypeError and ends the thread.
Overrun(r) ==
    /\ dbt[r] = "live"
    /\ dbt' = [dbt EXCEPT ![r] = "killed"]
    /\ \/ /\ Mishap("quiet overrun")
          /\ verdict' = [verdict EXCEPT ![r] = "timeout"]
          /\ worker' = [worker EXCEPT ![r] = "artifacts"]
       \/ /\ Mishap("overrun")
          /\ worker' = [worker EXCEPT ![r] = "gone"]
          /\ UNCHANGED verdict
    /\ UNCHANGED <<row, tries, client, web>>

\* _load_artifacts_from_disk, outside every try.
LoadArtifacts(r) ==
    /\ worker[r] = "artifacts"
    /\ \/ worker' = [worker EXCEPT ![r] = "persist"] /\ UNCHANGED faults
       \/ Mishap("disk") /\ worker' = [worker EXCEPT ![r] = "killed"]
    /\ UNCHANGED <<row, dbt, verdict, tries, client, web>>

\* After a failed attempt: again, or the fallback when the attempts are used up.
AfterFailureNoFallback(r) == IF tries[r] + 1 < FinishRetries THEN "persist" ELSE "gone" \* mutant
AfterFailure(r) == IF tries[r] + 1 < FinishRetries THEN "persist" ELSE "force"

\* One mark_finished attempt of mark_finished_best_effort.
Persist(r) ==
    /\ worker[r] = "persist"
    /\ \E reply \in Replies :
          /\ row' = IF Applied(reply) THEN [row EXCEPT ![r] = verdict[r]] ELSE row
          /\ tries' = [tries EXCEPT ![r] = @ + 1]
          /\ worker' = [worker EXCEPT ![r] = IF reply = "ok" THEN "gone" ELSE AfterFailure(r)]
          /\ Count(reply)
    /\ UNCHANGED <<dbt, verdict, client, web>>

\* The status the fallback writes: the same one.
ForcedError(r) == "error"                    \* mutant: the fallback gives the run up
Forced(r) == verdict[r]

\* force_terminal_persist, the last attempt.
ForceTerminal(r) ==
    /\ worker[r] = "force"
    /\ \E reply \in Replies :
          /\ row' = IF Applied(reply) THEN [row EXCEPT ![r] = Forced(r)] ELSE row
          /\ Count(reply)
    /\ worker' = [worker EXCEPT ![r] = "gone"]
    /\ UNCHANGED <<dbt, verdict, tries, client, web>>

\* External: the container stops and is started again.  The daemon threads and
\* their dbt processes are gone; start-up only runs ensure_schema.
ServerRestart ==
    /\ Mishap("crash")
    /\ worker' = [r \in Runs |-> IF worker[r] \in {"none", "gone"} THEN worker[r] ELSE "killed"]
    /\ dbt' = [r \in Runs |-> IF dbt[r] = "live" THEN "killed" ELSE dbt[r]]
    /\ UNCHANGED <<row, verdict, tries, client, web>>

Worker(r) ==
    \/ WorkerStart(r) \/ MarkRunning(r) \/ Launch(r) \/ ReadFails(r) \/ DbtExit(r) \/ Overrun(r)
    \/ LoadArtifacts(r) \/ Persist(r) \/ ForceTerminal(r)

Task == Begin \/ Retry \/ PostRefused \/ (\E r \in Runs : Post(r)) \/ Poll \/ Finish \/ Fail

Next == Task \/ Deadline \/ (\E r \in Runs : WebPost(r) \/ Worker(r)) \/ ServerRestart

Spec == Init /\ [][Next]_vars

(* The task and the worker threads run on, dbt exits or is killed at its   *)
(* time limit, and the client's clock advances.                            *)
Fairness ==
    /\ WF_vars(Task)
    /\ WF_vars(Deadline)
    /\ \A r \in Runs : WF_vars(Worker(r))

FairSpec == Spec /\ Fairness
-----------------------------------------------------------------------------
(* Properties *)

\* What a terminal status in dbt_rest.runs says of dbt, whichever writes to the
\* table failed before it: 'success', 'failed' and 'timeout' tell how dbt ended
\* ('success' is never recorded for a dbt that failed, was killed or was never
\* started), and any terminal status means that dbt does not run any more.
\* 'error' tells no more than that: except Exception in _worker also records a
\* dbt that ended well as 'error' when its output cannot be decoded.
StatusIsTrue ==
    \A r \in Runs :
        /\ row[r] = "success" => dbt[r] = "zero"
        /\ row[r] = "failed" => dbt[r] = "nonzero"
        /\ row[r] = "timeout" => dbt[r] = "killed"
        /\ row[r] \in Terminal => dbt[r] # "live"

\* A task attempt recorded as 'success' in meta.pipeline_runs stands for a dbt
\* that exited with 0 for the run the client followed, not for one of the runs
\* that a repeated POST may have started beside it.
TaskSuccessIsReal == meta = "success" /\ mine # NoRun => row[mine] = "success" /\ dbt[mine] = "zero"

\* A terminal status is never replaced, not by a late mark_running, a repeated
\* mark_finished or the forced write: a client may stop at the first it sees.
TerminalIsFinal == [][\A r \in Runs : row[r] \in Terminal => row'[r] = row[r]]_row

\* The task always ends, also when the row of its run stays 'queued' or
\* 'running' for ever (the poll deadline).
TaskEnds == <>[](task \in {"success", "failed"})

\* A run gets a terminal status unless a restart or a disk error kills its
\* thread, as long as fewer writes fail than mark_finished_best_effort makes:
\* it does not hang in 'queued' or 'running'.
RunSettles == \A r \in Runs : worker[r] # "none" ~> row[r] \in Terminal \/ worker[r] = "killed"
=============================================================================
