------------------------------- MODULE Nl2Sql -------------------------------
(***************************************************************************)
(* Questions answered through a Redis list: the Flask application with its *)
(* RedisQueryQueue (services/nl2sql_app/app.py) and the answer chain that  *)
(* its one worker thread runs (nl2sql/chain.py, validator.py, db.py).      *)
(*                                                                         *)
(* gunicorn runs one synchronous worker process, so at most one request is *)
(* in a handler, beside the queue thread.  Each Redis command may be       *)
(* refused, or applied with its answer lost.  The process may be killed    *)
(* and boots again; the queue and the job hashes stay in Redis.            *)
(***************************************************************************)
EXTENDS Integers, Sequences, SequencesExt

CONSTANTS
    Jobs,            \* job ids: one per POST /query that reaches the queue
    NoJob,           \* the local job_id is not assigned
    MaxValidation,   \* MAX_VALIDATION_ATTEMPTS
    MaxExecution,    \* MAX_EXECUTION_ATTEMPTS
    AutoLog,         \* NL2SQL_AUTO_LOG_MODEL
    MaxFaults        \* bound: failed calls and kills of a behaviour

ASSUME Nl2SqlAssumption ==
    /\ NoJob \notin Jobs
    /\ MaxValidation \in Nat \ {0}
    /\ MaxExecution \in Nat \ {0}
    /\ AutoLog \in BOOLEAN
    /\ MaxFaults \in Nat

VARIABLES
    queue,       \* the Redis list
    stage,       \* stage[j]: field stage of the job's hash; "new" and "expired": no hash
    position,    \* position[j]: field queue_position
    request,     \* job of the POST /query being handled
    handler,     \* next Redis command of enqueue
    known,       \* jobs whose id was answered with 202
    worker,      \* where the queue thread is; "down": there is no process
    job,         \* local variable job_id, which outlives its iteration
    sql,         \* what the language model generated
    vals,        \* val_attempt
    execs,       \* exec_attempt
    model,       \* _pyfunc_model and _load_error_msg
    registered,  \* the registry has a version of the model
    forgotten,   \* history: jobs taken off the list by a pop or a process that was lost
    faults       \* faults so far

redis  == <<queue, stage, position>>
api    == <<request, handler, known>>
chain  == <<sql, vals, execs>>
llm    == <<model, registered>>
vars   == <<redis, api, worker, job, chain, llm, forgotten, faults>>

ChainStages == {"model_load", "rag_retrieval", "sql_generation", "sql_validation", "sql_execution"}
Stages      == ChainStages \cup {"new", "expired", "queued", "processing", "done", "error"}
Candidates  == {"good", "no such column", "refused", "unparsable"}

TypeOK ==
    /\ queue \in Seq(Jobs) /\ IsInjective(queue)
    /\ stage \in [Jobs -> Stages]
    /\ position \in [Jobs -> Nat]
    /\ request \in Jobs \cup {NoJob}
    /\ handler \in {"idle", "hset", "expire", "rpush"}
    /\ known \subseteq Jobs
    /\ worker \in ChainStages \cup {"pop", "question", "missing", "processing", "log", "done", "except", "dead", "down"}
    /\ job \in Jobs \cup {NoJob}
    /\ sql \in Candidates \cup {"none"}
    /\ vals \in 0 .. MaxValidation
    /\ execs \in 0 .. MaxExecution
    /\ model \in {"unloaded", "loaded", "broken"}
    /\ registered \in BOOLEAN
    /\ forgotten \subseteq Jobs
    /\ faults \in Nat

Init ==
    /\ queue = <<>>
    /\ stage = [j \in Jobs |-> "new"]
    /\ position = [j \in Jobs |-> 0]
    /\ request = NoJob /\ handler = "idle" /\ known = {}
    /\ worker = "down" /\ job = NoJob
    /\ sql = "none" /\ vals = 0 /\ execs = 0
    /\ model = "unloaded" /\ registered \in BOOLEAN
    /\ forgotten = {}
    /\ faults = 0

-----------------------------------------------------------------------------
\* A command is answered, refused, or applied with its answer lost.
Replies == {"ok"} \cup (IF faults < MaxFaults THEN {"refused", "lost"} ELSE {})
Applied(reply) == reply # "refused"
Count(reply) == faults' = IF reply = "ok" THEN faults ELSE faults + 1

InQueue(j) == Contains(queue, j)

\* status of get_status, which the client polls.
Shown(j) ==
    CASE stage[j] \in {"new", "expired"} -> "not found"
      [] stage[j] \in {"queued", "done", "error"} -> stage[j]
      [] OTHER -> "processing"

Unfinished(j) == Shown(j) \in {"queued", "processing"}

(***************************** POST /query *******************************)

PositionOfTail == Len(queue)                 \* mutant: llen without + 1
NextPosition == Len(queue) + 1

\* enqueue with a new uuid, up to llen.
Ask(j) ==
    /\ worker # "down"
    /\ handler = "idle"
    /\ stage[j] = "new" /\ position[j] = 0
    /\ position' = [position EXCEPT ![j] = NextPosition]
    /\ request' = j
    /\ handler' = "hset"
    /\ UNCHANGED <<queue, stage, known, worker, job, chain, llm, forgotten, faults>>

\* A command of enqueue: the next one, the answer 202, or a 500.
HandlerStep(from, to, reply) ==
    /\ handler = from
    /\ handler' = IF reply = "ok" THEN to ELSE "idle"
    /\ request' = IF handler' = "idle" THEN NoJob ELSE request
    /\ known' = IF reply = "ok" /\ to = "idle" THEN known \cup {request} ELSE known
    /\ Count(reply)
    /\ UNCHANGED <<position, worker, job, chain, llm, forgotten>>

\* hset of the job's hash.
WriteHash ==
    \E reply \in Replies :
        /\ HandlerStep("hset", "expire", reply)
        /\ stage' = IF Applied(reply) THEN [stage EXCEPT ![request] = "queued"] ELSE stage
        /\ UNCHANGED queue

\* expire: a failure leaves a hash that nobody knows of.
SetTtl ==
    \E reply \in Replies :
        /\ HandlerStep("expire", "rpush", reply)
        /\ UNCHANGED <<queue, stage>>

PushedTwice(j) == queue \o <<j, j>>          \* mutant: a repeated rpush
PushedInFront(j) == <<j>> \o queue           \* mutant: lpush
Pushed(j) == Append(queue, j)

\* rpush, then the answer 202 with the job id.
Push ==
    \E reply \in Replies :
        /\ HandlerStep("rpush", "idle", reply)
        /\ queue' = IF Applied(reply) THEN Pushed(request) ELSE queue
        /\ UNCHANGED stage

\* Time: the hash of a job reaches its TTL.
Expire(j) ==
    /\ stage[j] \notin {"new", "expired"}
    /\ j # request
    /\ stage' = [stage EXCEPT ![j] = "expired"]
    /\ UNCHANGED <<queue, position, api, worker, job, chain, llm, forgotten, faults>>

(***************************** queue thread ******************************)

\* mutant: the head is read and stays on the list
PopPeek ==
    /\ worker = "pop"
    /\ queue # <<>>
    /\ job' = Head(queue)
    /\ worker' = "question"
    /\ UNCHANGED <<redis, api, chain, llm, forgotten, faults>>

\* blpop.
Pop ==
    /\ worker = "pop"
    /\ queue # <<>>
    /\ job' = Head(queue)
    /\ queue' = Tail(queue)
    /\ worker' = "question"
    /\ UNCHANGED <<stage, position, api, chain, llm, forgotten, faults>>

\* blpop raises: the except branch runs with the job_id of an earlier
\* iteration.  A lost answer has taken the head off the list.
PopFails ==
    /\ worker = "pop"
    /\ \E reply \in Replies \ {"ok"} :
          /\ IF Applied(reply) /\ queue # <<>>
             THEN queue' = Tail(queue) /\ forgotten' = forgotten \cup {Head(queue)}
             ELSE UNCHANGED <<queue, forgotten>>
          /\ Count(reply)
    /\ worker' = "except"
    /\ UNCHANGED <<stage, position, api, job, chain, llm>>

\* hget of the question, which the hash has until it expires.
ReadQuestion ==
    /\ worker = "question"
    /\ \E reply \in Replies \ {"lost"} :
          /\ worker' = IF reply # "ok" THEN "except"
                       ELSE IF stage[job] = "queued" THEN "processing" ELSE "missing"
          /\ Count(reply)
    /\ UNCHANGED <<redis, api, job, chain, llm, forgotten>>

\* _set_job_state: writes the stage, also of a hash that has expired.  What
\* follows when the command is answered is in the set next.
Report(at, name, next) ==
    /\ worker = at
    /\ \E reply \in Replies :
          /\ stage' = IF Applied(reply) THEN [stage EXCEPT ![job] = name] ELSE stage
          /\ worker' \in IF reply = "ok" THEN next ELSE {"except"}
          /\ Count(reply)
    /\ UNCHANGED <<queue, position, api, job, forgotten>>

\* The question is gone: error "missing question".
Missing ==
    /\ Report("missing", "error", {"pop"})
    /\ UNCHANGED <<chain, llm>>

Take ==
    /\ Report("processing", "processing", {"model_load"})
    /\ sql' = "none" /\ vals' = 0 /\ execs' = 0
    /\ UNCHANGED llm

\* What loading gives: after three failures the error is kept for the rest of
\* the process's life.
Loaded ==
    CASE model # "unloaded" -> {model}
      [] model = "unloaded" /\ registered -> {"loaded", "broken"}
      [] OTHER -> {"broken"}

\* _ensure_pyfunc_loaded under the stage callback model_load.
LoadModel ==
    \E outcome \in Loaded :
        /\ Report("model_load", "model_load", {IF outcome = "loaded" THEN "rag_retrieval" ELSE "except"})
        /\ model' = IF faults' = faults THEN outcome ELSE model
        /\ UNCHANGED <<chain, registered>>

\* rag_search; the embedding or the index may raise.
Retrieve ==
    /\ Report("rag_retrieval", "rag_retrieval", {"sql_generation", "except"})
    /\ UNCHANGED <<chain, llm>>

\* chain.run; the model may raise.
Generate ==
    /\ Report("sql_generation", "sql_generation", {"sql_validation", "except"})
    /\ IF worker' = "sql_validation" THEN sql' \in Candidates ELSE UNCHANGED sql
    /\ UNCHANGED <<vals, execs, llm>>

\* validate_sql raises ValueError for what it refuses; what sqlglot cannot
\* parse raises ParseError, which is none.
Verdict(candidate) ==
    CASE candidate \in {"good", "no such column"} -> "ok"
      [] candidate = "refused" -> "ValueError"
      [] OTHER -> "ParseError"

ValidationUncounted == vals                  \* mutant: the attempt is not counted
ValidationAttempts == vals + 1

\* The body of the validation loop: accept, correct the prompt, or raise.
Validate ==
    /\ Report("sql_validation", "sql_validation",
              CASE Verdict(sql) = "ok" -> {"sql_execution"}
                [] Verdict(sql) = "ValueError" /\ ValidationAttempts < MaxValidation -> {"sql_generation"}
                [] OTHER -> {"except"})
    /\ vals' = IF worker' = "sql_generation" THEN ValidationAttempts ELSE vals
    /\ UNCHANGED <<sql, execs, llm>>

\* is_retryable_execution_error.
Retryable(candidate) == candidate = "no such column"

\* run_select: a statement about a missing column is corrected while attempts
\* are left; a good one may still fail, which is not retried.
Execute ==
    /\ Report("sql_execution", "sql_execution",
              CASE ~Retryable(sql) -> {"log", "except"}
                [] execs + 1 < MaxExecution -> {"sql_generation"}
                [] OTHER -> {"except"})
    /\ execs' = IF worker' = "sql_generation" THEN execs + 1 ELSE execs
    /\ vals' = IF worker' = "sql_generation" THEN 0 ELSE vals
    /\ UNCHANGED <<sql, llm>>

\* mlflow.start_run and its log calls: an error there turns the answered job
\* into a failed one.
LogRun ==
    /\ worker = "log"
    /\ worker' \in {"done", "except"}
    /\ UNCHANGED <<redis, api, job, chain, llm, forgotten, faults>>

Answer ==
    /\ Report("done", "done", {"pop"})
    /\ UNCHANGED <<chain, llm>>

\* mutant: the error is only logged
OnErrorLogged ==
    /\ worker = "except"
    /\ worker' = "pop"
    /\ UNCHANGED <<redis, api, job, chain, llm, forgotten, faults>>

\* The except branch: the error is written for job_id, if that was ever
\* assigned; when the write raises too, the thread ends.
OnError ==
    /\ worker = "except"
    /\ IF job = NoJob
       THEN worker' = "pop" /\ UNCHANGED <<stage, faults>>
       ELSE \E reply \in Replies :
               /\ stage' = IF Applied(reply) THEN [stage EXCEPT ![job] = "error"] ELSE stage
               /\ worker' = IF reply = "ok" THEN "pop" ELSE "dead"
               /\ Count(reply)
    /\ UNCHANGED <<queue, position, api, job, chain, llm, forgotten>>

Worker ==
    \/ Pop \/ ReadQuestion \/ Missing \/ Take
    \/ LoadModel \/ Retrieve \/ Generate \/ Validate \/ Execute \/ LogRun
    \/ Answer \/ OnError

(***************************** process ***********************************)

\* _ensure_model_logged: MLflow may be out of reach.
Bootstrapped == IF AutoLog THEN {TRUE, registered} ELSE {registered}

\* create_app: _build_service, with the bootstrap version of the model when it
\* is asked for, then start(), which nothing calls again.
Boot ==
    /\ worker = "down"
    /\ worker' = "pop"
    /\ model' = "unloaded"
    /\ registered' \in Bootstrapped
    /\ UNCHANGED <<redis, api, job, chain, forgotten, faults>>

\* External: the process is killed; the container restarts it.
Kill ==
    /\ worker # "down"
    /\ faults < MaxFaults
    /\ faults' = faults + 1
    /\ forgotten' = forgotten \cup {j \in {job} \ {NoJob} : Unfinished(j)}
    /\ worker' = "down"
    /\ job' = NoJob
    /\ sql' = "none" /\ vals' = 0 /\ execs' = 0
    /\ request' = NoJob /\ handler' = "idle"
    /\ model' = "unloaded"
    /\ UNCHANGED <<redis, known, registered>>

\* External: somebody registers a version of the model.
Register ==
    /\ ~registered
    /\ registered' = TRUE
    /\ UNCHANGED <<redis, api, worker, job, chain, model, forgotten, faults>>

Handler == WriteHash \/ SetTtl \/ Push

Next ==
    \/ (\E j \in Jobs : Ask(j) \/ Expire(j))
    \/ Handler
    \/ Worker \/ PopFails
    \/ Boot \/ Kill \/ Register

Spec == Init /\ [][Next]_vars

(* The thread runs on, the language model and the database answer or       *)
(* raise, and the container is started again (restart: unless-stopped).    *)
FairSpec == Spec /\ WF_vars(Worker) /\ WF_vars(Boot)
-----------------------------------------------------------------------------
(* Properties *)

\* A job whose id a client got with 202 and which is shown as queued or
\* processing is on the list or in the hands of the queue thread (possibly a
\* dead one): only a pop whose answer is lost and the death of the process
\* make the polling vain.  In particular enqueue writes the hash before the
\* thread can pop the id.
NoJobForgotten ==
    \A j \in known : Unfinished(j) =>
        InQueue(j) \/ (job = j /\ worker # "pop") \/ j \in forgotten

\* The position get_status shows for a waiting job is never worse than the one
\* enqueue recorded, though llen and rpush are two commands: the thread only
\* shortens the list in between.
PositionNeverWorse == \A i \in DOMAIN queue : i <= position[queue[i]]

\* A finished job stays as it is until its TTL, unless the except branch writes
\* the error of a later failure under the job_id it still has.
FinishedIsFinal ==
    [][\A j \in Jobs : stage[j] \in {"done", "error"} =>
          \/ stage'[j] \in {stage[j], "expired"}
          \/ stage'[j] = "error" /\ worker = "except" /\ job = j]_stage

\* Every job that a client was told of gets its answer or its error, whatever
\* the model generates (both retry loops are bounded) and also when the model
\* cannot be loaded, unless it was forgotten or the thread is dead.
Settles ==
    \A j \in Jobs : j \in known ~> ~Unfinished(j) \/ j \in forgotten \/ worker = "dead"

\* The promise of JobQueue: an id can come to the list until it was asked for and
\* its request is over; the thread's job_id is the job handed out last.
Queue == INSTANCE JobQueue WITH
    fresh <- {j \in Jobs : position[j] = 0 \/ (handler # "idle" /\ j = request)},
    list <- queue, held <- job
QueueSpec == Queue!Spec
=============================================================================
