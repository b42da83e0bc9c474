---------------------------- MODULE Nl2SqlProofs ----------------------------
(***************************************************************************)
(* Safety of the question queue, for any number of jobs, attempts and      *)
(* failures.  The list, the hashes, the request being handled and the job  *)
(* of the queue thread are kept apart: a job id is in one of them at a     *)
(* time, and each place fixes which stages its hash can have.              *)
(***************************************************************************)
EXTENDS Nl2Sql, TLAPS

Finished == {"done", "error"}
Busy     == ChainStages \cup {"question", "missing", "processing", "log", "done"}

\* An id on the list waits, and is not the one the thread has.
QueueInv ==
    /\ \A i \in 1..Len(queue) : stage[queue[i]] \in {"queued", "expired"} /\ queue[i] # job
    /\ PositionNeverWorse

\* The job being enqueued is on no list yet, and nobody knows of it.
RequestInv == handler # "idle" =>
    /\ request \in Jobs
    /\ request \notin known /\ request # job
    /\ \A i \in 1..Len(queue) : queue[i] # request
    /\ stage[request] = IF handler = "hset" THEN "new" ELSE "queued"
    /\ Len(queue) < position[request]

\* The thread is not past the end of a job while it works on it.
JobInv ==
    /\ job # NoJob => stage[job] # "new"
    /\ worker \in Busy => job \in Jobs /\ stage[job] \notin Finished
    /\ worker = "down" => job = NoJob

KnownInv == NoJobForgotten /\ \A j \in known : stage[j] # "new"

Safe == QueueInv /\ RequestInv /\ JobInv /\ KnownInv
IInv == TypeOK /\ Safe
-----------------------------------------------------------------------------
\* What get_status calls unfinished, in terms of the stage.
LEMMA ShownStages ==
    \A j : /\ Unfinished(j) <=> stage[j] \notin Finished \cup {"new", "expired"}
           /\ Unfinished(j)' <=> stage'[j] \notin Finished \cup {"new", "expired"}
  BY DEF Unfinished, Shown, Finished

\* The list after a push.
LEMMA PushList ==
    ASSUME NEW s \in Seq(Jobs), NEW j \in Jobs
    PROVE  /\ Append(s, j) \in Seq(Jobs)
           /\ Len(Append(s, j)) = Len(s) + 1
           /\ \A i \in 1..Len(s) : Append(s, j)[i] = s[i]
           /\ Append(s, j)[Len(s) + 1] = j
  OBVIOUS

\* The list after a pop.
LEMMA PopList ==
    ASSUME NEW s \in Seq(Jobs), s # <<>>
    PROVE  /\ Tail(s) \in Seq(Jobs) /\ Head(s) = s[1] /\ Head(s) \in Jobs
           /\ Len(s) \in Nat \ {0} /\ Len(Tail(s)) = Len(s) - 1
           /\ \A i \in 1..Len(Tail(s)) : Tail(s)[i] = s[i + 1]
  OBVIOUS

\* Distinct ids stay distinct.
LEMMA ListStaysDistinct ==
    ASSUME NEW s \in Seq(Jobs), IsInjective(s)
    PROVE  /\ s # <<>> => IsInjective(Tail(s)) /\ \A i \in 1..Len(Tail(s)) : Tail(s)[i] # Head(s)
           /\ \A j \in Jobs : (\A i \in 1..Len(s) : s[i] # j) => IsInjective(Append(s, j))
<1>1. \A a, b \in 1..Len(s) : s[a] = s[b] => a = b
  BY DEF IsInjective
<1>2. ASSUME s # <<>>
      PROVE  IsInjective(Tail(s)) /\ \A i \in 1..Len(Tail(s)) : Tail(s)[i] # Head(s)
  <2>1. \A i \in 1..Len(Tail(s)) : i + 1 \in 1..Len(s) /\ 1 \in 1..Len(s)
    BY <1>2, PopList
  <2>2. DOMAIN Tail(s) = 1..Len(Tail(s))
    BY <1>2, PopList
  <2> QED  BY <1>1, <1>2, <2>1, <2>2, PopList DEF IsInjective
<1>3. ASSUME NEW j \in Jobs, \A i \in 1..Len(s) : s[i] # j
      PROVE  IsInjective(Append(s, j))
  <2>1. DOMAIN Append(s, j) = 1..(Len(s) + 1) /\ Len(s) \in Nat
    BY PushList
  <2> QED  BY <1>1, <1>3, <2>1, PushList DEF IsInjective
<1> QED  BY <1>2, <1>3

\* Type correctness is inductive by itself but for the distinct ids, which Push
\* keeps because of RequestInv.
LEMMA InitIInv == Init => IInv
<1> SUFFICES ASSUME Init PROVE IInv
  OBVIOUS
<1>1. TypeOK
  <2>1. IsInjective(queue)  BY DEF Init, IsInjective
  <2>2. 0 \in 0..MaxValidation /\ 0 \in 0..MaxExecution
    BY Nl2SqlAssumption DEF Nl2SqlAssumption
  <2> QED  BY <2>1, <2>2 DEF Init, TypeOK, Stages
<1>2. Safe
  BY DEF Init, Safe, QueueInv, PositionNeverWorse, RequestInv, JobInv, Busy, ChainStages, KnownInv, NoJobForgotten
<1> QED  BY <1>1, <1>2 DEF IInv

\* What the thread's steps between taking a job and its end have in common: they
\* leave the list and the request alone, write the stage of the job it has, and
\* go on, to the except branch, or for a finished job to the next pop.
Reported ==
    /\ worker \in Busy
    /\ UNCHANGED <<queue, position, request, handler, known, job, forgotten>>
    /\ \E name \in Stages \ {"new", "expired", "queued"} :
          /\ stage' \in {stage, [stage EXCEPT ![job] = name]}
          /\ \/ worker' = "except"
             \/ worker' \in Busy /\ name \notin Finished
             \/ worker' = "pop" /\ name \in Finished /\ stage' = [stage EXCEPT ![job] = name]

Step == ReadQuestion \/ Missing \/ Take \/ LoadModel \/ Retrieve \/ Generate \/ Validate \/ Execute \/ LogRun \/ Answer

LEMMA ReportWrites ==
    ASSUME NEW at \in Busy, NEW name \in Stages \ {"new", "expired", "queued"}, NEW next, Report(at, name, next),
           \/ next \subseteq Busy \cup {"except"} /\ name \notin Finished
           \/ next = {"pop"} /\ name \in Finished
    PROVE  Reported
<1>1. PICK reply \in Replies :
          /\ stage' = IF Applied(reply) THEN [stage EXCEPT ![job] = name] ELSE stage
          /\ worker' \in IF reply = "ok" THEN next ELSE {"except"}
  BY DEF Report
<1>2. reply = "ok" => Applied(reply)  BY DEF Applied
<1>3. worker = at /\ UNCHANGED <<queue, position, request, handler, known, job, forgotten>>
  BY DEF Report, api
<1>4. worker' = "except" \/ (worker' \in next /\ stage' = [stage EXCEPT ![job] = name])
  BY <1>1, <1>2
<1>5. stage' \in {stage, [stage EXCEPT ![job] = name]}  BY <1>1
<1> QED  BY <1>3, <1>4, <1>5 DEF Reported

LEMMA StepReports == ASSUME Step PROVE Reported
<1> USE DEF Busy, ChainStages, Stages, Finished
<1>1. CASE ReadQuestion
  <2>1. worker = "question" /\ worker' \in {"except", "processing", "missing"}
    BY <1>1 DEF ReadQuestion
  <2> QED  BY <1>1, <2>1 DEF ReadQuestion, Reported, redis, api
<1>2. CASE Missing
  <2>1. Report("missing", "error", {"pop"})  BY <1>2 DEF Missing
  <2>2. "missing" \in Busy /\ "error" \in Stages \ {"new", "expired", "queued"}
    OBVIOUS
  <2>3. {"pop"} = {"pop"} /\ "error" \in Finished
    OBVIOUS
  <2> HIDE DEF Busy, Stages, Finished
  <2> QED  BY <2>1, <2>2, <2>3, ReportWrites
<1>3. CASE Take
  <2>1. Report("processing", "processing", {"model_load"})  BY <1>3 DEF Take
  <2>2. "processing" \in Busy /\ "processing" \in Stages \ {"new", "expired", "queued"}
    OBVIOUS
  <2>3. {"model_load"} \subseteq Busy \cup {"except"} /\ "processing" \notin Finished
    OBVIOUS
  <2> HIDE DEF Busy, Stages, Finished
  <2> QED  BY <2>1, <2>2, <2>3, ReportWrites
<1>4. CASE LoadModel
  <2>1. PICK outcome \in Loaded :
            Report("model_load", "model_load", {IF outcome = "loaded" THEN "rag_retrieval" ELSE "except"})
    BY <1>4 DEF LoadModel
  <2>2. "model_load" \in Busy /\ "model_load" \in Stages \ {"new", "expired", "queued"}
    OBVIOUS
  <2>3. {IF outcome = "loaded" THEN "rag_retrieval" ELSE "except"} \subseteq Busy \cup {"except"} /\ "model_load" \notin Finished
    OBVIOUS
  <2> HIDE DEF Busy, Stages, Finished
  <2> QED  BY <2>1, <2>2, <2>3, ReportWrites
<1>5. CASE Retrieve
  <2>1. Report("rag_retrieval", "rag_retrieval", {"sql_generation", "except"})  BY <1>5 DEF Retrieve
  <2>2. "rag_retrieval" \in Busy /\ "rag_retrieval" \in Stages \ {"new", "expired", "queued"}
    OBVIOUS
  <2>3. {"sql_generation", "except"} \subseteq Busy \cup {"except"} /\ "rag_retrieval" \notin Finished
    OBVIOUS
  <2> HIDE DEF Busy, Stages, Finished
  <2> QED  BY <2>1, <2>2, <2>3, ReportWrites
<1>6. CASE Generate
  <2>1. Report("sql_generation", "sql_generation", {"sql_validation", "except"})  BY <1>6 DEF Generate
  <2>2. "sql_generation" \in Busy /\ "sql_generation" \in Stages \ {"new", "expired", "queued"}
    OBVIOUS
  <2>3. {"sql_validation", "except"} \subseteq Busy \cup {"except"} /\ "sql_generation" \notin Finished
    OBVIOUS
  <2> HIDE DEF Busy, Stages, Finished
  <2> QED  BY <2>1, <2>2, <2>3, ReportWrites
<1>7. CASE Validate
  <2> DEFINE After == CASE Verdict(sql) = "ok" -> {"sql_execution"}
                      [] Verdict(sql) = "ValueError" /\ ValidationAttempts < MaxValidation -> {"sql_generation"}
                      [] OTHER -> {"except"}
  <2>1. Report("sql_validation", "sql_validation", After)  BY <1>7 DEF Validate
  <2>2. "sql_validation" \in Busy /\ "sql_validation" \in Stages \ {"new", "expired", "queued"}
    OBVIOUS
  <2>3. After \subseteq Busy \cup {"except"} /\ "sql_validation" \notin Finished
    <3>1. After \in {{"sql_execution"}, {"sql_generation"}, {"except"}}  OBVIOUS
    <3> HIDE DEF After
    <3> QED  BY <3>1
  <2> HIDE DEF After, Busy, Stages, Finished
  <2> QED  BY <2>1, <2>2, <2>3, ReportWrites
<1>8. CASE Execute
  <2> DEFINE After == CASE ~Retryable(sql) -> {"log", "except"}
                      [] execs + 1 < MaxExecution -> {"sql_generation"}
                      [] OTHER -> {"except"}
  <2>1. Report("sql_execution", "sql_execution", After)  BY <1>8 DEF Execute
  <2>2. "sql_execution" \in Busy /\ "sql_execution" \in Stages \ {"new", "expired", "queued"}
    OBVIOUS
  <2>3. After \subseteq Busy \cup {"except"} /\ "sql_execution" \notin Finished
    <3>1. After \in {{"log", "except"}, {"sql_generation"}, {"except"}}  OBVIOUS
    <3> HIDE DEF After
    <3> QED  BY <3>1
  <2> HIDE DEF After, Busy, Stages, Finished
  <2> QED  BY <2>1, <2>2, <2>3, ReportWrites
<1>9. CASE LogRun
  <2>1. worker = "log" /\ worker' \in {"done", "except"}
    BY <1>9 DEF LogRun
  <2> QED  BY <1>9, <2>1 DEF LogRun, Reported, redis, api
<1>10. CASE Answer
  <2>1. Report("done", "done", {"pop"})  BY <1>10 DEF Answer
  <2>2. "done" \in Busy /\ "done" \in Stages \ {"new", "expired", "queued"}
    OBVIOUS
  <2>3. {"pop"} = {"pop"} /\ "done" \in Finished
    OBVIOUS
  <2> HIDE DEF Busy, Stages, Finished
  <2> QED  BY <2>1, <2>2, <2>3, ReportWrites
<1> QED  BY <1>1, <1>2, <1>3, <1>4, <1>5, <1>6, <1>7, <1>8, <1>9, <1>10 DEF Step

LEMMA ReportedKeeps == ASSUME IInv, Reported PROVE Safe'
<1> USE DEF IInv, Safe
<1>1. PICK name \in Stages \ {"new", "expired", "queued"} :
          /\ stage' \in {stage, [stage EXCEPT ![job] = name]}
          /\ \/ worker' = "except"
             \/ worker' \in Busy /\ name \notin Finished
             \/ worker' = "pop" /\ name \in Finished /\ stage' = [stage EXCEPT ![job] = name]
  BY DEF Reported
<1>2. UNCHANGED <<queue, position, request, handler, known, job, forgotten>> /\ worker \in Busy
  BY DEF Reported
<1>3. job \in Jobs /\ stage[job] \notin Finished \cup {"new"}
  BY <1>2, Nl2SqlAssumption DEF JobInv, Nl2SqlAssumption
<1>4. \A j \in Jobs : j # job => stage'[j] = stage[j]
  BY <1>1 DEF TypeOK
<1>5. stage'[job] \in {stage[job], name}
  BY <1>1, <1>3 DEF TypeOK
<1>6. QueueInv'
  <2>1. \A i \in 1..Len(queue) : queue[i] \in Jobs  BY DEF TypeOK
  <2> QED  BY <1>2, <1>4, <2>1 DEF QueueInv, PositionNeverWorse
<1>7. RequestInv'
  BY <1>2, <1>4 DEF RequestInv
<1>8. JobInv'
  BY <1>1, <1>2, <1>3, <1>5 DEF JobInv, Busy, ChainStages
<1>9. KnownInv'
  <2>1. ASSUME NEW j \in known, Unfinished(j)'
        PROVE  InQueue(j)' \/ (job = j /\ worker' # "pop") \/ j \in forgotten
    <3>1. CASE j = job
      <4>1. stage'[job] \notin Finished  BY <2>1, <3>1, ShownStages
      <4>2. worker' = "pop" => stage'[job] \in Finished  BY <1>1, <1>3 DEF TypeOK, Busy, ChainStages
      <4> QED  BY <3>1, <4>1, <4>2
    <3>2. CASE j # job
      <4>1. Unfinished(j)  BY <1>4, <2>1, <3>2, ShownStages DEF TypeOK
      <4>2. InQueue(j) \/ j \in forgotten  BY <3>2, <4>1 DEF KnownInv, NoJobForgotten
      <4> QED  BY <1>2, <4>2 DEF InQueue
    <3> QED  BY <3>1, <3>2
  <2>2. \A j \in known : stage'[j] # "new"
    BY <1>3, <1>4, <1>5 DEF KnownInv, TypeOK
  <2> QED  BY <1>2, <2>1, <2>2 DEF KnownInv, NoJobForgotten
<1> QED  BY <1>6, <1>7, <1>8, <1>9

\* Taking a job off the list, and the lost answer that takes one away.
LEMMA PopKeeps == ASSUME IInv, Pop \/ PopFails PROVE Safe' /\ queue' \in Seq(Jobs) /\ IsInjective(queue')
<1> USE DEF IInv, Safe
<1>0. queue \in Seq(Jobs) /\ IsInjective(queue) /\ worker = "pop"
  BY DEF TypeOK, Pop, PopFails
<1>1. UNCHANGED <<stage, position, request, handler, known>>
  BY DEF Pop, PopFails, api
<1>2. \/ Pop
      \/ PopFails /\ queue' = queue /\ forgotten' = forgotten /\ job' = job
      \/ PopFails /\ queue # <<>> /\ queue' = Tail(queue) /\ forgotten' = forgotten \cup {Head(queue)} /\ job' = job
  BY DEF PopFails
<1>3. PopFails => worker' = "except"  BY DEF PopFails
<1>4. Pop => queue # <<>> /\ queue' = Tail(queue) /\ job' = Head(queue) /\ worker' = "question" /\ forgotten' = forgotten
  BY DEF Pop
<1>5. \/ queue' = queue
      \/ /\ queue # <<>> /\ queue' = Tail(queue) /\ Head(queue) = queue[1] /\ 1 \in 1..Len(queue)
         /\ Len(queue') = Len(queue) - 1 /\ Len(queue) \in Nat
         /\ \A i \in 1..Len(queue') : i + 1 \in 1..Len(queue) /\ queue'[i] = queue[i + 1] /\ queue'[i] # Head(queue)
         /\ queue' \in Seq(Jobs) /\ IsInjective(queue')
  <2>1. ASSUME queue # <<>>, queue' = Tail(queue)
        PROVE  /\ Head(queue) = queue[1] /\ 1 \in 1..Len(queue)
               /\ Len(queue') = Len(queue) - 1 /\ Len(queue) \in Nat
               /\ \A i \in 1..Len(queue') : i + 1 \in 1..Len(queue) /\ queue'[i] = queue[i + 1]
               /\ queue' \in Seq(Jobs)
    BY <1>0, <2>1, PopList
  <2>2. ASSUME queue # <<>>, queue' = Tail(queue)
        PROVE  IsInjective(queue') /\ \A i \in 1..Len(queue') : queue'[i] # Head(queue)
    BY <1>0, <2>2, ListStaysDistinct
  <2> QED  BY <1>2, <1>4, <2>1, <2>2
<1>6. QueueInv'
  <2>1. \A i \in 1..Len(queue') : stage[queue'[i]] \in {"queued", "expired"} /\ queue'[i] # job'
    BY <1>2, <1>4, <1>5 DEF QueueInv
  <2>2. \A i \in DOMAIN queue' : i <= position[queue'[i]]
    <3>1. \A j \in Jobs : position[j] \in Nat  BY DEF TypeOK
    <3>2. DOMAIN queue' = 1..Len(queue') /\ DOMAIN queue = 1..Len(queue) /\ \A i \in 1..Len(queue) : queue[i] \in Jobs
      BY <1>0, <1>5
    <3>3. \A i \in 1..Len(queue) : i <= position[queue[i]]  BY <3>2 DEF QueueInv, PositionNeverWorse
    <3>4. ASSUME NEW i \in 1..Len(queue') PROVE i <= position[queue'[i]]
      <4>1. CASE queue' = queue  BY <3>3, <4>1
      <4>2. CASE queue' # queue
        <5>1. i + 1 \in 1..Len(queue) /\ queue'[i] = queue[i + 1]  BY <1>5, <4>2
        <5>2. i + 1 <= position[queue[i + 1]] /\ position[queue[i + 1]] \in Nat /\ i \in Nat
          BY <3>1, <3>2, <3>3, <5>1
        <5> QED  BY <5>1, <5>2
      <4> QED  BY <4>1, <4>2
    <3> QED  BY <3>2, <3>4
  <2> QED  BY <1>1, <2>1, <2>2 DEF QueueInv, PositionNeverWorse
<1>7. RequestInv'
  <2> SUFFICES ASSUME handler # "idle" PROVE RequestInv'
    BY <1>1 DEF RequestInv
  <2>1. \A i \in 1..Len(queue') : queue'[i] # request  BY <1>5 DEF RequestInv
  <2>2. request # job'  BY <1>2, <1>4, <1>5 DEF RequestInv
  <2>3. Len(queue') < position[request]
    <3>1. position[request] \in Nat  BY DEF RequestInv, TypeOK
    <3> QED  BY <1>5, <3>1 DEF RequestInv
  <2> QED  BY <1>1, <2>1, <2>2, <2>3 DEF RequestInv
<1>8. JobInv'
  <2>1. Pop => job' \in Jobs /\ stage[job'] \in {"queued", "expired"}
    BY <1>0, <1>4, <1>5, PopList DEF QueueInv
  <2> QED  BY <1>1, <1>2, <1>3, <1>4, <2>1 DEF JobInv, Finished, Busy, ChainStages
<1>9. KnownInv'
  <2>1. \A j : InQueue(j) => InQueue(j)' \/ j = Head(queue)
    <3>1. CASE queue' = queue  BY <3>1 DEF InQueue
    <3>2. CASE queue' # queue
      <4>1. \A i \in 1..Len(queue) : i = 1 \/ (i - 1 \in 1..Len(queue') /\ queue'[i - 1] = queue[i])
        <5> SUFFICES ASSUME NEW i \in 1..Len(queue), i # 1
                     PROVE  i - 1 \in 1..Len(queue') /\ queue'[i - 1] = queue[i]
          OBVIOUS
        <5>1. i - 1 \in 1..Len(queue')  BY <1>5, <3>2
        <5>2. (i - 1) + 1 = i  OBVIOUS
        <5> QED  BY <1>5, <3>2, <5>1, <5>2
      <4>2. Head(queue) = queue[1]  BY <1>5, <3>2
      <4> QED  BY <4>1, <4>2 DEF InQueue, Contains
    <3> QED  BY <3>1, <3>2
  <2>2. \A j : Unfinished(j)' => Unfinished(j)  BY <1>1, ShownStages
  <2>3. ASSUME NEW j \in known, Unfinished(j)'
        PROVE  InQueue(j)' \/ (job' = j /\ worker' # "pop") \/ j \in forgotten'
    <3>1. InQueue(j) \/ j \in forgotten  BY <1>0, <2>2, <2>3 DEF KnownInv, NoJobForgotten
    <3> QED  BY <1>2, <1>4, <2>1, <3>1 DEF InQueue
  <2> QED  BY <1>1, <2>3 DEF KnownInv, NoJobForgotten
<1> QED  BY <1>0, <1>5, <1>6, <1>7, <1>8, <1>9

\* The except branch.
LEMMA ErrorKeeps == ASSUME IInv, OnError PROVE Safe'
<1> USE DEF IInv, Safe
<1>0. worker = "except" /\ UNCHANGED <<queue, position, request, handler, known, job, forgotten>>
  BY DEF OnError, api
<1>1. \/ job = NoJob /\ stage' = stage /\ worker' = "pop"
      \/ job \in Jobs /\ stage' \in {stage, [stage EXCEPT ![job] = "error"]} /\ worker' = "dead"
      \/ job \in Jobs /\ stage' = [stage EXCEPT ![job] = "error"] /\ worker' = "pop"
  BY DEF OnError, Applied, TypeOK
<1>2. \A j \in Jobs : stage'[j] = stage[j] \/ (j = job /\ stage'[j] = "error")
  BY <1>1 DEF TypeOK
<1>3. worker' \notin Busy \cup {"down"}  BY <1>1 DEF Busy, ChainStages
<1>4. QueueInv'
  <2>1. \A i \in 1..Len(queue) : queue[i] \in Jobs  BY DEF TypeOK
  <2> QED  BY <1>0, <1>2, <2>1 DEF QueueInv, PositionNeverWorse
<1>5. RequestInv'  BY <1>0, <1>2 DEF RequestInv
<1>6. JobInv'  BY <1>0, <1>2, <1>3, <1>1 DEF JobInv
<1>7. KnownInv'
  <2>1. ASSUME NEW j \in known, Unfinished(j)'
        PROVE  InQueue(j)' \/ (job = j /\ worker' # "pop") \/ j \in forgotten
    <3>0. j \in Jobs /\ stage'[j] # "error"  BY <2>1, ShownStages DEF TypeOK, Finished
    <3>1. Unfinished(j)  BY <1>2, <2>1, <3>0, ShownStages
    <3>2. InQueue(j) \/ job = j \/ j \in forgotten  BY <3>1 DEF KnownInv, NoJobForgotten
    <3>3. job = j => worker' # "pop"
      BY <1>1, <3>0, Nl2SqlAssumption DEF TypeOK, Nl2SqlAssumption
    <3> QED  BY <1>0, <3>2, <3>3 DEF InQueue
  <2>2. \A j \in known : stage'[j] # "new"  BY <1>2 DEF KnownInv, TypeOK
  <2> QED  BY <1>0, <2>1, <2>2 DEF KnownInv, NoJobForgotten
<1> QED  BY <1>4, <1>5, <1>6, <1>7

\* A new request: its id is on no list, with no thread and known to nobody.
LEMMA AskKeeps == ASSUME IInv, NEW j \in Jobs, Ask(j) PROVE Safe'
<1> USE DEF IInv, Safe
<1>1. /\ stage[j] = "new" /\ position' = [position EXCEPT ![j] = Len(queue) + 1]
      /\ request' = j /\ handler' = "hset" /\ UNCHANGED <<queue, stage, known, worker, job, forgotten>>
  BY DEF Ask, NextPosition
<1>2. \A i \in 1..Len(queue) : queue[i] \in Jobs /\ queue[i] # j
  BY <1>1 DEF QueueInv, TypeOK
<1>3. position'[j] = Len(queue) + 1 /\ \A k \in Jobs : k # j => position'[k] = position[k]
  BY <1>1 DEF TypeOK
<1>4. QueueInv'
  <2>1. DOMAIN queue = 1..Len(queue)  BY DEF TypeOK
  <2> QED  BY <1>1, <1>2, <1>3, <2>1 DEF QueueInv, PositionNeverWorse
<1>5. RequestInv'
  <2>1. Len(queue) \in Nat  BY DEF TypeOK
  <2>2. j \notin known  BY <1>1 DEF KnownInv
  <2>3. j # job  BY <1>1, Nl2SqlAssumption DEF JobInv, Nl2SqlAssumption
  <2> QED  BY <1>1, <1>2, <1>3, <2>1, <2>2, <2>3 DEF RequestInv
<1>6. JobInv'  BY <1>1 DEF JobInv
<1>7. KnownInv'  BY <1>1 DEF KnownInv, NoJobForgotten, InQueue, Unfinished, Shown
<1> QED  BY <1>4, <1>5, <1>6, <1>7

\* The commands of enqueue: an id gets on the list with its hash written, and is
\* known only then.
LEMMA HandlerKeeps == ASSUME IInv, Handler PROVE Safe' /\ queue' \in Seq(Jobs) /\ IsInjective(queue')
<1> USE DEF IInv, Safe
<1>0. queue \in Seq(Jobs) /\ IsInjective(queue)  BY DEF TypeOK
<1>1. CASE WriteHash
  <2>1. /\ handler = "hset" /\ UNCHANGED <<queue, position, worker, job, forgotten>>
        /\ known' = known
        /\ \/ handler' = "idle" /\ stage' \in {stage, [stage EXCEPT ![request] = "queued"]}
           \/ handler' = "expire" /\ request' = request /\ stage' = [stage EXCEPT ![request] = "queued"]
    BY <1>1 DEF WriteHash, HandlerStep, Applied
  <2>2. request \in Jobs /\ request \notin known /\ request # job /\ \A i \in 1..Len(queue) : queue[i] # request
    BY <2>1 DEF RequestInv
  <2>3. \A j \in Jobs : j # request => stage'[j] = stage[j]
    BY <2>1 DEF TypeOK
  <2>4. QueueInv'
    <3>1. \A i \in 1..Len(queue) : queue[i] \in Jobs  BY <1>0
    <3> QED  BY <2>1, <2>2, <2>3, <3>1 DEF QueueInv, PositionNeverWorse
  <2>5. RequestInv'  BY <2>1, <2>2 DEF RequestInv, TypeOK
  <2>6. JobInv'  BY <2>1, <2>2, <2>3 DEF JobInv, TypeOK
  <2>7. KnownInv'
    <3>1. \A j \in known : stage'[j] = stage[j]  BY <2>2, <2>3 DEF TypeOK
    <3>2. \A j \in known : Unfinished(j)' => Unfinished(j)  BY <3>1, ShownStages
    <3> QED  BY <2>1, <3>1, <3>2 DEF KnownInv, NoJobForgotten, InQueue
  <2> QED  BY <1>0, <2>1, <2>4, <2>5, <2>6, <2>7
<1>2. CASE SetTtl
  <2>1. /\ handler = "expire" /\ UNCHANGED <<queue, stage, position, worker, job, forgotten, known>>
        /\ handler' = "idle" \/ (handler' = "rpush" /\ request' = request)
    BY <1>2 DEF SetTtl, HandlerStep
  <2>2. QueueInv' /\ JobInv'  BY <2>1 DEF QueueInv, PositionNeverWorse, JobInv
  <2>3. RequestInv'  BY <2>1 DEF RequestInv
  <2>4. KnownInv'  BY <2>1, ShownStages DEF KnownInv, NoJobForgotten, InQueue
  <2> QED  BY <1>0, <2>1, <2>2, <2>3, <2>4
<1>3. CASE Push
  <2>1. /\ handler = "rpush" /\ handler' = "idle" /\ UNCHANGED <<stage, position, worker, job, forgotten>>
        /\ \/ queue' \in {queue, Append(queue, request)} /\ known' = known
           \/ queue' = Append(queue, request) /\ known' = known \cup {request}
    BY <1>3 DEF Push, HandlerStep, Applied, Pushed
  <2>2. /\ request \in Jobs /\ request # job /\ \A i \in 1..Len(queue) : queue[i] # request
        /\ stage[request] = "queued" /\ Len(queue) < position[request] /\ position[request] \in Nat
    BY <2>1 DEF RequestInv, TypeOK
  <2>3. ASSUME queue' = Append(queue, request)
        PROVE  /\ queue' \in Seq(Jobs) /\ IsInjective(queue') /\ DOMAIN queue' = 1..Len(queue')
               /\ Len(queue') = Len(queue) + 1 /\ Len(queue) \in Nat
               /\ \A i \in 1..Len(queue) : queue'[i] = queue[i]
               /\ queue'[Len(queue) + 1] = request
    BY <1>0, <2>2, <2>3, PushList, ListStaysDistinct
  <2>4. queue' \in Seq(Jobs) /\ IsInjective(queue')
    BY <1>0, <2>1, <2>3
  <2>5. QueueInv'
    <3>1. CASE queue' = queue  BY <2>1, <3>1 DEF QueueInv, PositionNeverWorse
    <3>2. CASE queue' = Append(queue, request)
      <4>1. \A i \in 1..Len(queue') : i \in 1..Len(queue) \/ i = Len(queue) + 1
        BY <2>3, <3>2
      <4>2. \A i \in 1..Len(queue) : i <= position[queue[i]]  BY <1>0 DEF QueueInv, PositionNeverWorse
      <4>3. Len(queue) + 1 <= position[request]  BY <2>2, <2>3, <3>2
      <4>4. \A i \in 1..Len(queue') : i <= position[queue'[i]]
        BY <2>3, <3>2, <4>1, <4>2, <4>3
      <4>5. \A i \in 1..Len(queue') : stage[queue'[i]] \in {"queued", "expired"} /\ queue'[i] # job
        BY <2>2, <2>3, <3>2, <4>1 DEF QueueInv
      <4> QED  BY <2>1, <2>3, <3>2, <4>4, <4>5 DEF QueueInv, PositionNeverWorse
    <3> QED  BY <2>1, <3>1, <3>2
  <2>6. RequestInv' /\ JobInv'  BY <2>1 DEF RequestInv, JobInv
  <2>7. KnownInv'
    <3>1. \A j : InQueue(j) => InQueue(j)'
      <4>1. CASE queue' = queue  BY <4>1 DEF InQueue
      <4>2. CASE queue' = Append(queue, request)
        BY <2>3, <4>2 DEF InQueue, Contains
      <4> QED  BY <2>1, <4>1, <4>2
    <3>2. queue' = Append(queue, request) => Contains(queue', request)
      BY <2>3 DEF Contains
    <3>3. \A j : Unfinished(j)' => Unfinished(j)  BY <2>1, ShownStages
    <3>4. \A j : InQueue(j)' <=> Contains(queue', j)  BY DEF InQueue
    <3> QED  BY <2>1, <2>2, <3>1, <3>2, <3>3, <3>4 DEF KnownInv, NoJobForgotten
  <2> QED  BY <2>4, <2>5, <2>6, <2>7
<1> QED  BY <1>1, <1>2, <1>3 DEF Handler

\* Time, a kill and a boot of the process, and a registration of the model.
LEMMA OthersKeep ==
    ASSUME IInv, Boot \/ Kill \/ Register \/ UNCHANGED vars \/ \E j \in Jobs : Expire(j)
    PROVE  Safe'
<1> USE DEF IInv, Safe
<1>1. ASSUME NEW j \in Jobs, Expire(j) PROVE Safe'
  <2>1. /\ stage' = [stage EXCEPT ![j] = "expired"] /\ stage[j] \notin {"new", "expired"} /\ j # request
        /\ UNCHANGED <<queue, position, request, handler, known, worker, job, forgotten>>
    BY <1>1 DEF Expire, api
  <2>2. stage'[j] = "expired" /\ \A k \in Jobs : k # j => stage'[k] = stage[k]
    BY <2>1 DEF TypeOK
  <2>3. QueueInv'
    <3>1. \A i \in 1..Len(queue) : queue[i] \in Jobs  BY DEF TypeOK
    <3> QED  BY <2>1, <2>2, <3>1 DEF QueueInv, PositionNeverWorse
  <2>4. RequestInv'  BY <2>1, <2>2 DEF RequestInv
  <2>5. JobInv'  BY <2>1, <2>2 DEF JobInv, TypeOK, Finished
  <2>6. KnownInv'
    <3>1. \A k \in known : Unfinished(k)' => Unfinished(k)  BY <2>2, ShownStages DEF TypeOK
    <3>2. \A k \in known : stage'[k] # "new"  BY <2>2 DEF KnownInv, TypeOK
    <3> QED  BY <2>1, <3>1, <3>2 DEF KnownInv, NoJobForgotten, InQueue
  <2> QED  BY <2>3, <2>4, <2>5, <2>6
<1>2. CASE Boot
  <2>1. worker = "down" /\ worker' = "pop" /\ UNCHANGED <<queue, stage, position, request, handler, known, job, forgotten>>
    BY <1>2 DEF Boot, redis, api
  <2>2. job = NoJob /\ NoJob \notin Jobs  BY <2>1, Nl2SqlAssumption DEF JobInv, Nl2SqlAssumption
  <2>3. QueueInv' /\ RequestInv' /\ JobInv'
    BY <2>1 DEF QueueInv, PositionNeverWorse, RequestInv, JobInv, Busy, ChainStages
  <2>4. KnownInv'
    BY <2>1, <2>2, ShownStages DEF KnownInv, NoJobForgotten, InQueue, TypeOK
  <2> QED  BY <2>3, <2>4
<1>3. CASE Kill
  <2>1. /\ worker' = "down" /\ job' = NoJob /\ handler' = "idle" /\ UNCHANGED <<queue, stage, position, known>>
        /\ forgotten' = forgotten \cup {j \in {job} \ {NoJob} : Unfinished(j)}
    BY <1>3 DEF Kill, redis
  <2>2. QueueInv'
    <3>1. \A i \in 1..Len(queue) : queue[i] # NoJob
      BY Nl2SqlAssumption DEF TypeOK, Nl2SqlAssumption
    <3> QED  BY <2>1, <3>1 DEF QueueInv, PositionNeverWorse
  <2>3. RequestInv' /\ JobInv'  BY <2>1 DEF RequestInv, JobInv, Busy, ChainStages
  <2>4. KnownInv'
    <3>1. \A j : Unfinished(j)' => Unfinished(j)  BY <2>1, ShownStages
    <3>2. \A j \in known : j # NoJob  BY Nl2SqlAssumption DEF TypeOK, Nl2SqlAssumption
    <3> QED  BY <2>1, <3>1, <3>2 DEF KnownInv, NoJobForgotten, InQueue
  <2> QED  BY <2>2, <2>3, <2>4
<1>4. CASE Register \/ UNCHANGED vars
  <2>1. UNCHANGED <<queue, stage, position, request, handler, known, worker, job, forgotten>>
    BY <1>4 DEF Register, vars, redis, api
  <2>2. QueueInv' /\ RequestInv' /\ JobInv'
    BY <2>1 DEF QueueInv, PositionNeverWorse, RequestInv, JobInv
  <2>3. KnownInv'  BY <2>1, ShownStages DEF KnownInv, NoJobForgotten, InQueue
  <2> QED  BY <2>2, <2>3
<1> QED  BY <1>1, <1>2, <1>3, <1>4

\* Types of everything but the list, which the lemmas above keep.
TypeRest ==
    /\ stage \in [Jobs -> Stages]
    /\ position \in [Jobs -> Nat]
    /\ request \in Jobs \cup {NoJob}
    /\ handler \in {"idle", "hset", "expire", "rpush"}
    /\ known \subseteq Jobs
    /\ worker \in ChainStages \cup {"pop", "question", "missing", "processing", "log", "done", "except", "dead", "down"}
    /\ job \in Jobs \cup {NoJob}
    /\ sql \in Candidates \cup {"none"}
    /\ vals \in 0 .. MaxValidation
    /\ execs \in 0 .. MaxExecution
    /\ model \in {"unloaded", "loaded", "broken"}
    /\ registered \in BOOLEAN
    /\ forgotten \subseteq Jobs
    /\ faults \in Nat

LEMMA Bounds == MaxValidation \in Nat /\ MaxExecution \in Nat
  BY Nl2SqlAssumption DEF Nl2SqlAssumption

\* The thread's steps while it has a job: what Reported leaves open.
LEMMA StepTypes == ASSUME IInv, Step PROVE TypeRest'
<1> USE DEF IInv
<1>0. Reported  BY StepReports
<1>1. stage' \in [Jobs -> Stages]  BY <1>0 DEF Reported, TypeOK
<1>2. worker' \in Busy \cup {"except", "pop"}  BY <1>0 DEF Reported
<1>3. UNCHANGED <<queue, position, request, handler, known, job, forgotten>>  BY <1>0 DEF Reported
<1>4. faults' \in Nat
  BY DEF Step, ReadQuestion, Missing, Take, LoadModel, Retrieve, Generate, Validate, Execute, LogRun, Answer,
         Report, Count, TypeOK
<1>5. sql' \in Candidates \cup {"none"}
  BY DEF Step, ReadQuestion, Missing, Take, LoadModel, Retrieve, Generate, Validate, Execute, LogRun, Answer,
         chain, TypeOK
<1>6. vals' \in 0..MaxValidation
  <2>1. ASSUME Validate PROVE vals' \in 0..MaxValidation
    <3> DEFINE After == CASE Verdict(sql) = "ok" -> {"sql_execution"}
                          [] Verdict(sql) = "ValueError" /\ ValidationAttempts < MaxValidation -> {"sql_generation"}
                          [] OTHER -> {"except"}
    <3>1. Report("sql_validation", "sql_validation", After)  BY <2>1 DEF Validate
    <3>2. worker' \in After \cup {"except"}  BY <3>1 DEF Report
    <3>3. "sql_generation" \in After => vals + 1 < MaxValidation  BY DEF ValidationAttempts
    <3> HIDE DEF After
    <3>4. worker' = "sql_generation" => vals + 1 < MaxValidation  BY <3>2, <3>3
    <3>5. vals' = IF worker' = "sql_generation" THEN vals + 1 ELSE vals
      BY <2>1 DEF Validate, ValidationAttempts
    <3> QED  BY <3>4, <3>5, Bounds DEF TypeOK
  <2>2. ~Validate => vals' \in {vals, 0}
    BY DEF Step, ReadQuestion, Missing, Take, LoadModel, Retrieve, Generate, Execute, LogRun, Answer, chain
  <2>3. vals \in 0..MaxValidation  BY DEF TypeOK
  <2> QED  BY <2>1, <2>2, <2>3, Bounds
<1>7. execs' \in 0..MaxExecution
  <2>1. ASSUME Execute PROVE execs' \in 0..MaxExecution
    <3> DEFINE After == CASE ~Retryable(sql) -> {"log", "except"}
                          [] execs + 1 < MaxExecution -> {"sql_generation"}
                          [] OTHER -> {"except"}
    <3>1. Report("sql_execution", "sql_execution", After)  BY <2>1 DEF Execute
    <3>2. worker' \in After \cup {"except"}  BY <3>1 DEF Report
    <3>3. "sql_generation" \in After => execs + 1 < MaxExecution  OBVIOUS
    <3> HIDE DEF After
    <3>4. worker' = "sql_generation" => execs + 1 < MaxExecution  BY <3>2, <3>3
    <3>5. execs' = IF worker' = "sql_generation" THEN execs + 1 ELSE execs
      BY <2>1 DEF Execute
    <3> QED  BY <3>4, <3>5, Bounds DEF TypeOK
  <2>2. ~Execute => execs' \in {execs, 0}
    BY DEF Step, ReadQuestion, Missing, Take, LoadModel, Retrieve, Generate, Validate, LogRun, Answer, chain
  <2>3. execs \in 0..MaxExecution  BY DEF TypeOK
  <2> QED  BY <2>1, <2>2, <2>3, Bounds
<1>8. model' \in {"unloaded", "loaded", "broken"} /\ registered' \in BOOLEAN
  <2>1. Loaded \subseteq {"unloaded", "loaded", "broken"}  BY DEF Loaded, TypeOK
  <2> QED  BY <2>1 DEF Step, ReadQuestion, Missing, Take, LoadModel, Retrieve, Generate, Validate, Execute, LogRun, Answer,
                       llm, TypeOK
<1> QED  BY <1>1, <1>2, <1>3, <1>4, <1>5, <1>6, <1>7, <1>8 DEF TypeRest, TypeOK, Busy

LEMMA OtherTypes == ASSUME IInv, Next \/ UNCHANGED vars, ~Step PROVE TypeRest'
<1> USE DEF IInv, TypeOK, TypeRest
<1>1. CASE Pop
  <2>1. Head(queue) \in Jobs  BY <1>1, PopList DEF Pop
  <2> QED  BY <1>1, <2>1 DEF Pop, api, chain, llm
<1>2. CASE PopFails
  <2>1. queue # <<>> => Head(queue) \in Jobs  BY PopList
  <2>2. faults' \in Nat  BY <1>2 DEF PopFails, Count
  <2>3. forgotten' \subseteq Jobs  BY <1>2, <2>1 DEF PopFails
  <2> QED  BY <1>2, <2>2, <2>3 DEF PopFails, api, chain, llm
<1>3. CASE OnError
  <2>1. faults' \in Nat  BY <1>3 DEF OnError, Count
  <2>2. stage' \in [Jobs -> Stages]  BY <1>3 DEF OnError, Stages
  <2> QED  BY <1>3, <2>1, <2>2 DEF OnError, api, chain, llm
<1>4. ASSUME NEW j \in Jobs, Ask(j) PROVE TypeRest'
  <2>1. position' \in [Jobs -> Nat]
    <3>1. Len(queue) + 1 \in Nat  OBVIOUS
    <3> QED  BY <1>4, <3>1 DEF Ask, NextPosition
  <2> QED  BY <1>4, <2>1 DEF Ask, chain, llm
<1>5. ASSUME NEW j \in Jobs, Expire(j) PROVE TypeRest'
  BY <1>5 DEF Expire, api, chain, llm, Stages
<1>6. CASE Handler
  <2>1. handler # "idle" /\ request \in Jobs
    BY <1>6 DEF Handler, WriteHash, SetTtl, Push, HandlerStep, Safe, RequestInv
  <2>2. faults' \in Nat  BY <1>6 DEF Handler, WriteHash, SetTtl, Push, HandlerStep, Count
  <2>3. stage' \in [Jobs -> Stages]  BY <1>6 DEF Handler, WriteHash, SetTtl, Push, Stages
  <2>4. /\ handler' \in {"idle", "hset", "expire", "rpush"} /\ request' \in {request, NoJob}
        /\ known' \in {known, known \cup {request}}
        /\ UNCHANGED <<position, worker, job, sql, vals, execs, model, registered, forgotten>>
    BY <1>6 DEF Handler, WriteHash, SetTtl, Push, HandlerStep, chain, llm
  <2> QED  BY <2>1, <2>2, <2>3, <2>4
<1>7. CASE Boot
  <2>1. registered' \in BOOLEAN  BY <1>7 DEF Boot, Bootstrapped
  <2> QED  BY <1>7, <2>1 DEF Boot, redis, api, chain
<1>8. CASE Kill
  <2>1. 0 \in 0..MaxValidation /\ 0 \in 0..MaxExecution  BY Bounds
  <2>2. forgotten' \subseteq Jobs  BY <1>8 DEF Kill
  <2> QED  BY <1>8, <2>1, <2>2 DEF Kill, redis
<1>9. CASE Register \/ UNCHANGED vars
  BY <1>9 DEF Register, vars, redis, api, chain, llm
<1> QED  BY <1>1, <1>2, <1>3, <1>4, <1>5, <1>6, <1>7, <1>8, <1>9 DEF Next, Worker, Step

LEMMA StepInv == IInv /\ [Next]_vars => IInv'
<1> SUFFICES ASSUME IInv, [Next]_vars PROVE IInv'
  OBVIOUS
<1>1. TypeRest'  BY StepTypes, OtherTypes
<1>2. CASE Step
  <2>1. Reported /\ Safe'  BY <1>2, StepReports, ReportedKeeps
  <2> QED  BY <1>1, <2>1 DEF Reported, IInv, TypeOK, TypeRest
<1>3. CASE Pop \/ PopFails \/ Handler
  BY <1>1, <1>3, PopKeeps, HandlerKeeps DEF IInv, TypeOK, TypeRest
<1>4. CASE ~Step /\ ~(Pop \/ PopFails \/ Handler)
  <2>1. Safe'  BY <1>4, ErrorKeeps, AskKeeps, OthersKeep DEF Next, Worker, Step
  <2>2. queue' = queue
    BY <1>4 DEF Next, Worker, Step, OnError, Ask, Expire, Boot, Kill, Register, vars, redis
  <2> QED  BY <1>1, <2>1, <2>2 DEF IInv, TypeOK, TypeRest
<1> QED  BY <1>2, <1>3, <1>4

\* Where each job id is and what its hash can say there.
THEOREM Inductive == Spec => []IInv
  BY InitIInv, StepInv, PTL DEF Spec

\* Type correctness of the application and its queue; no id is on the list twice.
THEOREM TypeCorrect == Spec => []TypeOK
  BY Inductive, PTL DEF IInv

\* A job a client was told of is on the list, with the thread, or was lost with a
\* pop or a process.
THEOREM KnownJobsAreNotForgotten == Spec => []NoJobForgotten
<1>1. IInv => NoJobForgotten
  BY DEF IInv, Safe, KnownInv
<1> QED  BY <1>1, Inductive, PTL

\* The position that enqueue recorded never understates the wait.
THEOREM RecordedPositionHolds == Spec => []PositionNeverWorse
<1>1. IInv => PositionNeverWorse
  BY DEF IInv, Safe, QueueInv
<1> QED  BY <1>1, Inductive, PTL

\* Only the except branch, and time, change a finished job.
THEOREM FinishedJobsStay == Spec => FinishedIsFinal
<1> DEFINE Stays == \A j \in Jobs : stage[j] \in Finished =>
                       \/ stage'[j] \in {stage[j], "expired"}
                       \/ stage'[j] = "error" /\ worker = "except" /\ job = j
<1>1. ASSUME IInv, Next PROVE Stays
  <2> USE <1>1 DEF IInv, Safe
  <2>1. ASSUME stage' = stage PROVE Stays  BY <2>1
  <2>2. CASE Step
    <3>1. Reported  BY <2>2, StepReports
    <3>2. stage[job] \notin Finished  BY <3>1 DEF Reported, JobInv
    <3>3. \A j \in Jobs : j # job => stage'[j] = stage[j]  BY <3>1 DEF Reported, TypeOK
    <3> QED  BY <3>2, <3>3
  <2>3. CASE OnError
    BY <2>3 DEF OnError, TypeOK
  <2>4. CASE WriteHash
    <3>1. stage[request] = "new" /\ request \in Jobs  BY <2>4 DEF WriteHash, HandlerStep, RequestInv
    <3>2. \A j \in Jobs : j # request => stage'[j] = stage[j]  BY <2>4 DEF WriteHash, TypeOK
    <3> QED  BY <3>1, <3>2 DEF Finished
  <2>5. ASSUME NEW j \in Jobs, Expire(j) PROVE Stays
    BY <2>5 DEF Expire, TypeOK
  <2>6. CASE Pop \/ PopFails \/ SetTtl \/ Push \/ Boot \/ Kill \/ Register \/ \E j \in Jobs : Ask(j)
    <3>1. stage' = stage
      BY <2>6 DEF Pop, PopFails, SetTtl, Push, Boot, Kill, Register, Ask, redis
    <3> QED  BY <2>1, <3>1
  <2> QED  BY <1>1, <2>2, <2>3, <2>4, <2>5, <2>6 DEF Next, Worker, Step, Handler
<1>2. IInv /\ [Next]_vars => [Stays]_stage
  BY <1>1 DEF vars, redis
<1> QED  BY <1>2, Inductive, PTL DEF Spec, FinishedIsFinal, Finished
-----------------------------------------------------------------------------
\* The jobs that may still come to the list, as JobQueue sees them.
Fresh == {j \in Jobs : position[j] = 0 \/ (handler # "idle" /\ j = request)}

\* Only a request or a kill ends what makes a job fresh.
LEMMA FreshStays ==
    ASSUME UNCHANGED <<position, request, handler>>
    PROVE  Fresh' = Fresh
  BY DEF Fresh

\* A request that is over has its job on the list or nowhere.
LEMMA RequestEnds ==
    ASSUME IInv, handler # "idle", handler' = "idle", position' = position
    PROVE  request \in Fresh /\ Fresh' = Fresh \ {request}
<1>1. request \in Jobs /\ position[request] # 0
  BY DEF IInv, Safe, RequestInv, TypeOK
<1> QED  BY <1>1 DEF Fresh

\* The commands of enqueue: the push accepts the job, a failure rejects it.
LEMMA HandlerSimulates ==
    ASSUME IInv, Handler
    PROVE  Queue!Next \/ UNCHANGED Queue!vars
<1> USE DEF Queue!Next
<1>1. handler # "idle" /\ UNCHANGED <<position, job>>
  BY DEF Handler, WriteHash, SetTtl, Push, HandlerStep
<1>2. CASE Push
  <2>1. handler' = "idle"  BY <1>2 DEF Push, HandlerStep
  <2>2. request \in Fresh /\ Fresh' = Fresh \ {request}  BY <1>1, <2>1, RequestEnds
  <2>3. queue' = Append(queue, request) \/ queue' = queue  BY <1>2 DEF Push, Pushed
  <2> QED  BY <1>1, <2>2, <2>3 DEF Queue!Accept, Queue!Reject, Fresh
<1>3. CASE WriteHash \/ SetTtl
  <2>1. queue' = queue  BY <1>3 DEF WriteHash, SetTtl
  <2>2. CASE handler' = "idle"
    <3>1. request \in Fresh /\ Fresh' = Fresh \ {request}  BY <1>1, <2>2, RequestEnds
    <3> QED  BY <1>1, <2>1, <3>1 DEF Queue!Reject, Fresh
  <2>3. CASE handler' # "idle"
    <3>1. request' = request  BY <1>3, <2>3 DEF WriteHash, SetTtl, HandlerStep
    <3>2. Fresh' = Fresh  BY <1>1, <2>3, <3>1 DEF Fresh
    <3> QED  BY <1>1, <2>1, <3>2 DEF Queue!vars, Fresh
  <2> QED  BY <2>2, <2>3
<1> QED  BY <1>2, <1>3 DEF Handler

\* Each step of the application is a step of JobQueue or changes nothing of it.
LEMMA StepSimulates ==
    ASSUME IInv, [Next]_vars
    PROVE  [Queue!Next]_(Queue!vars)
<1> USE DEF Queue!Next
<1>1. CASE Handler  BY <1>1, HandlerSimulates
<1>2. CASE Pop
  <2>1. UNCHANGED <<position, request, handler>>  BY <1>2 DEF Pop, api
  <2>2. Fresh' = Fresh  BY <2>1, FreshStays
  <2>3. queue # <<>> /\ queue' = Tail(queue) /\ job' = Head(queue)  BY <1>2 DEF Pop
  <2> QED  BY <2>2, <2>3 DEF Queue!Deliver, Fresh
<1>3. CASE PopFails
  <2>1. UNCHANGED <<position, request, handler, job>>  BY <1>3 DEF PopFails, api
  <2>2. Fresh' = Fresh  BY <2>1, FreshStays
  <2>3. (queue # <<>> /\ queue' = Tail(queue)) \/ queue' = queue  BY <1>3 DEF PopFails
  <2> QED  BY <2>1, <2>2, <2>3 DEF Queue!Deliver, Queue!vars, Fresh
<1>4. CASE Kill
  <2>1. job' = NoJob /\ handler' = "idle" /\ UNCHANGED <<queue, position>>
    BY <1>4 DEF Kill, redis
  <2>2. CASE handler = "idle"
    <3>1. Fresh' = Fresh  BY <2>1, <2>2 DEF Fresh
    <3> QED  BY <2>1, <3>1 DEF Queue!Restart, Fresh
  <2>3. CASE handler # "idle"
    <3>1. request \in Fresh /\ Fresh' = Fresh \ {request}  BY <2>1, <2>3, RequestEnds
    <3> QED  BY <2>1, <3>1 DEF Queue!Restart, Fresh
  <2> QED  BY <2>2, <2>3
<1>5. ASSUME NEW j \in Jobs, Ask(j) PROVE UNCHANGED Queue!vars
  <2>1. /\ UNCHANGED <<queue, job>>
        /\ handler = "idle" /\ handler' = "hset" /\ request' = j
        /\ position[j] = 0 /\ position' = [position EXCEPT ![j] = Len(queue) + 1]
    BY <1>5 DEF Ask, NextPosition
  <2>2. \A k \in Jobs : k # j => position'[k] = position[k]
    BY <2>1 DEF IInv, TypeOK
  <2>3. Fresh' = Fresh  BY <2>1, <2>2 DEF Fresh
  <2> QED  BY <2>1, <2>3 DEF Queue!vars, Fresh
<1>6. CASE Step \/ OnError \/ Boot \/ Register \/ UNCHANGED vars \/ \E j \in Jobs : Expire(j)
  <2>1. CASE Step
    BY <2>1, StepReports, FreshStays DEF Reported, Queue!vars, Fresh
  <2>2. CASE ~Step
    <3>1. UNCHANGED <<queue, position, request, handler, job>>
      BY <1>6, <2>2 DEF OnError, Boot, Register, Expire, vars, redis, api
    <3> QED  BY <3>1, FreshStays DEF Queue!vars, Fresh
  <2> QED  BY <2>1, <2>2
<1> QED  BY <1>1, <1>2, <1>3, <1>4, <1>5, <1>6 DEF Next, Worker, Step

\* The application implements JobQueue: a job is handed to the thread once at most
\* and in the order of the list, whatever Redis command fails or process dies.
THEOREM Refinement == Spec => QueueSpec
<1>1. Init => Queue!Init
  BY DEF Init, Queue!Init
<1>2. IInv /\ [Next]_vars => [Queue!Next]_(Queue!vars)
  BY StepSimulates
<1> QED  BY <1>1, <1>2, Inductive, PTL DEF Spec, QueueSpec, Queue!Spec

\* A job that can no longer come to the list and is not on it.
Gone(j) == j \notin Fresh /\ \A i \in 1..Len(queue) : queue[i] # j

\* A job that has left the list, or never came to it, stays away, and the thread
\* takes it up no more: each question is answered at most once.
THEOREM HandedOutOnce == Spec => [][\A j \in Jobs : Gone(j) => Gone(j)' /\ (job' = j => job = j)]_vars
<1>1. ASSUME IInv, [Next]_vars, NEW j \in Jobs, Gone(j)
      PROVE  Gone(j)' /\ (job' = j => job = j)
  <2> USE <1>1 DEF Gone
  <2>0. queue \in Seq(Jobs) /\ j # NoJob
    BY Nl2SqlAssumption DEF IInv, TypeOK, Nl2SqlAssumption
  <2>1. CASE Queue!Accept
    <3>1. PICK k \in Fresh : queue' = Append(queue, k) /\ Fresh' = Fresh \ {k} /\ job' = job
      BY <2>1 DEF Queue!Accept, Fresh
    <3>2. k \in Jobs /\ k # j
      BY <3>1 DEF Fresh
    <3>3. \A i \in 1..Len(queue') : queue'[i] = k \/ (i \in 1..Len(queue) /\ queue'[i] = queue[i])
      BY <2>0, <3>1, <3>2, PushList
    <3> QED  BY <3>1, <3>2, <3>3
  <2>2. CASE Queue!Reject
    BY <2>2 DEF Queue!Reject, Fresh
  <2>3. CASE Queue!Deliver
    <3>1. queue # <<>> /\ queue' = Tail(queue) /\ job' \in {Head(queue), job} /\ Fresh' = Fresh
      BY <2>3 DEF Queue!Deliver, Fresh
    <3>2. Head(queue) = queue[1] /\ Len(queue) \in Nat \ {0}
      BY <2>0, <3>1, PopList
    <3>3. \A i \in 1..Len(queue') : i + 1 \in 1..Len(queue) /\ queue'[i] = queue[i + 1]
      BY <2>0, <3>1, PopList
    <3>4. Head(queue) # j
      BY <3>2
    <3> QED  BY <3>1, <3>3, <3>4
  <2>4. CASE Queue!Restart
    <3>1. job' = NoJob /\ queue' = queue /\ Fresh' \subseteq Fresh
      BY <2>4 DEF Queue!Restart, Fresh
    <3> QED  BY <2>0, <3>1
  <2>5. CASE UNCHANGED Queue!vars
    <3>1. job' = job /\ queue' = queue /\ Fresh' = Fresh
      BY <2>5 DEF Queue!vars, Fresh
    <3> QED  BY <3>1
  <2> QED  BY <2>1, <2>2, <2>3, <2>4, <2>5, StepSimulates DEF Queue!Next
<1>2. IInv /\ [Next]_vars => [\A j \in Jobs : Gone(j) => Gone(j)' /\ (job' = j => job = j)]_vars
  BY <1>1
<1> QED  BY <1>2, Inductive, PTL DEF Spec
=============================================================================
