---------------------------- MODULE EvaluationJobs ----------------------------
(***************************************************************************)
(* The evaluation_jobs table (src/src/database/evaluation_jobs.py): every  *)
(* statement that writes it is one action, whose guard is the statement's  *)
(* WHERE clause or the table's partial unique index.  Nothing is assumed   *)
(* here of the callers: they may issue any statement at any time, with the *)
(* timestamp they took earlier.  EvaluationWorker composes these actions   *)
(* into the handlers, the worker and the evaluator threads of the server.  *)
(*                                                                         *)
(* A session has one owner, so the owner column of a job is that of its    *)
(* session and is left out; so are the error text and the client source.   *)
(***************************************************************************)
EXTENDS Integers, FiniteSets

CONSTANTS
  JobIds,         \* primary keys (uuid4) that may be drawn
  SessionIds,     \* sessions that may be evaluated
  Evaluators,     \* agents a job may name
  NoJob,          \* the value of jobs[j] while no row has the key j
  Never,          \* a NULL timestamp
  JobTimeout,     \* EVALUATION_JOB_TIMEOUT_SECONDS
  MaxTime         \* bound of the clock

VARIABLES
  jobs,           \* jobs[j]: the row with primary key j, or NoJob
  now             \* wall clock

jobsVars == <<jobs, now>>

Time == 0 .. MaxTime
Triggers == {"manual", "auto"}
ActiveStatuses == {"queued", "running"}
TerminalStatuses == {"succeeded", "failed"}
Statuses == ActiveStatuses \cup TerminalStatuses

JobRow ==
  [session   : SessionIds,
   trigger   : Triggers,
   evaluator : Evaluators,
   status    : Statuses,
   created   : Time,
   started   : Time \cup {Never},
   finished  : Time \cup {Never}]

ASSUME JobsAssumption ==
  /\ JobTimeout \in Nat \ {0}
  /\ MaxTime \in Nat
  /\ Never \notin Nat
  /\ NoJob \notin JobRow

Rows == {j \in JobIds : jobs[j] # NoJob}
WithStatus(S) == {j \in Rows : jobs[j].status \in S}
ActiveJobs(s) == {j \in WithStatus(ActiveStatuses) : jobs[j].session = s}

\* Mutant: staleness measured from the creation of a running job as well.
StaleMarkerCreated(row) == row.created

\* The timestamp staleness is measured from: started_at of a running job,
\* created_at of a queued one.
StaleMarker(row) ==
  IF row.status = "running" /\ row.started # Never
  THEN row.started ELSE row.created

IsStale(row, at) == StaleMarker(row) + JobTimeout <= at

-----------------------------------------------------------------------------

\* Mutant: the unique index covers queued jobs only.
CreateJobBesideRunning(j, s, trigger, evaluator) ==
  /\ jobs[j] = NoJob
  /\ ActiveJobs(s) \cap WithStatus({"queued"}) = {}
  /\ jobs' = [jobs EXCEPT ![j] =
       [session |-> s, trigger |-> trigger, evaluator |-> evaluator,
        status |-> "queued", created |-> now,
        started |-> Never, finished |-> Never]]

\* INSERT of a queued job; the partial unique index admits one active job per
\* session.
CreateJob(j, s, trigger, evaluator) ==
  /\ jobs[j] = NoJob
  /\ ActiveJobs(s) = {}
  /\ jobs' = [jobs EXCEPT ![j] =
       [session |-> s, trigger |-> trigger, evaluator |-> evaluator,
        status |-> "queued", created |-> now,
        started |-> Never, finished |-> Never]]

\* UPDATE ... WHERE status = 'queued' AND trigger = 'auto'.
PromoteToManual(j, evaluator) ==
  /\ j \in WithStatus({"queued"})
  /\ jobs[j].trigger = "auto"
  /\ jobs' = [jobs EXCEPT ![j] =
       [@ EXCEPT !.trigger = "manual", !.evaluator = evaluator]]

\* Mutant: the WHERE clause admits running jobs.
UpdateActiveEvaluator(j, evaluator) ==
  /\ j \in WithStatus(ActiveStatuses)
  /\ jobs' = [jobs EXCEPT ![j] = [@ EXCEPT !.evaluator = evaluator]]

\* UPDATE evaluator_type ... WHERE status = 'queued'.
UpdateQueuedEvaluator(j, evaluator) ==
  /\ j \in WithStatus({"queued"})
  /\ jobs' = [jobs EXCEPT ![j] = [@ EXCEPT !.evaluator = evaluator]]

\* Mutant: failed jobs are claimed again.
ClaimFailedToo(j, at) ==
  /\ j \in WithStatus({"queued", "failed"})
  /\ jobs' = [jobs EXCEPT ![j] =
       [@ EXCEPT !.status = "running", !.started = at, !.finished = Never]]

\* The conditional UPDATE of a claim; at is when the caller read the clock.
ClaimJob(j, at) ==
  /\ j \in WithStatus({"queued"})
  /\ jobs' = [jobs EXCEPT ![j] =
       [@ EXCEPT !.status = "running", !.started = at]]

\* Mutant: the expiry forgets finished_at.
FailStaleWithoutEnd(J, at) ==
  /\ J \subseteq WithStatus(ActiveStatuses)
  /\ \A j \in J : IsStale(jobs[j], at)
  /\ jobs' = [j \in JobIds |->
       IF j \in J THEN [jobs[j] EXCEPT !.status = "failed"] ELSE jobs[j]]

\* One transaction that expires the jobs J.  The WHERE clause repeats the
\* status and the marker the caller read, so a row is failed only if it is
\* still active and still stale.
FailStaleJobs(J, at) ==
  /\ J \subseteq WithStatus(ActiveStatuses)
  /\ \A j \in J : IsStale(jobs[j], at)
  /\ jobs' = [j \in JobIds |->
       IF j \in J
       THEN [jobs[j] EXCEPT !.status = "failed", !.finished = at]
       ELSE jobs[j]]

\* Mutant: no condition on the status, as an ORM assignment would be.
MarkSucceededAlways(j) ==
  /\ j \in Rows
  /\ jobs' = [jobs EXCEPT ![j] =
       [@ EXCEPT !.status = "succeeded", !.finished = now]]

MarkSucceeded(j) ==
  /\ j \in WithStatus({"running"})
  /\ jobs' = [jobs EXCEPT ![j] =
       [@ EXCEPT !.status = "succeeded", !.finished = now]]

MarkFailed(j) ==
  /\ j \in WithStatus({"running"})
  /\ jobs' = [jobs EXCEPT ![j] =
       [@ EXCEPT !.status = "failed", !.finished = now]]

ClockTick ==
  /\ now < MaxTime
  /\ now' = now + 1
  /\ UNCHANGED jobs

JobsInit ==
  /\ jobs = [j \in JobIds |-> NoJob]
  /\ now = 0

Statement ==
  \/ \E j \in JobIds, s \in SessionIds, t \in Triggers, e \in Evaluators :
       CreateJob(j, s, t, e)
  \/ \E j \in JobIds, e \in Evaluators : PromoteToManual(j, e)
  \/ \E j \in JobIds, e \in Evaluators : UpdateQueuedEvaluator(j, e)
  \/ \E j \in JobIds, at \in 0 .. now : ClaimJob(j, at)
  \/ \E J \in SUBSET JobIds, at \in 0 .. now : FailStaleJobs(J, at)
  \/ \E j \in JobIds : MarkSucceeded(j)
  \/ \E j \in JobIds : MarkFailed(j)

JobsNext ==
  \/ Statement /\ UNCHANGED now
  \/ ClockTick

JobsSpec == JobsInit /\ [][JobsNext]_jobsVars

-----------------------------------------------------------------------------

StampsMatchStatus(row) ==
  /\ row.status = "queued" => row.started = Never
  /\ row.status = "running" => row.started # Never
  /\ (row.finished # Never) <=> (row.status \in TerminalStatuses)

\* Every row has the columns and the values the table declares; a queued job
\* was never started, a running one was, only a terminal job has an end.
JobsTypeOK ==
  /\ jobs \in [JobIds -> JobRow \cup {NoJob}]
  /\ now \in Time
  /\ \A j \in Rows : StampsMatchStatus(jobs[j])

\* However creations, claims, expiries and completions interleave, a session
\* never has two active jobs (ix_evaluation_jobs_one_active_per_session).
OneActivePerSession ==
  \A j, k \in WithStatus(ActiveStatuses) :
    jobs[j].session = jobs[k].session => j = k

\* A late completion, claim or expiry never rewrites a job that already ended:
\* the terminal row, its finish time included, is final.
TerminalJobsFinal ==
  [][\A j \in WithStatus(TerminalStatuses) : jobs'[j] = jobs[j]]_jobsVars

\* What a running job is evaluated with, and for which session, is fixed from
\* the claim on: neither a promotion nor a change of evaluator reaches it.
ClaimedJobFixed ==
  [][\A j \in WithStatus({"running"}) :
       /\ jobs'[j].evaluator = jobs[j].evaluator
       /\ jobs'[j].trigger = jobs[j].trigger
       /\ jobs'[j].started = jobs[j].started]_jobsVars

\* The slot of a session is the status of its active job.
SlotOf(s) ==
  IF ActiveJobs(s) = {} THEN "idle"
  ELSE jobs[CHOOSE j \in ActiveJobs(s) : TRUE].status

Slots == INSTANCE EvaluationSlots WITH slot <- [s \in SessionIds |-> SlotOf(s)]

\* Seen from its sessions the table is a set of one-request slots: no claim
\* without a request, no second request while one is active.
ImplementsSlots == Slots!SlotsSpec

===============================================================================
