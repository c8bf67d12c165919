--------------------------- MODULE EvaluationWorker ---------------------------
(***************************************************************************)
(* The API processes at work on the evaluation queue.  A process runs one  *)
(* event loop, which serves one API request at a time (its handlers never  *)
(* await between two database calls) and drives the evaluation worker; a   *)
(* worker tick runs in a thread of its own, never two at once, and so does *)
(* the evaluator of every job the tick claimed.  Handlers, tick and        *)
(* evaluators meet only in the database: each action below is one          *)
(* transaction of one of them, or the step that follows it, and what a     *)
(* thread read is kept in its record until it is used.                     *)
(*                                                                         *)
(* The evaluation_jobs table is EvaluationJobs, the sessions table         *)
(* SessionEvaluation; their actions are the statements issued here.        *)
(***************************************************************************)
EXTENDS Integers, FiniteSets, FiniteSetsExt

CONSTANTS
  Processes,          \* API processes sharing the database
  JobIds, SessionIds, Evaluators, Verdicts,
  DefaultEvaluator,   \* evaluation.evaluator of the configuration
  EvaluatorSessions,  \* sessions whose transcript is an evaluator's own prompt
  AutoEnabled,        \* evaluation.auto_enabled and the evaluator is installed
  MaxConcurrent,      \* evaluation.max_concurrent_jobs
  BufferMultiplier,   \* evaluation.queue_buffer_multiplier
  QuietDelay,         \* evaluation.quiet_delay_seconds
  JobTimeout,         \* EVALUATION_JOB_TIMEOUT_SECONDS
  EvaluationTimeout,  \* EVALUATION_TIMEOUT_SECONDS
  NoJob, NoSession, NoThread, NoOp, Never,
  MaxTime,            \* bound of the clock
  MaxRequests,        \* bound of the requests that start or change a job
  MaxHandWrites,      \* bound of the manual verdicts given or deleted
  MaxUsages,          \* bound of the usage rows recorded
  MaxFaults           \* bound of the crashes and failed ticks

ASSUME WorkerAssumption ==
  /\ MaxConcurrent \in Nat \ {0}
  /\ BufferMultiplier \in Nat \ {0}
  /\ QuietDelay \in Nat \ {0}
  /\ EvaluationTimeout \in Nat \ {0}
  /\ DefaultEvaluator \in Evaluators
  /\ EvaluatorSessions \subseteq SessionIds
  /\ AutoEnabled \in BOOLEAN
  /\ {MaxRequests, MaxHandWrites, MaxUsages, MaxFaults} \subseteq Nat

VARIABLES
  jobs, now,                                      \* EvaluationJobs
  sessions, writing, handVerdict, contended, raced,   \* SessionEvaluation
  up,         \* up[p]: process p runs
  api,        \* api[p]: the request its event loop serves
  tick,       \* tick[p]: the worker tick of p
  thread,     \* thread[j]: the evaluator thread of job j
  spent       \* how much of each bound is used

\* The threads that write session rows.
Api(p) == <<"api", p>>
Tick(p) == <<"tick", p>>
Eval(j) == <<"evaluator", j>>
Writers == {Api(p) : p \in Processes} \cup {Tick(p) : p \in Processes}
             \cup {Eval(j) : j \in JobIds}

Jobs == INSTANCE EvaluationJobs
Rows == INSTANCE SessionEvaluation

Idle == [pc |-> "idle"]

\* What a request, a tick and an evaluator thread hold between two steps.
ApiStates ==
  {Idle, [pc |-> "write"]}
  \cup [pc : {"find", "create"}, session : SessionIds, evaluator : Evaluators]
  \cup [pc : {"expire", "promote", "retarget"}, job : JobIds,
        status : Jobs!Statuses, session : SessionIds, evaluator : Evaluators]
  \cup [pc : {"retarget"}, job : JobIds, evaluator : Evaluators]

Claims == SUBSET (JobIds \X Evaluators)

TickStates ==
  {Idle}
  \cup [pc : {"stale", "list"}]
  \cup [pc : {"expire"}, at : Jobs!Time, stale : SUBSET JobIds]
  \cup [pc : {"classify", "mark", "enqueue"}, todo : SUBSET SessionIds]
  \cup [pc : {"select"}, slots : Nat \ {0}]
  \cup [pc : {"limit", "return"}, claimed : Claims]
  \cup [pc : {"pick"}, at : Jobs!Time, claimed : Claims]
  \cup [pc : {"claim"}, job : JobIds, at : Jobs!Time, claimed : Claims]

ThreadStates ==
  [pc : {"start", "succeed", "fail"}, process : Processes, evaluator : Evaluators]
  \cup [pc : {"evaluate", "commit", "succeed", "fail"}, process : Processes,
        evaluator : Evaluators, began : Jobs!Time]

ASSUME TablesAssumption ==
  /\ Jobs!JobsAssumption
  /\ Rows!SessionsAssumption
  /\ NoThread \notin ThreadStates
  /\ IsFiniteSet(JobIds) /\ IsFiniteSet(SessionIds) /\ IsFiniteSet(Processes)

rowVars == <<sessions, writing, handVerdict, contended, raced>>
vars == <<jobs, now, rowVars, up, api, tick, thread, spent>>

Queued == Jobs!WithStatus({"queued"})
Running == Jobs!WithStatus({"running"})
Active == Jobs!WithStatus({"queued", "running"})
FreeIds == {j \in JobIds : jobs[j] = NoJob}
FreshId == CHOOSE j \in FreeIds : TRUE
IsManual(s) == sessions[s] # NoSession /\ sessions[s].source = "manual"

Spend(what, limit) ==
  /\ spent[what] < limit
  /\ spent' = [spent EXCEPT ![what] = @ + 1]

\* INSERT of a job; on a conflict with the active-job index, or when the model
\* has no key left, the table stays as it is.
InsertJob(s, trigger, evaluator) ==
  \/ FreeIds # {} /\ Jobs!CreateJob(FreshId, s, trigger, evaluator)
  \/ (FreeIds = {} \/ Jobs!ActiveJobs(s) # {}) /\ UNCHANGED jobs

\* A conditional UPDATE that matches no row changes nothing.
UpdateIf(matches, update) == (matches /\ update) \/ (~matches /\ UNCHANGED jobs)

-----------------------------------------------------------------------------
(* The API handlers. *)

ApiAt(p, pc) == up[p] /\ api[p].pc = pc
ApiTo(p, state) == api' = [api EXCEPT ![p] = state]

\* POST evaluate-with-llm: the session exists and is not manual (404, 409).
RequestEvaluation(p, s, e) ==
  /\ ApiAt(p, "idle")
  /\ sessions[s] # NoSession /\ ~IsManual(s)
  /\ Spend("requests", MaxRequests)
  /\ ApiTo(p, [pc |-> "find", session |-> s, evaluator |-> e])
  /\ UNCHANGED <<jobs, now, rowVars, up, tick, thread>>

\* find_active_session_evaluation_job, up to its decision.
FindActive(p) ==
  /\ ApiAt(p, "find")
  /\ LET r == api[p]
         active == Jobs!ActiveJobs(r.session)
         With(pc, j) == [pc |-> pc, job |-> j, status |-> jobs[j].status,
                         session |-> r.session, evaluator |-> r.evaluator]
     IN \/ /\ active = {}
           /\ ApiTo(p, [r EXCEPT !.pc = "create"])
        \/ \E j \in active :
             \/ /\ Jobs!IsStale(jobs[j], now)
                /\ ApiTo(p, With("expire", j))
             \/ /\ ~Jobs!IsStale(jobs[j], now)
                /\ ApiTo(p,
                     IF jobs[j].trigger = "auto" THEN With("promote", j)
                     ELSE IF jobs[j].status = "queued" THEN With("retarget", j)
                     ELSE Idle)
  /\ UNCHANGED <<jobs, now, rowVars, up, tick, thread, spent>>

\* The stale job found is failed, if it still is what was read; then a new job
\* is created in any case.
ExpireFound(p) ==
  /\ ApiAt(p, "expire")
  /\ LET r == api[p] IN
     /\ UpdateIf(jobs[r.job].status = r.status, Jobs!FailStaleJobs({r.job}, now))
     /\ ApiTo(p, [pc |-> "create", session |-> r.session, evaluator |-> r.evaluator])
  /\ UNCHANGED <<now, rowVars, up, tick, thread, spent>>

\* promote_evaluation_job_to_manual; the row it returns is the answer, promoted
\* or not.
Promote(p) ==
  /\ ApiAt(p, "promote")
  /\ LET r == api[p] IN
     UpdateIf(r.job \in Queued /\ jobs[r.job].trigger = "auto",
              Jobs!PromoteToManual(r.job, r.evaluator))
  /\ ApiTo(p, Idle)
  /\ UNCHANGED <<now, rowVars, up, tick, thread, spent>>

\* Mutant: the job the handler saw queued is changed even if it was claimed.
RetargetUnchecked(p) ==
  /\ ApiAt(p, "retarget")
  /\ LET r == api[p] IN
     jobs' = [jobs EXCEPT ![r.job] = [@ EXCEPT !.evaluator = r.evaluator]]
  /\ ApiTo(p, Idle)
  /\ UNCHANGED <<now, rowVars, up, tick, thread, spent>>

\* update_queued_evaluation_job_evaluator, for a repeated start or a PATCH.
Retarget(p) ==
  /\ ApiAt(p, "retarget")
  /\ LET r == api[p] IN
     UpdateIf(r.job \in Queued, Jobs!UpdateQueuedEvaluator(r.job, r.evaluator))
  /\ ApiTo(p, Idle)
  /\ UNCHANGED <<now, rowVars, up, tick, thread, spent>>

CreateRequested(p) ==
  /\ ApiAt(p, "create")
  /\ InsertJob(api[p].session, "manual", api[p].evaluator)
  /\ ApiTo(p, Idle)
  /\ UNCHANGED <<now, rowVars, up, tick, thread, spent>>

\* PATCH of a job: it was queued when the handler looked (else 409).
RequestEvaluator(p, j, e) ==
  /\ ApiAt(p, "idle")
  /\ j \in Queued
  /\ Spend("requests", MaxRequests)
  /\ ApiTo(p, [pc |-> "retarget", job |-> j, evaluator |-> e])
  /\ UNCHANGED <<jobs, now, rowVars, up, tick, thread>>

\* PUT and DELETE of a manual evaluation, up to the load of the row.
WriteByHand(p, s) ==
  /\ ApiAt(p, "idle")
  /\ Spend("handWrites", MaxHandWrites)
  /\ \/ \E v \in Verdicts : Rows!LoadForUpsert(Api(p), s, "manual", v, FALSE)
     \/ Rows!LoadForDelete(Api(p), s)
  /\ ApiTo(p, [pc |-> "write"])
  /\ UNCHANGED <<jobs, now, up, tick, thread>>

CommitByHand(p) ==
  /\ ApiAt(p, "write")
  /\ Rows!CommitWrite(Api(p))
  /\ ApiTo(p, Idle)
  /\ UNCHANGED <<jobs, now, up, tick, thread, spent>>

ApiStep(p) ==
  \/ FindActive(p) \/ ExpireFound(p) \/ Promote(p) \/ Retarget(p)
  \/ CreateRequested(p) \/ CommitByHand(p)

ApiRequest(p) ==
  \/ \E s \in SessionIds, e \in Evaluators : RequestEvaluation(p, s, e)
  \/ \E j \in JobIds, e \in Evaluators : RequestEvaluator(p, j, e)
  \/ \E s \in SessionIds : WriteByHand(p, s)

-----------------------------------------------------------------------------
(* The worker tick: _claim_evaluation_jobs in a thread. *)

TickAt(p, pc) == up[p] /\ tick[p].pc = pc
TickTo(p, state) == tick' = [tick EXCEPT ![p] = state]

\* run_evaluation_worker, on the event loop, starts a tick when none is in
\* flight.
StartTick(p) ==
  /\ TickAt(p, "idle")
  /\ ApiAt(p, "idle")
  /\ TickTo(p, [pc |-> "stale"])
  /\ UNCHANGED <<jobs, now, rowVars, up, api, thread, spent>>

\* Mutant: the expiry looks at queued jobs.
ReadStaleQueued(p) ==
  /\ TickAt(p, "stale")
  /\ TickTo(p, [pc |-> "expire", at |-> now,
                stale |-> {j \in Queued : Jobs!IsStale(jobs[j], now)}])
  /\ UNCHANGED <<jobs, now, rowVars, up, api, thread, spent>>

\* fail_stale_running_evaluation_jobs: the running jobs are read and judged,
\* then failed where they are still running.
ReadStale(p) ==
  /\ TickAt(p, "stale")
  /\ TickTo(p, [pc |-> "expire", at |-> now,
                stale |-> {j \in Running : Jobs!IsStale(jobs[j], now)}])
  /\ UNCHANGED <<jobs, now, rowVars, up, api, thread, spent>>

\* Mutant: what was read running is failed without a second look.
ExpireAllRead(p) ==
  /\ TickAt(p, "expire")
  /\ jobs' = [j \in JobIds |->
       IF j \in tick[p].stale
       THEN [jobs[j] EXCEPT !.status = "failed", !.finished = tick[p].at]
       ELSE jobs[j]]
  /\ TickTo(p, [pc |-> "list"])
  /\ UNCHANGED <<now, rowVars, up, api, thread, spent>>

ExpireStale(p) ==
  /\ TickAt(p, "expire")
  /\ LET still == tick[p].stale \cap Running IN
     UpdateIf(still # {}, Jobs!FailStaleJobs(still, tick[p].at))
  /\ TickTo(p, [pc |-> "list"])
  /\ UNCHANGED <<now, rowVars, up, api, thread, spent>>

\* classify_local_evaluator_sessions: the evaluator's own sessions that are
\* neither manual nor marked yet.
ListEvaluatorSessions(p) ==
  /\ TickAt(p, "list")
  /\ TickTo(p, [pc |-> "classify",
                todo |-> {s \in EvaluatorSessions :
                            /\ sessions[s] # NoSession
                            /\ sessions[s].source # "manual"
                            /\ sessions[s].outcome # NoOp}])
  /\ UNCHANGED <<jobs, now, rowVars, up, api, thread, spent>>

\* Mutant: a listed session is marked although it may be manual by now.
CheckNoOpNever(p, s) ==
  /\ TickAt(p, "classify")
  /\ s \in tick[p].todo
  /\ writing' = [writing EXCEPT ![Tick(p)] = Rows!Cleared(s)]
  /\ Rows!NoteContention(Tick(p), s)
  /\ TickTo(p, [tick[p] EXCEPT !.pc = "mark", !.todo = @ \ {s}])
  /\ UNCHANGED <<jobs, now, sessions, handVerdict, raced, up, api, thread, spent>>

\* mark_evaluator_session_no_op of one listed session.
CheckNoOp(p, s) ==
  /\ TickAt(p, "classify")
  /\ s \in tick[p].todo
  /\ \/ /\ Rows!CheckNotManual(Tick(p), s)
        /\ TickTo(p, [tick[p] EXCEPT !.pc = "mark", !.todo = @ \ {s}])
     \/ /\ IsManual(s)
        /\ TickTo(p, [tick[p] EXCEPT !.todo = @ \ {s}])
        /\ UNCHANGED rowVars
  /\ UNCHANGED <<jobs, now, up, api, thread, spent>>

LoadNoOp(p) ==
  /\ TickAt(p, "mark")
  /\ Rows!LoadNoOp(Tick(p))
  /\ UNCHANGED <<jobs, now, up, api, tick, thread, spent>>

CommitNoOp(p) ==
  /\ TickAt(p, "mark")
  /\ Rows!CommitWrite(Tick(p))
  /\ TickTo(p, [tick[p] EXCEPT !.pc = "classify"])
  /\ UNCHANGED <<jobs, now, up, api, thread, spent>>

\* Mutant: running jobs take no slot.
CountSlotsQueued(p) ==
  /\ TickAt(p, "classify")
  /\ tick[p].todo = {}
  /\ LET slots == MaxConcurrent * BufferMultiplier - Cardinality(Queued) IN
     TickTo(p, IF AutoEnabled /\ slots > 0
               THEN [pc |-> "select", slots |-> slots]
               ELSE [pc |-> "limit", claimed |-> {}])
  /\ UNCHANGED <<jobs, now, rowVars, up, api, thread, spent>>

\* enqueue_auto_evaluation_jobs: the free slots of the queue...
CountSlots(p) ==
  /\ TickAt(p, "classify")
  /\ tick[p].todo = {}
  /\ LET slots == MaxConcurrent * BufferMultiplier - Cardinality(Active) IN
     TickTo(p, IF AutoEnabled /\ slots > 0
               THEN [pc |-> "select", slots |-> slots]
               ELSE [pc |-> "limit", claimed |-> {}])
  /\ UNCHANGED <<jobs, now, rowVars, up, api, thread, spent>>

\* Mutant: failures are forgotten.
EligibleAgain(s) ==
  /\ sessions[s] # NoSession
  /\ sessions[s].updated + QuietDelay <= now
  /\ sessions[s].source # "manual"
  /\ sessions[s].evaluated = Never \/ sessions[s].updated > sessions[s].evaluated
  /\ Jobs!ActiveJobs(s) = {}

\* ... the quiet, unevaluated sessions without an active job, and without a
\* failed automatic job since their last change...
Eligible(s) ==
  /\ sessions[s] # NoSession
  /\ sessions[s].updated + QuietDelay <= now
  /\ sessions[s].source # "manual"
  /\ sessions[s].evaluated = Never \/ sessions[s].updated > sessions[s].evaluated
  /\ \A j \in Jobs!WithStatus({"failed"}) :
       jobs[j].trigger = "auto" /\ jobs[j].session = s
         => sessions[s].updated > jobs[j].finished
  /\ Jobs!ActiveJobs(s) = {}

\* ... as many of them as there are slots, the latest changed first...
SelectCandidates(p) ==
  /\ TickAt(p, "select")
  /\ LET eligible == {s \in SessionIds : Eligible(s)} IN
     \E chosen \in SUBSET eligible :
       /\ Cardinality(chosen) = Min({tick[p].slots, Cardinality(eligible)})
       /\ \A s \in chosen, u \in eligible \ chosen :
            sessions[s].updated >= sessions[u].updated
       /\ TickTo(p, [pc |-> "enqueue", todo |-> chosen])
  /\ UNCHANGED <<jobs, now, rowVars, up, api, thread, spent>>

\* ... each of which gets an automatic job, unless it got a job meanwhile.
Enqueue(p, s) ==
  /\ TickAt(p, "enqueue")
  /\ s \in tick[p].todo
  /\ InsertJob(s, "auto", DefaultEvaluator)
  /\ TickTo(p, [tick[p] EXCEPT !.todo = @ \ {s}])
  /\ UNCHANGED <<now, rowVars, up, api, thread, spent>>

EnqueueDone(p) ==
  /\ TickAt(p, "enqueue")
  /\ tick[p].todo = {}
  /\ TickTo(p, [pc |-> "limit", claimed |-> {}])
  /\ UNCHANGED <<jobs, now, rowVars, up, api, thread, spent>>

\* Mutant: off by one.
CheckLimitInclusive(p) ==
  /\ TickAt(p, "limit")
  /\ TickTo(p, IF Cardinality(Running) <= MaxConcurrent
               THEN [pc |-> "pick", at |-> now, claimed |-> tick[p].claimed]
               ELSE [pc |-> "return", claimed |-> tick[p].claimed])
  /\ UNCHANGED <<jobs, now, rowVars, up, api, thread, spent>>

\* Mutant: queued jobs count as running.
CheckLimitActive(p) ==
  /\ TickAt(p, "limit")
  /\ TickTo(p, IF Cardinality(Active) < MaxConcurrent
               THEN [pc |-> "pick", at |-> now, claimed |-> tick[p].claimed]
               ELSE [pc |-> "return", claimed |-> tick[p].claimed])
  /\ UNCHANGED <<jobs, now, rowVars, up, api, thread, spent>>

\* Claim while fewer jobs run than may; claim_next_evaluation_job reads the
\* clock once, before it looks for a candidate.
CheckLimit(p) ==
  /\ TickAt(p, "limit")
  /\ TickTo(p, IF Cardinality(Running) < MaxConcurrent
               THEN [pc |-> "pick", at |-> now, claimed |-> tick[p].claimed]
               ELSE [pc |-> "return", claimed |-> tick[p].claimed])
  /\ UNCHANGED <<jobs, now, rowVars, up, api, thread, spent>>

\* _queued_job_order: manual jobs first, then the latest changed session, then
\* the oldest job.
Precedes(j, k) ==
  LET uj == sessions[jobs[j].session].updated
      uk == sessions[jobs[k].session].updated
  IN \/ jobs[j].trigger = "manual" /\ jobs[k].trigger = "auto"
     \/ /\ jobs[j].trigger = jobs[k].trigger
        /\ uj > uk \/ (uj = uk /\ jobs[j].created < jobs[k].created)

NextQueued == {j \in Queued : \A k \in Queued : ~Precedes(k, j)}

PickCandidate(p) ==
  /\ TickAt(p, "pick")
  /\ \/ \E j \in NextQueued :
          TickTo(p, [pc |-> "claim", job |-> j, at |-> tick[p].at,
                     claimed |-> tick[p].claimed])
     \/ /\ Queued = {}
        /\ TickTo(p, [pc |-> "return", claimed |-> tick[p].claimed])
  /\ UNCHANGED <<jobs, now, rowVars, up, api, thread, spent>>

\* Mutant: the claim trusts the candidate it read.
ClaimUnchecked(p) ==
  /\ TickAt(p, "claim")
  /\ LET j == tick[p].job IN
     /\ jobs' = [jobs EXCEPT ![j] =
          [@ EXCEPT !.status = "running", !.started = tick[p].at]]
     /\ TickTo(p, [pc |-> "limit",
                   claimed |-> tick[p].claimed \cup {<<j, jobs[j].evaluator>>}])
  /\ UNCHANGED <<now, rowVars, up, api, thread, spent>>

\* The candidate is claimed if it is still queued, else another is looked for.
Claim(p) ==
  /\ TickAt(p, "claim")
  /\ LET j == tick[p].job IN
     \/ /\ Jobs!ClaimJob(j, tick[p].at)
        /\ TickTo(p, [pc |-> "limit",
                      claimed |-> tick[p].claimed \cup {<<j, jobs[j].evaluator>>}])
     \/ /\ j \notin Queued
        /\ TickTo(p, [pc |-> "pick", at |-> tick[p].at,
                      claimed |-> tick[p].claimed])
        /\ UNCHANGED jobs
  /\ UNCHANGED <<now, rowVars, up, api, thread, spent>>

\* Back on the event loop, when it is free: a thread per claimed job.
LaunchClaimed(p) ==
  /\ TickAt(p, "return")
  /\ ApiAt(p, "idle")
  /\ thread' = [j \in JobIds |->
       IF \E e \in Evaluators : <<j, e>> \in tick[p].claimed
       THEN [pc |-> "start", process |-> p,
             evaluator |-> CHOOSE e \in Evaluators : <<j, e>> \in tick[p].claimed]
       ELSE thread[j]]
  /\ TickTo(p, Idle)
  /\ UNCHANGED <<jobs, now, rowVars, up, api, spent>>

TickStep(p) ==
  \/ StartTick(p) \/ ReadStale(p) \/ ExpireStale(p)
  \/ ListEvaluatorSessions(p) \/ (\E s \in SessionIds : CheckNoOp(p, s))
  \/ LoadNoOp(p) \/ CommitNoOp(p)
  \/ CountSlots(p) \/ SelectCandidates(p)
  \/ (\E s \in SessionIds : Enqueue(p, s)) \/ EnqueueDone(p)
  \/ CheckLimit(p) \/ PickCandidate(p) \/ Claim(p) \/ LaunchClaimed(p)

-----------------------------------------------------------------------------
(* The evaluator threads: execute_session_evaluation_job. *)

ThreadAt(j, pc) == thread[j] # NoThread /\ thread[j].pc = pc
ThreadTo(j, pc) == thread' = [thread EXCEPT ![j].pc = pc]
SessionOf(j) == jobs[j].session

\* Mutant: the thread goes to its commit with nothing loaded.
BeginJobAtCommit(j) ==
  /\ ThreadAt(j, "start")
  /\ ThreadTo(j, "commit")
  /\ UNCHANGED <<jobs, now, rowVars, up, api, tick, spent>>

\* A session evaluated by hand meanwhile needs no evaluator.
BeginJob(j) ==
  /\ ThreadAt(j, "start")
  /\ \/ IsManual(SessionOf(j)) /\ ThreadTo(j, "succeed")
     \/ ~IsManual(SessionOf(j)) /\ thread' =
          [thread EXCEPT ![j] = [pc |-> "evaluate", process |-> @.process,
                                 evaluator |-> @.evaluator, began |-> now]]
  /\ UNCHANGED <<jobs, now, rowVars, up, api, tick, spent>>

\* Mutant: an upsert without skip_if_manual.
EvaluatorOverrules(j, v) ==
  /\ ThreadAt(j, "evaluate")
  /\ now <= thread[j].began + EvaluationTimeout
  /\ Rows!LoadForUpsert(Eval(j), SessionOf(j), "llm", v, FALSE)
  /\ ThreadTo(j, "commit")
  /\ UNCHANGED <<jobs, now, up, api, tick, spent>>

\* The agent answers in time, or no transcript allows one: a verdict is there
\* to be stored, and is dropped if the row is manual when it is loaded.
EvaluatorAnswers(j, v) ==
  /\ ThreadAt(j, "evaluate")
  /\ now <= thread[j].began + EvaluationTimeout
  /\ \/ /\ Rows!LoadForUpsert(Eval(j), SessionOf(j), "llm", v, TRUE)
        /\ ThreadTo(j, "commit")
     \/ /\ IsManual(SessionOf(j))
        /\ ThreadTo(j, "succeed")
        /\ UNCHANGED rowVars
  /\ UNCHANGED <<jobs, now, up, api, tick, spent>>

\* The agent fails, answers nonsense or is killed at its timeout.
EvaluatorFails(j) ==
  /\ ThreadAt(j, "evaluate")
  /\ ThreadTo(j, "fail")
  /\ UNCHANGED <<jobs, now, rowVars, up, api, tick, spent>>

CommitVerdict(j) ==
  /\ ThreadAt(j, "commit")
  /\ Rows!CommitWrite(Eval(j))
  /\ ThreadTo(j, "succeed")
  /\ UNCHANGED <<jobs, now, up, api, tick, spent>>

\* The outcome is recorded if the job still runs; the thread ends.
FinishJob(j) ==
  /\ \/ ThreadAt(j, "succeed") /\ UpdateIf(j \in Running, Jobs!MarkSucceeded(j))
     \/ ThreadAt(j, "fail") /\ UpdateIf(j \in Running, Jobs!MarkFailed(j))
  /\ thread' = [thread EXCEPT ![j] = NoThread]
  /\ UNCHANGED <<now, rowVars, up, api, tick, spent>>

ThreadStep(j) ==
  \/ BeginJob(j) \/ CommitVerdict(j) \/ FinishJob(j)
  \/ \E v \in Verdicts \cup {NoOp} : EvaluatorAnswers(j, v)
  \/ EvaluatorFails(j)

-----------------------------------------------------------------------------
(* The surroundings. *)

\* The proxy and the collector record usage of a session.
RecordUsage(s) ==
  /\ Spend("usages", MaxUsages)
  /\ Rows!RecordUsage(s)
  /\ UNCHANGED <<jobs, now, up, api, tick, thread>>

\* Faults are explored while the clock can still reach the staleness deadline
\* of what they orphan.
Fault == Spend("faults", MaxFaults) /\ now + JobTimeout <= MaxTime

\* A database call of a request raises: the client gets an error, and what the
\* request did so far stays.
FailRequest(p) ==
  /\ up[p] /\ api[p].pc # "idle"
  /\ Fault
  /\ ApiTo(p, Idle)
  /\ Rows!AbandonWrites({Api(p)})
  /\ UNCHANGED <<jobs, now, up, tick, thread>>

\* A database call of an evaluator raises: execute_session_evaluation_job tries
\* to record the failure; if that raises too, the thread ends and the job is
\* left running.
FailEvaluator(j) ==
  /\ thread[j] # NoThread
  /\ Fault
  /\ thread' = [thread EXCEPT ![j].pc = "fail"] \/ thread' = [thread EXCEPT ![j] = NoThread]
  /\ Rows!AbandonWrites({Eval(j)})
  /\ UNCHANGED <<jobs, now, up, api, tick>>

\* Mutant: the exception of a tick ends the worker.
FailTickForGood(p) ==
  /\ up[p] /\ tick[p].pc \notin {"idle", "return"}
  /\ Fault
  /\ TickTo(p, [pc |-> "ended"])
  /\ Rows!AbandonWrites({Tick(p)})
  /\ UNCHANGED <<jobs, now, up, api, thread>>

\* A database call of the tick raises: the tick is logged as failed and what it
\* had claimed is forgotten.
FailTick(p) ==
  /\ up[p] /\ tick[p].pc \notin {"idle", "return"}
  /\ Fault
  /\ TickTo(p, Idle)
  /\ Rows!AbandonWrites({Tick(p)})
  /\ UNCHANGED <<jobs, now, up, api, thread>>

\* The process ends, with its handler, tick and threads; the tables stay.
Crash(p) ==
  /\ up[p]
  /\ Fault
  /\ up' = [up EXCEPT ![p] = FALSE]
  /\ ApiTo(p, Idle)
  /\ TickTo(p, Idle)
  /\ LET lost == {j \in JobIds : thread[j] # NoThread /\ thread[j].process = p} IN
     /\ thread' = [j \in JobIds |-> IF j \in lost THEN NoThread ELSE thread[j]]
     /\ Rows!AbandonWrites({Api(p), Tick(p)} \cup {Eval(j) : j \in lost})
  /\ UNCHANGED <<jobs, now>>

\* lifespan: nothing is recovered, the worker just starts.
Boot(p) ==
  /\ ~up[p]
  /\ up' = [up EXCEPT ![p] = TRUE]
  /\ UNCHANGED <<jobs, now, rowVars, api, tick, thread, spent>>

AdvanceClock ==
  /\ Jobs!ClockTick
  /\ UNCHANGED <<rowVars, up, api, tick, thread, spent>>

Init ==
  /\ Jobs!JobsInit
  /\ Rows!SessionsInit
  /\ up = [p \in Processes |-> TRUE]
  /\ api = [p \in Processes |-> Idle]
  /\ tick = [p \in Processes |-> Idle]
  /\ thread = [j \in JobIds |-> NoThread]
  /\ spent = [requests |-> 0, handWrites |-> 0, usages |-> 0, faults |-> 0]

Next ==
  \/ \E p \in Processes : ApiRequest(p) \/ ApiStep(p) \/ TickStep(p)
  \/ \E j \in JobIds : ThreadStep(j)
  \/ \E s \in SessionIds : RecordUsage(s)
  \/ \E p \in Processes : FailRequest(p) \/ FailTick(p) \/ Crash(p) \/ Boot(p)
  \/ \E j \in JobIds : FailEvaluator(j)
  \/ AdvanceClock

Spec == Init /\ [][Next]_vars

\* The scheduler runs every thread that can go on, the clock advances, and a
\* process that ended is started again; requests, usage and faults need not
\* happen.
Fairness ==
  /\ \A p \in Processes :
       /\ WF_vars(ApiStep(p))
       /\ WF_vars(TickStep(p))
       /\ WF_vars(Boot(p))
  /\ \A j \in JobIds : WF_vars(ThreadStep(j))
  /\ WF_vars(AdvanceClock)

FairSpec == Spec /\ Fairness

-----------------------------------------------------------------------------

Claimed(p) ==
  IF tick[p].pc \in {"limit", "pick", "claim", "return"}
  THEN {c[1] : c \in tick[p].claimed} ELSE {}

\* Each thread is in one of its states and holds what it read; a clock reading
\* it keeps is past, and it has a write in flight exactly between the load and
\* the commit.
TypeOK ==
  /\ Jobs!JobsTypeOK
  /\ Rows!SessionsTypeOK
  /\ up \in [Processes -> BOOLEAN]
  /\ api \in [Processes -> ApiStates]
  /\ tick \in [Processes -> TickStates]
  /\ thread \in [JobIds -> ThreadStates \cup {NoThread}]
  /\ \A p \in Processes :
       /\ tick[p].pc \in {"expire", "pick", "claim"} => tick[p].at <= now
       /\ writing[Api(p)].stage = IF api[p].pc = "write" THEN "loaded" ELSE "idle"
       /\ (tick[p].pc = "mark") <=> (writing[Tick(p)].stage # "idle")
  /\ \A j \in JobIds :
       writing[Eval(j)].stage = IF ThreadAt(j, "commit") THEN "loaded" ELSE "idle"

\* No interleaving of ticks, expiries, crashes and requests lets more jobs run
\* than max_concurrent_jobs in one process; every further process, since it counts
\* before it claims, may exceed the limit by one.
RunningWithinLimit ==
  Cardinality(Running) <= MaxConcurrent + Cardinality(Processes) - 1

\* A process never queues more automatic jobs than its buffer holds, although
\* requests create jobs while it counts; every further process, since it counts
\* before it inserts, may fill a buffer of its own.
AutoQueueBounded ==
  Cardinality({j \in Active : jobs[j].trigger = "auto"})
    <= MaxConcurrent * BufferMultiplier * Cardinality(Processes)

\* Only the timeout takes a job away from the thread that evaluates it, or
\* from the tick that claimed it: whoever still works on a job finds it
\* running, or failed after its full time.
TimedOut(j) ==
  jobs[j].status = "failed" /\ jobs[j].finished >= jobs[j].started + JobTimeout

WorkersHoldTheirJobs ==
  \A j \in JobIds :
    thread[j] # NoThread \/ (\E p \in Processes : j \in Claimed(p))
      => j \in Running \/ (j \in Jobs!Rows /\ TimedOut(j))

\* Two threads evaluate the same session only if all but one of their jobs
\* timed out.
OneEvaluationPerSession ==
  \A j, k \in JobIds :
    /\ j # k /\ thread[j] # NoThread /\ thread[k] # NoThread
    /\ SessionOf(j) = SessionOf(k)
    => TimedOut(j) \/ TimedOut(k)

\* However many processes compete, a job is in the hands of one of them.
ClaimedByOne ==
  \A j \in JobIds :
    /\ \A p, q \in Processes : j \in Claimed(p) /\ j \in Claimed(q) => p = q
    /\ \A p \in Processes : thread[j] # NoThread => j \notin Claimed(p)

\* A job is run with the evaluator its row names, although requests may change
\* the evaluator until the claim.
RunWithChosenEvaluator ==
  /\ \A j \in JobIds :
       thread[j] # NoThread => thread[j].evaluator = jobs[j].evaluator
  /\ \A p \in Processes :
       tick[p].pc \in {"limit", "pick", "claim", "return"} =>
         \A c \in tick[p].claimed : c[2] = jobs[c[1]].evaluator

\* An automatic evaluation that failed is not repeated before the session
\* changed, whatever happened between the selection and the insertion.
NoRetryWithoutChange ==
  [][\A j \in FreeIds :
       jobs'[j] # NoJob /\ jobs'[j].trigger = "auto" =>
         \A k \in Jobs!WithStatus({"failed"}) :
           jobs[k].trigger = "auto" /\ jobs[k].session = jobs'[j].session
             => sessions[jobs[k].session].updated > jobs[k].finished]_vars

\* The queue and the rows are used through their statements only.
ImplementsJobs == Jobs!JobsSpec
ImplementsSessions == Rows!SessionsSpec

\* A verdict given by hand is never overwritten by an evaluation that runs or
\* starts later.
ManualVerdictKept == Rows!ManualVerdictKept
EvaluationColumnsTogether == Rows!EvaluationColumnsTogether
UncontendedVerdictKept == Rows!UncontendedVerdictKept

\* Every running job ends, also when its process died or its tick failed.
RunningJobsEnd ==
  \A j \in JobIds : (j \in Running) ~> (j \notin Running)

\* No queued job waits for ever.
QueuedJobsLeaveQueue ==
  \A j \in JobIds : (j \in Queued) ~> (j \notin Queued)

\* A session that needs an automatic evaluation gets a job or stops needing
\* one, as long as the model has keys for jobs.
EligibleSessionsServed ==
  AutoEnabled => \A s \in SessionIds : Eligible(s) ~> (~Eligible(s) \/ FreeIds = {})

===============================================================================
