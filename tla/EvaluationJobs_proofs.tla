------------------------- MODULE EvaluationJobs_proofs -------------------------
(***************************************************************************)
(* Proofs about the job table, for every set of keys, sessions and         *)
(* evaluators and every value of the bounds.  The inductive invariant is   *)
(* the type invariant together with OneActivePerSession.                   *)
(***************************************************************************)
EXTENDS EvaluationJobs, TLAPS

ValidRow(row) == row \in JobRow /\ StampsMatchStatus(row)

\* In a well-typed table every row present is valid.
LEMMA RowsValid ==
  ASSUME JobsTypeOK, NEW j \in Rows
  PROVE  j \in JobIds /\ ValidRow(jobs[j])
BY DEF JobsTypeOK, Rows, ValidRow

\* Writing one valid row keeps the table well typed.
LEMMA WriteRow ==
  ASSUME JobsTypeOK, NEW j \in JobIds, NEW row, ValidRow(row),
         jobs' = [jobs EXCEPT ![j] = row], UNCHANGED now
  PROVE  JobsTypeOK'
<1>1. jobs' \in [JobIds -> JobRow \cup {NoJob}]
  BY DEF JobsTypeOK, ValidRow
<1>2. \A k \in Rows' : StampsMatchStatus(jobs'[k])
  BY DEF JobsTypeOK, ValidRow, Rows
<1>3. \A k \in Rows' : StampsMatchStatus(jobs[k])'
  BY <1>2 DEF StampsMatchStatus
<1>4. QED
  BY <1>1, <1>3 DEF JobsTypeOK

\* The initial table is empty, so it is well typed.
LEMMA InitTypeOK == JobsInit => JobsTypeOK
  BY JobsAssumption DEF JobsInit, JobsTypeOK, Rows, Time

\* Every statement leaves valid rows: a timestamp is read off the clock, and
\* the status, the start and the end of a row change together.
LEMMA StepTypeOK == JobsTypeOK /\ [JobsNext]_jobsVars => JobsTypeOK'
<1> SUFFICES ASSUME JobsTypeOK, [JobsNext]_jobsVars
             PROVE  JobsTypeOK'
  OBVIOUS
<1> USE JobsAssumption
<1>0. now \in Time /\ now \in Nat /\ Never \notin Time
  BY DEF JobsTypeOK, Time
<1>1. ASSUME NEW j \in JobIds, NEW s \in SessionIds, NEW t \in Triggers,
             NEW e \in Evaluators, CreateJob(j, s, t, e), UNCHANGED now
      PROVE  JobsTypeOK'
  <2> DEFINE row == [session |-> s, trigger |-> t, evaluator |-> e,
                     status |-> "queued", created |-> now,
                     started |-> Never, finished |-> Never]
  <2>1. ValidRow(row)
    BY <1>0 DEF ValidRow, JobRow, StampsMatchStatus, Statuses, ActiveStatuses,
                TerminalStatuses
  <2>2. jobs' = [jobs EXCEPT ![j] = row]
    BY <1>1 DEF CreateJob
  <2> HIDE DEF row
  <2>3. QED
    BY <1>1, <2>1, <2>2, WriteRow
<1>2. ASSUME NEW j \in JobIds, NEW e \in Evaluators,
             PromoteToManual(j, e), UNCHANGED now
      PROVE  JobsTypeOK'
  <2> DEFINE row == [jobs[j] EXCEPT !.trigger = "manual", !.evaluator = e]
  <2>1. ValidRow(jobs[j])
    BY <1>2, RowsValid DEF PromoteToManual, WithStatus
  <2>2. ValidRow(row)
    BY <2>1 DEF ValidRow, JobRow, StampsMatchStatus, Triggers
  <2>3. jobs' = [jobs EXCEPT ![j] = row]
    BY <1>2 DEF PromoteToManual
  <2> HIDE DEF row
  <2>4. QED
    BY <1>2, <2>2, <2>3, WriteRow
<1>3. ASSUME NEW j \in JobIds, NEW e \in Evaluators,
             UpdateQueuedEvaluator(j, e), UNCHANGED now
      PROVE  JobsTypeOK'
  <2> DEFINE row == [jobs[j] EXCEPT !.evaluator = e]
  <2>1. ValidRow(jobs[j])
    BY <1>3, RowsValid DEF UpdateQueuedEvaluator, WithStatus
  <2>2. ValidRow(row)
    BY <2>1 DEF ValidRow, JobRow, StampsMatchStatus
  <2>3. jobs' = [jobs EXCEPT ![j] = row]
    BY <1>3 DEF UpdateQueuedEvaluator
  <2> HIDE DEF row
  <2>4. QED
    BY <1>3, <2>2, <2>3, WriteRow
<1>4. ASSUME NEW j \in JobIds, NEW at \in 0 .. now, ClaimJob(j, at), UNCHANGED now
      PROVE  JobsTypeOK'
  <2> DEFINE row == [jobs[j] EXCEPT !.status = "running", !.started = at]
  <2>1. ValidRow(jobs[j]) /\ jobs[j].status = "queued" /\ at \in Time
    BY <1>0, <1>4, RowsValid DEF ClaimJob, WithStatus, Time
  <2>2. ValidRow(row)
    BY <1>0, <2>1 DEF ValidRow, JobRow, StampsMatchStatus, Statuses,
                      ActiveStatuses, TerminalStatuses
  <2>3. jobs' = [jobs EXCEPT ![j] = row]
    BY <1>4 DEF ClaimJob
  <2> HIDE DEF row
  <2>4. QED
    BY <1>4, <2>2, <2>3, WriteRow
<1>5. ASSUME NEW J \in SUBSET JobIds, NEW at \in 0 .. now,
             FailStaleJobs(J, at), UNCHANGED now
      PROVE  JobsTypeOK'
  <2> DEFINE Expired(j) == [jobs[j] EXCEPT !.status = "failed", !.finished = at]
  <2>1. \A j \in J : ValidRow(Expired(j))
    <3> SUFFICES ASSUME NEW j \in J PROVE ValidRow(Expired(j))
      OBVIOUS
    <3>1. j \in Rows /\ jobs[j].status \in ActiveStatuses
      BY <1>5 DEF FailStaleJobs, WithStatus
    <3>2. ValidRow(jobs[j]) /\ at \in Time
      BY <1>0, <3>1, RowsValid DEF Time
    <3>3. QED
      BY <1>0, <3>1, <3>2 DEF ValidRow, JobRow, StampsMatchStatus, Statuses,
                        ActiveStatuses, TerminalStatuses
  <2>2. jobs' = [j \in JobIds |-> IF j \in J THEN Expired(j) ELSE jobs[j]]
    BY <1>5 DEF FailStaleJobs
  <2> HIDE DEF Expired
  <2>3. jobs' \in [JobIds -> JobRow \cup {NoJob}]
    BY <2>1, <2>2 DEF JobsTypeOK, ValidRow
  <2>4. \A k \in Rows' : StampsMatchStatus(jobs'[k])
    BY <2>1, <2>2 DEF JobsTypeOK, ValidRow, Rows
  <2>5. \A k \in Rows' : StampsMatchStatus(jobs[k])'
    BY <2>4 DEF StampsMatchStatus
  <2>6. QED
    BY <1>0, <1>5, <2>3, <2>5 DEF JobsTypeOK
<1>6. ASSUME NEW j \in JobIds, MarkSucceeded(j), UNCHANGED now
      PROVE  JobsTypeOK'
  <2> DEFINE row == [jobs[j] EXCEPT !.status = "succeeded", !.finished = now]
  <2>1. ValidRow(jobs[j])
    BY <1>6, RowsValid DEF MarkSucceeded, WithStatus
  <2>2. ValidRow(row)
    BY <1>0, <2>1 DEF ValidRow, JobRow, StampsMatchStatus, Statuses,
                      ActiveStatuses, TerminalStatuses
  <2>3. jobs' = [jobs EXCEPT ![j] = row]
    BY <1>6 DEF MarkSucceeded
  <2> HIDE DEF row
  <2>4. QED
    BY <1>6, <2>2, <2>3, WriteRow
<1>7. ASSUME NEW j \in JobIds, MarkFailed(j), UNCHANGED now
      PROVE  JobsTypeOK'
  <2> DEFINE row == [jobs[j] EXCEPT !.status = "failed", !.finished = now]
  <2>1. ValidRow(jobs[j])
    BY <1>7, RowsValid DEF MarkFailed, WithStatus
  <2>2. ValidRow(row)
    BY <1>0, <2>1 DEF ValidRow, JobRow, StampsMatchStatus, Statuses,
                      ActiveStatuses, TerminalStatuses
  <2>3. jobs' = [jobs EXCEPT ![j] = row]
    BY <1>7 DEF MarkFailed
  <2> HIDE DEF row
  <2>4. QED
    BY <1>7, <2>2, <2>3, WriteRow
<1>8. CASE ClockTick
  BY <1>8 DEF ClockTick, JobsTypeOK, Rows, Time, StampsMatchStatus
<1>9. CASE UNCHANGED jobsVars
  BY <1>9 DEF jobsVars, JobsTypeOK, Rows, Time, StampsMatchStatus
<1>10. QED
  BY <1>1, <1>2, <1>3, <1>4, <1>5, <1>6, <1>7, <1>8, <1>9
     DEF JobsNext, Statement

\* Type correctness of the evaluation_jobs table.
THEOREM JobsTypeCorrect == JobsSpec => []JobsTypeOK
<1>1. JobsInit => JobsTypeOK
  BY InitTypeOK
<1>2. JobsTypeOK /\ [JobsNext]_jobsVars => JobsTypeOK'
  BY StepTypeOK
<1>3. QED
  BY <1>1, <1>2, PTL DEF JobsSpec

-----------------------------------------------------------------------------

\* A step after which no job became active, and none changed its session,
\* keeps at most one active job per session.
LEMMA NoNewActiveJob ==
  ASSUME OneActivePerSession,
         WithStatus(ActiveStatuses)' \subseteq WithStatus(ActiveStatuses),
         \A k \in WithStatus(ActiveStatuses)' : jobs'[k].session = jobs[k].session
  PROVE  OneActivePerSession'
BY DEF OneActivePerSession

\* The steps that write active rows only: nothing becomes active by them.
LEMMA StepKeepsOneActive ==
  JobsTypeOK /\ OneActivePerSession /\ [JobsNext]_jobsVars => OneActivePerSession'
<1> SUFFICES ASSUME JobsTypeOK, OneActivePerSession, [JobsNext]_jobsVars
             PROVE  OneActivePerSession'
  OBVIOUS
<1> USE DEF Rows, WithStatus, ActiveStatuses
<1>0. jobs \in [JobIds -> JobRow \cup {NoJob}]
  BY DEF JobsTypeOK
<1>1. ASSUME NEW j \in JobIds, NEW s \in SessionIds, NEW t \in Triggers,
             NEW e \in Evaluators, CreateJob(j, s, t, e)
      PROVE  OneActivePerSession'
  <2>1. \A k \in JobIds \ {j} : jobs'[k] = jobs[k]
    BY <1>0, <1>1 DEF CreateJob
  <2>2. jobs'[j].session = s
    BY <1>0, <1>1 DEF CreateJob
  <2>3. \A k \in WithStatus(ActiveStatuses) : jobs[k].session # s
    BY <1>1 DEF CreateJob, ActiveJobs
  <2>4. QED
    BY <2>1, <2>2, <2>3 DEF OneActivePerSession
<1>2. ASSUME NEW j \in JobIds, NEW e \in Evaluators, PromoteToManual(j, e)
      PROVE  OneActivePerSession'
  BY <1>0, <1>2, NoNewActiveJob DEF PromoteToManual, JobRow
<1>3. ASSUME NEW j \in JobIds, NEW e \in Evaluators, UpdateQueuedEvaluator(j, e)
      PROVE  OneActivePerSession'
  BY <1>0, <1>3, NoNewActiveJob DEF UpdateQueuedEvaluator, JobRow
<1>4. ASSUME NEW j \in JobIds, NEW at \in 0 .. now, ClaimJob(j, at)
      PROVE  OneActivePerSession'
  BY <1>0, <1>4, NoNewActiveJob DEF ClaimJob, JobRow
<1>5. ASSUME NEW J \in SUBSET JobIds, NEW at \in 0 .. now, FailStaleJobs(J, at)
      PROVE  OneActivePerSession'
  BY <1>0, <1>5, NoNewActiveJob DEF FailStaleJobs, JobRow
<1>6. ASSUME NEW j \in JobIds, MarkSucceeded(j)
      PROVE  OneActivePerSession'
  BY <1>0, <1>6, NoNewActiveJob DEF MarkSucceeded, JobRow
<1>7. ASSUME NEW j \in JobIds, MarkFailed(j)
      PROVE  OneActivePerSession'
  BY <1>0, <1>7, NoNewActiveJob DEF MarkFailed, JobRow
<1>8. CASE UNCHANGED jobs
  BY <1>8 DEF OneActivePerSession
<1>9. QED
  BY <1>1, <1>2, <1>3, <1>4, <1>5, <1>6, <1>7, <1>8
     DEF JobsNext, Statement, ClockTick, jobsVars

\* A session never has two active evaluation jobs, for any number of jobs,
\* sessions and callers.
THEOREM OneActiveJob == JobsSpec => []OneActivePerSession
<1>1. JobsInit => OneActivePerSession
  BY DEF JobsInit, OneActivePerSession, WithStatus, Rows
<1>2. JobsTypeOK /\ OneActivePerSession /\ [JobsNext]_jobsVars => OneActivePerSession'
  BY StepKeepsOneActive
<1>3. QED
  BY <1>1, <1>2, JobsTypeCorrect, PTL DEF JobsSpec

\* A job that ended stays as it ended: no later statement rewrites the row.
THEOREM TerminalJobsStayFinal == JobsSpec => TerminalJobsFinal
<1> DEFINE Frozen == \A j \in WithStatus(TerminalStatuses) : jobs'[j] = jobs[j]
<1>1. ASSUME JobsTypeOK, [JobsNext]_jobsVars
      PROVE  Frozen
  <2> SUFFICES ASSUME NEW k \in WithStatus(TerminalStatuses)
               PROVE  jobs'[k] = jobs[k]
    OBVIOUS
  <2> USE DEF Rows, WithStatus, ActiveStatuses, TerminalStatuses
  <2>0. jobs \in [JobIds -> JobRow \cup {NoJob}] /\ k \in JobIds
    BY <1>1 DEF JobsTypeOK
  <2>1. ASSUME NEW j \in JobIds, NEW s \in SessionIds, NEW t \in Triggers,
               NEW e \in Evaluators, CreateJob(j, s, t, e)
        PROVE  jobs'[k] = jobs[k]
    BY <2>0, <2>1 DEF CreateJob
  <2>2. ASSUME NEW j \in JobIds, NEW e \in Evaluators, PromoteToManual(j, e)
        PROVE  jobs'[k] = jobs[k]
    BY <2>0, <2>2 DEF PromoteToManual
  <2>3. ASSUME NEW j \in JobIds, NEW e \in Evaluators, UpdateQueuedEvaluator(j, e)
        PROVE  jobs'[k] = jobs[k]
    BY <2>0, <2>3 DEF UpdateQueuedEvaluator
  <2>4. ASSUME NEW j \in JobIds, NEW at \in 0 .. now, ClaimJob(j, at)
        PROVE  jobs'[k] = jobs[k]
    BY <2>0, <2>4 DEF ClaimJob
  <2>5. ASSUME NEW J \in SUBSET JobIds, NEW at \in 0 .. now, FailStaleJobs(J, at)
        PROVE  jobs'[k] = jobs[k]
    BY <2>0, <2>5 DEF FailStaleJobs
  <2>6. ASSUME NEW j \in JobIds, MarkSucceeded(j)
        PROVE  jobs'[k] = jobs[k]
    BY <2>0, <2>6 DEF MarkSucceeded
  <2>7. ASSUME NEW j \in JobIds, MarkFailed(j)
        PROVE  jobs'[k] = jobs[k]
    BY <2>0, <2>7 DEF MarkFailed
  <2>8. QED
    BY <1>1, <2>1, <2>2, <2>3, <2>4, <2>5, <2>6, <2>7
       DEF JobsNext, Statement, ClockTick, jobsVars
<1>2. JobsTypeOK /\ [JobsNext]_jobsVars => [Frozen]_jobsVars
  BY <1>1
<1>3. QED
  BY <1>2, JobsTypeCorrect, PTL DEF JobsSpec, TerminalJobsFinal

\* From the claim on, a job keeps its evaluator, its trigger and its start.
THEOREM ClaimedJobsFixed == JobsSpec => ClaimedJobFixed
<1> DEFINE Fixed == \A j \in WithStatus({"running"}) :
                      /\ jobs'[j].evaluator = jobs[j].evaluator
                      /\ jobs'[j].trigger = jobs[j].trigger
                      /\ jobs'[j].started = jobs[j].started
<1>1. ASSUME JobsTypeOK, [JobsNext]_jobsVars
      PROVE  Fixed
  <2> DEFINE Same(k) == /\ jobs'[k].evaluator = jobs[k].evaluator
                        /\ jobs'[k].trigger = jobs[k].trigger
                        /\ jobs'[k].started = jobs[k].started
  <2> SUFFICES ASSUME NEW k \in WithStatus({"running"})
               PROVE  Same(k)
    OBVIOUS
  <2> USE DEF Rows, WithStatus
  <2>0. /\ jobs \in [JobIds -> JobRow \cup {NoJob}]
        /\ k \in JobIds
        /\ jobs[k] \in JobRow
    BY <1>1 DEF JobsTypeOK
  <2>1. ASSUME NEW j \in JobIds, NEW s \in SessionIds, NEW t \in Triggers,
               NEW e \in Evaluators, CreateJob(j, s, t, e)
        PROVE  Same(k)
    BY <2>0, <2>1 DEF CreateJob
  <2>2. ASSUME NEW j \in JobIds, NEW e \in Evaluators, PromoteToManual(j, e)
        PROVE  Same(k)
    BY <2>0, <2>2 DEF PromoteToManual
  <2>3. ASSUME NEW j \in JobIds, NEW e \in Evaluators, UpdateQueuedEvaluator(j, e)
        PROVE  Same(k)
    BY <2>0, <2>3 DEF UpdateQueuedEvaluator
  <2>4. ASSUME NEW j \in JobIds, NEW at \in 0 .. now, ClaimJob(j, at)
        PROVE  Same(k)
    BY <2>0, <2>4 DEF ClaimJob
  <2>5. ASSUME NEW J \in SUBSET JobIds, NEW at \in 0 .. now, FailStaleJobs(J, at)
        PROVE  Same(k)
    BY <2>0, <2>5 DEF FailStaleJobs, JobRow
  <2>6. ASSUME NEW j \in JobIds, MarkSucceeded(j)
        PROVE  Same(k)
    BY <2>0, <2>6 DEF MarkSucceeded, JobRow
  <2>7. ASSUME NEW j \in JobIds, MarkFailed(j)
        PROVE  Same(k)
    BY <2>0, <2>7 DEF MarkFailed, JobRow
  <2>8. QED
    BY <1>1, <2>1, <2>2, <2>3, <2>4, <2>5, <2>6, <2>7
       DEF JobsNext, Statement, ClockTick, jobsVars
<1>2. JobsTypeOK /\ [JobsNext]_jobsVars => [Fixed]_jobsVars
  BY <1>1
<1>3. QED
  BY <1>2, JobsTypeCorrect, PTL DEF JobsSpec, ClaimedJobFixed

-----------------------------------------------------------------------------

\* The slot of a session is that of its active job: in a table with one active
\* job per session the choice in SlotOf is forced.
LEMMA SlotOfActive ==
  ASSUME OneActivePerSession, NEW j \in WithStatus(ActiveStatuses)
  PROVE  SlotOf(jobs[j].session) = jobs[j].status
<1>1. ActiveJobs(jobs[j].session) = {j}
  BY DEF ActiveJobs, OneActivePerSession
<1>2. QED
  BY <1>1 DEF SlotOf

\* The same in the state after a step.
LEMMA SlotOfActiveNext ==
  ASSUME OneActivePerSession', NEW j \in WithStatus(ActiveStatuses)',
         NEW s, jobs'[j].session = s
  PROVE  SlotOf(s)' = jobs'[j].status
<1>1. ActiveJobs(s)' = {j}
  BY DEF ActiveJobs, OneActivePerSession
<1>2. QED
  BY <1>1 DEF SlotOf

\* A step that keeps the active jobs of a session, and their status, keeps
\* its slot.
LEMMA SameSlot ==
  ASSUME NEW s, ActiveJobs(s)' = ActiveJobs(s),
         \A k \in ActiveJobs(s) : jobs'[k].status = jobs[k].status
  PROVE  SlotOf(s)' = SlotOf(s)
<1>1. CASE ActiveJobs(s) = {}
  BY <1>1 DEF SlotOf
<1>2. CASE ActiveJobs(s) # {}
  <2>1. (CHOOSE k \in ActiveJobs(s) : TRUE) \in ActiveJobs(s)
    BY <1>2
  <2>2. QED
    BY <1>2, <2>1 DEF SlotOf
<1>3. QED
  BY <1>1, <1>2

\* Ending the active jobs J, and nothing else, releases the slots of their
\* sessions.
LEMMA EndingReleasesSlots ==
  ASSUME OneActivePerSession, jobs \in [JobIds -> JobRow \cup {NoJob}],
         NEW J \in SUBSET WithStatus(ActiveStatuses),
         \A k \in JobIds \ J : jobs'[k] = jobs[k],
         \A k \in J : jobs'[k].status \in TerminalStatuses
  PROVE  Slots!SlotsNext
<1> DEFINE S == {jobs[k].session : k \in J}
<1>1. S \in SUBSET SessionIds
  BY DEF WithStatus, Rows, JobRow
<1>2. \A s \in S : SlotOf(s) # "idle"
  BY SlotOfActive DEF WithStatus, ActiveStatuses
<1>3. \A s \in S : ActiveJobs(s)' = {}
  BY DEF ActiveJobs, OneActivePerSession, WithStatus, Rows, ActiveStatuses,
         TerminalStatuses
<1>4. \A s \in S : SlotOf(s)' = "idle"
  BY <1>3 DEF SlotOf
<1>5. ASSUME NEW s \in SessionIds \ S
      PROVE  SlotOf(s)' = SlotOf(s)
  <2>1. \A k \in ActiveJobs(s) : k \notin J
    BY <1>5 DEF ActiveJobs
  <2>2. /\ ActiveJobs(s)' = ActiveJobs(s)
        /\ \A k \in ActiveJobs(s) : jobs'[k].status = jobs[k].status
    BY <2>1 DEF ActiveJobs, WithStatus, Rows, ActiveStatuses, TerminalStatuses
  <2>3. QED
    BY <2>2, SameSlot
<1>6. Slots!Release(S)
  BY <1>1, <1>2, <1>4, <1>5 DEF Slots!Release
<1>7. QED
  BY <1>1, <1>6 DEF Slots!SlotsNext

\* The table implements the slots: creation enqueues, a claim takes up,
\* expiries and completions release, and the other statements stutter.
THEOREM JobsImplementSlots == JobsSpec => ImplementsSlots
<1> DEFINE Inv == JobsTypeOK /\ OneActivePerSession
<1>1. JobsInit => Slots!SlotsInit
  BY DEF JobsInit, Slots!SlotsInit, SlotOf, ActiveJobs, WithStatus, Rows
<1>2. ASSUME Inv, Inv', [JobsNext]_jobsVars
      PROVE  Slots!SlotsNext \/ \A s \in SessionIds : SlotOf(s)' = SlotOf(s)
  <2> DEFINE Goal == Slots!SlotsNext \/ \A s \in SessionIds : SlotOf(s)' = SlotOf(s)
  <2>0. jobs \in [JobIds -> JobRow \cup {NoJob}] /\ OneActivePerSession
        /\ OneActivePerSession'
    BY <1>2 DEF JobsTypeOK
  <2>1. ASSUME NEW j \in JobIds, NEW s \in SessionIds, NEW t \in Triggers,
               NEW e \in Evaluators, CreateJob(j, s, t, e)
        PROVE  Goal
    <3>1. SlotOf(s) = "idle"
      BY <2>1 DEF CreateJob, SlotOf
    <3>2. /\ jobs'[j].session = s
          /\ jobs'[j].status = "queued"
          /\ jobs'[j] # NoJob
          /\ \A k \in JobIds \ {j} : jobs'[k] = jobs[k]
      <4> DEFINE row == [session |-> s, trigger |-> t, evaluator |-> e,
                         status |-> "queued", created |-> now,
                         started |-> Never, finished |-> Never]
      <4>1. row \in JobRow
        BY <1>2, <2>1 DEF JobRow, Statuses, ActiveStatuses, JobsTypeOK
      <4>2. jobs' = [jobs EXCEPT ![j] = row]
        BY <2>1 DEF CreateJob
      <4>3. row.session = s /\ row.status = "queued" /\ row # NoJob
        BY <4>1, JobsAssumption
      <4> HIDE DEF row
      <4>4. QED
        BY <2>0, <4>2, <4>3
    <3>3. SlotOf(s)' = "queued"
      <4>1. j \in WithStatus(ActiveStatuses)'
        BY <3>2 DEF WithStatus, Rows, ActiveStatuses
      <4>2. QED
        BY <2>0, <3>2, <4>1, SlotOfActiveNext
    <3>4. ASSUME NEW u \in SessionIds \ {s}
          PROVE  SlotOf(u)' = SlotOf(u)
      <4>1. ActiveJobs(u)' = ActiveJobs(u) /\ j \notin ActiveJobs(u)
        BY <2>1, <3>2, <3>4 DEF CreateJob, ActiveJobs, WithStatus, Rows
      <4>2. \A k \in ActiveJobs(u) : jobs'[k].status = jobs[k].status
        BY <3>2, <4>1 DEF ActiveJobs, WithStatus, Rows
      <4>3. QED
        BY <4>1, <4>2, SameSlot
    <3>5. Slots!Enqueue(s)
      BY <3>1, <3>3, <3>4 DEF Slots!Enqueue
    <3>6. QED
      BY <3>5 DEF Slots!SlotsNext
  <2>2. ASSUME \A k \in JobIds : jobs'[k] = jobs[k] \/
                 /\ k \in Rows /\ k \in Rows'
                 /\ jobs'[k].session = jobs[k].session
                 /\ jobs'[k].status = jobs[k].status
        PROVE  Goal
    <3> SUFFICES ASSUME NEW s \in SessionIds
                 PROVE  SlotOf(s)' = SlotOf(s)
      OBVIOUS
    <3>1. ActiveJobs(s)' = ActiveJobs(s)
      BY <2>2 DEF ActiveJobs, WithStatus, Rows
    <3>2. \A k \in ActiveJobs(s) : jobs'[k].status = jobs[k].status
      BY <2>2 DEF ActiveJobs, WithStatus, Rows
    <3>3. QED
      BY <3>1, <3>2, SameSlot
  <2>3. ASSUME NEW j \in JobIds, NEW e \in Evaluators,
               PromoteToManual(j, e) \/ UpdateQueuedEvaluator(j, e)
        PROVE  Goal
    <3>1. j \in Rows' /\ jobs'[j].session = jobs[j].session
          /\ jobs'[j].status = jobs[j].status
      <4>1. jobs[j] \in JobRow
        BY <2>0, <2>3 DEF PromoteToManual, UpdateQueuedEvaluator, WithStatus, Rows
      <4>2. CASE PromoteToManual(j, e)
        <5>1. jobs'[j] = [jobs[j] EXCEPT !.trigger = "manual", !.evaluator = e]
          BY <2>0, <4>2 DEF PromoteToManual
        <5>2. jobs'[j] \in JobRow
          BY <4>1, <5>1 DEF JobRow, Triggers
        <5>3. QED
          BY <4>1, <5>1, <5>2, JobsAssumption DEF JobRow, Rows
      <4>3. CASE UpdateQueuedEvaluator(j, e)
        <5>1. jobs'[j] = [jobs[j] EXCEPT !.evaluator = e]
          BY <2>0, <4>3 DEF UpdateQueuedEvaluator
        <5>2. jobs'[j] \in JobRow
          BY <4>1, <5>1 DEF JobRow
        <5>3. QED
          BY <4>1, <5>1, <5>2, JobsAssumption DEF JobRow, Rows
      <4>4. QED
        BY <2>3, <4>2, <4>3
    <3>2. j \in Rows /\ \A k \in JobIds \ {j} : jobs'[k] = jobs[k]
      BY <2>0, <2>3 DEF PromoteToManual, UpdateQueuedEvaluator, WithStatus
    <3>3. QED
      BY <2>2, <3>1, <3>2
  <2>4. ASSUME NEW j \in JobIds, NEW at \in 0 .. now, ClaimJob(j, at)
        PROVE  Goal
    <3>1. j \in WithStatus(ActiveStatuses) /\ jobs[j] \in JobRow
          /\ jobs[j].status = "queued"
      BY <2>0, <2>4 DEF ClaimJob, WithStatus, Rows, ActiveStatuses
    <3>s. PICK s \in SessionIds : s = jobs[j].session
      BY <3>1 DEF JobRow
    <3>2. s \in SessionIds /\ SlotOf(s) = "queued"
      BY <2>0, <3>1, <3>s, SlotOfActive
    <3>3. /\ jobs'[j].session = s
          /\ jobs'[j].status = "running"
          /\ jobs'[j] # NoJob
          /\ \A k \in JobIds \ {j} : jobs'[k] = jobs[k]
      <4>1. at \in Time
        BY <1>2, <2>4, JobsAssumption DEF JobsTypeOK, Time
      <4>2. jobs'[j] = [jobs[j] EXCEPT !.status = "running", !.started = at]
        BY <2>0, <2>4 DEF ClaimJob
      <4>3. jobs'[j] \in JobRow
        BY <3>1, <4>1, <4>2 DEF JobRow, Statuses, ActiveStatuses
      <4>4. QED
        BY <2>0, <2>4, <3>1, <3>s, <4>2, <4>3, JobsAssumption DEF JobRow, ClaimJob
    <3>4. SlotOf(s)' = "running"
      <4>1. j \in WithStatus(ActiveStatuses)'
        BY <3>3 DEF WithStatus, Rows, ActiveStatuses
      <4>2. QED
        BY <2>0, <3>3, <4>1, SlotOfActiveNext
    <3>5. ASSUME NEW u \in SessionIds \ {s}
          PROVE  SlotOf(u)' = SlotOf(u)
      <4>1. ActiveJobs(u)' = ActiveJobs(u) /\ j \notin ActiveJobs(u)
        BY <3>3, <3>5, <3>s DEF ActiveJobs, WithStatus, Rows
      <4>2. \A k \in ActiveJobs(u) : jobs'[k].status = jobs[k].status
        BY <3>3, <4>1 DEF ActiveJobs, WithStatus, Rows
      <4>3. QED
        BY <4>1, <4>2, SameSlot
    <3>6. Slots!TakeUp(s)
      BY <3>2, <3>4, <3>5 DEF Slots!TakeUp
    <3>7. QED
      BY <3>2, <3>6 DEF Slots!SlotsNext
  <2>5. ASSUME NEW J \in SUBSET JobIds, NEW at \in 0 .. now, FailStaleJobs(J, at)
        PROVE  Goal
    <3>1. J \in SUBSET WithStatus(ActiveStatuses)
      BY <2>5 DEF FailStaleJobs
    <3>2. /\ \A k \in JobIds \ J : jobs'[k] = jobs[k]
          /\ \A k \in J : jobs'[k].status \in TerminalStatuses
      BY <2>0, <2>5, <3>1
         DEF FailStaleJobs, WithStatus, Rows, JobRow, TerminalStatuses
    <3>3. QED
      BY <2>0, <3>1, <3>2, EndingReleasesSlots
  <2>6. ASSUME NEW j \in JobIds, MarkSucceeded(j) \/ MarkFailed(j)
        PROVE  Goal
    <3>1. {j} \in SUBSET WithStatus(ActiveStatuses)
      BY <2>6 DEF MarkSucceeded, MarkFailed, WithStatus, ActiveStatuses
    <3>2. /\ \A k \in JobIds \ {j} : jobs'[k] = jobs[k]
          /\ jobs'[j].status \in TerminalStatuses
      BY <2>0, <2>6, <3>1
         DEF MarkSucceeded, MarkFailed, WithStatus, Rows, JobRow, TerminalStatuses
    <3>3. QED
      BY <2>0, <3>1, <3>2, EndingReleasesSlots
  <2>7. CASE UNCHANGED jobs
    BY <2>2, <2>7
  <2>8. QED
    BY <1>2, <2>1, <2>3, <2>4, <2>5, <2>6, <2>7
       DEF JobsNext, Statement, ClockTick, jobsVars
<1>3. Inv /\ Inv' /\ [JobsNext]_jobsVars
        => [Slots!SlotsNext]_[s \in SessionIds |-> SlotOf(s)]
  BY <1>2
<1>4. JobsSpec => []Inv
  BY JobsTypeCorrect, OneActiveJob, PTL
<1>5. QED
  BY <1>1, <1>3, <1>4, PTL DEF JobsSpec, ImplementsSlots, Slots!SlotsSpec

===============================================================================
