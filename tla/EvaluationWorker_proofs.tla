----------------------- MODULE EvaluationWorker_proofs -----------------------
(***************************************************************************)
(* Proofs about the evaluation worker, for any number of processes, jobs,  *)
(* sessions and evaluators.  What the two tables keep by themselves is     *)
(* taken from the proofs about them; the inductive invariant adds what the *)
(* handlers, the ticks and the evaluator threads hold.                     *)
(***************************************************************************)
EXTENDS EvaluationWorker, FiniteSetTheorems, TLAPS

JobTable == INSTANCE EvaluationJobs_proofs
RowTable == INSTANCE SessionEvaluation_proofs

-----------------------------------------------------------------------------
(* The tables of the worker are the tables of those proofs. *)

LEMMA SameJobTable ==
  /\ JobTable!JobsAssumption
  /\ Jobs!JobsNext <=> JobTable!JobsNext
  /\ UNCHANGED Jobs!jobsVars <=> UNCHANGED JobTable!jobsVars
  /\ Jobs!JobsTypeOK <=> JobTable!JobsTypeOK
  /\ Jobs!JobsTypeOK' <=> JobTable!JobsTypeOK'
  /\ Jobs!OneActivePerSession <=> JobTable!OneActivePerSession
  /\ Jobs!OneActivePerSession' <=> JobTable!OneActivePerSession'
<1> USE TablesAssumption
    DEF Jobs!JobsAssumption, JobTable!JobsAssumption, Jobs!Time, JobTable!Time,
        Jobs!JobRow, JobTable!JobRow, Jobs!Triggers, JobTable!Triggers,
        Jobs!Statuses, JobTable!Statuses, Jobs!ActiveStatuses,
        JobTable!ActiveStatuses, Jobs!TerminalStatuses, JobTable!TerminalStatuses,
        Jobs!Rows, JobTable!Rows, Jobs!WithStatus, JobTable!WithStatus,
        Jobs!ActiveJobs, JobTable!ActiveJobs, Jobs!StaleMarker,
        JobTable!StaleMarker, Jobs!IsStale, JobTable!IsStale,
        Jobs!StampsMatchStatus, JobTable!StampsMatchStatus,
        Jobs!JobsTypeOK, JobTable!JobsTypeOK,
        Jobs!OneActivePerSession, JobTable!OneActivePerSession
<1>1. JobTable!JobsAssumption
  OBVIOUS
<1>2. Jobs!JobsNext <=> JobTable!JobsNext
  BY DEF Jobs!JobsNext, JobTable!JobsNext, Jobs!Statement, JobTable!Statement,
         Jobs!CreateJob, JobTable!CreateJob, Jobs!PromoteToManual,
         JobTable!PromoteToManual, Jobs!UpdateQueuedEvaluator,
         JobTable!UpdateQueuedEvaluator, Jobs!ClaimJob, JobTable!ClaimJob,
         Jobs!FailStaleJobs, JobTable!FailStaleJobs, Jobs!MarkSucceeded,
         JobTable!MarkSucceeded, Jobs!MarkFailed, JobTable!MarkFailed,
         Jobs!ClockTick, JobTable!ClockTick
<1>3. UNCHANGED Jobs!jobsVars <=> UNCHANGED JobTable!jobsVars
  BY DEF Jobs!jobsVars, JobTable!jobsVars
<1>4. /\ Jobs!JobsTypeOK <=> JobTable!JobsTypeOK
      /\ Jobs!JobsTypeOK' <=> JobTable!JobsTypeOK'
  OBVIOUS
<1>5. /\ Jobs!OneActivePerSession <=> JobTable!OneActivePerSession
      /\ Jobs!OneActivePerSession' <=> JobTable!OneActivePerSession'
  OBVIOUS
<1> QED
  BY <1>1, <1>2, <1>3, <1>4, <1>5

LEMMA SameRowTable ==
  /\ RowTable!SessionsAssumption
  /\ Rows!SessionsInit <=> RowTable!SessionsInit
  /\ Rows!SessionsNext <=> RowTable!SessionsNext
  /\ UNCHANGED Rows!sessionVars <=> UNCHANGED RowTable!sessionVars
  /\ RowTable!VerdictInv => Rows!SessionsTypeOK /\ Rows!UncontendedVerdictKept
  /\ RowTable!VerdictInv' => Rows!SessionsTypeOK'
<1> USE TablesAssumption
    DEF Rows!SessionsAssumption, RowTable!SessionsAssumption, Rows!Time,
        RowTable!Time, Rows!SessionRow, RowTable!SessionRow, Rows!Sources,
        RowTable!Sources, Rows!Outcomes, RowTable!Outcomes, Rows!NotWriting,
        RowTable!NotWriting, Rows!Cleared, RowTable!Cleared, Rows!Loaded,
        RowTable!Loaded, Rows!WriterStates, RowTable!WriterStates
<1>1. RowTable!SessionsAssumption
  OBVIOUS
<1>2. Rows!SessionsInit <=> RowTable!SessionsInit
  BY DEF Rows!SessionsInit, RowTable!SessionsInit
<1>3. Rows!SessionsNext <=> RowTable!SessionsNext
  BY DEF Rows!SessionsNext, RowTable!SessionsNext, Rows!RowWrite,
         RowTable!RowWrite, Rows!RecordUsage, RowTable!RecordUsage,
         Rows!BeginWrite, RowTable!BeginWrite, Rows!LoadForUpsert,
         RowTable!LoadForUpsert, Rows!CheckNotManual, RowTable!CheckNotManual,
         Rows!LoadForDelete, RowTable!LoadForDelete, Rows!LoadNoOp,
         RowTable!LoadNoOp, Rows!CommitWrite, RowTable!CommitWrite,
         Rows!AbandonWrites, RowTable!AbandonWrites, Rows!NoteContention,
         RowTable!NoteContention, Rows!WritersOn, RowTable!WritersOn,
         Rows!NoteHandWrite, RowTable!NoteHandWrite, Rows!WrittenRow,
         RowTable!WrittenRow, Rows!Written, RowTable!Written,
         Rows!SessionClockTick, RowTable!SessionClockTick,
         Rows!evaluationVars, RowTable!evaluationVars
<1>4. UNCHANGED Rows!sessionVars <=> UNCHANGED RowTable!sessionVars
  BY DEF Rows!sessionVars, RowTable!sessionVars, Rows!evaluationVars,
         RowTable!evaluationVars
<1>5. RowTable!VerdictInv => Rows!SessionsTypeOK
  BY DEF RowTable!VerdictInv, Rows!SessionsTypeOK, RowTable!SessionsTypeOK
<1>5a. RowTable!VerdictInv' => Rows!SessionsTypeOK'
  BY DEF RowTable!VerdictInv, Rows!SessionsTypeOK, RowTable!SessionsTypeOK
<1>6. RowTable!VerdictInv => Rows!UncontendedVerdictKept
  BY DEF RowTable!VerdictInv, RowTable!SessionInv, Rows!UncontendedVerdictKept,
         Rows!KeepsHandVerdict, RowTable!KeepsHandVerdict,
         Rows!ColumnsTogether, RowTable!ColumnsTogether
<1> QED
  BY <1>1, <1>2, <1>3, <1>4, <1>5, <1>5a, <1>6

\* A step on the job table keeps its types and its one active job per session.
LEMMA JobTableKept ==
  ASSUME Jobs!JobsTypeOK, Jobs!OneActivePerSession,
         Jobs!JobsNext \/ UNCHANGED Jobs!jobsVars
  PROVE  Jobs!JobsTypeOK' /\ Jobs!OneActivePerSession'
<1>1. JobTable!JobsTypeOK'
  BY SameJobTable, JobTable!StepTypeOK
<1>2. JobTable!OneActivePerSession'
  BY SameJobTable, JobTable!StepKeepsOneActive
<1> QED
  BY <1>1, <1>2, SameJobTable

\* A step on the rows keeps the invariant of their writers.
LEMMA RowTableKept ==
  ASSUME RowTable!VerdictInv, Rows!SessionsNext \/ UNCHANGED Rows!sessionVars
  PROVE  RowTable!VerdictInv'
BY SameRowTable, RowTable!StepVerdict

-----------------------------------------------------------------------------
(* What each thread holds. *)

LEMMA Writing ==
  /\ \A p \in Processes : Api(p) \in Writers /\ Tick(p) \in Writers
  /\ \A j \in JobIds : Eval(j) \in Writers
  /\ \A p, q \in Processes : Api(p) # Tick(q)
  /\ \A p \in Processes, j \in JobIds : Api(p) # Eval(j) /\ Tick(p) # Eval(j)
  /\ \A p, q \in Processes : p # q => Api(p) # Api(q) /\ Tick(p) # Tick(q)
  /\ \A j, k \in JobIds : j # k => Eval(j) # Eval(k)
BY DEF Writers, Api, Tick, Eval

LEMMA ActiveJobRow ==
  ASSUME Jobs!JobsTypeOK, NEW s, NEW j \in Jobs!ActiveJobs(s)
  PROVE  /\ j \in JobIds /\ jobs[j] \in Jobs!JobRow
         /\ jobs[j].status \in Jobs!Statuses
BY DEF Jobs!ActiveJobs, Jobs!WithStatus, Jobs!Rows, Jobs!JobsTypeOK, Jobs!JobRow

LEMMA ApiState ==
  ASSUME api \in [Processes -> ApiStates], NEW p \in Processes
  PROVE  LET r == api[p] IN
         /\ r.pc \in {"idle", "write", "find", "create", "expire", "promote",
                      "retarget"}
         /\ r.pc \in {"find", "create"} =>
              r \in [pc : {"find", "create"}, session : SessionIds,
                     evaluator : Evaluators]
         /\ r.pc \in {"expire", "promote"} =>
              /\ r.job \in JobIds /\ r.status \in Jobs!Statuses
              /\ r.session \in SessionIds /\ r.evaluator \in Evaluators
         /\ r.pc = "retarget" => r.job \in JobIds /\ r.evaluator \in Evaluators
BY DEF ApiStates, Idle

\* What find_active_session_evaluation_job decides.
LEMMA FindDecides ==
  ASSUME NEW p, FindActive(p), NEW r, r = api[p]
  PROVE  \/ Jobs!ActiveJobs(r.session) = {} /\ ApiTo(p, [r EXCEPT !.pc = "create"])
         \/ ApiTo(p, Idle)
         \/ \E j \in Jobs!ActiveJobs(r.session),
               pc \in {"expire", "promote", "retarget"} :
              ApiTo(p, [pc |-> pc, job |-> j, status |-> jobs[j].status,
                        session |-> r.session, evaluator |-> r.evaluator])
BY DEF FindActive

\* A request moves its own handler only, to a state that holds what it needs.
LEMMA ApiMoves ==
  ASSUME TypeOK, NEW p \in Processes,
         ApiStep(p) \/ ApiRequest(p) \/ FailRequest(p) \/ Crash(p)
  PROVE  \E r \in ApiStates : ApiTo(p, r)
<1>0. api \in [Processes -> ApiStates] /\ Jobs!JobsTypeOK
  BY DEF TypeOK
<1>1. Idle \in ApiStates /\ [pc |-> "write"] \in ApiStates
  BY DEF ApiStates
<1>2. CASE FindActive(p)
  <2> PICK r : r = api[p]
    OBVIOUS
  <2>1. r \in [pc : {"find", "create"}, session : SessionIds, evaluator : Evaluators]
    BY <1>0, <1>2, ApiState DEF FindActive, ApiAt
  <2>2. CASE Jobs!ActiveJobs(r.session) = {} /\ ApiTo(p, [r EXCEPT !.pc = "create"])
    <3>1. [r EXCEPT !.pc = "create"] \in ApiStates
      BY <2>1 DEF ApiStates
    <3> QED
      BY <2>2, <3>1
  <2>3. ASSUME NEW j \in Jobs!ActiveJobs(r.session),
               NEW pc \in {"expire", "promote", "retarget"},
               ApiTo(p, [pc |-> pc, job |-> j, status |-> jobs[j].status,
                         session |-> r.session, evaluator |-> r.evaluator])
        PROVE  \E x \in ApiStates : ApiTo(p, x)
    <3>1. [pc |-> pc, job |-> j, status |-> jobs[j].status,
           session |-> r.session, evaluator |-> r.evaluator] \in ApiStates
      BY <1>0, <2>1, <2>3, ActiveJobRow DEF ApiStates
    <3> QED
      BY <2>3, <3>1
  <2> QED
    BY <1>1, <1>2, <2>2, <2>3, FindDecides
<1>3. CASE ExpireFound(p)
  <2>1. api[p].session \in SessionIds /\ api[p].evaluator \in Evaluators
    BY <1>0, <1>3, ApiState DEF ExpireFound, ApiAt
  <2>2. [pc |-> "create", session |-> api[p].session,
         evaluator |-> api[p].evaluator] \in ApiStates
    BY <2>1 DEF ApiStates
  <2> QED
    BY <1>3, <2>2 DEF ExpireFound
<1>4. CASE Promote(p) \/ Retarget(p) \/ CreateRequested(p) \/ CommitByHand(p)
           \/ FailRequest(p) \/ Crash(p)
  BY <1>1, <1>4 DEF Promote, Retarget, CreateRequested, CommitByHand, FailRequest, Crash
<1>5. ASSUME NEW s \in SessionIds, NEW e \in Evaluators, RequestEvaluation(p, s, e)
      PROVE  \E r \in ApiStates : ApiTo(p, r)
  <2>1. [pc |-> "find", session |-> s, evaluator |-> e] \in ApiStates
    BY DEF ApiStates
  <2> QED
    BY <1>5, <2>1 DEF RequestEvaluation
<1>6. ASSUME NEW j \in JobIds, NEW e \in Evaluators, RequestEvaluator(p, j, e)
      PROVE  \E r \in ApiStates : ApiTo(p, r)
  <2>1. [pc |-> "retarget", job |-> j, evaluator |-> e] \in ApiStates
    BY DEF ApiStates
  <2> QED
    BY <1>6, <2>1 DEF RequestEvaluator
<1>7. ASSUME NEW s \in SessionIds, WriteByHand(p, s)
      PROVE  \E r \in ApiStates : ApiTo(p, r)
  BY <1>1, <1>7 DEF WriteByHand
<1> QED
  BY <1>2, <1>3, <1>4, <1>5, <1>6, <1>7 DEF ApiStep, ApiRequest

LEMMA TickState ==
  ASSUME tick \in [Processes -> TickStates], NEW p \in Processes
  PROVE  LET t == tick[p] IN
         /\ t.pc \in {"idle", "stale", "list", "expire", "classify", "mark",
                      "enqueue", "select", "limit", "return", "pick", "claim"}
         /\ t.pc = "expire" => t.at \in Jobs!Time /\ t.stale \in SUBSET JobIds
         /\ t.pc \in {"classify", "mark", "enqueue"} =>
              t \in [pc : {"classify", "mark", "enqueue"}, todo : SUBSET SessionIds]
         /\ t.pc = "select" => t.slots \in Nat \ {0}
         /\ t.pc \in {"limit", "return", "pick", "claim"} => t.claimed \in Claims
         /\ t.pc \in {"pick", "claim"} => t.at \in Jobs!Time
         /\ t.pc = "claim" => t.job \in JobIds
BY DEF TickStates, Idle

LEMMA CountSlotsTypes ==
  ASSUME Jobs!JobsTypeOK
  PROVE  MaxConcurrent * BufferMultiplier - Cardinality(Active) \in Int
<1>1. Cardinality(Active) \in Nat
  <2>1. Active \subseteq JobIds
    BY DEF Active, Jobs!WithStatus, Jobs!Rows
  <2> QED
    BY <2>1, TablesAssumption, FS_Subset, FS_CardinalityType
<1>2. MaxConcurrent * BufferMultiplier \in Nat
  BY WorkerAssumption
<1> QED
  BY <1>1, <1>2

\* A tick moves its own process only.
LEMMA TickMoves ==
  ASSUME TypeOK, NEW p \in Processes, TickStep(p) \/ FailTick(p) \/ Crash(p)
  PROVE  \/ UNCHANGED tick
         \/ \E t \in TickStates :
              /\ TickTo(p, t)
              /\ t.pc \in {"expire", "pick", "claim"} => t.at <= now
<1> DEFINE Goal == \E t \in TickStates :
                     /\ TickTo(p, t)
                     /\ t.pc \in {"expire", "pick", "claim"} => t.at <= now
<1> DEFINE Fine(t) == t \in TickStates
                      /\ (t.pc \in {"expire", "pick", "claim"} => t.at <= now)
<1>0. /\ tick \in [Processes -> TickStates] /\ Jobs!JobsTypeOK
      /\ now \in Jobs!Time /\ now <= now
      /\ tick[p].pc \in {"expire", "pick", "claim"} => tick[p].at <= now
  BY TablesAssumption DEF TypeOK, Jobs!JobsTypeOK, Jobs!Time, Jobs!JobsAssumption
<1>1. Fine(Idle) /\ Fine([pc |-> "stale"]) /\ Fine([pc |-> "list"])
  BY DEF TickStates, Idle
<1>2. ASSUME NEW pc \in {"classify", "mark", "enqueue"}, NEW S \in SUBSET SessionIds
      PROVE  Fine([pc |-> pc, todo |-> S])
  BY DEF TickStates
<1>3. ASSUME NEW pc \in {"limit", "return"}, NEW C \in Claims
      PROVE  Fine([pc |-> pc, claimed |-> C])
  BY DEF TickStates
<1>4. ASSUME NEW C \in Claims, NEW at \in Jobs!Time, at <= now
      PROVE  /\ Fine([pc |-> "pick", at |-> at, claimed |-> C])
             /\ \A j \in JobIds :
                  Fine([pc |-> "claim", job |-> j, at |-> at, claimed |-> C])
  BY <1>4 DEF TickStates
<1>5. ASSUME NEW t, Fine(t), TickTo(p, t) PROVE Goal
  BY <1>5
<1>11. CASE StartTick(p)
  BY <1>1, <1>5, <1>11 DEF StartTick
<1>12. CASE ReadStale(p)
  <2> PICK S : S = {j \in Running : Jobs!IsStale(jobs[j], now)}
    OBVIOUS
  <2>1. S \in SUBSET JobIds
    BY DEF Running, Jobs!WithStatus, Jobs!Rows
  <2>2. Fine([pc |-> "expire", at |-> now, stale |-> S])
    BY <1>0, <2>1 DEF TickStates
  <2> QED
    BY <1>5, <1>12, <2>2 DEF ReadStale
<1>13. CASE ExpireStale(p)
  BY <1>1, <1>5, <1>13 DEF ExpireStale
<1>14. CASE ListEvaluatorSessions(p)
  <2> PICK S : S = {s \in EvaluatorSessions :
                      /\ sessions[s] # NoSession
                      /\ sessions[s].source # "manual"
                      /\ sessions[s].outcome # NoOp}
    OBVIOUS
  <2>1. S \in SUBSET SessionIds
    BY WorkerAssumption
  <2> QED
    BY <1>2, <1>5, <1>14, <2>1 DEF ListEvaluatorSessions
<1>15. ASSUME NEW s \in SessionIds, CheckNoOp(p, s) PROVE Goal
  <2> PICK t : t = tick[p]
    OBVIOUS
  <2>1. t \in [pc : {"classify", "mark", "enqueue"}, todo : SUBSET SessionIds]
    BY <1>0, <1>15, TickState DEF CheckNoOp, TickAt
  <2>2. CASE TickTo(p, [t EXCEPT !.pc = "mark", !.todo = t.todo \ {s}])
    <3> DEFINE u == [t EXCEPT !.pc = "mark", !.todo = t.todo \ {s}]
    <3>1. u \in [pc : {"mark"}, todo : SUBSET SessionIds]
      BY <2>1
    <3>2. Fine(u)
      BY <3>1 DEF TickStates
    <3> QED
      BY <1>5, <2>2, <3>2
  <2>3. CASE TickTo(p, [t EXCEPT !.todo = t.todo \ {s}])
    <3>1. [t EXCEPT !.todo = t.todo \ {s}] = [pc |-> t.pc, todo |-> t.todo \ {s}]
      BY <2>1
    <3> QED
      BY <1>2, <1>5, <2>1, <2>3, <3>1
  <2> QED
    BY <1>15, <2>2, <2>3 DEF CheckNoOp
<1>16. CASE LoadNoOp(p)
  BY <1>16 DEF LoadNoOp
<1>17. CASE CommitNoOp(p)
  <2> PICK t : t = tick[p]
    OBVIOUS
  <2>1. t \in [pc : {"classify", "mark", "enqueue"}, todo : SUBSET SessionIds]
    BY <1>0, <1>17, TickState DEF CommitNoOp, TickAt
  <2>2. [t EXCEPT !.pc = "classify"] = [pc |-> "classify", todo |-> t.todo]
    BY <2>1
  <2> QED
    BY <1>2, <1>5, <1>17, <2>1, <2>2 DEF CommitNoOp
<1>18. CASE CountSlots(p)
  <2> PICK slots : slots = MaxConcurrent * BufferMultiplier - Cardinality(Active)
    OBVIOUS
  <2>1. slots > 0 => Fine([pc |-> "select", slots |-> slots])
    BY <1>0, CountSlotsTypes DEF TickStates
  <2>2. Fine([pc |-> "limit", claimed |-> {}])
    BY <1>3 DEF Claims
  <2> QED
    BY <1>5, <1>18, <2>1, <2>2 DEF CountSlots
<1>19. CASE SelectCandidates(p)
  <2>1. PICK S \in SUBSET {s \in SessionIds : Eligible(s)} :
               TickTo(p, [pc |-> "enqueue", todo |-> S])
    BY <1>19 DEF SelectCandidates
  <2> QED
    BY <1>2, <1>5, <2>1
<1>20. ASSUME NEW s \in SessionIds, Enqueue(p, s) PROVE Goal
  <2> PICK t : t = tick[p]
    OBVIOUS
  <2>1. t \in [pc : {"classify", "mark", "enqueue"}, todo : SUBSET SessionIds]
    BY <1>0, <1>20, TickState DEF Enqueue, TickAt
  <2>2. [t EXCEPT !.todo = t.todo \ {s}] = [pc |-> t.pc, todo |-> t.todo \ {s}]
    BY <2>1
  <2> QED
    BY <1>2, <1>5, <1>20, <2>1, <2>2 DEF Enqueue
<1>21. CASE EnqueueDone(p)
  BY <1>3, <1>5, <1>21 DEF EnqueueDone, Claims
<1>22. CASE CheckLimit(p)
  <2>1. tick[p].claimed \in Claims
    BY <1>0, <1>22, TickState DEF CheckLimit, TickAt
  <2> QED
    BY <1>0, <1>3, <1>4, <1>5, <1>22, <2>1 DEF CheckLimit
<1>23. CASE PickCandidate(p)
  <2>1. tick[p].claimed \in Claims /\ tick[p].at \in Jobs!Time /\ tick[p].at <= now
    BY <1>0, <1>23, TickState DEF PickCandidate, TickAt
  <2>2. \A j \in NextQueued : j \in JobIds
    BY DEF NextQueued, Queued, Jobs!WithStatus, Jobs!Rows
  <2> QED
    BY <1>3, <1>4, <1>5, <1>23, <2>1, <2>2 DEF PickCandidate
<1>24. CASE Claim(p)
  <2>1. /\ tick[p].claimed \in Claims /\ tick[p].at \in Jobs!Time
        /\ tick[p].at <= now /\ tick[p].job \in JobIds
    BY <1>0, <1>24, TickState DEF Claim, TickAt
  <2>2. Jobs!ClaimJob(tick[p].job, tick[p].at) =>
          tick[p].claimed \cup {<<tick[p].job, jobs[tick[p].job].evaluator>>} \in Claims
    BY <1>0, <2>1 DEF Jobs!ClaimJob, Jobs!WithStatus, Jobs!Rows, Jobs!JobsTypeOK,
                      Jobs!JobRow, Claims
  <2> QED
    BY <1>3, <1>4, <1>5, <1>24, <2>1, <2>2 DEF Claim
<1>25. CASE LaunchClaimed(p) \/ FailTick(p) \/ Crash(p)
  BY <1>1, <1>5, <1>25 DEF LaunchClaimed, FailTick, Crash
<1> QED
  BY <1>11, <1>12, <1>13, <1>14, <1>15, <1>16, <1>17, <1>18, <1>19, <1>20, <1>21,
     <1>22, <1>23, <1>24, <1>25 DEF TickStep

\* An evaluator thread that is there holds its process and its evaluator.
LEMMA ThreadState ==
  ASSUME thread \in [JobIds -> ThreadStates \cup {NoThread}], NEW j \in JobIds,
         thread[j] # NoThread
  PROVE  /\ thread[j].process \in Processes /\ thread[j].evaluator \in Evaluators
         /\ thread[j].pc \in {"start", "evaluate", "commit", "succeed", "fail"}
         /\ \/ thread[j] \in [pc : {"start", "succeed", "fail"},
                              process : Processes, evaluator : Evaluators]
            \/ thread[j] \in [pc : {"evaluate", "commit", "succeed", "fail"},
                              process : Processes, evaluator : Evaluators,
                              began : Jobs!Time]
BY DEF ThreadStates

\* What comes next keeps the process and the evaluator of a thread.
LEMMA ThreadTurn ==
  ASSUME thread \in [JobIds -> ThreadStates \cup {NoThread}], NEW j \in JobIds,
         thread[j] # NoThread, NEW pc \in {"commit", "succeed", "fail"},
         pc = "commit" => thread[j].pc = "evaluate"
  PROVE  /\ [thread[j] EXCEPT !.pc = pc] \in ThreadStates
         /\ [thread[j] EXCEPT !.pc = pc].evaluator = thread[j].evaluator
         /\ [thread[j] EXCEPT !.pc = pc].pc = pc
<1> PICK t : t = thread[j]
  OBVIOUS
<1>1. CASE t \in [pc : {"start", "succeed", "fail"},
                  process : Processes, evaluator : Evaluators]
  BY <1>1 DEF ThreadStates
<1>2. CASE t \in [pc : {"evaluate", "commit", "succeed", "fail"},
                  process : Processes, evaluator : Evaluators, began : Jobs!Time]
  BY <1>2 DEF ThreadStates
<1> QED
  BY <1>1, <1>2, ThreadState

\* The thread of job j moves, or ends, and stays the thread it was.
ThreadTurns(j) ==
  \E t \in ThreadStates \cup {NoThread} :
    /\ thread' = [thread EXCEPT ![j] = t]
    /\ t # NoThread => t.evaluator = thread[j].evaluator

LEMMA ThreadMoves ==
  ASSUME TypeOK, NEW j \in JobIds, ThreadStep(j) \/ FailEvaluator(j)
  PROVE  /\ thread[j] # NoThread
         /\ ThreadTurns(j)
<1>0. /\ thread \in [JobIds -> ThreadStates \cup {NoThread}]
      /\ now \in Jobs!Time
      /\ thread[j] # NoThread
  BY DEF TypeOK, Jobs!JobsTypeOK, ThreadStep, BeginJob, CommitVerdict, FinishJob,
         EvaluatorAnswers, EvaluatorFails, FailEvaluator, ThreadAt
<1>1. ASSUME NEW pc \in {"commit", "succeed", "fail"},
             pc = "commit" => thread[j].pc = "evaluate", ThreadTo(j, pc)
      PROVE  ThreadTurns(j)
  <2>1. thread' = [thread EXCEPT ![j] = [thread[j] EXCEPT !.pc = pc]]
    BY <1>0, <1>1 DEF ThreadTo
  <2> QED
    BY <1>0, <1>1, <2>1, ThreadTurn DEF ThreadTurns
<1>2. ASSUME thread' = [thread EXCEPT ![j] = NoThread] PROVE ThreadTurns(j)
  BY <1>2 DEF ThreadTurns
<1>3. CASE BeginJob(j)
  <2>0. PICK t : t = [pc |-> "evaluate", process |-> thread[j].process,
                    evaluator |-> thread[j].evaluator, began |-> now]
    OBVIOUS
  <2>1. t \in ThreadStates /\ t.evaluator = thread[j].evaluator
    BY <1>0, <2>0, ThreadState DEF ThreadStates
  <2>2. ThreadTo(j, "succeed") \/ thread' = [thread EXCEPT ![j] = t]
    BY <1>3, <2>0 DEF BeginJob
  <2>3. CASE thread' = [thread EXCEPT ![j] = t]
    BY <1>0, <2>1, <2>3 DEF ThreadTurns
  <2> QED
    BY <1>0, <1>1, <2>2, <2>3 DEF ThreadTo
<1>4. ASSUME NEW v, EvaluatorAnswers(j, v) PROVE ThreadTurns(j)
  BY <1>1, <1>4 DEF EvaluatorAnswers, ThreadAt, ThreadTo
<1>5. CASE EvaluatorFails(j) \/ CommitVerdict(j)
  BY <1>0, <1>1, <1>5 DEF EvaluatorFails, CommitVerdict, ThreadTo
<1>6. CASE FinishJob(j)
  BY <1>0, <1>2, <1>6 DEF FinishJob
<1>7. CASE FailEvaluator(j)
  BY <1>0, <1>1, <1>2, <1>7 DEF FailEvaluator, ThreadTo
<1>8. ThreadTurns(j)
  BY <1>3, <1>4, <1>5, <1>6, <1>7 DEF ThreadStep
<1> QED
  BY <1>0, <1>8

\* A tick starts threads for the jobs it claimed, with the evaluator it read
\* from the row.
LEMMA LaunchStarts ==
  ASSUME TypeOK, NEW p \in Processes, LaunchClaimed(p), NEW j \in JobIds
  PROVE  /\ thread' \in [JobIds -> ThreadStates \cup {NoThread}]
         /\ j \notin Claimed(p) => thread'[j] = thread[j]
         /\ j \in Claimed(p) => /\ thread'[j] # NoThread /\ thread'[j].pc = "start"
                                /\ <<j, thread'[j].evaluator>> \in tick[p].claimed
<1> DEFINE Has(k) == \E e \in Evaluators : <<k, e>> \in tick[p].claimed
           Of(k) == CHOOSE e \in Evaluators : <<k, e>> \in tick[p].claimed
           New(k) == [pc |-> "start", process |-> p, evaluator |-> Of(k)]
<1>0. /\ thread \in [JobIds -> ThreadStates \cup {NoThread}]
      /\ tick[p].claimed \in Claims /\ tick[p].pc = "return"
  BY TickState DEF TypeOK, LaunchClaimed, TickAt
<1>1. thread' = [k \in JobIds |-> IF Has(k) THEN New(k) ELSE thread[k]]
  BY DEF LaunchClaimed
<1>2. ASSUME NEW k \in JobIds, Has(k)
      PROVE  /\ Of(k) \in Evaluators /\ <<k, Of(k)>> \in tick[p].claimed
             /\ New(k) \in ThreadStates /\ New(k) # NoThread
  <2>1. Of(k) \in Evaluators /\ <<k, Of(k)>> \in tick[p].claimed
    BY <1>2
  <2> HIDE DEF Of
  <2> QED
    BY <2>1, TablesAssumption DEF ThreadStates
<1>3. ASSUME NEW k \in JobIds PROVE k \in Claimed(p) <=> Has(k)
  <2>1. Claimed(p) = {c[1] : c \in tick[p].claimed}
    BY <1>0 DEF Claimed
  <2>2. \A c \in tick[p].claimed : c = <<c[1], c[2]>> /\ c[2] \in Evaluators
    BY <1>0 DEF Claims
  <2> QED
    BY <2>1, <2>2
<1> HIDE DEF Has, Of
<1>4. thread' \in [JobIds -> ThreadStates \cup {NoThread}]
  BY <1>0, <1>1, <1>2
<1>5. Has(j) => thread'[j] = New(j)
  BY <1>1
<1>6. ~Has(j) => thread'[j] = thread[j]
  BY <1>1
<1> QED
  BY <1>2, <1>3, <1>4, <1>5, <1>6

-----------------------------------------------------------------------------
(* The writes in flight. *)

\* What one load, one commit and one rollback do to the writes in flight.
LEMMA WriteStages ==
  ASSUME Rows!SessionsTypeOK
  PROVE  /\ \A w \in Writers : \A s, source, outcome, skip :
              Rows!LoadForUpsert(w, s, source, outcome, skip) =>
                /\ writing'[w].stage = "loaded"
                /\ \A v \in Writers \ {w} : writing'[v] = writing[v]
         /\ \A w \in Writers : \A s :
              Rows!LoadForDelete(w, s) =>
                /\ writing'[w].stage = "loaded"
                /\ \A v \in Writers \ {w} : writing'[v] = writing[v]
         /\ \A w \in Writers : \A s :
              Rows!CheckNotManual(w, s) =>
                /\ writing'[w].stage = "cleared"
                /\ \A v \in Writers \ {w} : writing'[v] = writing[v]
         /\ \A w \in Writers :
              Rows!CommitWrite(w) =>
                /\ writing'[w].stage = "idle"
                /\ \A v \in Writers \ {w} : writing'[v] = writing[v]
         /\ \A W \in SUBSET Writers :
              Rows!AbandonWrites(W) =>
                /\ \A w \in W : writing'[w].stage = "idle"
                /\ \A v \in Writers \ W : writing'[v] = writing[v]
<1> USE DEF Rows!SessionsTypeOK, Rows!Loaded, Rows!Cleared, Rows!NotWriting
<1>1. \A w \in Writers : \A s, source, outcome, skip :
        Rows!LoadForUpsert(w, s, source, outcome, skip) =>
          /\ writing'[w].stage = "loaded"
          /\ \A v \in Writers \ {w} : writing'[v] = writing[v]
  BY DEF Rows!LoadForUpsert
<1>2. \A w \in Writers : \A s :
        Rows!LoadForDelete(w, s) =>
          /\ writing'[w].stage = "loaded"
          /\ \A v \in Writers \ {w} : writing'[v] = writing[v]
  BY DEF Rows!LoadForDelete
<1>3. \A w \in Writers : \A s :
        Rows!CheckNotManual(w, s) =>
          /\ writing'[w].stage = "cleared"
          /\ \A v \in Writers \ {w} : writing'[v] = writing[v]
  BY DEF Rows!CheckNotManual
<1>4. \A w \in Writers :
        Rows!CommitWrite(w) =>
          /\ writing'[w].stage = "idle"
          /\ \A v \in Writers \ {w} : writing'[v] = writing[v]
  BY DEF Rows!CommitWrite
<1>5. \A W \in SUBSET Writers :
        Rows!AbandonWrites(W) =>
          /\ \A w \in W : writing'[w].stage = "idle"
          /\ \A v \in Writers \ W : writing'[v] = writing[v]
  BY DEF Rows!AbandonWrites
<1> QED
  BY <1>1, <1>2, <1>3, <1>4, <1>5

StageIs(w, loaded) == writing[w].stage = IF loaded THEN "loaded" ELSE "idle"

\* A request touches its own write only, and leaves it in flight exactly when
\* it goes to its commit.
LEMMA ApiWrites ==
  ASSUME TypeOK, NEW p \in Processes, ApiStep(p) \/ ApiRequest(p) \/ FailRequest(p)
  PROVE  /\ UNCHANGED <<now, up, tick, thread>>
         /\ \A q \in Processes \ {p} : api'[q] = api[q]
         /\ StageIs(Api(p), api[p].pc = "write")'
         /\ \A w \in Writers \ {Api(p)} : writing'[w] = writing[w]
<1> DEFINE Goal == /\ UNCHANGED <<now, up, tick, thread>>
                   /\ \A q \in Processes \ {p} : api'[q] = api[q]
                   /\ StageIs(Api(p), api[p].pc = "write")'
                   /\ \A w \in Writers \ {Api(p)} : writing'[w] = writing[w]
<1>0. /\ api \in [Processes -> ApiStates] /\ Rows!SessionsTypeOK
      /\ Api(p) \in Writers /\ {Api(p)} \in SUBSET Writers
      /\ StageIs(Api(p), api[p].pc = "write")
  BY Writing DEF TypeOK, StageIs
<1>1. CASE FindActive(p)
  <2>1. api[p].pc = "find" /\ UNCHANGED <<writing, now, up, tick, thread>>
    BY <1>1 DEF FindActive, ApiAt, rowVars
  <2>2. PICK r : ApiTo(p, r) /\ r.pc # "write"
    <3>1. api[p] \in [pc : {"find", "create"}, session : SessionIds,
                      evaluator : Evaluators]
      BY <1>0, <2>1, ApiState
    <3>2. [api[p] EXCEPT !.pc = "create"].pc = "create"
      BY <3>1
    <3>3. ASSUME NEW j \in Jobs!ActiveJobs(api[p].session),
                 NEW pc \in {"expire", "promote", "retarget"},
                 ApiTo(p, [pc |-> pc, job |-> j, status |-> jobs[j].status,
                           session |-> api[p].session,
                           evaluator |-> api[p].evaluator])
          PROVE  \E r : ApiTo(p, r) /\ r.pc # "write"
      BY <3>3
    <3>4. ApiTo(p, Idle) => \E r : ApiTo(p, r) /\ r.pc # "write"
      BY DEF Idle
    <3> QED
      BY <1>1, <3>2, <3>3, <3>4, FindDecides
  <2> QED
    BY <1>0, <2>1, <2>2 DEF ApiTo, StageIs
<1>2. CASE ExpireFound(p) \/ Promote(p) \/ Retarget(p) \/ CreateRequested(p)
  BY <1>0, <1>2
     DEF ExpireFound, Promote, Retarget, CreateRequested, ApiAt, ApiTo, Idle, StageIs,
         rowVars
<1>3. CASE CommitByHand(p)
  BY <1>0, <1>3, WriteStages DEF CommitByHand, ApiTo, Idle, StageIs
<1>4. ASSUME NEW s \in SessionIds, NEW e \in Evaluators, RequestEvaluation(p, s, e)
      PROVE  Goal
  BY <1>0, <1>4 DEF RequestEvaluation, ApiAt, ApiTo, StageIs, rowVars
<1>5. ASSUME NEW j \in JobIds, NEW e \in Evaluators, RequestEvaluator(p, j, e)
      PROVE  Goal
  BY <1>0, <1>5 DEF RequestEvaluator, ApiAt, ApiTo, StageIs, rowVars
<1>6. ASSUME NEW s \in SessionIds, WriteByHand(p, s) PROVE Goal
  <2>1. /\ ApiTo(p, [pc |-> "write"]) /\ UNCHANGED <<now, up, tick, thread>>
        /\ \/ \E v \in Verdicts : Rows!LoadForUpsert(Api(p), s, "manual", v, FALSE)
           \/ Rows!LoadForDelete(Api(p), s)
    BY <1>6 DEF WriteByHand
  <2>2. /\ writing'[Api(p)].stage = "loaded"
        /\ \A w \in Writers \ {Api(p)} : writing'[w] = writing[w]
    BY <1>0, <2>1, WriteStages
  <2> QED
    BY <1>0, <2>1, <2>2 DEF ApiTo, StageIs
<1>7. CASE FailRequest(p)
  BY <1>0, <1>7, WriteStages DEF FailRequest, ApiTo, Idle, StageIs
<1> QED
  BY <1>1, <1>2, <1>3, <1>4, <1>5, <1>6, <1>7 DEF ApiStep, ApiRequest

\* A tick touches its own write only, which is in flight exactly while the tick
\* marks a session.
LEMMA TickWrites ==
  ASSUME TypeOK, NEW p \in Processes, TickStep(p) \/ FailTick(p)
  PROVE  /\ UNCHANGED <<now, up, api>>
         /\ \A q \in Processes \ {p} : tick'[q] = tick[q]
         /\ (tick'[p].pc = "mark") <=> (writing'[Tick(p)].stage # "idle")
         /\ \A w \in Writers \ {Tick(p)} : writing'[w] = writing[w]
<1> DEFINE Marks == (tick'[p].pc = "mark") <=> (writing'[Tick(p)].stage # "idle")
           Goal == /\ UNCHANGED <<now, up, api>>
                   /\ \A q \in Processes \ {p} : tick'[q] = tick[q]
                   /\ Marks
                   /\ \A w \in Writers \ {Tick(p)} : writing'[w] = writing[w]
<1>0. /\ tick \in [Processes -> TickStates] /\ Rows!SessionsTypeOK
      /\ Tick(p) \in Writers /\ {Tick(p)} \in SUBSET Writers
      /\ (tick[p].pc = "mark") <=> (writing[Tick(p)].stage # "idle")
  BY Writing DEF TypeOK
<1>1. CASE StartTick(p) \/ ReadStale(p) \/ ExpireStale(p) \/ ListEvaluatorSessions(p)
  BY <1>0, <1>1
     DEF StartTick, ReadStale, ExpireStale, ListEvaluatorSessions, TickAt, TickTo, rowVars
<1>2. ASSUME NEW s \in SessionIds, CheckNoOp(p, s) PROVE Goal
  <2> PICK t : t = tick[p]
    OBVIOUS
  <2>1. /\ t \in [pc : {"classify", "mark", "enqueue"}, todo : SUBSET SessionIds]
        /\ t.pc = "classify" /\ UNCHANGED <<now, up, api>>
    BY <1>0, <1>2, TickState DEF CheckNoOp, TickAt
  <2>2. CASE /\ Rows!CheckNotManual(Tick(p), s)
             /\ TickTo(p, [t EXCEPT !.pc = "mark", !.todo = t.todo \ {s}])
    <3>1. /\ writing'[Tick(p)].stage = "cleared"
          /\ \A w \in Writers \ {Tick(p)} : writing'[w] = writing[w]
      BY <1>0, <2>2, WriteStages
    <3>2. tick'[p].pc = "mark"
      BY <1>0, <2>1, <2>2 DEF TickTo
    <3> QED
      BY <1>0, <2>1, <2>2, <3>1, <3>2 DEF TickTo
  <2>3. CASE TickTo(p, [t EXCEPT !.todo = t.todo \ {s}]) /\ UNCHANGED rowVars
    BY <1>0, <2>1, <2>3 DEF TickTo, rowVars
  <2> QED
    BY <1>2, <2>2, <2>3 DEF CheckNoOp
<1>3. CASE LoadNoOp(p)
  <2>1. /\ UNCHANGED <<now, up, api, tick>> /\ tick[p].pc = "mark"
        /\ Rows!LoadForUpsert(Tick(p), writing[Tick(p)].session, "llm", NoOp, FALSE)
    BY <1>3 DEF LoadNoOp, TickAt, Rows!LoadNoOp
  <2> QED
    BY <1>0, <2>1, WriteStages
<1>4. CASE CommitNoOp(p)
  <2>1. tick[p] \in [pc : {"classify", "mark", "enqueue"}, todo : SUBSET SessionIds]
    BY <1>0, <1>4, TickState DEF CommitNoOp, TickAt
  <2>2. /\ writing'[Tick(p)].stage = "idle"
        /\ \A w \in Writers \ {Tick(p)} : writing'[w] = writing[w]
    BY <1>0, <1>4, WriteStages DEF CommitNoOp
  <2> QED
    BY <1>0, <1>4, <2>1, <2>2 DEF CommitNoOp, TickTo
<1>5. CASE CountSlots(p) \/ SelectCandidates(p) \/ EnqueueDone(p)
  <2>1. PICK t : TickTo(p, t) /\ t.pc \in {"select", "limit", "enqueue"}
    <3>1. CASE CountSlots(p)
      <4> PICK slots : slots = MaxConcurrent * BufferMultiplier - Cardinality(Active)
        OBVIOUS
      <4>1. \/ TickTo(p, [pc |-> "select", slots |-> slots])
            \/ TickTo(p, [pc |-> "limit", claimed |-> {}])
        BY <3>1 DEF CountSlots
      <4> QED
        BY <4>1
    <3>2. CASE SelectCandidates(p)
      <4>1. PICK S : TickTo(p, [pc |-> "enqueue", todo |-> S])
        BY <3>2 DEF SelectCandidates
      <4> QED
        BY <4>1
    <3>3. CASE EnqueueDone(p)
      BY <3>3 DEF EnqueueDone
    <3> QED
      BY <1>5, <3>1, <3>2, <3>3
  <2>2. tick[p].pc # "mark" /\ UNCHANGED <<writing, now, up, api>>
    BY <1>5 DEF CountSlots, SelectCandidates, EnqueueDone, TickAt, rowVars
  <2> QED
    BY <1>0, <2>1, <2>2 DEF TickTo
<1>6. ASSUME NEW s \in SessionIds, Enqueue(p, s) PROVE Goal
  <2>1. /\ tick[p] \in [pc : {"classify", "mark", "enqueue"}, todo : SUBSET SessionIds]
        /\ tick[p].pc = "enqueue"
    BY <1>0, <1>6, TickState DEF Enqueue, TickAt
  <2> QED
    BY <1>0, <1>6, <2>1 DEF Enqueue, TickTo, rowVars
<1>7. CASE CheckLimit(p) \/ PickCandidate(p) \/ Claim(p)
  <2>1. PICK t : TickTo(p, t) /\ t.pc \in {"pick", "return", "claim", "limit"}
    <3>1. CASE CheckLimit(p)
      <4>1. \/ TickTo(p, [pc |-> "pick", at |-> now, claimed |-> tick[p].claimed])
            \/ TickTo(p, [pc |-> "return", claimed |-> tick[p].claimed])
        BY <3>1 DEF CheckLimit
      <4> QED
        BY <4>1
    <3>2. CASE PickCandidate(p)
      <4>1. CASE \E j \in NextQueued :
                   TickTo(p, [pc |-> "claim", job |-> j, at |-> tick[p].at,
                              claimed |-> tick[p].claimed])
        <5> PICK j \in NextQueued :
                 TickTo(p, [pc |-> "claim", job |-> j, at |-> tick[p].at,
                            claimed |-> tick[p].claimed])
          BY <4>1
        <5> QED
          OBVIOUS
      <4>2. CASE TickTo(p, [pc |-> "return", claimed |-> tick[p].claimed])
        BY <4>2
      <4> QED
        BY <3>2, <4>1, <4>2 DEF PickCandidate
    <3>3. CASE Claim(p)
      BY <3>3 DEF Claim
    <3> QED
      BY <1>7, <3>1, <3>2, <3>3
  <2>2. tick[p].pc # "mark" /\ UNCHANGED <<writing, now, up, api>>
    BY <1>7 DEF CheckLimit, PickCandidate, Claim, TickAt, rowVars
  <2> QED
    BY <1>0, <2>1, <2>2 DEF TickTo
<1>8. CASE LaunchClaimed(p)
  BY <1>0, <1>8 DEF LaunchClaimed, TickAt, TickTo, Idle, rowVars
<1>9. CASE FailTick(p)
  BY <1>0, <1>9, WriteStages DEF FailTick, TickTo, Idle
<1> QED
  BY <1>1, <1>2, <1>3, <1>4, <1>5, <1>6, <1>7, <1>8, <1>9 DEF TickStep

\* An evaluator touches its own write only, which is in flight exactly between
\* its answer and the commit.
LEMMA ThreadWrites ==
  ASSUME TypeOK, NEW j \in JobIds, ThreadStep(j) \/ FailEvaluator(j)
  PROVE  /\ UNCHANGED <<now, up, api, tick>>
         /\ StageIs(Eval(j), ThreadAt(j, "commit"))'
         /\ \A w \in Writers \ {Eval(j)} : writing'[w] = writing[w]
<1> DEFINE Goal == /\ UNCHANGED <<now, up, api, tick>>
                   /\ StageIs(Eval(j), ThreadAt(j, "commit"))'
                   /\ \A w \in Writers \ {Eval(j)} : writing'[w] = writing[w]
<1>0. /\ thread \in [JobIds -> ThreadStates \cup {NoThread}]
      /\ Rows!SessionsTypeOK
      /\ Eval(j) \in Writers /\ {Eval(j)} \in SUBSET Writers
      /\ StageIs(Eval(j), ThreadAt(j, "commit"))
      /\ thread[j] # NoThread /\ NoThread \notin ThreadStates
  BY Writing, ThreadMoves, TablesAssumption DEF TypeOK, StageIs
<1>1. ASSUME NEW pc \in {"commit", "succeed", "fail"},
             pc = "commit" => thread[j].pc = "evaluate", ThreadTo(j, pc)
      PROVE  thread'[j] # NoThread /\ thread'[j].pc = pc
  <2>1. thread'[j] = [thread[j] EXCEPT !.pc = pc]
    BY <1>0, <1>1 DEF ThreadTo
  <2>2. [thread[j] EXCEPT !.pc = pc] \in ThreadStates
        /\ [thread[j] EXCEPT !.pc = pc].pc = pc
    BY <1>0, <1>1, ThreadTurn
  <2> QED
    BY <1>0, <2>1, <2>2
<1>2. CASE BeginJob(j)
  <2>1. /\ UNCHANGED <<writing, now, up, api, tick>> /\ thread[j].pc = "start"
        /\ \/ ThreadTo(j, "succeed")
           \/ thread' = [thread EXCEPT ![j] =
                [pc |-> "evaluate", process |-> thread[j].process,
                 evaluator |-> thread[j].evaluator, began |-> now]]
    BY <1>2 DEF BeginJob, ThreadAt, rowVars
  <2>2. thread'[j].pc # "commit"
    BY <1>0, <1>1, <2>1
  <2> QED
    BY <1>0, <2>1, <2>2 DEF StageIs, ThreadAt
<1>3. ASSUME NEW v, EvaluatorAnswers(j, v) PROVE Goal
  <2>1. UNCHANGED <<now, up, api, tick>> /\ thread[j].pc = "evaluate"
    BY <1>3 DEF EvaluatorAnswers, ThreadAt
  <2>2. CASE /\ Rows!LoadForUpsert(Eval(j), SessionOf(j), "llm", v, TRUE)
             /\ ThreadTo(j, "commit")
    BY <1>0, <1>1, <2>1, <2>2, WriteStages DEF StageIs, ThreadAt
  <2>3. CASE ThreadTo(j, "succeed") /\ UNCHANGED rowVars
    BY <1>0, <1>1, <2>1, <2>3 DEF StageIs, ThreadAt, rowVars
  <2> QED
    BY <1>3, <2>2, <2>3 DEF EvaluatorAnswers
<1>4. CASE EvaluatorFails(j)
  BY <1>0, <1>1, <1>4 DEF EvaluatorFails, StageIs, ThreadAt, rowVars
<1>5. CASE CommitVerdict(j)
  BY <1>0, <1>1, <1>5, WriteStages DEF CommitVerdict, StageIs, ThreadAt
<1>6. CASE FinishJob(j)
  BY <1>0, <1>6 DEF FinishJob, StageIs, ThreadAt, rowVars
<1>7. CASE FailEvaluator(j)
  <2>1. /\ UNCHANGED <<now, up, api, tick>> /\ Rows!AbandonWrites({Eval(j)})
        /\ ThreadTo(j, "fail") \/ thread' = [thread EXCEPT ![j] = NoThread]
    BY <1>7 DEF FailEvaluator, ThreadTo
  <2>2. ~ThreadAt(j, "commit")'
    BY <1>0, <1>1, <2>1 DEF ThreadAt
  <2> QED
    BY <1>0, <2>1, <2>2, WriteStages DEF StageIs
<1> QED
  BY <1>2, <1>3, <1>4, <1>5, <1>6, <1>7 DEF ThreadStep

\* A crash ends what its process had under way, and rolls its writes back.
LEMMA CrashEnds ==
  ASSUME TypeOK, NEW p \in Processes, Crash(p)
  PROVE  /\ UNCHANGED <<jobs, now>>
         /\ api' = [api EXCEPT ![p] = Idle] /\ tick' = [tick EXCEPT ![p] = Idle]
         /\ up' \in [Processes -> BOOLEAN]
         /\ writing'[Api(p)].stage = "idle" /\ writing'[Tick(p)].stage = "idle"
         /\ \A q \in Processes \ {p} : /\ writing'[Api(q)] = writing[Api(q)]
                                       /\ writing'[Tick(q)] = writing[Tick(q)]
         /\ thread' \in [JobIds -> ThreadStates \cup {NoThread}]
         /\ \A j \in JobIds :
              \/ thread'[j] = NoThread /\ writing'[Eval(j)].stage = "idle"
              \/ thread'[j] = thread[j] /\ writing'[Eval(j)] = writing[Eval(j)]
<1>0. /\ thread \in [JobIds -> ThreadStates \cup {NoThread}]
      /\ up \in [Processes -> BOOLEAN] /\ Rows!SessionsTypeOK
  BY DEF TypeOK
<1>1. PICK lost : lost = {j \in JobIds : thread[j] # NoThread /\ thread[j].process = p}
  OBVIOUS
<1>2. PICK W : W = {Api(p), Tick(p)} \cup {Eval(j) : j \in lost}
  OBVIOUS
<1>3. /\ UNCHANGED <<jobs, now>> /\ up' = [up EXCEPT ![p] = FALSE]
      /\ api' = [api EXCEPT ![p] = Idle] /\ tick' = [tick EXCEPT ![p] = Idle]
      /\ thread' = [j \in JobIds |-> IF j \in lost THEN NoThread ELSE thread[j]]
      /\ Rows!AbandonWrites(W)
  BY <1>1, <1>2 DEF Crash, ApiTo, TickTo
<1>4. W \in SUBSET Writers
  BY <1>1, <1>2, Writing
<1>5. /\ \A w \in W : writing'[w].stage = "idle"
      /\ \A v \in Writers \ W : writing'[v] = writing[v]
  BY <1>0, <1>3, <1>4, WriteStages
<1>6. \A q \in Processes \ {p} : Api(q) \in Writers \ W /\ Tick(q) \in Writers \ W
  BY <1>1, <1>2, Writing
<1>7. \A j \in JobIds : j \notin lost => Eval(j) \in Writers \ W
  BY <1>1, <1>2, Writing
<1>8. thread' \in [JobIds -> ThreadStates \cup {NoThread}]
  BY <1>0, <1>3
<1>9. \A j \in JobIds :
        \/ thread'[j] = NoThread /\ writing'[Eval(j)].stage = "idle"
        \/ thread'[j] = thread[j] /\ writing'[Eval(j)] = writing[Eval(j)]
  <2> SUFFICES ASSUME NEW j \in JobIds
               PROVE  \/ thread'[j] = NoThread /\ writing'[Eval(j)].stage = "idle"
                      \/ thread'[j] = thread[j] /\ writing'[Eval(j)] = writing[Eval(j)]
    OBVIOUS
  <2>1. CASE j \in lost
    BY <1>2, <1>3, <1>5, <2>1
  <2>2. CASE j \notin lost
    BY <1>3, <1>5, <1>7, <2>2
  <2> QED
    BY <2>1, <2>2
<1> QED
  BY <1>0, <1>2, <1>3, <1>5, <1>6, <1>8, <1>9

-----------------------------------------------------------------------------
(* The worker uses the tables through their statements only. *)

LEMMA InsertCreates ==
  ASSUME NEW s, NEW t, NEW e, InsertJob(s, t, e)
  PROVE  UNCHANGED jobs \/ \E j \in FreeIds : Jobs!CreateJob(j, s, t, e)
<1>1. ASSUME FreeIds # {}, Jobs!CreateJob(FreshId, s, t, e)
      PROVE  \E j \in FreeIds : Jobs!CreateJob(j, s, t, e)
  <2>1. FreshId \in FreeIds
    BY <1>1 DEF FreshId
  <2> QED
    BY <1>1, <2>1
<1> QED
  BY <1>1 DEF InsertJob

\* The steps that change the job table, and what each does to it.
LEMMA JobChange ==
  ASSUME TypeOK, Next
  PROVE  \/ UNCHANGED jobs
         \/ \E p \in Processes, j \in FreeIds, s \in SessionIds, e \in Evaluators :
              ApiStep(p) /\ Jobs!CreateJob(j, s, "manual", e)
         \/ \E p \in Processes, j \in FreeIds, s \in SessionIds :
              Enqueue(p, s) /\ Jobs!CreateJob(j, s, "auto", DefaultEvaluator)
         \/ \E p \in Processes, j \in JobIds, e \in Evaluators :
              /\ ApiStep(p)
              /\ Jobs!PromoteToManual(j, e) \/ Jobs!UpdateQueuedEvaluator(j, e)
         \/ \E p \in Processes, J \in SUBSET JobIds, at \in 0 .. now :
              /\ ApiStep(p) \/ ExpireStale(p)
              /\ Jobs!FailStaleJobs(J, at)
         \/ \E p \in Processes :
              /\ Claim(p) /\ tick[p].job \in JobIds /\ tick[p].at \in 0 .. now
              /\ Jobs!ClaimJob(tick[p].job, tick[p].at)
         \/ \E j \in JobIds :
              FinishJob(j) /\ (Jobs!MarkSucceeded(j) \/ Jobs!MarkFailed(j))
<1> DEFINE Goal ==
         \/ UNCHANGED jobs
         \/ \E p \in Processes, j \in FreeIds, s \in SessionIds, e \in Evaluators :
              ApiStep(p) /\ Jobs!CreateJob(j, s, "manual", e)
         \/ \E p \in Processes, j \in FreeIds, s \in SessionIds :
              Enqueue(p, s) /\ Jobs!CreateJob(j, s, "auto", DefaultEvaluator)
         \/ \E p \in Processes, j \in JobIds, e \in Evaluators :
              /\ ApiStep(p)
              /\ Jobs!PromoteToManual(j, e) \/ Jobs!UpdateQueuedEvaluator(j, e)
         \/ \E p \in Processes, J \in SUBSET JobIds, at \in 0 .. now :
              /\ ApiStep(p) \/ ExpireStale(p)
              /\ Jobs!FailStaleJobs(J, at)
         \/ \E p \in Processes :
              /\ Claim(p) /\ tick[p].job \in JobIds /\ tick[p].at \in 0 .. now
              /\ Jobs!ClaimJob(tick[p].job, tick[p].at)
         \/ \E j \in JobIds :
              FinishJob(j) /\ (Jobs!MarkSucceeded(j) \/ Jobs!MarkFailed(j))
<1>0. /\ api \in [Processes -> ApiStates] /\ tick \in [Processes -> TickStates]
      /\ Jobs!JobsTypeOK /\ now \in Nat /\ Jobs!Time \subseteq Nat
      /\ \A p \in Processes :
           tick[p].pc \in {"expire", "pick", "claim"} => tick[p].at <= now
  BY TablesAssumption DEF TypeOK, Jobs!JobsTypeOK, Jobs!Time, Jobs!JobsAssumption
<1>1. ASSUME NEW p \in Processes, ApiStep(p) PROVE Goal
  <2>1. CASE FindActive(p) \/ CommitByHand(p)
    BY <2>1 DEF FindActive, CommitByHand
  <2>2. CASE ExpireFound(p)
    <3>1. api[p].job \in JobIds
      BY <1>0, <2>2, ApiState DEF ExpireFound, ApiAt
    <3>2. UNCHANGED jobs \/ Jobs!FailStaleJobs({api[p].job}, now)
      BY <2>2 DEF ExpireFound, UpdateIf
    <3>3. {api[p].job} \in SUBSET JobIds /\ now \in 0 .. now
      BY <1>0, <3>1
    <3> QED
      BY <1>1, <3>2, <3>3
  <2>3. CASE Promote(p)
    <3>1. api[p].job \in JobIds /\ api[p].evaluator \in Evaluators
      BY <1>0, <2>3, ApiState DEF Promote, ApiAt
    <3>2. UNCHANGED jobs \/ Jobs!PromoteToManual(api[p].job, api[p].evaluator)
      BY <2>3 DEF Promote, UpdateIf
    <3> QED
      BY <1>1, <3>1, <3>2
  <2>4. CASE Retarget(p)
    <3>1. api[p].job \in JobIds /\ api[p].evaluator \in Evaluators
      BY <1>0, <2>4, ApiState DEF Retarget, ApiAt
    <3>2. UNCHANGED jobs \/ Jobs!UpdateQueuedEvaluator(api[p].job, api[p].evaluator)
      BY <2>4 DEF Retarget, UpdateIf
    <3> QED
      BY <1>1, <3>1, <3>2
  <2>5. CASE CreateRequested(p)
    <3>1. api[p].session \in SessionIds /\ api[p].evaluator \in Evaluators
      BY <1>0, <2>5, ApiState DEF CreateRequested, ApiAt
    <3>2. \/ UNCHANGED jobs
          \/ \E j \in FreeIds :
               Jobs!CreateJob(j, api[p].session, "manual", api[p].evaluator)
      BY <2>5, InsertCreates DEF CreateRequested
    <3> QED
      BY <1>1, <3>1, <3>2
  <2> QED
    BY <1>1, <2>1, <2>2, <2>3, <2>4, <2>5 DEF ApiStep
<1>2. ASSUME NEW p \in Processes, ApiRequest(p) PROVE UNCHANGED jobs
  BY <1>2 DEF ApiRequest, RequestEvaluation, RequestEvaluator, WriteByHand
<1>3. ASSUME NEW p \in Processes, TickStep(p) PROVE Goal
  <2>1. CASE ExpireStale(p)
    <3>1. tick[p].stale \subseteq JobIds /\ tick[p].at \in 0 .. now
      <4>1. tick[p].pc = "expire"
        BY <2>1 DEF ExpireStale, TickAt
      <4>2. tick[p].stale \subseteq JobIds /\ tick[p].at \in Nat
        BY <1>0, <4>1, TickState
      <4> QED
        BY <1>0, <4>1, <4>2
    <3>2. PICK J : J = tick[p].stale \cap Running
      OBVIOUS
    <3>3. J \in SUBSET JobIds
      BY <3>1, <3>2
    <3>4. UNCHANGED jobs \/ Jobs!FailStaleJobs(J, tick[p].at)
      BY <2>1, <3>2 DEF ExpireStale, UpdateIf
    <3> QED
      BY <2>1, <3>1, <3>3, <3>4
  <2>2. ASSUME NEW s \in SessionIds, Enqueue(p, s) PROVE Goal
    <3>1. \/ UNCHANGED jobs
          \/ \E j \in FreeIds : Jobs!CreateJob(j, s, "auto", DefaultEvaluator)
      BY <2>2, InsertCreates DEF Enqueue
    <3> QED
      BY <2>2, <3>1
  <2>3. CASE Claim(p)
    <3>1. tick[p].job \in JobIds /\ tick[p].at \in 0 .. now
      <4>1. tick[p].pc = "claim"
        BY <2>3 DEF Claim, TickAt
      <4>2. tick[p].job \in JobIds /\ tick[p].at \in Nat
        BY <1>0, <4>1, TickState
      <4> QED
        BY <1>0, <4>1, <4>2
    <3>2. UNCHANGED jobs \/ Jobs!ClaimJob(tick[p].job, tick[p].at)
      BY <2>3 DEF Claim
    <3> QED
      BY <2>3, <3>1, <3>2
  <2>4. ASSUME NEW s \in SessionIds, CheckNoOp(p, s) PROVE UNCHANGED jobs
    BY <2>4 DEF CheckNoOp
  <2>5. CASE \/ StartTick(p) \/ ReadStale(p) \/ ListEvaluatorSessions(p)
             \/ LoadNoOp(p) \/ CommitNoOp(p) \/ CountSlots(p) \/ SelectCandidates(p)
             \/ EnqueueDone(p) \/ CheckLimit(p) \/ PickCandidate(p) \/ LaunchClaimed(p)
    BY <2>5 DEF StartTick, ReadStale, ListEvaluatorSessions, LoadNoOp, CommitNoOp,
                CountSlots, SelectCandidates, EnqueueDone, CheckLimit, PickCandidate,
                LaunchClaimed
  <2> QED
    BY <1>3, <2>1, <2>2, <2>3, <2>4, <2>5 DEF TickStep
<1>4. ASSUME NEW j \in JobIds, ThreadStep(j) PROVE Goal
  <2>1. CASE FinishJob(j)
    BY <2>1 DEF FinishJob, UpdateIf
  <2>2. CASE BeginJob(j) \/ CommitVerdict(j) \/ EvaluatorFails(j)
    BY <2>2 DEF BeginJob, CommitVerdict, EvaluatorFails
  <2>3. ASSUME NEW v, EvaluatorAnswers(j, v) PROVE UNCHANGED jobs
    BY <2>3 DEF EvaluatorAnswers
  <2> QED
    BY <1>4, <2>1, <2>2, <2>3 DEF ThreadStep
<1>5. ASSUME NEW p \in Processes, FailRequest(p) \/ FailTick(p) \/ Crash(p) \/ Boot(p)
      PROVE  UNCHANGED jobs
  BY <1>5 DEF FailRequest, FailTick, Crash, Boot
<1>6. ASSUME NEW j \in JobIds, FailEvaluator(j) PROVE UNCHANGED jobs
  BY <1>6 DEF FailEvaluator
<1>7. AdvanceClock => UNCHANGED jobs
  BY DEF AdvanceClock, Jobs!ClockTick
<1>8. ASSUME NEW s \in SessionIds, RecordUsage(s) PROVE UNCHANGED jobs
  BY <1>8 DEF RecordUsage
<1> QED
  BY <1>1, <1>2, <1>3, <1>4, <1>5, <1>6, <1>7, <1>8 DEF Next

\* What the worker does to the job table is a statement of it.
LEMMA JobsStep ==
  ASSUME TypeOK, Next \/ UNCHANGED vars
  PROVE  Jobs!JobsNext \/ UNCHANGED Jobs!jobsVars
<1>1. CASE UNCHANGED vars
  BY <1>1 DEF vars, Jobs!jobsVars
<1>2. CASE AdvanceClock
  BY <1>2 DEF AdvanceClock, Jobs!JobsNext
<1>3. CASE Next /\ ~AdvanceClock
  <2>1. UNCHANGED now
    <3>1. ASSUME NEW p \in Processes, ApiRequest(p) \/ ApiStep(p) \/ FailRequest(p)
          PROVE  UNCHANGED now
      BY <3>1, ApiWrites
    <3>2. ASSUME NEW p \in Processes, TickStep(p) \/ FailTick(p) PROVE UNCHANGED now
      BY <3>2, TickWrites
    <3>3. ASSUME NEW p \in Processes, Crash(p) \/ Boot(p) PROVE UNCHANGED now
      BY <3>3 DEF Crash, Boot
    <3>4. ASSUME NEW j \in JobIds, ThreadStep(j) \/ FailEvaluator(j)
          PROVE  UNCHANGED now
      BY <3>4, ThreadWrites
    <3>5. ASSUME NEW s \in SessionIds, RecordUsage(s) PROVE UNCHANGED now
      BY <3>5 DEF RecordUsage
    <3> QED
      BY <1>3, <3>1, <3>2, <3>3, <3>4, <3>5 DEF Next
  <2>2. UNCHANGED jobs \/ Jobs!Statement
    BY <1>3, JobChange, WorkerAssumption DEF Jobs!Statement, Jobs!Triggers, FreeIds
  <2> QED
    BY <2>1, <2>2 DEF Jobs!JobsNext, Jobs!jobsVars
<1> QED
  BY <1>1, <1>2, <1>3

-----------------------------------------------------------------------------
(* The jobs in the hands of a tick or of an evaluator thread. *)

Started(j) == jobs[j] # NoJob /\ jobs[j].status # "queued"
ClaimsOf(p) == IF tick[p].pc \in {"limit", "pick", "claim", "return"}
               THEN tick[p].claimed ELSE {}
InHand(j) == thread[j] # NoThread \/ \E p \in Processes : j \in Claimed(p)

HandsInv ==
  /\ \A j \in JobIds : InHand(j) => Started(j)
  /\ ClaimedByOne
  /\ RunWithChosenEvaluator

LEMMA ClaimsOfTypes ==
  ASSUME tick \in [Processes -> TickStates], NEW p \in Processes
  PROVE  /\ ClaimsOf(p) \subseteq JobIds \X Evaluators
         /\ Claimed(p) = {c[1] : c \in ClaimsOf(p)}
         /\ Claimed(p) \subseteq JobIds
         /\ \A j \in Claimed(p) : \E c \in ClaimsOf(p) : c[1] = j
BY TickState DEF ClaimsOf, Claimed, Claims

\* A job that was started stays the job it is, whatever is done to the table.
LEMMA StartedKept ==
  ASSUME Jobs!JobsTypeOK, Jobs!JobsNext \/ UNCHANGED Jobs!jobsVars,
         NEW k \in JobIds, Started(k)
  PROVE  /\ Started(k)'
         /\ jobs'[k].session = jobs[k].session
         /\ jobs'[k].evaluator = jobs[k].evaluator
         /\ jobs'[k].trigger = jobs[k].trigger
         /\ jobs'[k].started = jobs[k].started
<1> DEFINE Goal == /\ jobs'[k] \in Jobs!JobRow /\ jobs'[k].status # "queued"
                   /\ jobs'[k].session = jobs[k].session
                   /\ jobs'[k].evaluator = jobs[k].evaluator
                   /\ jobs'[k].trigger = jobs[k].trigger
                   /\ jobs'[k].started = jobs[k].started
<1> USE DEF Jobs!Rows, Jobs!WithStatus
<1>0. /\ jobs \in [JobIds -> Jobs!JobRow \cup {NoJob}]
      /\ jobs[k] # NoJob /\ jobs[k].status # "queued" /\ jobs[k] \in Jobs!JobRow
      /\ NoJob \notin Jobs!JobRow /\ now \in Jobs!Time
      /\ \A at \in 0 .. now : at \in Jobs!Time
  BY TablesAssumption DEF Jobs!JobsTypeOK, Started, Jobs!JobsAssumption, Jobs!Time
<1>1. ASSUME NEW j \in JobIds, NEW s \in SessionIds, NEW t \in Jobs!Triggers,
             NEW e \in Evaluators, Jobs!CreateJob(j, s, t, e)
      PROVE  Goal
  BY <1>0, <1>1 DEF Jobs!CreateJob
<1>2. ASSUME NEW j \in JobIds, NEW e \in Evaluators,
             Jobs!PromoteToManual(j, e) \/ Jobs!UpdateQueuedEvaluator(j, e)
      PROVE  Goal
  BY <1>0, <1>2 DEF Jobs!PromoteToManual, Jobs!UpdateQueuedEvaluator
<1>3. ASSUME NEW j \in JobIds, NEW at \in 0 .. now, Jobs!ClaimJob(j, at)
      PROVE  Goal
  BY <1>0, <1>3 DEF Jobs!ClaimJob
<1>4. ASSUME NEW J \in SUBSET JobIds, NEW at \in 0 .. now, Jobs!FailStaleJobs(J, at)
      PROVE  Goal
  <2>1. CASE k \in J
    <3>1. jobs'[k] = [jobs[k] EXCEPT !.status = "failed", !.finished = at]
      BY <1>4, <2>1 DEF Jobs!FailStaleJobs
    <3> QED
      BY <1>0, <3>1 DEF Jobs!JobRow, Jobs!Statuses, Jobs!TerminalStatuses
  <2>2. CASE k \notin J
    BY <1>0, <1>4, <2>2 DEF Jobs!FailStaleJobs
  <2> QED
    BY <2>1, <2>2
<1>5. ASSUME NEW j \in JobIds, Jobs!MarkSucceeded(j) \/ Jobs!MarkFailed(j)
      PROVE  Goal
  <2>1. \/ /\ jobs'[k] = [jobs[k] EXCEPT !.status = "succeeded", !.finished = now]
           /\ jobs[k] \in Jobs!JobRow
        \/ /\ jobs'[k] = [jobs[k] EXCEPT !.status = "failed", !.finished = now]
           /\ jobs[k] \in Jobs!JobRow
        \/ jobs'[k] = jobs[k]
    BY <1>0, <1>5 DEF Jobs!MarkSucceeded, Jobs!MarkFailed
  <2> QED
    BY <1>0, <2>1 DEF Jobs!JobRow, Jobs!Statuses, Jobs!TerminalStatuses
<1>6. UNCHANGED jobs => Goal
  BY <1>0
<1>7. Goal
  BY <1>1, <1>2, <1>3, <1>4, <1>5, <1>6
     DEF Jobs!JobsNext, Jobs!Statement, Jobs!ClockTick, Jobs!jobsVars
<1> QED
  BY <1>0, <1>7 DEF Started

\* A claim adds the claimed job to what the tick holds; a launch hands all of it
\* over to threads; no other step puts a job in a hand.
LEMMA HandsStep ==
  ASSUME TypeOK, Next \/ UNCHANGED vars
  PROVE  \/ /\ \A p \in Processes : ClaimsOf(p)' \subseteq ClaimsOf(p)
            /\ \A j \in JobIds : thread'[j] # NoThread =>
                 thread[j] # NoThread /\ thread'[j].evaluator = thread[j].evaluator
         \/ \E p \in Processes :
              /\ Jobs!ClaimJob(tick[p].job, tick[p].at)
              /\ tick[p].job \in JobIds /\ tick[p].at \in Jobs!Time
              /\ ClaimsOf(p)' =
                   ClaimsOf(p) \cup {<<tick[p].job, jobs[tick[p].job].evaluator>>}
              /\ \A q \in Processes \ {p} : ClaimsOf(q)' = ClaimsOf(q)
              /\ UNCHANGED thread
         \/ \E p \in Processes :
              /\ LaunchClaimed(p) /\ ClaimsOf(p)' = {}
              /\ \A q \in Processes \ {p} : ClaimsOf(q)' = ClaimsOf(q)
<1> DEFINE Shrink ==
      /\ \A p \in Processes : ClaimsOf(p)' \subseteq ClaimsOf(p)
      /\ \A j \in JobIds : thread'[j] # NoThread =>
           thread[j] # NoThread /\ thread'[j].evaluator = thread[j].evaluator
<1>0. /\ tick \in [Processes -> TickStates]
      /\ thread \in [JobIds -> ThreadStates \cup {NoThread}]
  BY DEF TypeOK
<1>1. ASSUME UNCHANGED tick PROVE \A p \in Processes : ClaimsOf(p)' = ClaimsOf(p)
  BY <1>1 DEF ClaimsOf
<1>2. UNCHANGED <<tick, thread>> => Shrink
  BY <1>1
<1>3. ASSUME NEW p \in Processes, ApiRequest(p) \/ ApiStep(p) \/ FailRequest(p)
      PROVE  Shrink
  BY <1>2, <1>3, ApiWrites
<1>4. ASSUME NEW j \in JobIds, ThreadStep(j) \/ FailEvaluator(j) PROVE Shrink
  <2>1. UNCHANGED tick /\ thread[j] # NoThread /\ ThreadTurns(j)
    BY <1>4, ThreadWrites, ThreadMoves
  <2> QED
    BY <1>0, <1>1, <2>1 DEF ThreadTurns
<1>5. ASSUME NEW p \in Processes, NEW t, TickTo(p, t), UNCHANGED thread,
             t.pc \notin {"limit", "pick", "claim", "return"} \/ t.claimed = {}
               \/ (t.claimed = ClaimsOf(p))
      PROVE  Shrink
  <2>1. ClaimsOf(p)' \subseteq ClaimsOf(p)
    BY <1>0, <1>5 DEF TickTo, ClaimsOf
  <2>2. \A q \in Processes \ {p} : ClaimsOf(q)' = ClaimsOf(q)
    BY <1>0, <1>5 DEF TickTo, ClaimsOf
  <2> QED
    BY <1>5, <2>1, <2>2
<1>6. ASSUME NEW p \in Processes, FailTick(p) \/ Crash(p) PROVE Shrink
  <2>1. /\ \A q \in Processes : ClaimsOf(q)' \subseteq ClaimsOf(q)
    BY <1>0, <1>6 DEF FailTick, Crash, TickTo, Idle, ClaimsOf
  <2>2. CASE FailTick(p)
    BY <2>1, <2>2 DEF FailTick
  <2>3. CASE Crash(p)
    <3>1. \A j \in JobIds : thread'[j] = NoThread \/ thread'[j] = thread[j]
      BY <2>3, CrashEnds
    <3> QED
      BY <2>1, <3>1
  <2> QED
    BY <1>6, <2>2, <2>3
<1>7. (\E p \in Processes : Boot(p)) \/ AdvanceClock
        \/ (\E s \in SessionIds : RecordUsage(s)) \/ UNCHANGED vars
      => Shrink
  BY <1>2 DEF Boot, AdvanceClock, RecordUsage, vars
<1>8. ASSUME NEW p \in Processes, TickStep(p), ~LaunchClaimed(p),
             ~(Claim(p) /\ Jobs!ClaimJob(tick[p].job, tick[p].at))
      PROVE  Shrink
  <2>1. CASE StartTick(p) \/ ReadStale(p) \/ ExpireStale(p) \/ ListEvaluatorSessions(p)
    BY <1>5, <2>1 DEF StartTick, ReadStale, ExpireStale, ListEvaluatorSessions
  <2>2. ASSUME NEW s \in SessionIds, CheckNoOp(p, s) \/ Enqueue(p, s) PROVE Shrink
    <3>1. /\ tick[p] \in [pc : {"classify", "mark", "enqueue"}, todo : SUBSET SessionIds]
          /\ UNCHANGED thread
      BY <1>0, <2>2, TickState DEF CheckNoOp, Enqueue, TickAt
    <3>2. PICK t : TickTo(p, t) /\ t.pc \in {"mark", "classify", "enqueue"}
      <4>1. /\ [tick[p] EXCEPT !.pc = "mark", !.todo = tick[p].todo \ {s}].pc = "mark"
            /\ [tick[p] EXCEPT !.todo = tick[p].todo \ {s}].pc = tick[p].pc
        BY <3>1
      <4>2. \/ TickTo(p, [tick[p] EXCEPT !.pc = "mark", !.todo = tick[p].todo \ {s}])
            \/ TickTo(p, [tick[p] EXCEPT !.todo = tick[p].todo \ {s}])
        BY <2>2 DEF CheckNoOp, Enqueue
      <4> QED
        BY <3>1, <4>1, <4>2
    <3> QED
      BY <1>5, <3>1, <3>2
  <2>3. CASE LoadNoOp(p)
    BY <1>2, <2>3 DEF LoadNoOp
  <2>4. CASE CommitNoOp(p)
    <3>1. tick[p] \in [pc : {"classify", "mark", "enqueue"}, todo : SUBSET SessionIds]
      BY <1>0, <2>4, TickState DEF CommitNoOp, TickAt
    <3>2. [tick[p] EXCEPT !.pc = "classify"].pc = "classify"
      BY <3>1
    <3> QED
      BY <1>5, <2>4, <3>2 DEF CommitNoOp
  <2>5. CASE CountSlots(p)
    <3> PICK slots : slots = MaxConcurrent * BufferMultiplier - Cardinality(Active)
      OBVIOUS
    <3>1. /\ UNCHANGED thread
          /\ \/ TickTo(p, [pc |-> "select", slots |-> slots])
             \/ TickTo(p, [pc |-> "limit", claimed |-> {}])
      BY <2>5 DEF CountSlots
    <3> QED
      BY <1>5, <3>1
  <2>6. CASE SelectCandidates(p)
    <3>1. PICK S : TickTo(p, [pc |-> "enqueue", todo |-> S])
      BY <2>6 DEF SelectCandidates
    <3> QED
      BY <1>5, <2>6, <3>1 DEF SelectCandidates
  <2>7. CASE EnqueueDone(p)
    BY <1>5, <2>7 DEF EnqueueDone
  <2>8. CASE CheckLimit(p)
    <3>1. /\ UNCHANGED thread /\ tick[p].claimed = ClaimsOf(p)
          /\ \/ TickTo(p, [pc |-> "pick", at |-> now, claimed |-> tick[p].claimed])
             \/ TickTo(p, [pc |-> "return", claimed |-> tick[p].claimed])
      BY <2>8 DEF CheckLimit, TickAt, ClaimsOf
    <3> QED
      BY <1>5, <3>1
  <2>9. CASE PickCandidate(p)
    <3>1. UNCHANGED thread /\ tick[p].claimed = ClaimsOf(p)
      BY <2>9 DEF PickCandidate, TickAt, ClaimsOf
    <3>2. ASSUME NEW j, TickTo(p, [pc |-> "claim", job |-> j, at |-> tick[p].at,
                                   claimed |-> tick[p].claimed])
          PROVE  Shrink
      BY <1>5, <3>1, <3>2
    <3>3. ASSUME TickTo(p, [pc |-> "return", claimed |-> tick[p].claimed])
          PROVE  Shrink
      BY <1>5, <3>1, <3>3
    <3> QED
      BY <2>9, <3>2, <3>3 DEF PickCandidate
  <2>10. CASE Claim(p)
    <3>1. /\ UNCHANGED thread /\ tick[p].claimed = ClaimsOf(p)
          /\ TickTo(p, [pc |-> "pick", at |-> tick[p].at, claimed |-> tick[p].claimed])
      BY <1>8, <2>10 DEF Claim, TickAt, ClaimsOf
    <3> QED
      BY <1>5, <3>1
  <2> QED
    BY <1>8, <2>1, <2>2, <2>3, <2>4, <2>5, <2>6, <2>7, <2>8, <2>9, <2>10 DEF TickStep
<1>9. ASSUME NEW p \in Processes, Claim(p), Jobs!ClaimJob(tick[p].job, tick[p].at)
      PROVE  /\ tick[p].job \in JobIds /\ tick[p].at \in Jobs!Time
             /\ ClaimsOf(p)' =
                  ClaimsOf(p) \cup {<<tick[p].job, jobs[tick[p].job].evaluator>>}
             /\ \A q \in Processes \ {p} : ClaimsOf(q)' = ClaimsOf(q)
             /\ UNCHANGED thread
  <2> PICK c : c = <<tick[p].job, jobs[tick[p].job].evaluator>>
    OBVIOUS
  <2>1. /\ tick[p].pc = "claim" /\ UNCHANGED thread
        /\ tick[p].job \in JobIds /\ tick[p].at \in Jobs!Time
    BY <1>0, <1>9, TickState DEF Claim, TickAt
  <2>2. TickTo(p, [pc |-> "limit", claimed |-> tick[p].claimed \cup {c}])
    BY <1>9 DEF Claim, Jobs!ClaimJob, Queued
  <2>3. ClaimsOf(p)' = ClaimsOf(p) \cup {c}
    BY <1>0, <2>1, <2>2 DEF ClaimsOf, TickTo
  <2>4. \A q \in Processes \ {p} : ClaimsOf(q)' = ClaimsOf(q)
    BY <1>0, <2>2 DEF ClaimsOf, TickTo
  <2> QED
    BY <2>1, <2>3, <2>4
<1>10. ASSUME NEW p \in Processes, LaunchClaimed(p)
       PROVE  /\ ClaimsOf(p)' = {}
              /\ \A q \in Processes \ {p} : ClaimsOf(q)' = ClaimsOf(q)
  BY <1>0, <1>10 DEF LaunchClaimed, TickTo, ClaimsOf, Idle
<1> HIDE DEF Shrink
<1>11. \/ Shrink
       \/ \E p \in Processes : Claim(p) /\ Jobs!ClaimJob(tick[p].job, tick[p].at)
       \/ \E p \in Processes : LaunchClaimed(p)
  BY <1>3, <1>4, <1>6, <1>7, <1>8 DEF Next
<1> USE DEF Shrink
<1> QED
  BY <1>9, <1>10, <1>11

LEMMA ClaimStarts ==
  ASSUME Jobs!JobsTypeOK, NEW j \in JobIds, NEW at \in Jobs!Time, Jobs!ClaimJob(j, at)
  PROVE  /\ ~Started(j) /\ jobs'[j] # NoJob /\ jobs'[j].status = "running"
         /\ jobs'[j].evaluator = jobs[j].evaluator
<1>1. /\ jobs \in [JobIds -> Jobs!JobRow \cup {NoJob}] /\ jobs[j] \in Jobs!JobRow
      /\ jobs[j].status = "queued" /\ NoJob \notin Jobs!JobRow
      /\ jobs'[j] = [jobs[j] EXCEPT !.status = "running", !.started = at]
  BY TablesAssumption DEF Jobs!ClaimJob, Jobs!WithStatus, Jobs!Rows, Jobs!JobsTypeOK,
                          Jobs!JobsAssumption
<1>2. jobs'[j] \in Jobs!JobRow /\ jobs'[j].status = "running"
      /\ jobs'[j].evaluator = jobs[j].evaluator
  BY <1>1 DEF Jobs!JobRow, Jobs!Statuses, Jobs!ActiveStatuses
<1> QED
  BY <1>1, <1>2 DEF Started

\* What is in a hand was started, is in no other hand, and carries the evaluator
\* of its row.
LEMMA HandsKept ==
  ASSUME TypeOK, HandsInv, Next \/ UNCHANGED vars, Jobs!JobsTypeOK'
  PROVE  HandsInv'
<1>0. /\ Jobs!JobsTypeOK /\ (Jobs!JobsNext \/ UNCHANGED Jobs!jobsVars)
      /\ tick \in [Processes -> TickStates]
  BY JobsStep DEF TypeOK
<1>1. \A j \in JobIds : Started(j) =>
        Started(j)' /\ jobs'[j].evaluator = jobs[j].evaluator
  BY <1>0, StartedKept
<1>2. ASSUME NEW p \in Processes, NEW j
      PROVE  /\ j \in Claimed(p) <=> \E c \in ClaimsOf(p) : c[1] = j
             /\ j \in Claimed(p)' <=> \E c \in ClaimsOf(p)' : c[1] = j
  <2>1. j \in Claimed(p) <=> \E c \in ClaimsOf(p) : c[1] = j
    BY DEF Claimed, ClaimsOf
  <2>2. j \in Claimed(p)' <=> \E c \in ClaimsOf(p)' : c[1] = j
    BY DEF Claimed, ClaimsOf
  <2> QED
    BY <2>1, <2>2
<1>3. \A p \in Processes : \A c \in ClaimsOf(p) :
        c[1] \in JobIds /\ c[1] \in Claimed(p) /\ c[2] = jobs[c[1]].evaluator
  BY <1>0, <1>2, ClaimsOfTypes DEF HandsInv, RunWithChosenEvaluator, ClaimsOf
<1>4. /\ \A j \in JobIds : InHand(j) => Started(j)
      /\ ClaimedByOne
      /\ \A j \in JobIds : thread[j] # NoThread => thread[j].evaluator = jobs[j].evaluator
  BY DEF HandsInv, RunWithChosenEvaluator
<1>5. ASSUME /\ \A j \in JobIds : InHand(j)' => Started(j)'
             /\ ClaimedByOne'
             /\ \A j \in JobIds :
                  thread'[j] # NoThread => thread'[j].evaluator = jobs'[j].evaluator
             /\ \A p \in Processes : \A c \in ClaimsOf(p)' :
                  c[2] = jobs'[c[1]].evaluator
      PROVE  HandsInv'
  BY <1>5 DEF HandsInv, RunWithChosenEvaluator, ClaimsOf
<1>6. CASE /\ \A p \in Processes : ClaimsOf(p)' \subseteq ClaimsOf(p)
           /\ \A j \in JobIds : thread'[j] # NoThread =>
                thread[j] # NoThread /\ thread'[j].evaluator = thread[j].evaluator
  <2>1. \A p \in Processes : Claimed(p)' \subseteq Claimed(p)
    BY <1>2, <1>6
  <2>2. \A j \in JobIds : InHand(j)' => InHand(j)
    BY <1>6, <2>1 DEF InHand
  <2>3. ClaimedByOne'
    BY <1>4, <1>6, <2>1 DEF ClaimedByOne
  <2>4. \A p \in Processes : \A c \in ClaimsOf(p)' :
          c[2] = jobs'[c[1]].evaluator
    BY <1>1, <1>3, <1>4, <1>6 DEF InHand
  <2>5. \A j \in JobIds : InHand(j)' => Started(j)'
    BY <1>1, <1>4, <2>2
  <2>6. \A j \in JobIds :
          thread'[j] # NoThread => thread'[j].evaluator = jobs'[j].evaluator
    BY <1>1, <1>4, <1>6 DEF InHand
  <2> QED
    BY <1>5, <2>3, <2>4, <2>5, <2>6
<1>7. ASSUME NEW p \in Processes,
             Jobs!ClaimJob(tick[p].job, tick[p].at),
             tick[p].job \in JobIds, tick[p].at \in Jobs!Time,
             ClaimsOf(p)' =
               ClaimsOf(p) \cup {<<tick[p].job, jobs[tick[p].job].evaluator>>},
             \A q \in Processes \ {p} : ClaimsOf(q)' = ClaimsOf(q),
             UNCHANGED thread
      PROVE  HandsInv'
  <2> PICK j : j = tick[p].job
    OBVIOUS
  <2>1. /\ j \in JobIds /\ ~Started(j) /\ Started(j)' /\ ~InHand(j)
        /\ jobs'[j].evaluator = jobs[j].evaluator
    BY <1>0, <1>4, <1>7, ClaimStarts DEF Started
  <2>2. ASSUME NEW q \in Processes, NEW k, k \in Claimed(q)'
        PROVE  k \in Claimed(q) \/ (q = p /\ k = j)
    <3>1. PICK c \in ClaimsOf(q)' : c[1] = k
      BY <1>2, <2>2
    <3>2. c \in ClaimsOf(q) \/ (q = p /\ c[1] = j)
      BY <1>7, <3>1
    <3> QED
      BY <1>2, <3>1, <3>2
  <2>3. \A k \in JobIds : InHand(k)' => InHand(k) \/ k = j
    BY <1>7, <2>2 DEF InHand
  <2>4. \A k \in JobIds : InHand(k)' => Started(k)'
    BY <1>1, <1>4, <2>1, <2>3
  <2>5. \A q \in Processes : j \notin Claimed(q)
    BY <2>1 DEF InHand
  <2>6. thread[j] = NoThread
    BY <2>1 DEF InHand
  <2>7. ClaimedByOne'
    BY <1>4, <1>7, <2>2, <2>5, <2>6 DEF ClaimedByOne
  <2>8. \A k \in JobIds :
          thread'[k] # NoThread => thread'[k].evaluator = jobs'[k].evaluator
    BY <1>1, <1>4, <1>7 DEF InHand
  <2>9. \A q \in Processes : \A c \in ClaimsOf(q) : c[2] = jobs'[c[1]].evaluator
    BY <1>1, <1>3, <1>4 DEF InHand
  <2>10. \A q \in Processes : \A c \in ClaimsOf(q)' : c[2] = jobs'[c[1]].evaluator
    BY <1>7, <2>1, <2>9
  <2> QED
    BY <1>5, <2>4, <2>7, <2>8, <2>10
<1>8. ASSUME NEW p \in Processes, LaunchClaimed(p), ClaimsOf(p)' = {},
             \A q \in Processes \ {p} : ClaimsOf(q)' = ClaimsOf(q)
      PROVE  HandsInv'
  <2>1. \A q \in Processes : \A k : k \in Claimed(q)' => q # p /\ k \in Claimed(q)
    BY <1>2, <1>8
  <2>2. \A j \in JobIds :
          /\ j \notin Claimed(p) => thread'[j] = thread[j]
          /\ j \in Claimed(p) => <<j, thread'[j].evaluator>> \in ClaimsOf(p)
    BY <1>8, LaunchStarts DEF ClaimsOf, LaunchClaimed, TickAt
  <2>3. UNCHANGED jobs
    BY <1>8 DEF LaunchClaimed
  <2>4. \A j \in JobIds : InHand(j)' => Started(j)'
    BY <1>1, <1>4, <2>1, <2>2 DEF InHand
  <2>5. ClaimedByOne'
    BY <1>4, <2>1, <2>2 DEF ClaimedByOne
  <2>6. \A j \in JobIds :
          thread'[j] # NoThread => thread'[j].evaluator = jobs'[j].evaluator
    BY <1>3, <1>4, <2>2, <2>3
  <2>7. \A q \in Processes : \A c \in ClaimsOf(q)' : c[2] = jobs'[c[1]].evaluator
    BY <1>3, <1>8, <2>3
  <2> QED
    BY <1>5, <2>4, <2>5, <2>6, <2>7
<1> QED
  BY <1>6, <1>7, <1>8, HandsStep

\* What the worker does to the session rows is a step of their writers.
LEMMA RowsStep ==
  ASSUME TypeOK, HandsInv, Next \/ UNCHANGED vars
  PROVE  Rows!SessionsNext \/ UNCHANGED Rows!sessionVars
<1> USE DEF rowVars
<1>0. /\ \A p \in Processes :
           /\ writing[Api(p)].stage = IF api[p].pc = "write" THEN "loaded" ELSE "idle"
           /\ (tick[p].pc = "mark") <=> (writing[Tick(p)].stage # "idle")
      /\ \A j \in JobIds :
           writing[Eval(j)].stage = IF ThreadAt(j, "commit") THEN "loaded" ELSE "idle"
  BY DEF TypeOK
<1>1. ASSUME UNCHANGED rowVars, UNCHANGED now
      PROVE  UNCHANGED Rows!sessionVars
  BY <1>1 DEF Rows!sessionVars, Rows!evaluationVars
<1>2. ASSUME UNCHANGED now, Rows!RowWrite PROVE Rows!SessionsNext
  BY <1>2 DEF Rows!SessionsNext
<1>3. ASSUME NEW W \in SUBSET Writers, W # {}, Rows!AbandonWrites(W)
      PROVE  Rows!RowWrite
  BY <1>3 DEF Rows!RowWrite
<1>4. ASSUME NEW w \in Writers, Rows!CommitWrite(w) PROVE Rows!RowWrite
  BY <1>4 DEF Rows!RowWrite
<1>5. ASSUME NEW w \in Writers, NEW s \in SessionIds, writing[w].stage = "idle",
             \/ \E v \in Verdicts : Rows!LoadForUpsert(w, s, "manual", v, FALSE)
             \/ \E v \in Verdicts \cup {NoOp} : Rows!LoadForUpsert(w, s, "llm", v, TRUE)
             \/ Rows!CheckNotManual(w, s)
             \/ Rows!LoadForDelete(w, s)
      PROVE  Rows!RowWrite
  BY <1>5 DEF Rows!RowWrite, Rows!BeginWrite
<1>10. CASE AdvanceClock
  BY <1>10 DEF AdvanceClock, Jobs!ClockTick, Rows!SessionsNext, Rows!SessionClockTick,
               Rows!evaluationVars
<1>11. ASSUME NEW s \in SessionIds, RecordUsage(s)
       PROVE  Rows!SessionsNext
  BY <1>2, <1>11 DEF RecordUsage, Rows!RowWrite
<1>12. ASSUME NEW p \in Processes, ApiRequest(p) \/ ApiStep(p) \/ FailRequest(p)
       PROVE  Rows!SessionsNext \/ UNCHANGED Rows!sessionVars
  <2>0. UNCHANGED now /\ Api(p) \in Writers
    BY <1>12, ApiWrites, Writing
  <2>1. CASE CommitByHand(p)
    BY <1>2, <1>4, <2>0, <2>1 DEF CommitByHand
  <2>2. CASE FailRequest(p)
    BY <1>2, <1>3, <2>0, <2>2 DEF FailRequest
  <2>3. ASSUME NEW s \in SessionIds, WriteByHand(p, s) PROVE Rows!SessionsNext
    <3>1. writing[Api(p)].stage = "idle"
      BY <1>0, <2>3 DEF WriteByHand, ApiAt
    <3>2. \/ \E v \in Verdicts : Rows!LoadForUpsert(Api(p), s, "manual", v, FALSE)
          \/ Rows!LoadForDelete(Api(p), s)
      BY <2>3 DEF WriteByHand
    <3> QED
      BY <1>2, <1>5, <2>0, <3>1, <3>2
  <2>4. CASE FindActive(p) \/ ExpireFound(p) \/ Promote(p) \/ Retarget(p)
             \/ CreateRequested(p)
    BY <1>1, <2>0, <2>4 DEF FindActive, ExpireFound, Promote, Retarget, CreateRequested
  <2>5. ASSUME NEW e \in Evaluators,
               (\E s \in SessionIds : RequestEvaluation(p, s, e))
                 \/ (\E j \in JobIds : RequestEvaluator(p, j, e))
        PROVE  UNCHANGED Rows!sessionVars
    BY <1>1, <2>0, <2>5 DEF RequestEvaluation, RequestEvaluator
  <2> QED
    BY <1>12, <2>1, <2>2, <2>3, <2>4, <2>5 DEF ApiStep, ApiRequest
<1>13. ASSUME NEW p \in Processes, TickStep(p) \/ FailTick(p)
       PROVE  Rows!SessionsNext \/ UNCHANGED Rows!sessionVars
  <2>0. UNCHANGED now /\ Tick(p) \in Writers
    BY <1>13, TickWrites, Writing
  <2>1. CASE FailTick(p)
    BY <1>2, <1>3, <2>0, <2>1 DEF FailTick
  <2>2. ASSUME NEW s \in SessionIds, CheckNoOp(p, s)
        PROVE  Rows!SessionsNext \/ UNCHANGED Rows!sessionVars
    <3>1. writing[Tick(p)].stage = "idle"
      BY <1>0, <2>2 DEF CheckNoOp, TickAt
    <3>2. Rows!CheckNotManual(Tick(p), s) \/ UNCHANGED rowVars
      BY <2>2 DEF CheckNoOp
    <3> QED
      BY <1>1, <1>2, <1>5, <2>0, <3>1, <3>2
  <2>3. CASE LoadNoOp(p)
    <3>1. Rows!LoadNoOp(Tick(p))
      BY <2>3 DEF LoadNoOp
    <3>2. Rows!RowWrite
      BY <2>0, <3>1 DEF Rows!RowWrite
    <3> QED
      BY <1>2, <2>0, <3>2
  <2>4. CASE CommitNoOp(p)
    BY <1>2, <1>4, <2>0, <2>4 DEF CommitNoOp
  <2>5. ASSUME NEW s \in SessionIds, Enqueue(p, s) PROVE UNCHANGED Rows!sessionVars
    BY <1>1, <2>5 DEF Enqueue
  <2>6. CASE \/ StartTick(p) \/ ReadStale(p) \/ ExpireStale(p)
             \/ ListEvaluatorSessions(p) \/ CountSlots(p) \/ SelectCandidates(p)
             \/ EnqueueDone(p) \/ CheckLimit(p) \/ PickCandidate(p) \/ Claim(p)
             \/ LaunchClaimed(p)
    BY <1>1, <2>6
       DEF StartTick, ReadStale, ExpireStale, ListEvaluatorSessions, CountSlots,
           SelectCandidates, EnqueueDone, CheckLimit, PickCandidate, Claim,
           LaunchClaimed
  <2> QED
    BY <1>13, <2>1, <2>2, <2>3, <2>4, <2>5, <2>6 DEF TickStep
<1>14. ASSUME NEW j \in JobIds, ThreadStep(j) \/ FailEvaluator(j)
       PROVE  Rows!SessionsNext \/ UNCHANGED Rows!sessionVars
  <2>0. UNCHANGED now /\ Eval(j) \in Writers
    BY <1>14, ThreadWrites, Writing
  <2>1. SessionOf(j) \in SessionIds
    <3>1. jobs[j] # NoJob
      BY <1>14, ThreadMoves DEF HandsInv, InHand, Started
    <3> QED
      BY <3>1 DEF TypeOK, Jobs!JobsTypeOK, SessionOf, Jobs!JobRow
  <2>2. CASE FailEvaluator(j)
    BY <1>2, <1>3, <2>0, <2>2 DEF FailEvaluator
  <2>3. CASE CommitVerdict(j)
    BY <1>2, <1>4, <2>0, <2>3 DEF CommitVerdict
  <2>4. ASSUME NEW v \in Verdicts \cup {NoOp}, EvaluatorAnswers(j, v)
        PROVE  Rows!SessionsNext \/ UNCHANGED Rows!sessionVars
    <3>1. writing[Eval(j)].stage = "idle"
      BY <1>0, <2>4 DEF EvaluatorAnswers, ThreadAt
    <3>2. Rows!LoadForUpsert(Eval(j), SessionOf(j), "llm", v, TRUE) \/ UNCHANGED rowVars
      BY <2>4 DEF EvaluatorAnswers
    <3> QED
      BY <1>1, <1>2, <1>5, <2>0, <2>1, <3>1, <3>2
  <2>5. CASE BeginJob(j) \/ FinishJob(j) \/ EvaluatorFails(j)
    BY <1>1, <2>5 DEF BeginJob, FinishJob, EvaluatorFails
  <2> QED
    BY <1>14, <2>2, <2>3, <2>4, <2>5 DEF ThreadStep
<1>15. ASSUME NEW p \in Processes, Crash(p)
       PROVE  Rows!SessionsNext
  <2>1. PICK lost \in SUBSET JobIds :
          Rows!AbandonWrites({Api(p), Tick(p)} \cup {Eval(j) : j \in lost})
    BY <1>15 DEF Crash
  <2>2. PICK W : W = {Api(p), Tick(p)} \cup {Eval(j) : j \in lost}
    OBVIOUS
  <2>3. W \in SUBSET Writers /\ W # {}
    BY <2>2, Writing
  <2> QED
    BY <1>2, <1>3, <1>15, <2>1, <2>2, <2>3 DEF Crash
<1>16. ASSUME NEW p \in Processes, Boot(p)
       PROVE  UNCHANGED Rows!sessionVars
  BY <1>1, <1>16 DEF Boot
<1>17. UNCHANGED vars => UNCHANGED Rows!sessionVars
  BY <1>1 DEF vars
<1> QED
  BY <1>10, <1>11, <1>12, <1>13, <1>14, <1>15, <1>16, <1>17 DEF Next

-----------------------------------------------------------------------------
(* Types. *)

\* The parts of TypeOK beside the tables.
ThreadsTypeOK ==
  /\ up \in [Processes -> BOOLEAN]
  /\ api \in [Processes -> ApiStates]
  /\ tick \in [Processes -> TickStates]
  /\ thread \in [JobIds -> ThreadStates \cup {NoThread}]
  /\ \A p \in Processes : tick[p].pc \in {"expire", "pick", "claim"} => tick[p].at <= now

WritesMatch ==
  /\ \A p \in Processes :
       /\ StageIs(Api(p), api[p].pc = "write")
       /\ (tick[p].pc = "mark") <=> (writing[Tick(p)].stage # "idle")
  /\ \A j \in JobIds : StageIs(Eval(j), ThreadAt(j, "commit"))

LEMMA TypeParts ==
  /\ TypeOK <=> Jobs!JobsTypeOK /\ Rows!SessionsTypeOK /\ ThreadsTypeOK /\ WritesMatch
  /\ TypeOK' <=> Jobs!JobsTypeOK' /\ Rows!SessionsTypeOK' /\ ThreadsTypeOK' /\ WritesMatch'
BY DEF TypeOK, ThreadsTypeOK, WritesMatch, StageIs

\* Only the launch of claimed jobs touches evaluator threads.
LEMMA TickThreads ==
  ASSUME NEW p \in Processes, TickStep(p) \/ FailTick(p), ~LaunchClaimed(p)
  PROVE  UNCHANGED thread
<1>1. ASSUME NEW s \in SessionIds, CheckNoOp(p, s) \/ Enqueue(p, s)
      PROVE  UNCHANGED thread
  BY <1>1 DEF CheckNoOp, Enqueue
<1> QED
  BY <1>1
     DEF TickStep, StartTick, ReadStale, ExpireStale, ListEvaluatorSessions,
         LoadNoOp, CommitNoOp, CountSlots, SelectCandidates, EnqueueDone,
         CheckLimit, PickCandidate, Claim, FailTick

LEMMA ThreadsTypesKept ==
  ASSUME TypeOK, Next \/ UNCHANGED vars
  PROVE  ThreadsTypeOK'
<1>0. /\ ThreadsTypeOK /\ now \in Nat
      /\ \A p \in Processes :
           tick[p].pc \in {"expire", "pick", "claim"} => tick[p].at \in Nat
  <2>1. now \in Nat /\ Jobs!Time \subseteq Nat
    BY TablesAssumption DEF TypeOK, Jobs!JobsTypeOK, Jobs!Time, Jobs!JobsAssumption
  <2> QED
    BY <2>1, TypeParts, TickState DEF ThreadsTypeOK
<1>1. ASSUME NEW p \in Processes, ApiRequest(p) \/ ApiStep(p) \/ FailRequest(p)
      PROVE  ThreadsTypeOK'
  <2>1. UNCHANGED <<now, up, tick, thread>>
    BY <1>1, ApiWrites
  <2>2. PICK r \in ApiStates : ApiTo(p, r)
    BY <1>1, ApiMoves
  <2>3. api' \in [Processes -> ApiStates]
    BY <1>0, <2>2 DEF ApiTo, ThreadsTypeOK
  <2> QED
    BY <1>0, <2>1, <2>3 DEF ThreadsTypeOK
<1>2. ASSUME NEW p \in Processes, TickStep(p) \/ FailTick(p)
      PROVE  ThreadsTypeOK'
  <2>1. UNCHANGED <<now, up, api>>
    BY <1>2, TickWrites
  <2>2. /\ tick' \in [Processes -> TickStates]
        /\ \A q \in Processes :
             tick'[q].pc \in {"expire", "pick", "claim"} => tick'[q].at <= now'
    BY <1>0, <1>2, <2>1, TickMoves DEF ThreadsTypeOK, TickTo
  <2>3. thread' \in [JobIds -> ThreadStates \cup {NoThread}]
    <3>1. CASE LaunchClaimed(p)
      <4>1. CASE JobIds # {}
        <5> PICK j \in JobIds : TRUE
          BY <4>1
        <5> QED
          BY <3>1, LaunchStarts
      <4>2. CASE JobIds = {}
        BY <3>1, <4>2 DEF LaunchClaimed
      <4> QED
        BY <4>1, <4>2
    <3>2. CASE ~LaunchClaimed(p)
      <4>1. UNCHANGED thread
        BY <1>2, <3>2, TickThreads
      <4> QED
        BY <1>0, <4>1 DEF ThreadsTypeOK
    <3> QED
      BY <3>1, <3>2
  <2> QED
    BY <1>0, <2>1, <2>2, <2>3 DEF ThreadsTypeOK
<1>3. ASSUME NEW j \in JobIds, ThreadStep(j) \/ FailEvaluator(j)
      PROVE  ThreadsTypeOK'
  <2>1. UNCHANGED <<now, up, api, tick>> /\ ThreadTurns(j)
    BY <1>3, ThreadWrites, ThreadMoves
  <2>2. thread' \in [JobIds -> ThreadStates \cup {NoThread}]
    BY <1>0, <2>1 DEF ThreadTurns, ThreadsTypeOK
  <2> QED
    BY <1>0, <2>1, <2>2 DEF ThreadsTypeOK
<1>4. ASSUME NEW p \in Processes, Crash(p) PROVE ThreadsTypeOK'
  <2>1. Idle \in ApiStates /\ Idle \in TickStates
        /\ Idle.pc \notin {"expire", "pick", "claim"}
    BY DEF ApiStates, TickStates, Idle
  <2> QED
    BY <1>0, <1>4, <2>1, CrashEnds DEF ThreadsTypeOK
<1>5. ASSUME NEW p \in Processes, Boot(p) PROVE ThreadsTypeOK'
  BY <1>0, <1>5 DEF Boot, ThreadsTypeOK
<1>6. ASSUME NEW s \in SessionIds, RecordUsage(s) PROVE ThreadsTypeOK'
  BY <1>0, <1>6 DEF RecordUsage, ThreadsTypeOK
<1>7. CASE AdvanceClock
  <2>1. now' = now + 1 /\ UNCHANGED <<up, api, tick, thread>>
    BY <1>7 DEF AdvanceClock, Jobs!ClockTick
  <2>2. \A p \in Processes :
          tick[p].pc \in {"expire", "pick", "claim"} => tick[p].at <= now + 1
    BY <1>0 DEF ThreadsTypeOK
  <2> QED
    BY <1>0, <2>1, <2>2 DEF ThreadsTypeOK
<1>8. CASE UNCHANGED vars
  BY <1>0, <1>8 DEF vars, ThreadsTypeOK
<1> QED
  BY <1>1, <1>2, <1>3, <1>4, <1>5, <1>6, <1>7, <1>8 DEF Next

LEMMA WritesMatchKept ==
  ASSUME TypeOK, HandsInv, Next \/ UNCHANGED vars
  PROVE  WritesMatch'
<1>0. WritesMatch /\ Rows!SessionsTypeOK
  BY TypeParts
<1>1. ASSUME UNCHANGED <<writing, api, tick, thread>> PROVE WritesMatch'
  BY <1>0, <1>1 DEF WritesMatch, StageIs, ThreadAt
<1>2. ASSUME NEW p \in Processes, ApiRequest(p) \/ ApiStep(p) \/ FailRequest(p)
      PROVE  WritesMatch'
  <2>1. /\ UNCHANGED <<tick, thread>>
        /\ \A q \in Processes \ {p} : api'[q] = api[q]
        /\ StageIs(Api(p), api[p].pc = "write")'
        /\ \A w \in Writers \ {Api(p)} : writing'[w] = writing[w]
    BY <1>2, ApiWrites
  <2>2. ASSUME NEW q \in Processes
        PROVE  /\ StageIs(Api(q), api[q].pc = "write")'
               /\ (tick'[q].pc = "mark") <=> (writing'[Tick(q)].stage # "idle")
    BY <1>0, <2>1, Writing DEF WritesMatch, StageIs
  <2>3. ASSUME NEW j \in JobIds PROVE StageIs(Eval(j), ThreadAt(j, "commit"))'
    BY <1>0, <2>1, Writing DEF WritesMatch, StageIs, ThreadAt
  <2> QED
    BY <2>2, <2>3 DEF WritesMatch
<1>3. ASSUME NEW p \in Processes, TickStep(p) \/ FailTick(p)
      PROVE  WritesMatch'
  <2>1. /\ UNCHANGED api
        /\ \A q \in Processes \ {p} : tick'[q] = tick[q]
        /\ (tick'[p].pc = "mark") <=> (writing'[Tick(p)].stage # "idle")
        /\ \A w \in Writers \ {Tick(p)} : writing'[w] = writing[w]
    BY <1>3, TickWrites
  <2>2. ASSUME NEW q \in Processes
        PROVE  /\ StageIs(Api(q), api[q].pc = "write")'
               /\ (tick'[q].pc = "mark") <=> (writing'[Tick(q)].stage # "idle")
    BY <1>0, <2>1, Writing DEF WritesMatch, StageIs
  <2>3. ASSUME NEW j \in JobIds PROVE StageIs(Eval(j), ThreadAt(j, "commit"))'
    <3>1. writing'[Eval(j)] = writing[Eval(j)]
      BY <2>1, Writing
    <3>2. ThreadAt(j, "commit")' <=> ThreadAt(j, "commit")
      <4>1. CASE LaunchClaimed(p) /\ j \in Claimed(p)
        BY <4>1, LaunchStarts DEF ThreadAt, HandsInv, ClaimedByOne
      <4>2. CASE LaunchClaimed(p) /\ j \notin Claimed(p)
        BY <4>2, LaunchStarts DEF ThreadAt
      <4>3. CASE ~LaunchClaimed(p)
        BY <1>3, <4>3, TickThreads DEF ThreadAt
      <4> QED
        BY <4>1, <4>2, <4>3
    <3> QED
      BY <1>0, <3>1, <3>2 DEF WritesMatch, StageIs
  <2> QED
    BY <2>2, <2>3 DEF WritesMatch
<1>4. ASSUME NEW j \in JobIds, ThreadStep(j) \/ FailEvaluator(j)
      PROVE  WritesMatch'
  <2>1. /\ UNCHANGED <<api, tick>> /\ ThreadTurns(j)
        /\ StageIs(Eval(j), ThreadAt(j, "commit"))'
        /\ \A w \in Writers \ {Eval(j)} : writing'[w] = writing[w]
    BY <1>4, ThreadWrites, ThreadMoves
  <2>2. ASSUME NEW q \in Processes
        PROVE  /\ StageIs(Api(q), api[q].pc = "write")'
               /\ (tick'[q].pc = "mark") <=> (writing'[Tick(q)].stage # "idle")
    BY <1>0, <2>1, Writing DEF WritesMatch, StageIs
  <2>3. ASSUME NEW k \in JobIds, k # j PROVE StageIs(Eval(k), ThreadAt(k, "commit"))'
    <3>1. thread'[k] = thread[k]
      BY <2>1, <2>3 DEF ThreadTurns, TypeOK
    <3>2. writing'[Eval(k)] = writing[Eval(k)]
      BY <2>1, <2>3, Writing
    <3> QED
      BY <1>0, <3>1, <3>2 DEF WritesMatch, StageIs, ThreadAt
  <2> QED
    BY <2>1, <2>2, <2>3 DEF WritesMatch
<1>5. ASSUME NEW p \in Processes, Crash(p) PROVE WritesMatch'
  <2>1. /\ writing'[Api(p)].stage = "idle" /\ writing'[Tick(p)].stage = "idle"
        /\ api'[p].pc = "idle" /\ tick'[p].pc = "idle"
    BY <1>5, CrashEnds DEF TypeOK, Idle
  <2>2. \A q \in Processes \ {p} :
          /\ writing'[Api(q)] = writing[Api(q)] /\ writing'[Tick(q)] = writing[Tick(q)]
          /\ api'[q] = api[q] /\ tick'[q] = tick[q]
    BY <1>5, CrashEnds DEF TypeOK
  <2>3. ASSUME NEW j \in JobIds PROVE StageIs(Eval(j), ThreadAt(j, "commit"))'
    BY <1>0, <1>5, CrashEnds DEF WritesMatch, StageIs, ThreadAt
  <2>4. ASSUME NEW q \in Processes
        PROVE  /\ StageIs(Api(q), api[q].pc = "write")'
               /\ (tick'[q].pc = "mark") <=> (writing'[Tick(q)].stage # "idle")
    BY <1>0, <2>1, <2>2 DEF WritesMatch, StageIs
  <2> QED
    BY <2>3, <2>4 DEF WritesMatch
<1>6. (\E p \in Processes : Boot(p)) \/ AdvanceClock
        \/ (\E s \in SessionIds : RecordUsage(s)) \/ UNCHANGED vars
      => WritesMatch'
  BY <1>1 DEF Boot, AdvanceClock, RecordUsage, Rows!RecordUsage, rowVars, vars
<1> QED
  BY <1>2, <1>3, <1>4, <1>5, <1>6 DEF Next

\* The inductive invariant: what the tables keep, what the threads hold.
IInv ==
  /\ TypeOK
  /\ Jobs!OneActivePerSession
  /\ RowTable!VerdictInv
  /\ HandsInv

LEMMA InitIInv == Init => IInv
<1> SUFFICES ASSUME Init PROVE IInv
  OBVIOUS
<1>1. Jobs!JobsInit /\ Rows!SessionsInit
  BY DEF Init
<1>2. Jobs!JobsTypeOK /\ Jobs!OneActivePerSession
  BY <1>1, TablesAssumption
     DEF Jobs!JobsInit, Jobs!JobsTypeOK, Jobs!Rows, Jobs!Time, Jobs!JobsAssumption,
         Jobs!OneActivePerSession, Jobs!WithStatus
<1>3. RowTable!VerdictInv
  BY <1>1, SameRowTable, RowTable!InitVerdict
<1>4. \A w \in Writers : writing[w].stage = "idle"
  BY <1>1 DEF Rows!SessionsInit, Rows!NotWriting
<1>5. WritesMatch
  BY <1>4, Writing DEF Init, Idle, WritesMatch, StageIs, ThreadAt
<1>6. ThreadsTypeOK
  BY DEF Init, ThreadsTypeOK, ApiStates, TickStates, Idle
<1>7. HandsInv
  BY DEF Init, Idle, HandsInv, InHand, Claimed, ClaimedByOne, RunWithChosenEvaluator
<1> QED
  BY <1>2, <1>3, <1>5, <1>6, <1>7, SameRowTable, TypeParts DEF IInv

LEMMA StepIInv == IInv /\ [Next]_vars => IInv'
<1> SUFFICES ASSUME IInv, Next \/ UNCHANGED vars PROVE IInv'
  OBVIOUS
<1>1. Jobs!JobsTypeOK' /\ Jobs!OneActivePerSession'
  BY JobsStep, JobTableKept DEF IInv, TypeOK
<1>2. RowTable!VerdictInv'
  BY RowsStep, RowTableKept DEF IInv
<1>3. Rows!SessionsTypeOK'
  BY <1>2, SameRowTable
<1>4. TypeOK'
  BY <1>1, <1>3, ThreadsTypesKept, WritesMatchKept, TypeParts DEF IInv
<1>5. HandsInv'
  BY <1>1, HandsKept DEF IInv
<1> QED
  BY <1>1, <1>2, <1>4, <1>5 DEF IInv

LEMMA WorkerInv == Spec => []IInv
BY InitIInv, StepIInv, PTL DEF Spec

\* Type correctness of the worker: its tables, its requests, ticks and evaluator
\* threads, and the writes they have in flight.
THEOREM WorkerTypeCorrect == Spec => []TypeOK
<1>1. IInv => TypeOK
  BY DEF IInv
<1> QED
  BY <1>1, WorkerInv, PTL

\* However many API processes compete for the queue, the conditional UPDATE of
\* claim_next_evaluation_job puts a job in the hands of one of them.
THEOREM JobsClaimedByOne == Spec => []ClaimedByOne
<1>1. IInv => ClaimedByOne
  BY DEF IInv, HandsInv
<1> QED
  BY <1>1, WorkerInv, PTL

\* A job runs with the evaluator its row names: no promotion and no PATCH reaches
\* it between the claim and the end of its thread.
THEOREM JobsRunWithChosenEvaluator == Spec => []RunWithChosenEvaluator
<1>1. IInv => RunWithChosenEvaluator
  BY DEF IInv, HandsInv
<1> QED
  BY <1>1, WorkerInv, PTL

\* The worker implements the job table: whatever its processes do to the table is
\* a statement of it, issued with a clock reading of the past.
THEOREM WorkerImplementsJobs == Spec => ImplementsJobs
<1>1. Init => Jobs!JobsInit
  BY DEF Init
<1>2. IInv /\ [Next]_vars => [Jobs!JobsNext]_Jobs!jobsVars
  BY JobsStep DEF IInv
<1> QED
  BY <1>1, <1>2, WorkerInv, PTL DEF Spec, ImplementsJobs, Jobs!JobsSpec

\* The worker implements the session rows: every write of evaluation columns is
\* one of a writer that loads, decides and commits.
THEOREM WorkerImplementsSessions == Spec => ImplementsSessions
<1>1. Init => Rows!SessionsInit
  BY DEF Init
<1>2. IInv /\ [Next]_vars => [Rows!SessionsNext]_Rows!sessionVars
  BY RowsStep DEF IInv
<1> QED
  BY <1>1, <1>2, WorkerInv, PTL DEF Spec, ImplementsSessions, Rows!SessionsSpec


-----------------------------------------------------------------------------
(* Jobs in hands stay running, unless their time is over. *)

LEMMA ClaimedFrom ==
  ASSUME NEW p \in Processes, NEW j
  PROVE  /\ j \in Claimed(p) <=> \E c \in ClaimsOf(p) : c[1] = j
         /\ j \in Claimed(p)' <=> \E c \in ClaimsOf(p)' : c[1] = j
<1>1. j \in Claimed(p) <=> \E c \in ClaimsOf(p) : c[1] = j
  BY DEF Claimed, ClaimsOf
<1>2. j \in Claimed(p)' <=> \E c \in ClaimsOf(p)' : c[1] = j
  BY DEF Claimed, ClaimsOf
<1> QED
  BY <1>1, <1>2

\* Only a claim puts a job in a hand, and the job runs then.
LEMMA TakenInHand ==
  ASSUME TypeOK, Next \/ UNCHANGED vars, NEW j \in JobIds, InHand(j)'
  PROVE  InHand(j) \/ (jobs'[j] # NoJob /\ jobs'[j].status = "running")
<1>0. Jobs!JobsTypeOK
  BY DEF TypeOK
<1>1. CASE /\ \A p \in Processes : ClaimsOf(p)' \subseteq ClaimsOf(p)
           /\ \A k \in JobIds : thread'[k] # NoThread =>
                thread[k] # NoThread /\ thread'[k].evaluator = thread[k].evaluator
  BY <1>1, ClaimedFrom DEF InHand
<1>2. ASSUME NEW p \in Processes,
             Jobs!ClaimJob(tick[p].job, tick[p].at),
             tick[p].job \in JobIds, tick[p].at \in Jobs!Time,
             ClaimsOf(p)' =
               ClaimsOf(p) \cup {<<tick[p].job, jobs[tick[p].job].evaluator>>},
             \A q \in Processes \ {p} : ClaimsOf(q)' = ClaimsOf(q),
             UNCHANGED thread
      PROVE  InHand(j) \/ (jobs'[j] # NoJob /\ jobs'[j].status = "running")
  <2>1. CASE j = tick[p].job
    BY <1>0, <1>2, <2>1, ClaimStarts
  <2>2. CASE j # tick[p].job
    <3>1. ASSUME NEW q \in Processes, j \in Claimed(q)' PROVE j \in Claimed(q)
      <4>1. PICK c \in ClaimsOf(q)' : c[1] = j
        BY <3>1, ClaimedFrom
      <4>2. c \in ClaimsOf(q)
        BY <1>2, <2>2, <4>1
      <4> QED
        BY <4>1, <4>2, ClaimedFrom
    <3> QED
      BY <1>2, <3>1 DEF InHand
  <2> QED
    BY <2>1, <2>2
<1>3. ASSUME NEW p \in Processes, LaunchClaimed(p), ClaimsOf(p)' = {},
             \A q \in Processes \ {p} : ClaimsOf(q)' = ClaimsOf(q)
      PROVE  InHand(j)
  <2>1. ASSUME NEW q \in Processes, j \in Claimed(q)' PROVE j \in Claimed(q)
    BY <1>3, <2>1, ClaimedFrom
  <2>2. j \notin Claimed(p) => thread'[j] = thread[j]
    BY <1>3, LaunchStarts
  <2> QED
    BY <2>1, <2>2 DEF InHand
<1> QED
  BY <1>1, <1>2, <1>3, HandsStep

\* A completion is recorded by the thread of the job, which ends with it.
LEMMA FinishReleases ==
  ASSUME TypeOK, HandsInv, NEW j \in JobIds, FinishJob(j)
  PROVE  ~InHand(j)'
<1>1. /\ thread'[j] = NoThread /\ thread[j] # NoThread /\ UNCHANGED tick
  BY DEF FinishJob, ThreadAt, TypeOK
<1>2. \A p \in Processes : Claimed(p)' = Claimed(p) /\ j \notin Claimed(p)
  BY <1>1 DEF HandsInv, ClaimedByOne, Claimed
<1> QED
  BY <1>1, <1>2 DEF InHand

\* A row that is running, or ran out of time, stays so until its hand lets go.
Holds(j) == jobs[j].status = "running" \/ TimedOut(j)

LEMMA HoldsKept ==
  ASSUME TypeOK, HandsInv, Next \/ UNCHANGED vars, NEW j \in JobIds,
         Started(j), Holds(j), InHand(j)'
  PROVE  Holds(j)'
<1> USE DEF Jobs!Rows, Jobs!WithStatus
<1>0. /\ jobs \in [JobIds -> Jobs!JobRow \cup {NoJob}]
      /\ jobs[j] # NoJob /\ jobs[j].status # "queued" /\ jobs[j] \in Jobs!JobRow
      /\ Jobs!StampsMatchStatus(jobs[j])
      /\ now \in Nat /\ JobTimeout \in Nat
  BY TablesAssumption DEF TypeOK, Jobs!JobsTypeOK, Started, Jobs!JobsAssumption, Jobs!Time
<1>1. ASSUME jobs'[j] = jobs[j] PROVE Holds(j)'
  BY <1>1 DEF Holds, TimedOut
<1>2. ASSUME NEW k \in JobIds, NEW s, NEW t, NEW e, Jobs!CreateJob(k, s, t, e)
      PROVE  jobs'[j] = jobs[j]
  BY <1>0, <1>2 DEF Jobs!CreateJob
<1>3. ASSUME NEW k \in JobIds, NEW e,
             Jobs!PromoteToManual(k, e) \/ Jobs!UpdateQueuedEvaluator(k, e)
      PROVE  jobs'[j] = jobs[j]
  BY <1>0, <1>3 DEF Jobs!PromoteToManual, Jobs!UpdateQueuedEvaluator
<1>4. ASSUME NEW J \in SUBSET JobIds, NEW at \in 0 .. now, Jobs!FailStaleJobs(J, at)
      PROVE  Holds(j)'
  <2>1. CASE j \notin J
    <3>1. jobs'[j] = jobs[j]
      BY <1>0, <1>4, <2>1 DEF Jobs!FailStaleJobs
    <3> QED
      BY <1>1, <3>1
  <2>2. CASE j \in J
    <3>1. /\ jobs'[j] = [jobs[j] EXCEPT !.status = "failed", !.finished = at]
          /\ jobs[j].status \in Jobs!ActiveStatuses
          /\ Jobs!IsStale(jobs[j], at)
      BY <1>4, <2>2 DEF Jobs!FailStaleJobs
    <3>2. jobs[j].status = "running" /\ jobs[j].started # Never
      BY <1>0, <3>1 DEF Jobs!ActiveStatuses, Jobs!StampsMatchStatus
    <3>3. jobs[j].started + JobTimeout <= at /\ jobs[j].started \in Nat /\ at \in Nat
      BY <1>0, <3>1, <3>2 DEF Jobs!IsStale, Jobs!StaleMarker, Jobs!JobRow, Jobs!Time
    <3>4. /\ jobs'[j].status = "failed" /\ jobs'[j].finished = at
          /\ jobs'[j].started = jobs[j].started
      BY <1>0, <3>1 DEF Jobs!JobRow
    <3> QED
      BY <1>0, <3>3, <3>4 DEF Holds, TimedOut
  <2> QED
    BY <2>1, <2>2
<1>5. ASSUME NEW k \in JobIds, NEW at, Jobs!ClaimJob(k, at) PROVE jobs'[j] = jobs[j]
  BY <1>0, <1>5 DEF Jobs!ClaimJob
<1>6. ASSUME NEW k \in JobIds, FinishJob(k), Jobs!MarkSucceeded(k) \/ Jobs!MarkFailed(k)
      PROVE  jobs'[j] = jobs[j]
  <2>1. k # j
    BY <1>6, FinishReleases
  <2> QED
    BY <1>0, <1>6, <2>1 DEF Jobs!MarkSucceeded, Jobs!MarkFailed
<1>7. CASE UNCHANGED vars
  BY <1>1, <1>7 DEF vars
<1>8. CASE Next
  BY <1>1, <1>2, <1>3, <1>4, <1>5, <1>6, <1>8, JobChange DEF FreeIds
<1> QED
  BY <1>7, <1>8

HeldInv == \A j \in JobIds : InHand(j) => Holds(j)

LEMMA StepHeld == IInv /\ HeldInv /\ [Next]_vars => HeldInv'
<1> SUFFICES ASSUME IInv, HeldInv, Next \/ UNCHANGED vars, NEW j \in JobIds, InHand(j)'
             PROVE  Holds(j)'
  BY DEF HeldInv
<1>1. CASE InHand(j)
  BY <1>1, HoldsKept DEF IInv, HandsInv, HeldInv
<1>2. CASE jobs'[j].status = "running"
  BY <1>2 DEF Holds
<1> QED
  BY <1>1, <1>2, TakenInHand DEF IInv

LEMMA HeldAlways == Spec => []HeldInv
<1>1. Init => HeldInv
  BY DEF Init, Idle, HeldInv, InHand, Claimed
<1> QED
  BY <1>1, StepHeld, WorkerInv, PTL DEF Spec

LEMMA HeldMeans == IInv /\ HeldInv => WorkersHoldTheirJobs /\ OneEvaluationPerSession
<1> SUFFICES ASSUME IInv, HeldInv PROVE WorkersHoldTheirJobs /\ OneEvaluationPerSession
  OBVIOUS
<1>1. ASSUME NEW j \in JobIds, InHand(j)
      PROVE  j \in Running \/ (j \in Jobs!Rows /\ TimedOut(j))
  BY <1>1 DEF IInv, HandsInv, HeldInv, Holds, Started, Running, Jobs!WithStatus, Jobs!Rows
<1>2. WorkersHoldTheirJobs
  BY <1>1 DEF WorkersHoldTheirJobs, InHand
<1>3. ASSUME NEW j \in JobIds, NEW k \in JobIds, j # k,
             thread[j] # NoThread, thread[k] # NoThread,
             SessionOf(j) = SessionOf(k), ~TimedOut(j), ~TimedOut(k)
      PROVE  FALSE
  <2>1. j \in Running /\ k \in Running
    BY <1>1, <1>3 DEF InHand
  <2>2. j \in Jobs!WithStatus(Jobs!ActiveStatuses) /\ k \in Jobs!WithStatus(Jobs!ActiveStatuses)
    BY <2>1 DEF Running, Jobs!WithStatus, Jobs!ActiveStatuses
  <2> QED
    BY <1>3, <2>2 DEF IInv, Jobs!OneActivePerSession, SessionOf
<1> QED
  BY <1>2, <1>3 DEF OneEvaluationPerSession

\* Only the timeout takes a job away from the tick that claimed it or the thread
\* that evaluates it: no expiry, completion, promotion or second claim does,
\* whichever process issues it and however old its reading of the clock is.
THEOREM JobsHeld == Spec => []WorkersHoldTheirJobs
BY HeldAlways, WorkerInv, HeldMeans, PTL

\* Two evaluators are at work on a session only if the job of one timed out.
THEOREM OneEvaluatorPerSession == Spec => []OneEvaluationPerSession
BY HeldAlways, WorkerInv, HeldMeans, PTL

-----------------------------------------------------------------------------
(* The limits a tick checks when it uses them. Processes count and select  *)
(* without a lock: they share the jobs that run and wait, but each adds to *)
(* them what it counted as free.                                           *)

\* How a tick comes to select, enqueue, look for a candidate and claim it.
LEMMA TickChange ==
  ASSUME TypeOK, Next \/ UNCHANGED vars, NEW p \in Processes
  PROVE  \/ tick'[p] = tick[p] /\ (\A s \in SessionIds : ~Enqueue(p, s))
         \/ tick'[p].pc \notin {"select", "enqueue", "pick", "claim"}
         \/ /\ CountSlots(p)
            /\ tick'[p].slots = MaxConcurrent * BufferMultiplier - Cardinality(Active)
            /\ tick'[p].pc = "select"
         \/ SelectCandidates(p) /\ tick'[p].pc = "enqueue"
         \/ \E s \in tick[p].todo :
              /\ Enqueue(p, s) /\ tick[p].pc = "enqueue" /\ tick'[p].pc = "enqueue"
              /\ tick'[p].todo = tick[p].todo \ {s}
         \/ /\ UNCHANGED jobs /\ tick'[p].pc = "pick"
            /\ Cardinality(Running) < MaxConcurrent
         \/ /\ UNCHANGED jobs /\ tick[p].pc \in {"pick", "claim"}
            /\ tick'[p].pc \in {"pick", "claim"}
<1> DEFINE Goal ==
         \/ tick'[p] = tick[p] /\ (\A s \in SessionIds : ~Enqueue(p, s))
         \/ tick'[p].pc \notin {"select", "enqueue", "pick", "claim"}
         \/ /\ CountSlots(p)
            /\ tick'[p].slots = MaxConcurrent * BufferMultiplier - Cardinality(Active)
            /\ tick'[p].pc = "select"
         \/ SelectCandidates(p) /\ tick'[p].pc = "enqueue"
         \/ \E s \in tick[p].todo :
              /\ Enqueue(p, s) /\ tick[p].pc = "enqueue" /\ tick'[p].pc = "enqueue"
              /\ tick'[p].todo = tick[p].todo \ {s}
         \/ /\ UNCHANGED jobs /\ tick'[p].pc = "pick"
            /\ Cardinality(Running) < MaxConcurrent
         \/ /\ UNCHANGED jobs /\ tick[p].pc \in {"pick", "claim"}
            /\ tick'[p].pc \in {"pick", "claim"}
<1>0. /\ tick \in [Processes -> TickStates]
      /\ Idle.pc \notin {"select", "enqueue", "pick", "claim"}
  BY DEF TypeOK, Idle
<1>1. ASSUME NEW s \in SessionIds, Enqueue(p, s)
      PROVE  /\ s \in tick[p].todo /\ tick[p].pc = "enqueue" /\ tick'[p].pc = "enqueue"
             /\ tick'[p].todo = tick[p].todo \ {s}
             /\ tick'[p] # tick[p]
  <2>1. /\ tick[p] \in [pc : {"classify", "mark", "enqueue"}, todo : SUBSET SessionIds]
        /\ tick[p].pc = "enqueue" /\ s \in tick[p].todo
        /\ tick'[p] = [tick[p] EXCEPT !.todo = tick[p].todo \ {s}]
    BY <1>0, <1>1, TickState DEF Enqueue, TickAt, TickTo
  <2>2. /\ tick'[p].pc = "enqueue" /\ tick'[p].todo = tick[p].todo \ {s}
    BY <2>1
  <2> QED
    BY <2>1, <2>2
<1>2. ASSUME tick'[p] = tick[p] PROVE Goal
  BY <1>1, <1>2
<1>3. ASSUME NEW t, TickTo(p, t) PROVE tick'[p] = t
  BY <1>0, <1>3 DEF TickTo
<1>4. ASSUME \/ StartTick(p) \/ ReadStale(p) \/ ExpireStale(p)
             \/ ListEvaluatorSessions(p) \/ EnqueueDone(p) \/ LaunchClaimed(p)
             \/ FailTick(p) \/ Crash(p)
      PROVE  Goal
  <2>1. tick'[p].pc \notin {"select", "enqueue", "pick", "claim"}
    BY <1>0, <1>4
       DEF StartTick, ReadStale, ExpireStale, ListEvaluatorSessions, EnqueueDone,
           LaunchClaimed, FailTick, Crash, TickTo
  <2> QED
    BY <2>1
<1>5. ASSUME NEW s \in SessionIds, CheckNoOp(p, s) PROVE Goal
  <2> PICK t : t = tick[p]
    OBVIOUS
  <2>1. /\ t \in [pc : {"classify", "mark", "enqueue"}, todo : SUBSET SessionIds]
        /\ t.pc = "classify"
    BY <1>0, <1>5, TickState DEF CheckNoOp, TickAt
  <2>2. \/ tick'[p] = [t EXCEPT !.pc = "mark", !.todo = t.todo \ {s}]
        \/ tick'[p] = [t EXCEPT !.todo = t.todo \ {s}]
    BY <1>0, <1>5 DEF CheckNoOp, TickTo
  <2>3. tick'[p].pc \in {"mark", "classify"}
    BY <2>1, <2>2
  <2> QED
    BY <2>3
<1>6. CASE LoadNoOp(p)
  BY <1>2, <1>6 DEF LoadNoOp
<1>7. CASE CommitNoOp(p)
  <2>1. tick[p] \in [pc : {"classify", "mark", "enqueue"}, todo : SUBSET SessionIds]
    BY <1>0, <1>7, TickState DEF CommitNoOp, TickAt
  <2>2. tick'[p].pc = "classify"
    BY <1>0, <1>7, <2>1 DEF CommitNoOp, TickTo
  <2> QED
    BY <2>2
<1>8. CASE CountSlots(p)
  <2> PICK slots : slots = MaxConcurrent * BufferMultiplier - Cardinality(Active)
    OBVIOUS
  <2>1. \/ tick'[p] = [pc |-> "select", slots |-> slots]
        \/ tick'[p] = [pc |-> "limit", claimed |-> {}]
    BY <1>3, <1>8 DEF CountSlots
  <2> QED
    BY <1>8, <2>1
<1>9. CASE SelectCandidates(p)
  <2>1. PICK S : TickTo(p, [pc |-> "enqueue", todo |-> S])
    BY <1>9 DEF SelectCandidates
  <2> QED
    BY <1>3, <1>9, <2>1
<1>10. ASSUME NEW s \in SessionIds, Enqueue(p, s) PROVE Goal
  BY <1>1, <1>10
<1>11. CASE CheckLimit(p)
  <2>1. \/ /\ Cardinality(Running) < MaxConcurrent
           /\ tick'[p] = [pc |-> "pick", at |-> now, claimed |-> tick[p].claimed]
        \/ tick'[p] = [pc |-> "return", claimed |-> tick[p].claimed]
    BY <1>3, <1>11 DEF CheckLimit
  <2> QED
    BY <1>11, <2>1 DEF CheckLimit
<1>12. CASE PickCandidate(p)
  <2>1. tick[p].pc = "pick" /\ UNCHANGED jobs
    BY <1>12 DEF PickCandidate, TickAt
  <2>2. ASSUME NEW j, TickTo(p, [pc |-> "claim", job |-> j, at |-> tick[p].at,
                                 claimed |-> tick[p].claimed])
        PROVE  tick'[p].pc = "claim"
    BY <1>3, <2>2
  <2>3. ASSUME TickTo(p, [pc |-> "return", claimed |-> tick[p].claimed])
        PROVE  tick'[p].pc = "return"
    BY <1>3, <2>3
  <2>4. tick'[p].pc \in {"claim", "return"}
    BY <1>12, <2>2, <2>3 DEF PickCandidate
  <2> QED
    BY <2>1, <2>4
<1>13. CASE Claim(p)
  <2> PICK c : c = <<tick[p].job, jobs[tick[p].job].evaluator>>
    OBVIOUS
  <2>1. \/ tick'[p] = [pc |-> "limit", claimed |-> tick[p].claimed \cup {c}]
        \/ /\ tick'[p] = [pc |-> "pick", at |-> tick[p].at, claimed |-> tick[p].claimed]
           /\ UNCHANGED jobs
    BY <1>3, <1>13 DEF Claim
  <2> QED
    BY <1>13, <2>1 DEF Claim, TickAt
<1>14. ASSUME NEW q \in Processes, q # p, TickStep(q) \/ FailTick(q) PROVE Goal
  BY <1>2, <1>14, TickWrites
<1>15. ASSUME NEW q \in Processes, q # p, Crash(q) PROVE Goal
  <2>1. tick' = [tick EXCEPT ![q] = Idle]
    BY <1>15, CrashEnds
  <2> QED
    BY <1>0, <1>2, <1>15, <2>1
<1>16. ASSUME NEW q \in Processes, ApiRequest(q) \/ ApiStep(q) \/ FailRequest(q)
       PROVE  Goal
  BY <1>2, <1>16, ApiWrites
<1>17. ASSUME NEW j \in JobIds, ThreadStep(j) \/ FailEvaluator(j) PROVE Goal
  BY <1>2, <1>17, ThreadWrites
<1>18. (\E q \in Processes : Boot(q)) \/ AdvanceClock
         \/ (\E s \in SessionIds : RecordUsage(s)) \/ UNCHANGED vars
       => Goal
  BY <1>2 DEF Boot, AdvanceClock, RecordUsage, vars
<1>19. TickStep(p) => Goal
  BY <1>4, <1>5, <1>6, <1>7, <1>8, <1>9, <1>10, <1>11, <1>12, <1>13 DEF TickStep
<1> HIDE DEF Goal
<1>20. Goal
  BY <1>4, <1>14, <1>15, <1>16, <1>17, <1>18, <1>19 DEF Next
<1> QED
  BY <1>20 DEF Goal

\* The rows of a set of jobs are finitely many.
LEMMA FiniteJobs ==
  ASSUME NEW S \in SUBSET JobIds, NEW T, T \subseteq S
  PROVE  /\ IsFiniteSet(S) /\ IsFiniteSet(T)
         /\ Cardinality(S) \in Nat /\ Cardinality(T) \in Nat
         /\ Cardinality(T) <= Cardinality(S)
<1>1. IsFiniteSet(S)
  BY TablesAssumption, FS_Subset
<1>2. IsFiniteSet(T) /\ Cardinality(T) <= Cardinality(S)
  BY <1>1, FS_Subset
<1> QED
  BY <1>1, <1>2, FS_CardinalityType

\* Only a claim makes a job run.
LEMMA RunningStep ==
  ASSUME TypeOK, Next \/ UNCHANGED vars
  PROVE  \/ Running' \subseteq Running
         \/ \E p \in Processes :
              /\ tick[p].pc = "claim" /\ tick'[p].pc = "limit"
              /\ Running' \subseteq Running \cup {tick[p].job}
<1> USE DEF Running, Jobs!Rows, Jobs!WithStatus
<1>0. /\ jobs \in [JobIds -> Jobs!JobRow \cup {NoJob}] /\ NoJob \notin Jobs!JobRow
      /\ tick \in [Processes -> TickStates]
      /\ now \in Jobs!Time /\ \A at \in 0 .. now : at \in Jobs!Time
  BY TablesAssumption DEF TypeOK, Jobs!JobsTypeOK, Jobs!JobsAssumption, Jobs!Time
<1>1. ASSUME NEW k \in JobIds, NEW s, NEW t, NEW e, Jobs!CreateJob(k, s, t, e)
      PROVE  Running' \subseteq Running
  BY <1>0, <1>1 DEF Jobs!CreateJob
<1>2. ASSUME NEW k \in JobIds, NEW e,
             Jobs!PromoteToManual(k, e) \/ Jobs!UpdateQueuedEvaluator(k, e)
      PROVE  Running' \subseteq Running
  <2>1. /\ jobs[k] \in Jobs!JobRow /\ jobs[k].status = "queued"
        /\ \/ jobs'[k] = [jobs[k] EXCEPT !.trigger = "manual", !.evaluator = e]
           \/ jobs'[k] = [jobs[k] EXCEPT !.evaluator = e]
        /\ \A j \in JobIds : j # k => jobs'[j] = jobs[j]
    BY <1>0, <1>2 DEF Jobs!PromoteToManual, Jobs!UpdateQueuedEvaluator
  <2>2. jobs'[k].status = "queued"
    BY <2>1 DEF Jobs!JobRow
  <2> QED
    BY <2>1, <2>2
<1>3. ASSUME NEW J \in SUBSET JobIds, NEW at \in 0 .. now, Jobs!FailStaleJobs(J, at)
      PROVE  Running' \subseteq Running
  <2>1. ASSUME NEW j \in J PROVE jobs'[j].status = "failed"
    <3>1. jobs'[j] = [jobs[j] EXCEPT !.status = "failed", !.finished = at]
          /\ jobs[j] \in Jobs!JobRow
      BY <1>0, <1>3 DEF Jobs!FailStaleJobs
    <3> QED
      BY <3>1 DEF Jobs!JobRow
  <2>2. \A j \in JobIds \ J : jobs'[j] = jobs[j]
    BY <1>3 DEF Jobs!FailStaleJobs
  <2> QED
    BY <2>1, <2>2
<1>4. ASSUME NEW p \in Processes, Claim(p), Jobs!ClaimJob(tick[p].job, tick[p].at)
      PROVE  /\ tick[p].pc = "claim" /\ tick'[p].pc = "limit"
             /\ Running' \subseteq Running \cup {tick[p].job}
  <2> PICK c : c = <<tick[p].job, jobs[tick[p].job].evaluator>>
    OBVIOUS
  <2>1. TickTo(p, [pc |-> "limit", claimed |-> tick[p].claimed \cup {c}])
    BY <1>4 DEF Claim, Jobs!ClaimJob, Queued
  <2>2. tick'[p].pc = "limit" /\ tick[p].pc = "claim"
    BY <1>0, <1>4, <2>1 DEF TickTo, Claim, TickAt
  <2>3. \A j \in JobIds : j # tick[p].job => jobs'[j] = jobs[j]
    BY <1>0, <1>4 DEF Jobs!ClaimJob
  <2> QED
    BY <2>2, <2>3
<1>5. ASSUME NEW k \in JobIds, Jobs!MarkSucceeded(k) \/ Jobs!MarkFailed(k)
      PROVE  Running' \subseteq Running
  <2>1. \A j \in JobIds : j # k => jobs'[j] = jobs[j]
    BY <1>0, <1>5 DEF Jobs!MarkSucceeded, Jobs!MarkFailed
  <2>2. k \in Running
    BY <1>5 DEF Jobs!MarkSucceeded, Jobs!MarkFailed
  <2> QED
    BY <2>1, <2>2
<1>6. UNCHANGED jobs => Running' \subseteq Running
  OBVIOUS
<1> QED
  BY <1>1, <1>2, <1>3, <1>4, <1>5, <1>6, JobChange DEF vars, FreeIds

\* The processes that have counted fewer jobs than the limit and may claim one.
Claiming == {p \in Processes : tick[p].pc \in {"pick", "claim"}}

\* The jobs that run and those about to be claimed: with a claim the process
\* gives up its place among those that may.
LimitInv ==
  Cardinality(Running) + Cardinality(Claiming)
    <= MaxConcurrent + Cardinality(Processes) - 1

LEMMA FiniteProcesses ==
  ASSUME NEW S \in SUBSET Processes
  PROVE  /\ IsFiniteSet(S) /\ Cardinality(S) \in Nat
         /\ Cardinality(Processes) \in Nat /\ Cardinality(S) <= Cardinality(Processes)
BY TablesAssumption, FS_Subset, FS_CardinalityType

LEMMA StepLimit == IInv /\ LimitInv /\ [Next]_vars => LimitInv'
<1> SUFFICES ASSUME IInv, LimitInv, Next \/ UNCHANGED vars PROVE LimitInv'
  OBVIOUS
<1>0. /\ TypeOK /\ MaxConcurrent \in Nat
      /\ Running \subseteq JobIds /\ Running' \subseteq JobIds
      /\ Claiming \in SUBSET Processes /\ Claiming' \in SUBSET Processes
  BY WorkerAssumption DEF IInv, Running, Jobs!WithStatus, Jobs!Rows, Claiming
<1>1. PICK r : r = Cardinality(Running)
  OBVIOUS
<1>2. PICK r1 : r1 = Cardinality(Running')
  OBVIOUS
<1>3. PICK c : c = Cardinality(Claiming)
  OBVIOUS
<1>4. PICK c1 : c1 = Cardinality(Claiming')
  OBVIOUS
<1>5. PICK n : n = Cardinality(Processes)
  OBVIOUS
<1>6. r \in Nat /\ r1 \in Nat /\ c \in Nat /\ c1 \in Nat /\ n \in Nat /\ c1 <= n
  <2>1. r \in Nat /\ r1 \in Nat
    BY <1>0, <1>1, <1>2, FiniteJobs
  <2>2. c \in Nat /\ n \in Nat
    BY <1>0, <1>3, <1>5, FiniteProcesses
  <2>3. c1 \in Nat /\ c1 <= n
    BY <1>0, <1>4, <1>5, FiniteProcesses
  <2> QED
    BY <2>1, <2>2, <2>3
<1>7. r + c <= MaxConcurrent + n - 1
  BY <1>1, <1>3, <1>5 DEF LimitInv
<1>8. SUFFICES r1 + c1 <= MaxConcurrent + n - 1
  BY <1>2, <1>4, <1>5 DEF LimitInv
<1>9. CASE UNCHANGED jobs /\ Cardinality(Running) < MaxConcurrent
  <2>1. r1 = r
    BY <1>1, <1>2, <1>9 DEF Running, Jobs!WithStatus, Jobs!Rows
  <2> QED
    BY <1>0, <1>1, <1>6, <1>9, <2>1
<1>10. CASE ~(UNCHANGED jobs /\ Cardinality(Running) < MaxConcurrent)
  <2>1. Claiming' \subseteq Claiming
    <3> SUFFICES ASSUME NEW p \in Processes, tick'[p].pc \in {"pick", "claim"}
                 PROVE  tick[p].pc \in {"pick", "claim"}
      BY DEF Claiming
    <3> QED
      BY <1>0, <1>10, TickChange
  <2>2. CASE Running' \subseteq Running
    <3>1. r1 <= r
      BY <1>0, <1>1, <1>2, <2>2, FiniteJobs
    <3>2. IsFiniteSet(Claiming)
      BY <1>0, FiniteProcesses
    <3>3. c1 <= c
      BY <1>3, <1>4, <2>1, <3>2, FS_Subset
    <3> QED
      BY <1>0, <1>6, <1>7, <3>1, <3>3
  <2>3. ASSUME NEW p \in Processes, tick[p].pc = "claim", tick'[p].pc = "limit",
               Running' \subseteq Running \cup {tick[p].job}
        PROVE  r1 + c1 <= MaxConcurrent + n - 1
    <3>1. r1 <= r + 1
      <4>1. IsFiniteSet(Running)
        BY <1>0, FiniteJobs
      <4>2. /\ IsFiniteSet(Running \cup {tick[p].job})
            /\ \/ Cardinality(Running \cup {tick[p].job}) = r
               \/ Cardinality(Running \cup {tick[p].job}) = r + 1
        BY <1>1, <4>1, FS_AddElement
      <4>3. r1 <= Cardinality(Running \cup {tick[p].job})
        BY <1>2, <2>3, <4>2, FS_Subset
      <4> QED
        BY <1>6, <4>2, <4>3
    <3>2. c1 <= c - 1
      <4>1. IsFiniteSet(Claiming) /\ p \in Claiming
        BY <1>0, <2>3, FiniteProcesses DEF Claiming
      <4>2. IsFiniteSet(Claiming \ {p}) /\ Cardinality(Claiming \ {p}) = c - 1
        BY <1>3, <4>1, FS_RemoveElement
      <4>3. Claiming' \subseteq Claiming \ {p}
        BY <2>1, <2>3 DEF Claiming
      <4>4. c1 <= Cardinality(Claiming \ {p})
        BY <1>4, <4>2, <4>3, FS_Subset
      <4> QED
        BY <4>2, <4>4
    <3> QED
      BY <1>0, <1>6, <1>7, <3>1, <3>2
  <2> QED
    BY <1>0, <2>2, <2>3, RunningStep
<1> QED
  BY <1>9, <1>10

LEMMA InitLimit == Init => LimitInv
<1> SUFFICES ASSUME Init PROVE LimitInv
  OBVIOUS
<1>1. Running = {} /\ Claiming = {}
  BY DEF Init, Jobs!JobsInit, Running, Jobs!WithStatus, Jobs!Rows, Claiming, Idle
<1>2. Cardinality(Running) = 0 /\ Cardinality(Claiming) = 0
  BY <1>1, FS_EmptySet
<1>3. Cardinality(Processes) \in Nat
  BY FiniteProcesses
<1> QED
  BY <1>2, <1>3, WorkerAssumption DEF LimitInv

LEMMA LimitMeans == LimitInv => RunningWithinLimit
<1> SUFFICES ASSUME LimitInv PROVE RunningWithinLimit
  OBVIOUS
<1>1. Running \subseteq JobIds /\ Claiming \in SUBSET Processes
  BY DEF Running, Jobs!WithStatus, Jobs!Rows, Claiming
<1>2. Cardinality(Running) \in Nat /\ Cardinality(Claiming) \in Nat
  BY <1>1, FiniteJobs, FiniteProcesses
<1>3. Cardinality(Processes) \in Nat /\ MaxConcurrent \in Nat
  BY FiniteProcesses, WorkerAssumption
<1> QED
  BY <1>2, <1>3 DEF LimitInv, RunningWithinLimit

\* One process never runs more jobs than max_concurrent_jobs, and every further one
\* exceeds it by one at most (RunningWithinLimit): between the count and the claim no
\* crash, expiry, request or late thread can start another job
\* (_claim_evaluation_jobs, claim_next_evaluation_job).
THEOREM LimitHolds == Spec => []RunningWithinLimit
BY InitLimit, StepLimit, LimitMeans, WorkerInv, PTL DEF Spec

\* What a step does to one row of the table.
LEMMA RowChange ==
  ASSUME TypeOK, Next \/ UNCHANGED vars, NEW k \in JobIds
  PROVE  \/ jobs'[k] = jobs[k]
         \/ /\ jobs[k] = NoJob
            /\ jobs'[k].status = "queued"
            /\ \/ jobs'[k].trigger = "manual"
               \/ \E p \in Processes, s \in SessionIds :
                    /\ Enqueue(p, s) /\ Jobs!CreateJob(k, s, "auto", DefaultEvaluator)
                    /\ jobs'[k].session = s
         \/ /\ jobs[k] \in Jobs!JobRow /\ jobs[k].status \in Jobs!ActiveStatuses
            /\ jobs'[k] \in Jobs!JobRow /\ jobs'[k].session = jobs[k].session
            /\ jobs'[k].trigger \in {jobs[k].trigger, "manual"}
<1> USE DEF Jobs!Rows, Jobs!WithStatus
<1>0. /\ jobs \in [JobIds -> Jobs!JobRow \cup {NoJob}] /\ NoJob \notin Jobs!JobRow
      /\ now \in Jobs!Time /\ \A at \in 0 .. now : at \in Jobs!Time
  BY TablesAssumption DEF TypeOK, Jobs!JobsTypeOK, Jobs!JobsAssumption, Jobs!Time
<1>1. ASSUME NEW j \in JobIds, NEW s, NEW t, NEW e, Jobs!CreateJob(j, s, t, e)
      PROVE  \/ jobs'[k] = jobs[k]
             \/ /\ k = j /\ jobs[k] = NoJob /\ jobs'[k].status = "queued"
                /\ jobs'[k].trigger = t /\ jobs'[k].session = s
  BY <1>0, <1>1 DEF Jobs!CreateJob
<1> DEFINE Moves == /\ jobs[k] \in Jobs!JobRow /\ jobs[k].status \in Jobs!ActiveStatuses
                    /\ jobs'[k] \in Jobs!JobRow /\ jobs'[k].session = jobs[k].session
                    /\ jobs'[k].trigger \in {jobs[k].trigger, "manual"}
<1>2. ASSUME NEW j \in JobIds, NEW e \in Evaluators,
             Jobs!PromoteToManual(j, e) \/ Jobs!UpdateQueuedEvaluator(j, e)
      PROVE  jobs'[k] = jobs[k] \/ Moves
  <2>1. \/ jobs'[k] = jobs[k]
        \/ /\ jobs[k] \in Jobs!JobRow /\ jobs[k].status = "queued"
           /\ \/ jobs'[k] = [jobs[k] EXCEPT !.trigger = "manual", !.evaluator = e]
              \/ jobs'[k] = [jobs[k] EXCEPT !.evaluator = e]
    BY <1>0, <1>2 DEF Jobs!PromoteToManual, Jobs!UpdateQueuedEvaluator
  <2> QED
    BY <2>1 DEF Jobs!JobRow, Jobs!Triggers, Jobs!ActiveStatuses
<1>3. ASSUME NEW J \in SUBSET JobIds, NEW at \in 0 .. now, Jobs!FailStaleJobs(J, at)
      PROVE  jobs'[k] = jobs[k] \/ Moves
  <2>1. \/ jobs'[k] = jobs[k]
        \/ /\ jobs[k] \in Jobs!JobRow /\ jobs[k].status \in Jobs!ActiveStatuses
           /\ jobs'[k] = [jobs[k] EXCEPT !.status = "failed", !.finished = at]
    BY <1>0, <1>3 DEF Jobs!FailStaleJobs
  <2> QED
    BY <1>0, <2>1 DEF Jobs!JobRow, Jobs!Statuses, Jobs!TerminalStatuses
<1>4. ASSUME NEW j \in JobIds, NEW at \in 0 .. now, Jobs!ClaimJob(j, at)
      PROVE  jobs'[k] = jobs[k] \/ Moves
  <2>1. \/ jobs'[k] = jobs[k]
        \/ /\ jobs[k] \in Jobs!JobRow /\ jobs[k].status = "queued"
           /\ jobs'[k] = [jobs[k] EXCEPT !.status = "running", !.started = at]
    BY <1>0, <1>4 DEF Jobs!ClaimJob
  <2> QED
    BY <1>0, <2>1 DEF Jobs!JobRow, Jobs!Statuses, Jobs!ActiveStatuses
<1>5. ASSUME NEW j \in JobIds, Jobs!MarkSucceeded(j) \/ Jobs!MarkFailed(j)
      PROVE  jobs'[k] = jobs[k] \/ Moves
  <2>1. \/ jobs'[k] = jobs[k]
        \/ /\ jobs[k] \in Jobs!JobRow /\ jobs[k].status = "running"
           /\ \/ jobs'[k] = [jobs[k] EXCEPT !.status = "succeeded", !.finished = now]
              \/ jobs'[k] = [jobs[k] EXCEPT !.status = "failed", !.finished = now]
    BY <1>0, <1>5 DEF Jobs!MarkSucceeded, Jobs!MarkFailed
  <2> QED
    BY <1>0, <2>1 DEF Jobs!JobRow, Jobs!Statuses, Jobs!ActiveStatuses, Jobs!TerminalStatuses
<1>6. UNCHANGED jobs => jobs'[k] = jobs[k]
  OBVIOUS
<1> QED
  BY <1>1, <1>2, <1>3, <1>4, <1>5, <1>6, JobChange DEF vars, FreeIds

LEMMA EnqueueTurn ==
  ASSUME TypeOK, NEW p \in Processes, NEW s \in SessionIds, Enqueue(p, s)
  PROVE  /\ s \in tick[p].todo /\ tick[p].pc = "enqueue" /\ tick'[p].pc = "enqueue"
         /\ tick'[p].todo = tick[p].todo \ {s}
         /\ tick[p].todo \in SUBSET SessionIds
<1>0. tick \in [Processes -> TickStates]
  BY DEF TypeOK
<1>1. /\ tick[p] \in [pc : {"classify", "mark", "enqueue"}, todo : SUBSET SessionIds]
      /\ tick[p].pc = "enqueue" /\ s \in tick[p].todo
      /\ tick'[p] = [tick[p] EXCEPT !.todo = tick[p].todo \ {s}]
  BY <1>0, TickState DEF Enqueue, TickAt, TickTo
<1> QED
  BY <1>1

AutoActive == {j \in Active : jobs[j].trigger = "auto"}

\* Only the insertion of a tick adds an active automatic job.
LEMMA AutoStep ==
  ASSUME TypeOK, Next \/ UNCHANGED vars
  PROVE  \/ AutoActive' \subseteq AutoActive
         \/ \E p \in Processes, s \in SessionIds, j \in JobIds :
              Enqueue(p, s) /\ AutoActive' \subseteq AutoActive \cup {j}
<1> USE DEF AutoActive, Active, Jobs!Rows, Jobs!WithStatus
<1>0. jobs \in [JobIds -> Jobs!JobRow \cup {NoJob}] /\ NoJob \notin Jobs!JobRow
  BY TablesAssumption DEF TypeOK, Jobs!JobsTypeOK, Jobs!JobsAssumption
<1>1. ASSUME NEW p \in Processes, NEW s \in SessionIds, NEW j \in JobIds,
             Enqueue(p, s), Jobs!CreateJob(j, s, "auto", DefaultEvaluator)
      PROVE  AutoActive' \subseteq AutoActive \cup {j}
  <2>1. \A k \in JobIds : k # j => jobs'[k] = jobs[k]
    BY <1>0, <1>1 DEF Jobs!CreateJob
  <2> QED
    BY <2>1
<1>2. ASSUME \A p \in Processes, s \in SessionIds, j \in JobIds :
               ~(Enqueue(p, s) /\ Jobs!CreateJob(j, s, "auto", DefaultEvaluator)),
             NEW k \in JobIds, k \in AutoActive'
      PROVE  k \in AutoActive
  BY <1>0, <1>2, RowChange DEF Jobs!ActiveStatuses
<1> QED
  BY <1>1, <1>2

LEMMA MinBelow == \A a, b \in Int : Min({a, b}) \in Int /\ Min({a, b}) <= a
<1> SUFFICES ASSUME NEW a \in Int, NEW b \in Int
             PROVE  Min({a, b}) \in Int /\ Min({a, b}) <= a
  OBVIOUS
<1>1. \E x \in {a, b} : \A y \in {a, b} : x <= y
  OBVIOUS
<1>2. Min({a, b}) \in {a, b} /\ \A y \in {a, b} : Min({a, b}) <= y
  BY <1>1 DEF Min
<1> QED
  BY <1>2

\* The automatic jobs that a tick has yet to add.
Room == MaxConcurrent * BufferMultiplier
ReserveOf(t) ==
  IF t.pc = "select" THEN t.slots ELSE IF t.pc = "enqueue" THEN Cardinality(t.todo) ELSE 0
Reserve == [p \in Processes |-> ReserveOf(tick[p])]
Reserved == {u \in Processes \X Nat : u[2] \in 1 .. Reserve[u[1]]}

\* The automatic jobs there are and those the ticks are about to add fit one buffer
\* for each process.
QueueInv ==
  /\ Cardinality(AutoActive) + Cardinality(Reserved) <= Room * Cardinality(Processes)
  /\ \A p \in Processes : Reserve[p] <= Room

LEMMA SelectsFit ==
  ASSUME TypeOK, NEW p \in Processes, SelectCandidates(p)
  PROVE  /\ tick[p].pc = "select" /\ tick[p].slots \in Nat
         /\ tick'[p].todo \in SUBSET {s \in SessionIds : Eligible(s)}
         /\ Cardinality(tick'[p].todo) \in Nat
         /\ Cardinality(tick'[p].todo) <= tick[p].slots
<1>0. tick \in [Processes -> TickStates]
  BY DEF TypeOK
<1>1. tick[p].pc = "select" /\ tick[p].slots \in Nat
  BY <1>0, TickState DEF SelectCandidates, TickAt
<1>2. PICK eligible : eligible = {s \in SessionIds : Eligible(s)}
  OBVIOUS
<1>3. IsFiniteSet(eligible) /\ Cardinality(eligible) \in Nat
  BY <1>2, TablesAssumption, FS_Subset, FS_CardinalityType
<1>4. PICK chosen \in SUBSET eligible :
        /\ Cardinality(chosen) = Min({tick[p].slots, Cardinality(eligible)})
        /\ TickTo(p, [pc |-> "enqueue", todo |-> chosen])
  BY <1>2 DEF SelectCandidates
<1>5. tick'[p].todo = chosen
  BY <1>0, <1>4 DEF TickTo
<1>6. Cardinality(chosen) \in Nat
  BY <1>3, FS_Subset, FS_CardinalityType
<1> QED
  BY <1>1, <1>2, <1>3, <1>4, <1>5, <1>6, MinBelow

LEMMA ReserveType == \A t \in TickStates : ReserveOf(t) \in Nat
<1> SUFFICES ASSUME NEW t \in TickStates PROVE ReserveOf(t) \in Nat
  OBVIOUS
<1>1. t.pc = "select" => t.slots \in Nat
  BY DEF TickStates, Idle
<1>2. t.pc = "enqueue" => t.todo \in SUBSET SessionIds
  BY DEF TickStates, Idle
<1>3. t.pc = "enqueue" => Cardinality(t.todo) \in Nat
  BY <1>2, TablesAssumption, FS_Subset, FS_CardinalityType
<1> QED
  BY <1>1, <1>3 DEF ReserveOf

\* What a step does to the jobs that a tick has yet to add.
LEMMA ReserveStep ==
  ASSUME TypeOK, TypeOK', Next \/ UNCHANGED vars, NEW p \in Processes
  PROVE  /\ Reserve[p] \in Nat /\ Reserve'[p] \in Nat
         /\ \/ Reserve'[p] <= Reserve[p]
            \/ CountSlots(p) /\ Reserve'[p] = Room - Cardinality(Active)
         /\ \A s \in SessionIds : Enqueue(p, s) => Reserve'[p] = Reserve[p] - 1
<1>0. tick \in [Processes -> TickStates] /\ tick' \in [Processes -> TickStates]
  BY DEF TypeOK
<1>1. Reserve[p] \in Nat /\ Reserve'[p] \in Nat
  <2>1. tick[p] \in TickStates /\ tick'[p] \in TickStates
    BY <1>0
  <2> QED
    BY <2>1, ReserveType DEF Reserve
<1>2. tick'[p].pc \notin {"select", "enqueue"} => Reserve'[p] = 0
  BY DEF Reserve, ReserveOf
<1>3. tick'[p] = tick[p] => Reserve'[p] = Reserve[p]
  BY DEF Reserve
<1>4. ASSUME NEW s \in SessionIds, Enqueue(p, s)
      PROVE  Reserve'[p] = Reserve[p] - 1
  <2>1. /\ s \in tick[p].todo /\ tick[p].pc = "enqueue" /\ tick'[p].pc = "enqueue"
        /\ tick'[p].todo = tick[p].todo \ {s} /\ tick[p].todo \in SUBSET SessionIds
    BY <1>4, EnqueueTurn
  <2>2. IsFiniteSet(tick[p].todo)
    BY <2>1, TablesAssumption, FS_Subset
  <2>3. Cardinality(tick[p].todo \ {s}) = Cardinality(tick[p].todo) - 1
    BY <2>1, <2>2, FS_RemoveElement
  <2> QED
    BY <2>1, <2>3 DEF Reserve, ReserveOf
<1>5. ASSUME SelectCandidates(p), tick'[p].pc = "enqueue"
      PROVE  Reserve'[p] <= Reserve[p]
  <2>1. tick[p].pc = "select" /\ Cardinality(tick'[p].todo) <= tick[p].slots
    BY <1>5, SelectsFit
  <2> QED
    BY <1>5, <2>1 DEF Reserve, ReserveOf
<1>6. ASSUME CountSlots(p), tick'[p].pc = "select",
             tick'[p].slots = MaxConcurrent * BufferMultiplier - Cardinality(Active)
      PROVE  Reserve'[p] = Room - Cardinality(Active)
  BY <1>6 DEF Reserve, ReserveOf, Room
<1>7. \/ Reserve'[p] <= Reserve[p]
      \/ CountSlots(p) /\ Reserve'[p] = Room - Cardinality(Active)
  <2>1. CASE tick'[p].pc \notin {"select", "enqueue"}
    BY <1>1, <1>2, <2>1
  <2>2. CASE tick'[p] = tick[p]
    BY <1>1, <1>3, <2>2
  <2>3. ASSUME NEW s \in SessionIds, Enqueue(p, s) PROVE Reserve'[p] <= Reserve[p]
    BY <1>1, <1>4, <2>3
  <2>4. ASSUME NEW s \in tick[p].todo, Enqueue(p, s), tick[p].pc = "enqueue"
        PROVE  s \in SessionIds
    <3>1. tick[p].todo \in SUBSET SessionIds
      BY <1>0, <2>4, TickState
    <3> QED
      BY <3>1
  <2>5. \/ tick'[p] = tick[p]
        \/ tick'[p].pc \notin {"select", "enqueue"}
        \/ /\ CountSlots(p) /\ tick'[p].pc = "select"
           /\ tick'[p].slots = MaxConcurrent * BufferMultiplier - Cardinality(Active)
        \/ SelectCandidates(p) /\ tick'[p].pc = "enqueue"
        \/ \E s \in SessionIds : Enqueue(p, s)
    BY <2>4, TickChange
  <2> QED
    BY <1>5, <1>6, <2>1, <2>2, <2>3, <2>5
<1> QED
  BY <1>1, <1>4, <1>7

\* What is reserved is finite, and the processes share it.
LEMMA ReservedFinite ==
  ASSUME NEW room \in Nat, NEW S \in SUBSET Processes, NEW U, U \subseteq S \X (1 .. room)
  PROVE  /\ IsFiniteSet(U) /\ Cardinality(U) \in Nat
         /\ Cardinality(U) <= Cardinality(S) * room
<1>1. IsFiniteSet(S) /\ IsFiniteSet(1 .. room) /\ Cardinality(1 .. room) = room
  BY FiniteProcesses, FS_Interval
<1>2. /\ IsFiniteSet(S \X (1 .. room))
      /\ Cardinality(S \X (1 .. room)) = Cardinality(S) * room
  BY <1>1, FS_Product
<1> QED
  BY <1>2, FS_Subset, FS_CardinalityType

LEMMA StepQueue == IInv /\ QueueInv /\ [Next]_vars => QueueInv'
<1> SUFFICES ASSUME IInv, QueueInv, Next \/ UNCHANGED vars PROVE QueueInv'
  OBVIOUS
<1>0. /\ TypeOK /\ TypeOK' /\ Active \in SUBSET JobIds /\ AutoActive \subseteq Active
      /\ AutoActive' \subseteq JobIds
  BY StepIInv DEF IInv, AutoActive, Active, Jobs!WithStatus, Jobs!Rows
<1>1. PICK room : room = Room
  OBVIOUS
<1>2. PICK n : n = Cardinality(AutoActive)
  OBVIOUS
<1>3. PICK n1 : n1 = Cardinality(AutoActive')
  OBVIOUS
<1>4. PICK c : c = Cardinality(Reserved)
  OBVIOUS
<1>5. PICK c1 : c1 = Cardinality(Reserved')
  OBVIOUS
<1>6. PICK size : size = Cardinality(Processes)
  OBVIOUS
<1>7. PICK full : full = Cardinality(Active)
  OBVIOUS
<1>8. room \in Nat /\ size \in Nat /\ n \in Nat /\ n1 \in Nat /\ full \in Nat /\ n <= full
  <2>1. room \in Nat
    BY <1>1, WorkerAssumption DEF Room
  <2>2. size \in Nat
    BY <1>6, FiniteProcesses
  <2>3. n \in Nat /\ full \in Nat /\ n <= full
    BY <1>0, <1>2, <1>7, FiniteJobs
  <2>4. n1 \in Nat
    BY <1>0, <1>3, FiniteJobs
  <2> QED
    BY <2>1, <2>2, <2>3, <2>4
<1>9. \A p \in Processes :
        /\ Reserve[p] \in Nat /\ Reserve'[p] \in Nat /\ Reserve[p] <= room
        /\ \/ Reserve'[p] <= Reserve[p]
           \/ CountSlots(p) /\ Reserve'[p] = room - full
        /\ \A s \in SessionIds : Enqueue(p, s) => Reserve'[p] = Reserve[p] - 1
  BY <1>0, <1>1, <1>7, ReserveStep DEF QueueInv
<1>10. \A p \in Processes : Reserve'[p] <= room
  BY <1>8, <1>9
<1>11. Reserved' = {u \in Processes \X Nat : u[2] \in 1 .. Reserve'[u[1]]}
  BY DEF Reserved
<1>12. /\ Reserved \subseteq Processes \X (1 .. room)
       /\ Reserved' \subseteq Processes \X (1 .. room)
  <2>1. \A p \in Processes, i \in Nat : i \in 1 .. Reserve[p] => i \in 1 .. room
    BY <1>8, <1>9
  <2>2. \A p \in Processes, i \in Nat : i \in 1 .. Reserve'[p] => i \in 1 .. room
    BY <1>8, <1>9, <1>10
  <2> QED
    BY <1>11, <2>1, <2>2 DEF Reserved
<1>13. IsFiniteSet(Reserved) /\ c \in Nat /\ c1 \in Nat
  <2>1. IsFiniteSet(Reserved) /\ c \in Nat
    BY <1>4, <1>8, <1>12, ReservedFinite
  <2>2. c1 \in Nat
    BY <1>5, <1>8, <1>12, ReservedFinite
  <2> QED
    BY <2>1, <2>2
<1>14. n + c <= room * size
  BY <1>1, <1>2, <1>4, <1>6 DEF QueueInv
<1>15. SUFFICES n1 + c1 <= room * size
  BY <1>1, <1>3, <1>5, <1>6, <1>10 DEF QueueInv
\* A count: the process reserves what is free, the others a buffer each at most.
<1>16. ASSUME NEW p \in Processes, CountSlots(p), Reserve'[p] = room - full
       PROVE  n1 + c1 <= room * size
  <2>1. n1 = n
    BY <1>2, <1>3, <1>16
       DEF CountSlots, AutoActive, Active, Jobs!WithStatus, Jobs!Rows
  <2> DEFINE others == (Processes \ {p}) \X (1 .. room)
             own == {p} \X (1 .. Reserve'[p])
  <2>2. Reserved' \subseteq others \cup own
    <3>1. \A u \in Reserved' : u[1] = p => u[2] \in 1 .. Reserve'[p]
      BY <1>11
    <3> QED
      BY <1>11, <1>12, <3>1
  <2>3. IsFiniteSet(Processes \ {p}) /\ Cardinality(Processes \ {p}) = size - 1
    <3>1. IsFiniteSet(Processes)
      BY FiniteProcesses
    <3> QED
      BY <1>6, <3>1, FS_RemoveElement
  <2>4. PICK k : k = Cardinality(Processes \ {p})
    OBVIOUS
  <2>5. /\ IsFiniteSet(others) /\ Cardinality(others) \in Nat
        /\ Cardinality(others) <= (size - 1) * room
    <3>1. /\ IsFiniteSet(others) /\ Cardinality(others) \in Nat
          /\ Cardinality(others) <= Cardinality(Processes \ {p}) * room
      BY <1>8, ReservedFinite
    <3> QED
      BY <2>3, <3>1
  <2>6. /\ IsFiniteSet(own) /\ Cardinality(own) \in Nat
        /\ Cardinality(own) <= room - full
    <3>1. PICK r \in Nat : r = Reserve'[p]
      BY <1>9
    <3>2. IsFiniteSet({p}) /\ Cardinality({p}) = 1
      BY FS_Singleton
    <3>3. /\ IsFiniteSet({p} \X (1 .. r)) /\ Cardinality({p} \X (1 .. r)) \in Nat
          /\ Cardinality({p} \X (1 .. r)) <= Cardinality({p}) * r
      BY ReservedFinite
    <3>4. Cardinality({p} \X (1 .. r)) <= r
      BY <3>1, <3>2, <3>3
    <3> QED
      BY <1>16, <3>1, <3>3, <3>4
  <2> HIDE DEF others, own
  <2>7. /\ IsFiniteSet(others \cup own)
        /\ Cardinality(others \cup own) <= Cardinality(others) + Cardinality(own)
    <3>1. /\ IsFiniteSet(others \cup own)
          /\ Cardinality(others \cup own)
               = Cardinality(others) + Cardinality(own) - Cardinality(others \cap own)
      BY <2>5, <2>6, FS_Union
    <3>2. IsFiniteSet(others \cap own)
      BY <2>5, FS_Intersection
    <3>3. Cardinality(others \cap own) \in Nat
      BY <3>2, FS_CardinalityType
    <3> QED
      BY <2>5, <2>6, <3>1, <3>3
  <2>8. c1 <= Cardinality(others \cup own) /\ Cardinality(others \cup own) \in Nat
    BY <1>5, <2>2, <2>7, FS_Subset, FS_CardinalityType
  <2>9. (size - 1) * room = room * size - room /\ room * size \in Int
    BY <1>8
  <2> QED
    BY <1>8, <1>13, <2>1, <2>5, <2>6, <2>7, <2>8, <2>9
<1>17. ASSUME \A p \in Processes : Reserve'[p] <= Reserve[p]
       PROVE  n1 + c1 <= room * size
  <2>1. Reserved' \subseteq Reserved
    <3>1. \A p \in Processes, i \in Nat : i \in 1 .. Reserve'[p] => i \in 1 .. Reserve[p]
      BY <1>9, <1>17
    <3> QED
      BY <1>11, <3>1 DEF Reserved
  <2>2. CASE AutoActive' \subseteq AutoActive
    <3>1. n1 <= n
      <4>1. IsFiniteSet(AutoActive)
        BY <1>0, FiniteJobs
      <4> QED
        BY <1>2, <1>3, <2>2, <4>1, FS_Subset
    <3>2. c1 <= c
      BY <1>4, <1>5, <1>13, <2>1, FS_Subset
    <3>3. room * size \in Int
      BY <1>8
    <3> QED
      BY <1>8, <1>13, <1>14, <3>1, <3>2, <3>3
  <2>3. ASSUME NEW p \in Processes, NEW s \in SessionIds, NEW j \in JobIds,
               Enqueue(p, s), AutoActive' \subseteq AutoActive \cup {j}
        PROVE  n1 + c1 <= room * size
    <3>1. n1 <= n + 1
      <4>1. IsFiniteSet(AutoActive)
        BY <1>0, FiniteJobs
      <4>2. /\ IsFiniteSet(AutoActive \cup {j})
            /\ \/ Cardinality(AutoActive \cup {j}) = n
               \/ Cardinality(AutoActive \cup {j}) = n + 1
        BY <1>2, <4>1, FS_AddElement
      <4>3. n1 <= Cardinality(AutoActive \cup {j})
        BY <1>3, <2>3, <4>2, FS_Subset
      <4> QED
        BY <1>8, <4>2, <4>3
    <3>2. PICK last : last = <<p, Reserve[p]>>
      OBVIOUS
    <3>3. Reserve'[p] = Reserve[p] - 1 /\ Reserve[p] \in Nat /\ Reserve'[p] \in Nat
      BY <1>9, <2>3
    <3>4. last \in Reserved
      BY <3>2, <3>3 DEF Reserved
    <3>5. last \notin Reserved'
      BY <1>11, <3>2, <3>3
    <3>6. IsFiniteSet(Reserved \ {last}) /\ Cardinality(Reserved \ {last}) = c - 1
      BY <1>4, <1>13, <3>4, FS_RemoveElement
    <3>7. Reserved' \subseteq Reserved \ {last}
      BY <2>1, <3>5
    <3>8. c1 <= c - 1
      BY <1>5, <3>6, <3>7, FS_Subset
    <3>9. room * size \in Int
      BY <1>8
    <3> QED
      BY <1>8, <1>13, <1>14, <3>1, <3>8, <3>9
  <2> QED
    BY <1>0, <2>2, <2>3, AutoStep
<1> QED
  BY <1>9, <1>16, <1>17

LEMMA InitQueue == Init => QueueInv
<1> SUFFICES ASSUME Init PROVE QueueInv
  OBVIOUS
<1>1. AutoActive = {}
  BY DEF Init, Jobs!JobsInit, AutoActive, Active, Jobs!WithStatus, Jobs!Rows
<1>2. \A p \in Processes : Reserve[p] = 0
  BY DEF Init, Idle, Reserve, ReserveOf
<1>3. Reserved = {}
  BY <1>2 DEF Reserved
<1>4. Cardinality(AutoActive) = 0 /\ Cardinality(Reserved) = 0
  BY <1>1, <1>3, FS_EmptySet
<1>5. Room \in Nat /\ Cardinality(Processes) \in Nat
  BY WorkerAssumption, FiniteProcesses DEF Room
<1>6. Room * Cardinality(Processes) \in Nat
  BY <1>5
<1> QED
  BY <1>2, <1>4, <1>5, <1>6 DEF QueueInv

LEMMA QueueMeans == QueueInv /\ TypeOK => AutoQueueBounded
<1> SUFFICES ASSUME QueueInv, TypeOK PROVE AutoQueueBounded
  OBVIOUS
<1>1. Room \in Nat /\ Cardinality(Processes) \in Nat
  BY WorkerAssumption, FiniteProcesses DEF Room
<1>2. \A p \in Processes : Reserve[p] \in Nat /\ Reserve[p] <= Room
  BY ReserveType DEF QueueInv, Reserve, TypeOK
<1>3. Reserved \subseteq Processes \X (1 .. Room)
  <2>1. \A p \in Processes, i \in Nat : i \in 1 .. Reserve[p] => i \in 1 .. Room
    BY <1>1, <1>2
  <2> QED
    BY <2>1 DEF Reserved
<1>4. Cardinality(Reserved) \in Nat
  BY <1>1, <1>3, ReservedFinite
<1>5. Cardinality(AutoActive) \in Nat
  <2>1. AutoActive \subseteq JobIds
    BY DEF AutoActive, Active, Jobs!WithStatus, Jobs!Rows
  <2> QED
    BY <2>1, FiniteJobs
<1>6. Room * Cardinality(Processes) \in Int
  BY <1>1
<1>7. Cardinality(AutoActive) <= Room * Cardinality(Processes)
  BY <1>4, <1>5, <1>6 DEF QueueInv
<1> QED
  BY <1>7 DEF AutoQueueBounded, AutoActive, Room

\* One process never queues more automatic jobs than its buffer holds, and every
\* further one fills at most a buffer of its own (AutoQueueBounded), whatever requests
\* create, promote or expire between its count, its selection and its insertions
\* (enqueue_auto_evaluation_jobs).
THEOREM QueueBounded == Spec => []AutoQueueBounded
<1>1. IInv /\ QueueInv => AutoQueueBounded
  BY QueueMeans DEF IInv
<1> QED
  BY <1>1, InitQueue, StepQueue, WorkerInv, PTL DEF Spec

\* A recorded session stays, and its last change moves to the present only.
LEMMA UpdatedMoves ==
  ASSUME RowTable!VerdictInv, Rows!SessionsNext \/ UNCHANGED Rows!sessionVars,
         NEW s \in SessionIds
  PROVE  \/ sessions'[s] = NoSession /\ sessions[s] = NoSession
         \/ sessions'[s] # NoSession /\ sessions'[s].updated = now
         \/ /\ sessions'[s] # NoSession /\ sessions[s] # NoSession
            /\ sessions'[s].updated = sessions[s].updated
<1>0. /\ sessions \in [SessionIds -> Rows!SessionRow \cup {NoSession}]
      /\ NoSession \notin Rows!SessionRow /\ now \in Rows!Time
      /\ writing \in [Writers -> Rows!WriterStates]
      /\ \A w \in Writers :
           writing[w].stage = "loaded" => sessions[writing[w].session] # NoSession
  BY TablesAssumption, SameRowTable
     DEF Rows!SessionsTypeOK, Rows!SessionsAssumption, RowTable!VerdictInv,
         RowTable!WritersOnRows
<1>1. UNCHANGED sessions =>
        \/ sessions'[s] = NoSession /\ sessions[s] = NoSession
        \/ /\ sessions'[s] # NoSession /\ sessions[s] # NoSession
           /\ sessions'[s].updated = sessions[s].updated
  OBVIOUS
<1>2. ASSUME NEW u \in SessionIds, Rows!RecordUsage(u)
      PROVE  \/ sessions'[s] = sessions[s]
             \/ sessions'[s] # NoSession /\ sessions'[s].updated = now
  <2>1. CASE u # s
    BY <1>0, <1>2, <2>1 DEF Rows!RecordUsage
  <2>2. CASE u = s /\ sessions[s] = NoSession
    <3>1. sessions'[s] = [updated |-> now, source |-> "none", outcome |-> "none",
                          evaluated |-> Never]
      BY <1>0, <1>2, <2>2 DEF Rows!RecordUsage
    <3>2. sessions'[s] \in Rows!SessionRow
      BY <1>0, <3>1 DEF Rows!SessionRow, Rows!Sources, Rows!Outcomes
    <3> QED
      BY <1>0, <3>1, <3>2
  <2>3. CASE u = s /\ sessions[s] # NoSession
    <3>1. sessions'[s] = [sessions[s] EXCEPT !.updated = now]
          /\ sessions[s] \in Rows!SessionRow
      BY <1>0, <1>2, <2>3 DEF Rows!RecordUsage
    <3>2. sessions'[s] \in Rows!SessionRow /\ sessions'[s].updated = now
      BY <1>0, <3>1 DEF Rows!SessionRow
    <3> QED
      BY <1>0, <3>2
  <2> QED
    BY <2>1, <2>2, <2>3
<1>3. ASSUME NEW w \in Writers, Rows!CommitWrite(w)
      PROVE  \/ sessions'[s] = sessions[s]
             \/ /\ sessions'[s] # NoSession /\ sessions[s] # NoSession
                /\ sessions'[s].updated = sessions[s].updated
  <2> PICK t : t = writing[w]
    OBVIOUS
  <2>1. CASE t.session # s
    BY <1>0, <1>3, <2>1 DEF Rows!CommitWrite
  <2>2. CASE t.session = s
    <3>1. /\ sessions'[s] = Rows!WrittenRow(sessions[s], t) /\ t.stage = "loaded"
          /\ sessions[s] # NoSession
      BY <1>0, <1>3, <2>2 DEF Rows!CommitWrite
    <3>2. t \in [stage : {"loaded"}, session : SessionIds, row : Rows!SessionRow,
                 source : Rows!Sources, outcome : Rows!Outcomes,
                 evaluated : Rows!Time \cup {Never}]
      BY <1>0, <3>1 DEF Rows!WriterStates, Rows!NotWriting
    <3>3. /\ Rows!Written(sessions[s].source, t.source, t.row.source) \in Rows!Sources
          /\ Rows!Written(sessions[s].outcome, t.outcome, t.row.outcome) \in Rows!Outcomes
          /\ Rows!Written(sessions[s].evaluated, Never, t.row.evaluated)
               \in Rows!Time \cup {Never}
          /\ sessions[s].updated \in Rows!Time
      BY <1>0, <3>1, <3>2 DEF Rows!Written, Rows!SessionRow
    <3>4. Rows!WrittenRow(sessions[s], t) \in Rows!SessionRow
      BY <3>2, <3>3 DEF Rows!WrittenRow, Rows!SessionRow
    <3> QED
      BY <1>0, <3>1, <3>4 DEF Rows!WrittenRow
  <2> QED
    BY <2>1, <2>2
<1>4. ASSUME Rows!RowWrite,
             \A u \in SessionIds : ~Rows!RecordUsage(u),
             \A w \in Writers : ~Rows!CommitWrite(w)
      PROVE  UNCHANGED sessions
  BY <1>4 DEF Rows!RowWrite, Rows!BeginWrite, Rows!LoadForUpsert, Rows!CheckNotManual,
              Rows!LoadForDelete, Rows!LoadNoOp, Rows!AbandonWrites
<1>5. (Rows!SessionClockTick \/ UNCHANGED Rows!sessionVars) => UNCHANGED sessions
  BY DEF Rows!SessionClockTick, Rows!sessionVars, Rows!evaluationVars
<1> QED
  BY <1>1, <1>2, <1>3, <1>4, <1>5 DEF Rows!SessionsNext

\* A session whose automatic failures are all older than its last change, and
\* whose active job, if any, was asked for by hand.
Ready(s) ==
  /\ sessions[s] # NoSession
  /\ \A k \in Active : jobs[k].session = s => jobs[k].trigger = "manual"
  /\ \A k \in Jobs!WithStatus({"failed"}) :
       jobs[k].trigger = "auto" /\ jobs[k].session = s
         => jobs[k].finished < sessions[s].updated

RetryInv ==
  /\ \A s \in SessionIds : sessions[s] # NoSession => sessions[s].updated <= now
  /\ \A p \in Processes :
       tick[p].pc = "enqueue" => \A s \in tick[p].todo : Ready(s)

LEMMA EligibleReady ==
  ASSUME Jobs!JobsTypeOK, Rows!SessionsTypeOK, NEW s \in SessionIds, Eligible(s)
  PROVE  Ready(s)
<1>1. sessions[s] # NoSession /\ Jobs!ActiveJobs(s) = {}
  BY DEF Eligible
<1>2. \A k \in Active : jobs[k].session # s
  BY <1>1 DEF Active, Jobs!ActiveJobs, Jobs!ActiveStatuses
<1>3. ASSUME NEW k \in Jobs!WithStatus({"failed"}),
             jobs[k].trigger = "auto", jobs[k].session = s
      PROVE  jobs[k].finished < sessions[s].updated
  <2>1. sessions[s].updated > jobs[k].finished
    BY <1>3 DEF Eligible
  <2>2. jobs[k].finished \in Nat /\ sessions[s].updated \in Nat
    BY <1>1, <1>3, TablesAssumption
       DEF Jobs!JobsTypeOK, Jobs!WithStatus, Jobs!Rows, Jobs!StampsMatchStatus,
           Jobs!TerminalStatuses, Jobs!JobRow, Jobs!Time, Jobs!JobsAssumption,
           Rows!SessionsTypeOK, Rows!SessionRow, Rows!Time
  <2> QED
    BY <2>1, <2>2
<1> QED
  BY <1>1, <1>2, <1>3 DEF Ready

\* It stays so until its automatic job is inserted.
LEMMA ReadyKept ==
  ASSUME TypeOK, Next \/ UNCHANGED vars,
         Rows!SessionsNext \/ UNCHANGED Rows!sessionVars,
         RowTable!VerdictInv,
         NEW s \in SessionIds, Ready(s), sessions[s].updated <= now,
         \A p \in Processes : ~Enqueue(p, s)
  PROVE  Ready(s)'
<1>0. /\ jobs \in [JobIds -> Jobs!JobRow \cup {NoJob}] /\ NoJob \notin Jobs!JobRow
      /\ Rows!SessionsTypeOK /\ now \in Nat
      /\ sessions[s] # NoSession /\ sessions[s].updated \in Nat
  BY TablesAssumption
     DEF TypeOK, Jobs!JobsTypeOK, Jobs!JobsAssumption, Jobs!Time, Ready,
         Rows!SessionsTypeOK, Rows!SessionRow, Rows!Time
<1>1. /\ sessions'[s] # NoSession /\ sessions'[s].updated \in Nat
      /\ sessions[s].updated <= sessions'[s].updated
  BY <1>0, UpdatedMoves
<1>2. ASSUME NEW k \in JobIds, jobs'[k] # NoJob, jobs'[k].session = s,
             jobs'[k].trigger # "manual"
      PROVE  jobs'[k] = jobs[k]
  <2>1. CASE /\ jobs[k] \in Jobs!JobRow /\ jobs[k].status \in Jobs!ActiveStatuses
             /\ jobs'[k].session = jobs[k].session
             /\ jobs'[k].trigger \in {jobs[k].trigger, "manual"}
    <3>1. k \in Active
      BY <1>0, <2>1 DEF Active, Jobs!WithStatus, Jobs!Rows, Jobs!ActiveStatuses
    <3> QED
      BY <1>2, <2>1, <3>1 DEF Ready
  <2>2. ASSUME NEW p \in Processes, NEW u \in SessionIds, Enqueue(p, u),
               jobs'[k].session = u
        PROVE  FALSE
    BY <1>2, <2>2
  <2> QED
    BY <1>2, <2>1, <2>2, RowChange
<1>3. ASSUME NEW k \in Active', jobs'[k].session = s PROVE jobs'[k].trigger = "manual"
  <2>1. k \in JobIds /\ jobs'[k] # NoJob /\ jobs'[k].status \in {"queued", "running"}
    BY <1>3 DEF Active, Jobs!WithStatus, Jobs!Rows
  <2>2. jobs'[k] = jobs[k] => jobs'[k].trigger = "manual"
    BY <1>3, <2>1 DEF Ready, Active, Jobs!WithStatus, Jobs!Rows
  <2> QED
    BY <1>2, <1>3, <2>1, <2>2
<1>4. ASSUME NEW k \in Jobs!WithStatus({"failed"})',
             jobs'[k].trigger = "auto", jobs'[k].session = s
      PROVE  jobs'[k].finished < sessions'[s].updated
  <2>1. k \in JobIds /\ jobs'[k] # NoJob /\ jobs'[k].status = "failed"
    BY <1>4 DEF Jobs!WithStatus, Jobs!Rows
  <2>2. jobs'[k] = jobs[k]
    BY <1>2, <1>4, <2>1
  <2>3. k \in Jobs!WithStatus({"failed"}) /\ jobs[k].finished < sessions[s].updated
    BY <1>4, <2>1, <2>2 DEF Ready, Jobs!WithStatus, Jobs!Rows
  <2>4. jobs[k].finished \in Nat
    BY <2>3, TablesAssumption
       DEF TypeOK, Jobs!JobsTypeOK, Jobs!WithStatus, Jobs!Rows, Jobs!StampsMatchStatus,
           Jobs!TerminalStatuses, Jobs!JobRow, Jobs!Time, Jobs!JobsAssumption
  <2> QED
    BY <1>0, <1>1, <2>2, <2>3, <2>4
<1> QED
  BY <1>1, <1>3, <1>4 DEF Ready

LEMMA StepRetry ==
  ASSUME \A p, q \in Processes : p = q
  PROVE  IInv /\ RetryInv /\ [Next]_vars => RetryInv'
<1> SUFFICES ASSUME IInv, RetryInv, Next \/ UNCHANGED vars PROVE RetryInv'
  OBVIOUS
<1>0. /\ TypeOK /\ Jobs!JobsTypeOK /\ Rows!SessionsTypeOK /\ RowTable!VerdictInv
      /\ tick \in [Processes -> TickStates]
      /\ Rows!SessionsNext \/ UNCHANGED Rows!sessionVars
      /\ Jobs!JobsNext \/ UNCHANGED Jobs!jobsVars
  BY RowsStep, JobsStep DEF IInv, TypeOK
<1>1. ASSUME NEW s \in SessionIds, sessions'[s] # NoSession
      PROVE  sessions'[s].updated <= now'
  <2>1. now \in Nat /\ now' \in Nat /\ now <= now'
    <3>1. now \in Nat
      BY <1>0, TablesAssumption DEF Jobs!JobsTypeOK, Jobs!Time, Jobs!JobsAssumption
    <3>2. now' = now \/ now' = now + 1
      BY <1>0 DEF Jobs!JobsNext, Jobs!ClockTick, Jobs!jobsVars
    <3> QED
      BY <3>1, <3>2
  <2>2. sessions[s] # NoSession => sessions[s].updated <= now /\ sessions[s].updated \in Nat
    BY <1>0, TablesAssumption
       DEF RetryInv, Rows!SessionsTypeOK, Rows!SessionRow, Rows!Time,
           Jobs!JobsTypeOK, Jobs!JobsAssumption
  <2> QED
    BY <1>0, <1>1, <2>1, <2>2, UpdatedMoves
<1>2. ASSUME NEW p \in Processes, tick'[p].pc = "enqueue", NEW s, s \in tick'[p].todo
      PROVE  Ready(s)'
  <2>1. CASE SelectCandidates(p)
    <3>1. s \in SessionIds /\ Eligible(s)
      BY <1>0, <1>2, <2>1, SelectsFit
    <3>2. UNCHANGED <<jobs, sessions>>
      BY <2>1 DEF SelectCandidates, rowVars
    <3>3. Ready(s)
      BY <1>0, <3>1, EligibleReady
    <3> QED
      BY <3>2, <3>3 DEF Ready, Active, Jobs!WithStatus, Jobs!Rows
  <2>2. ASSUME tick[p].pc = "enqueue", s \in tick[p].todo, s \in SessionIds,
               \A q \in Processes : ~Enqueue(q, s)
        PROVE  Ready(s)'
    <3>1. Ready(s) /\ sessions[s].updated <= now
      BY <2>2 DEF RetryInv, Ready
    <3> QED
      BY <1>0, <2>2, <3>1, ReadyKept
  <2>3. tick[p].pc = "enqueue" => tick[p].todo \in SUBSET SessionIds
    BY <1>0, TickState
  <2>4. CASE tick'[p] = tick[p] /\ (\A u \in SessionIds : ~Enqueue(p, u))
    <3>1. s \in SessionIds /\ s \in tick[p].todo /\ tick[p].pc = "enqueue"
      BY <1>2, <2>3, <2>4
    <3>2. \A q \in Processes : ~Enqueue(q, s)
      BY <2>4, <3>1
    <3> QED
      BY <2>2, <3>1, <3>2
  <2>5. ASSUME NEW u \in tick[p].todo, tick[p].pc = "enqueue", Enqueue(p, u),
               tick'[p].todo = tick[p].todo \ {u}
        PROVE  Ready(s)'
    <3>1. s \in SessionIds /\ s \in tick[p].todo /\ u \in SessionIds /\ s # u
      BY <1>2, <2>3, <2>5
    <3>2. ASSUME NEW q \in Processes, Enqueue(q, s) PROVE FALSE
      <4>1. tick'[p].todo = tick[p].todo \ {s}
        BY <1>0, <3>1, <3>2, EnqueueTurn
      <4> QED
        BY <1>2, <4>1
    <3> QED
      BY <2>2, <2>5, <3>1, <3>2
  <2> QED
    BY <1>0, <1>2, <2>1, <2>4, <2>5, TickChange
<1> QED
  BY <1>1, <1>2 DEF RetryInv

LEMMA InitRetry == Init => RetryInv
BY DEF Init, Rows!SessionsInit, Idle, RetryInv

\* A single process does not repeat an automatic evaluation that failed before
\* the session changed: what its selection saw of failures and active jobs still
\* holds at each insertion.
THEOREM RetriesNeedChange ==
  ASSUME \A p, q \in Processes : p = q
  PROVE  Spec => NoRetryWithoutChange
<1> DEFINE Fresh == \A j \in FreeIds :
       jobs'[j] # NoJob /\ jobs'[j].trigger = "auto" =>
         \A k \in Jobs!WithStatus({"failed"}) :
           jobs[k].trigger = "auto" /\ jobs[k].session = jobs'[j].session
             => sessions[jobs[k].session].updated > jobs[k].finished
<1>1. IInv /\ RetryInv /\ [Next]_vars => [Fresh]_vars
  <2> SUFFICES ASSUME IInv, RetryInv, Next \/ UNCHANGED vars,
                      NEW j \in FreeIds, jobs'[j] # NoJob, jobs'[j].trigger = "auto",
                      NEW k \in Jobs!WithStatus({"failed"}),
                      jobs[k].trigger = "auto", jobs[k].session = jobs'[j].session
               PROVE  sessions[jobs[k].session].updated > jobs[k].finished
    OBVIOUS
  <2>0. /\ TypeOK /\ Jobs!JobsTypeOK /\ Rows!SessionsTypeOK
        /\ j \in JobIds /\ jobs[j] = NoJob /\ NoJob \notin Jobs!JobRow
    BY TablesAssumption DEF IInv, TypeOK, FreeIds, Jobs!JobsAssumption
  <2>1. PICK p \in Processes, s \in SessionIds :
               Enqueue(p, s) /\ jobs'[j].session = s
    BY <2>0, RowChange
  <2>2. Ready(s)
    BY <2>0, <2>1, EnqueueTurn DEF RetryInv
  <2>3. jobs[k].finished < sessions[s].updated /\ jobs[k].session = s
    BY <2>1, <2>2 DEF Ready
  <2>4. jobs[k].finished \in Nat /\ sessions[s].updated \in Nat
    BY <2>0, <2>2, TablesAssumption
       DEF Jobs!JobsTypeOK, Jobs!WithStatus, Jobs!Rows, Jobs!StampsMatchStatus,
           Jobs!TerminalStatuses, Jobs!JobRow, Jobs!Time, Jobs!JobsAssumption,
           Rows!SessionsTypeOK, Rows!SessionRow, Rows!Time, Ready
  <2> QED
    BY <2>3, <2>4
<1> QED
  BY <1>1, InitRetry, StepRetry, WorkerInv, PTL DEF Spec, NoRetryWithoutChange

\* Whatever the worker's handlers, ticks and evaluators interleave, a verdict
\* given by hand stands until the next one unless a hand write of the session
\* was contended.
THEOREM WorkerKeepsVerdicts == Spec => []UncontendedVerdictKept
<1>1. IInv => UncontendedVerdictKept
  BY SameRowTable DEF IInv, UncontendedVerdictKept
<1> QED
  BY <1>1, WorkerInv, PTL
==============================================================================
