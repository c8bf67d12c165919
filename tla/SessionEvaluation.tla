-------------------------- MODULE SessionEvaluation --------------------------
(***************************************************************************)
(* The evaluation columns of the sessions table and the code that writes   *)
(* them: upsert_session_evaluation and delete_session_evaluation           *)
(* (src/src/database/sessions.py) load the row in one statement, decide on *)
(* what they loaded, and write at commit; no lock is held in between.  The *)
(* ORM emits an UPDATE of the columns whose new value differs from the     *)
(* loaded one, and of no other.  Three kinds of writer meet here: a person *)
(* (PUT and DELETE on the API), the evaluator threads (skip_if_manual) and *)
(* the classifier of the worker, mark_evaluator_session_no_op, which looks *)
(* for a manual evaluation in a transaction of its own.                    *)
(*                                                                         *)
(* The verdict stands for all descriptive columns (outcome, confidence,    *)
(* titles, summary, evidence, failure reason, project).  Telemetry updates *)
(* updated_at and writes none of the evaluation columns.                   *)
(***************************************************************************)
EXTENDS Integers

CONSTANTS
  SessionIds,
  Writers,        \* threads that may have a write of a row in flight
  Verdicts,       \* outcomes a person or an evaluator may give
  NoOp,           \* the outcome of the evaluator's own sessions
  NoSession,      \* sessions[s] while the session has no row
  Never,          \* a NULL timestamp
  MaxTime

VARIABLES
  now,
  sessions,       \* sessions[s]: the row of session s
  writing,        \* writing[w]: what writer w has loaded and not yet committed
  handVerdict,    \* history: the verdict a person gave last and did not delete
  contended,      \* history: writers that met another one on their session
  raced           \* history: sessions whose last hand write was contended

evaluationVars == <<sessions, writing, handVerdict, contended, raced>>
sessionVars == <<now, evaluationVars>>

Time == 0 .. MaxTime
Sources == {"none", "manual", "llm"}
Outcomes == {"none", NoOp} \cup Verdicts

SessionRow ==
  [updated   : Time,
   source    : Sources,
   outcome   : Outcomes,
   evaluated : Time \cup {Never}]

ASSUME SessionsAssumption ==
  /\ MaxTime \in Nat
  /\ Never \notin Nat
  /\ "none" \notin Verdicts \cup {NoOp}
  /\ NoSession \notin SessionRow

\* A writer is idle, has seen that the row is not manual, or holds a loaded
\* row and the columns it is about to set.
NotWriting == [stage |-> "idle"]
Cleared(s) == [stage |-> "cleared", session |-> s]
Loaded(s, source, outcome, evaluated) ==
  [stage |-> "loaded", session |-> s, row |-> sessions[s],
   source |-> source, outcome |-> outcome, evaluated |-> evaluated]

WriterStates ==
  {NotWriting}
  \cup [stage : {"cleared"}, session : SessionIds]
  \cup [stage : {"loaded"}, session : SessionIds, row : SessionRow,
        source : Sources, outcome : Outcomes, evaluated : Time \cup {Never}]

WritersOn(s) ==
  {w \in Writers : writing[w].stage # "idle" /\ writing[w].session = s}

\* Writer w comes to session s: whoever is already there is contended, and w.
NoteContention(w, s) ==
  LET others == WritersOn(s) \ {w} IN
  contended' = IF others = {} THEN contended ELSE contended \cup others \cup {w}

NoteHandWrite(w, s) ==
  raced' = IF w \in contended THEN raced \cup {s} ELSE raced \ {s}

-----------------------------------------------------------------------------

\* A usage row or a tool call of the session was recorded.
RecordUsage(s) ==
  /\ sessions' = [sessions EXCEPT ![s] =
       IF @ = NoSession
       THEN [updated |-> now, source |-> "none", outcome |-> "none",
             evaluated |-> Never]
       ELSE [@ EXCEPT !.updated = now]]
  /\ UNCHANGED <<writing, handVerdict, contended, raced>>

\* Mutant: skip_if_manual is accepted and ignored.
LoadForUpsertAlways(w, s, source, outcome, skipIfManual) ==
  /\ sessions[s] # NoSession
  /\ writing' = [writing EXCEPT ![w] = Loaded(s, source, outcome, now)]
  /\ NoteContention(w, s)
  /\ UNCHANGED <<sessions, handVerdict, raced>>

\* Mutant: the source column gets the trigger of the job.
LoadForUpsertTrigger(w, s, source, outcome, skipIfManual) ==
  /\ sessions[s] # NoSession
  /\ ~(skipIfManual /\ sessions[s].source = "manual")
  /\ writing' = [writing EXCEPT ![w] =
       Loaded(s, IF source = "llm" THEN "auto" ELSE source, outcome, now)]
  /\ NoteContention(w, s)
  /\ UNCHANGED <<sessions, handVerdict, raced>>

\* upsert_session_evaluation up to its decision: the row exists and, for an
\* evaluator, is not manual.
LoadForUpsert(w, s, source, outcome, skipIfManual) ==
  /\ sessions[s] # NoSession
  /\ ~(skipIfManual /\ sessions[s].source = "manual")
  /\ writing' = [writing EXCEPT ![w] = Loaded(s, source, outcome, now)]
  /\ NoteContention(w, s)
  /\ UNCHANGED <<sessions, handVerdict, raced>>

\* The check of mark_evaluator_session_no_op, in a transaction of its own.
CheckNotManual(w, s) ==
  /\ sessions[s] # NoSession
  /\ sessions[s].source # "manual"
  /\ writing' = [writing EXCEPT ![w] = Cleared(s)]
  /\ NoteContention(w, s)
  /\ UNCHANGED <<sessions, handVerdict, raced>>

\* The upsert that follows it does not look at the source again.
LoadNoOp(w) ==
  /\ writing[w].stage = "cleared"
  /\ LoadForUpsert(w, writing[w].session, "llm", NoOp, FALSE)

LoadForDelete(w, s) ==
  /\ sessions[s] # NoSession
  /\ writing' = [writing EXCEPT ![w] = Loaded(s, "none", "none", Never)]
  /\ NoteContention(w, s)
  /\ UNCHANGED <<sessions, handVerdict, raced>>

\* The column after an UPDATE that is emitted only for a changed attribute.
Written(column, new, loaded) == IF new = loaded THEN column ELSE new

\* The row after the UPDATE of write t.  evaluated_at has microseconds, so that
\* an upsert always changes it.
WrittenRow(row, t) ==
  [updated   |-> row.updated,
   source    |-> Written(row.source, t.source, t.row.source),
   outcome   |-> Written(row.outcome, t.outcome, t.row.outcome),
   evaluated |-> IF t.evaluated = Never
                 THEN Written(row.evaluated, Never, t.row.evaluated)
                 ELSE t.evaluated]

\* Commit of an upsert or a delete.
CommitWrite(w) ==
  LET t == writing[w] IN
  /\ t.stage = "loaded"
  /\ sessions' = [sessions EXCEPT ![t.session] = WrittenRow(@, t)]
  /\ \/ /\ t.source \in {"manual", "none"}
        /\ handVerdict' = [handVerdict EXCEPT ![t.session] = t.outcome]
        /\ NoteHandWrite(w, t.session)
     \/ /\ t.source = "llm"
        /\ UNCHANGED <<handVerdict, raced>>
  /\ writing' = [writing EXCEPT ![w] = NotWriting]
  /\ contended' = contended \ {w}

\* The process of the writer ended: its open transaction is rolled back.
AbandonWrites(W) ==
  /\ writing' = [w \in Writers |-> IF w \in W THEN NotWriting ELSE writing[w]]
  /\ contended' = contended \ W
  /\ UNCHANGED <<sessions, handVerdict, raced>>

SessionsInit ==
  /\ now = 0
  /\ sessions = [s \in SessionIds |-> NoSession]
  /\ writing = [w \in Writers |-> NotWriting]
  /\ handVerdict = [s \in SessionIds |-> "none"]
  /\ contended = {}
  /\ raced = {}

\* A writer begins a write when it has none in flight.
BeginWrite(w, s) ==
  /\ writing[w].stage = "idle"
  /\ \/ \E v \in Verdicts : LoadForUpsert(w, s, "manual", v, FALSE)
     \/ \E v \in Verdicts \cup {NoOp} : LoadForUpsert(w, s, "llm", v, TRUE)
     \/ CheckNotManual(w, s)
     \/ LoadForDelete(w, s)

RowWrite ==
  \/ \E s \in SessionIds : RecordUsage(s)
  \/ \E w \in Writers, s \in SessionIds : BeginWrite(w, s)
  \/ \E w \in Writers : LoadNoOp(w)
  \/ \E w \in Writers : CommitWrite(w)
  \/ \E W \in SUBSET Writers : W # {} /\ AbandonWrites(W)

SessionClockTick ==
  /\ now < MaxTime
  /\ now' = now + 1
  /\ UNCHANGED evaluationVars

SessionsNext ==
  \/ RowWrite /\ UNCHANGED now
  \/ SessionClockTick

SessionsSpec == SessionsInit /\ [][SessionsNext]_sessionVars

-----------------------------------------------------------------------------

\* Rows have the columns the table declares, and an in-flight write holds a row
\* it loaded.
SessionsTypeOK ==
  /\ now \in Time
  /\ sessions \in [SessionIds -> SessionRow \cup {NoSession}]
  /\ writing \in [Writers -> WriterStates]
  /\ handVerdict \in [SessionIds -> Outcomes]
  /\ contended \subseteq Writers
  /\ raced \subseteq SessionIds

\* The verdict a person gave and did not delete is what the row says
\* (tests/evaluation/test_evaluation.py:889,
\* ..._does_not_overwrite_later_manual_evaluation).
KeepsHandVerdict(s) ==
  handVerdict[s] # "none" =>
    /\ sessions[s].source = "manual"
    /\ sessions[s].outcome = handVerdict[s]

ManualVerdictKept == \A s \in SessionIds : KeepsHandVerdict(s)

\* The evaluation columns are set together and cleared together: a session
\* that was never evaluated has no source, no outcome and no evaluation time.
ColumnsTogether(s) ==
  sessions[s] # NoSession =>
    /\ (sessions[s].source = "none") <=> (sessions[s].outcome = "none")
    /\ (sessions[s].source = "none") <=> (sessions[s].evaluated = Never)

EvaluationColumnsTogether == \A s \in SessionIds : ColumnsTogether(s)

\* A verdict given (or cleared) by hand while nobody else was writing the
\* session is never lost: whatever evaluators, no-op marks and further hand
\* writes overlap afterwards, the checks made when a row is loaded protect it,
\* and its columns agree.
UncontendedVerdictKept ==
  \A s \in SessionIds \ raced : KeepsHandVerdict(s) /\ ColumnsTogether(s)

==============================================================================
