----------------------- MODULE SessionEvaluation_proofs -----------------------
(***************************************************************************)
(* Proofs about the writers of the evaluation columns, for any number of   *)
(* sessions and writers.                                                   *)
(***************************************************************************)
EXTENDS SessionEvaluation, TLAPS

Columns(row) == <<row.source, row.outcome, row.evaluated>>
OnRow(w, s) == writing[w].stage # "idle" /\ writing[w].session = s
LoadedOn(w, s) == writing[w].stage = "loaded" /\ writing[w].session = s

\* What a write in flight sets: a verdict with its time, or nothing at all.
WriteShape(t) ==
  IF t.source = "none" THEN t.outcome = "none" /\ t.evaluated = Never
  ELSE t.outcome # "none" /\ t.evaluated # Never

\* A writer is on a session that has a row, and sets a whole evaluation.
WritersOnRows ==
  \A w \in Writers :
    /\ writing[w].stage # "idle" => sessions[writing[w].session] # NoSession
    /\ writing[w].stage = "loaded" => WriteShape(writing[w])

\* Two writers on one session know of each other.
ContentionNoted ==
  \A w, v \in Writers, s \in SessionIds :
    w # v /\ OnRow(w, s) /\ OnRow(v, s) => w \in contended

\* What an uncontended writer loaded is what the row still says.
UncontendedLoadFresh ==
  \A w \in Writers, s \in SessionIds :
    LoadedOn(w, s) /\ w \notin contended =>
      Columns(writing[w].row) = Columns(sessions[s])

\* No evaluation by an agent is under way on a row that holds a verdict given
\* by hand uncontended.
NoEvaluatorOnManual(s) ==
  \A w \in Writers :
    sessions[s] # NoSession /\ sessions[s].source = "manual" /\ OnRow(w, s) =>
      /\ writing[w].stage = "loaded"
      /\ writing[w].source # "llm"

\* What an agent's write loaded was an evaluation, or none, that the row had
\* since: nothing was cleared under it.
EvaluatorLoadConsistent(s) ==
  \A w \in Writers :
    LoadedOn(w, s) /\ writing[w].source = "llm" =>
      LET row == writing[w].row IN
      /\ row.source # "manual"
      /\ row.outcome # "none" => row.source = "llm"
      /\ row.source = "llm" => sessions[s].source = "llm"

SessionInv(s) ==
  /\ KeepsHandVerdict(s)
  /\ ColumnsTogether(s)
  /\ NoEvaluatorOnManual(s)
  /\ EvaluatorLoadConsistent(s)

\* No verdict was given by hand to a session without a row.
HandVerdictsOnRows ==
  \A s \in SessionIds : sessions[s] = NoSession => handVerdict[s] = "none"

VerdictInv ==
  /\ SessionsTypeOK
  /\ WritersOnRows
  /\ ContentionNoted
  /\ UncontendedLoadFresh
  /\ HandVerdictsOnRows
  /\ \A s \in SessionIds \ raced : SessionInv(s)

-----------------------------------------------------------------------------
(* Types. *)

LEMMA InitTypes == SessionsInit => SessionsTypeOK
BY SessionsAssumption
   DEF SessionsInit, SessionsTypeOK, Time, WriterStates, NotWriting, Outcomes

\* A load puts a row of the table, and columns of the right types, in flight.
LEMMA LoadTypes ==
  ASSUME SessionsTypeOK, NEW w \in Writers, NEW s \in SessionIds,
         sessions[s] # NoSession,
         NEW source \in Sources, NEW outcome \in Outcomes,
         NEW evaluated \in Time \cup {Never},
         writing' = [writing EXCEPT ![w] = Loaded(s, source, outcome, evaluated)],
         NoteContention(w, s),
         UNCHANGED <<now, sessions, handVerdict, raced>>
  PROVE  SessionsTypeOK'
<1>1. sessions[s] \in SessionRow
  BY DEF SessionsTypeOK
<1>2. Loaded(s, source, outcome, evaluated) \in WriterStates
  BY <1>1 DEF Loaded, WriterStates
<1>3. writing' \in [Writers -> WriterStates]
  BY <1>2 DEF SessionsTypeOK
<1>4. contended' \subseteq Writers
  BY DEF SessionsTypeOK, NoteContention, WritersOn
<1> QED
  BY <1>3, <1>4 DEF SessionsTypeOK

LEMMA UpsertTypes ==
  ASSUME SessionsTypeOK, NEW w \in Writers, NEW s \in SessionIds,
         NEW source \in {"manual", "llm"}, NEW outcome \in Verdicts \cup {NoOp},
         NEW skip \in BOOLEAN,
         LoadForUpsert(w, s, source, outcome, skip), UNCHANGED now
  PROVE  SessionsTypeOK'
<1>1. now \in Time /\ source \in Sources /\ outcome \in Outcomes
  BY DEF SessionsTypeOK, Sources, Outcomes
<1> QED
  BY <1>1, LoadTypes DEF LoadForUpsert

LEMMA WrittenRowType ==
  ASSUME NEW row \in SessionRow, NEW t, t.row \in SessionRow,
         t.source \in Sources, t.outcome \in Outcomes,
         t.evaluated \in Time \cup {Never}
  PROVE  WrittenRow(row, t) \in SessionRow
<1>1. /\ row.updated \in Time
      /\ Written(row.source, t.source, t.row.source) \in Sources
      /\ Written(row.outcome, t.outcome, t.row.outcome) \in Outcomes
  BY DEF SessionRow, Written
<1>2. Written(row.evaluated, Never, t.row.evaluated) \in Time \cup {Never}
  BY DEF SessionRow, Written
<1> QED
  BY <1>1, <1>2 DEF SessionRow, WrittenRow

\* What a commit does: it writes the row the writer is on, with an evaluation
\* whose columns are those of the write where the write changes them.
LEMMA CommitEffect ==
  ASSUME SessionsTypeOK, NEW w \in Writers, CommitWrite(w),
         sessions[writing[w].session] # NoSession
  PROVE  LET t == writing[w]
             s == t.session
         IN /\ t.stage = "loaded" /\ s \in SessionIds /\ t.row \in SessionRow
            /\ t.source \in Sources /\ t.outcome \in Outcomes
            /\ t.evaluated \in Time \cup {Never}
            /\ sessions'[s] \in SessionRow
            /\ sessions'[s].source = Written(sessions[s].source, t.source, t.row.source)
            /\ sessions'[s].outcome = Written(sessions[s].outcome, t.outcome, t.row.outcome)
            /\ sessions'[s].evaluated =
                 IF t.evaluated = Never
                 THEN Written(sessions[s].evaluated, Never, t.row.evaluated)
                 ELSE t.evaluated
            /\ \A u \in SessionIds \ {s} : sessions'[u] = sessions[u]
            /\ sessions' \in [SessionIds -> SessionRow \cup {NoSession}]
            /\ writing' \in [Writers -> WriterStates]
            /\ writing'[w].stage = "idle"
            /\ \A v \in Writers \ {w} : writing'[v] = writing[v]
            /\ contended' = contended \ {w}
<1> DEFINE t == writing[w]
           s == t.session
<1>1. t.stage = "loaded"
  BY DEF CommitWrite
<1>2. /\ s \in SessionIds /\ t.row \in SessionRow
      /\ t.source \in Sources /\ t.outcome \in Outcomes
      /\ t.evaluated \in Time \cup {Never}
  BY <1>1 DEF SessionsTypeOK, WriterStates, NotWriting
<1>3. sessions[s] \in SessionRow
  BY <1>2 DEF SessionsTypeOK
<1> DEFINE row == WrittenRow(sessions[s], t)
<1>4. sessions' = [sessions EXCEPT ![s] = row]
  BY DEF CommitWrite
<1>5. /\ row \in SessionRow
      /\ row.source = Written(sessions[s].source, t.source, t.row.source)
      /\ row.outcome = Written(sessions[s].outcome, t.outcome, t.row.outcome)
      /\ row.evaluated = IF t.evaluated = Never
                         THEN Written(sessions[s].evaluated, Never, t.row.evaluated)
                         ELSE t.evaluated
  BY <1>2, <1>3, WrittenRowType DEF WrittenRow
<1>6. /\ sessions'[s] = row
      /\ \A u \in SessionIds \ {s} : sessions'[u] = sessions[u]
      /\ sessions' \in [SessionIds -> SessionRow \cup {NoSession}]
  <2> HIDE DEF row
  <2> QED
    BY <1>2, <1>4, <1>5 DEF SessionsTypeOK
<1>7. /\ writing' \in [Writers -> WriterStates]
      /\ writing'[w].stage = "idle"
      /\ \A v \in Writers \ {w} : writing'[v] = writing[v]
      /\ contended' = contended \ {w}
  BY DEF CommitWrite, SessionsTypeOK, NotWriting, WriterStates
<1> QED
  BY <1>1, <1>2, <1>5, <1>6, <1>7

LEMMA StepTypes ==
  ASSUME SessionsTypeOK, WritersOnRows, [SessionsNext]_sessionVars
  PROVE  SessionsTypeOK'

<1>1. ASSUME NEW s \in SessionIds, RecordUsage(s), UNCHANGED now
      PROVE  SessionsTypeOK'
  <2>1. sessions' \in [SessionIds -> SessionRow \cup {NoSession}]
    BY <1>1 DEF SessionsTypeOK, RecordUsage, SessionRow, Sources, Outcomes
  <2> QED
    BY <1>1, <2>1 DEF SessionsTypeOK, RecordUsage
<1>2. ASSUME NEW w \in Writers, NEW s \in SessionIds, BeginWrite(w, s), UNCHANGED now
      PROVE  SessionsTypeOK'
  <2>1. ASSUME NEW v \in Verdicts, LoadForUpsert(w, s, "manual", v, FALSE)
        PROVE  SessionsTypeOK'
    BY <1>2, <2>1, UpsertTypes
  <2>2. ASSUME NEW v \in Verdicts \cup {NoOp}, LoadForUpsert(w, s, "llm", v, TRUE)
        PROVE  SessionsTypeOK'
    BY <1>2, <2>2, UpsertTypes
  <2>3. CASE CheckNotManual(w, s)
    <3>1. Cleared(s) \in WriterStates
      BY DEF Cleared, WriterStates
    <3>2. contended' \subseteq Writers
      BY <2>3 DEF SessionsTypeOK, CheckNotManual, NoteContention, WritersOn
    <3> QED
      BY <1>2, <2>3, <3>1, <3>2 DEF SessionsTypeOK, CheckNotManual
  <2>4. CASE LoadForDelete(w, s)
    BY <1>2, <2>4, LoadTypes DEF LoadForDelete, Sources, Outcomes
  <2> QED
    BY <1>2, <2>1, <2>2, <2>3, <2>4 DEF BeginWrite
<1>3. ASSUME NEW w \in Writers, LoadNoOp(w), UNCHANGED now
      PROVE  SessionsTypeOK'
  <2>1. writing[w].session \in SessionIds
    BY <1>3 DEF LoadNoOp, SessionsTypeOK, WriterStates, NotWriting
  <2> QED
    BY <1>3, <2>1, UpsertTypes DEF LoadNoOp
<1>4. ASSUME NEW w \in Writers, CommitWrite(w), UNCHANGED now
      PROVE  SessionsTypeOK'
  <2>1. writing[w].stage = "loaded" /\ sessions[writing[w].session] # NoSession
    BY <1>4 DEF CommitWrite, WritersOnRows
  <2>2. /\ writing[w].session \in SessionIds
        /\ writing[w].outcome \in Outcomes
        /\ sessions' \in [SessionIds -> SessionRow \cup {NoSession}]
        /\ writing' \in [Writers -> WriterStates]
        /\ contended' = contended \ {w}
    BY <1>4, <2>1, CommitEffect
  <2>3. handVerdict' \in [SessionIds -> Outcomes]
    BY <1>4, <2>2 DEF CommitWrite, SessionsTypeOK
  <2>4. raced' \subseteq SessionIds
    BY <1>4, <2>2 DEF CommitWrite, NoteHandWrite, SessionsTypeOK
  <2> QED
    BY <1>4, <2>2, <2>3, <2>4 DEF SessionsTypeOK
<1>5. ASSUME NEW W \in SUBSET Writers, AbandonWrites(W), UNCHANGED now
      PROVE  SessionsTypeOK'
  BY <1>5 DEF AbandonWrites, SessionsTypeOK, WriterStates, NotWriting
<1>6. CASE SessionClockTick
  BY <1>6, SessionsAssumption
     DEF SessionClockTick, evaluationVars, SessionsTypeOK, Time
<1>7. CASE UNCHANGED sessionVars
  BY <1>7 DEF sessionVars, evaluationVars, SessionsTypeOK
<1> QED
  BY <1>1, <1>2, <1>3, <1>4, <1>5, <1>6, <1>7 DEF SessionsNext, RowWrite
-----------------------------------------------------------------------------
(* The verdict given by hand. *)

LEMMA InitVerdict == SessionsInit => VerdictInv
<1> SUFFICES ASSUME SessionsInit PROVE VerdictInv
  OBVIOUS
<1>1. SessionsTypeOK
  BY InitTypes
<1>2. \A w \in Writers : writing[w].stage = "idle"
  BY DEF SessionsInit, NotWriting
<1>3. \A s \in SessionIds : sessions[s] = NoSession /\ handVerdict[s] = "none"
  BY DEF SessionsInit
<1>4. WritersOnRows /\ ContentionNoted /\ UncontendedLoadFresh /\ HandVerdictsOnRows
  BY <1>2, <1>3
     DEF WritersOnRows, ContentionNoted, UncontendedLoadFresh, HandVerdictsOnRows,
         OnRow, LoadedOn
<1>5. \A s \in SessionIds : SessionInv(s)
  BY <1>2, <1>3
     DEF SessionInv, KeepsHandVerdict, ColumnsTogether, NoEvaluatorOnManual,
         EvaluatorLoadConsistent, OnRow, LoadedOn
<1> QED
  BY <1>1, <1>4, <1>5 DEF VerdictInv

\* Whatever writer w turns to on row s, the rows being as they were, the
\* invariant holds if the new state of w fits the row.
LEMMA TurnTo ==
  ASSUME VerdictInv, SessionsTypeOK',
         NEW w \in Writers, NEW s \in SessionIds, NEW t,
         sessions[s] # NoSession,
         t.session = s, t.stage \in {"cleared", "loaded"},
         t.stage = "loaded" => WriteShape(t) /\ t.row = sessions[s],
         s \notin raced /\ (t.stage = "cleared" \/ t.source = "llm") =>
           sessions[s].source # "manual",
         OnRow(w, s) \/ writing[w].stage = "idle",
         writing' = [writing EXCEPT ![w] = t],
         NoteContention(w, s),
         UNCHANGED <<sessions, handVerdict, raced>>
  PROVE  VerdictInv'
<1>1. /\ writing'[w] = t
      /\ \A v \in Writers \ {w} : writing'[v] = writing[v]
  BY DEF VerdictInv, SessionsTypeOK
<1>2. contended \subseteq contended'
  BY DEF NoteContention
<1>3. \A v \in Writers \ {w} : OnRow(v, s) => v \in contended' /\ w \in contended'
  BY DEF NoteContention, WritersOn, OnRow
<1>4. WritersOnRows'
  BY <1>1 DEF VerdictInv, WritersOnRows, WriteShape
<1>5. ContentionNoted'
  BY <1>1, <1>2, <1>3 DEF VerdictInv, ContentionNoted, OnRow
<1>6. UncontendedLoadFresh'
  BY <1>1, <1>2 DEF VerdictInv, UncontendedLoadFresh, LoadedOn, Columns
<1>7. HandVerdictsOnRows'
  BY DEF VerdictInv, HandVerdictsOnRows
<1>8. ASSUME NEW u \in SessionIds \ raced'
      PROVE  SessionInv(u)'
  <2>1. SessionInv(u)
    BY DEF VerdictInv
  <2>2. KeepsHandVerdict(u)' /\ ColumnsTogether(u)'
    BY <2>1 DEF SessionInv, KeepsHandVerdict, ColumnsTogether
  <2>3. NoEvaluatorOnManual(u)'
    BY <1>1, <2>1 DEF SessionInv, NoEvaluatorOnManual, OnRow
  <2>4. EvaluatorLoadConsistent(u)'
    <3> SUFFICES ASSUME NEW v \in Writers, LoadedOn(v, u)', writing'[v].source = "llm"
                 PROVE  /\ writing'[v].row.source # "manual"
                        /\ writing'[v].row.outcome # "none" => writing'[v].row.source = "llm"
                        /\ writing'[v].row.source = "llm" => sessions'[u].source = "llm"
      BY DEF EvaluatorLoadConsistent
    <3>1. CASE v = w
      <4>1. u = s /\ t.row = sessions[s] /\ sessions[s].source # "manual"
        BY <1>1, <3>1 DEF LoadedOn
      <4>2. sessions[s].source \in Sources
        BY DEF VerdictInv, SessionsTypeOK, SessionRow
      <4> QED
        BY <1>1, <2>1, <3>1, <4>1, <4>2 DEF SessionInv, ColumnsTogether, Sources
    <3>2. CASE v # w
      BY <1>1, <2>1, <3>2 DEF SessionInv, EvaluatorLoadConsistent, LoadedOn
    <3> QED
      BY <3>1, <3>2
  <2> QED
    BY <2>2, <2>3, <2>4 DEF SessionInv
<1> QED
  BY <1>4, <1>5, <1>6, <1>7, <1>8 DEF VerdictInv

LEMMA UpsertKeeps ==
  ASSUME VerdictInv, SessionsTypeOK', NEW w \in Writers, NEW s \in SessionIds,
         NEW source \in {"manual", "llm"}, NEW outcome \in Verdicts \cup {NoOp},
         NEW skip \in BOOLEAN,
         s \notin raced /\ source = "llm" => sessions[s].source # "manual",
         OnRow(w, s) \/ writing[w].stage = "idle",
         LoadForUpsert(w, s, source, outcome, skip)
  PROVE  VerdictInv'
<1> DEFINE t == Loaded(s, source, outcome, now)
<1>1. now # Never /\ outcome # "none"
  BY SessionsAssumption DEF VerdictInv, SessionsTypeOK, Time
<1>2. /\ t.session = s /\ t.stage = "loaded" /\ t.row = sessions[s]
      /\ t.source = source /\ WriteShape(t)
  BY <1>1 DEF Loaded, WriteShape
<1>3. writing' = [writing EXCEPT ![w] = t]
  BY DEF LoadForUpsert
<1> HIDE DEF t
<1> QED
  BY <1>2, <1>3, TurnTo DEF LoadForUpsert

\* A commit by hand of an uncontended write gives the row exactly its columns.
LEMMA CommitKeeps ==
  ASSUME VerdictInv, SessionsTypeOK', NEW w \in Writers, CommitWrite(w)
  PROVE  VerdictInv'
<1> PICK t : t = writing[w]
  OBVIOUS
<1> PICK s : s = t.session
  OBVIOUS
<1>1. t.stage = "loaded" /\ sessions[s] # NoSession /\ WriteShape(t)
  BY DEF CommitWrite, VerdictInv, WritersOnRows
<1>2. /\ s \in SessionIds /\ t.row \in SessionRow
      /\ t.source \in Sources /\ t.outcome \in Outcomes
      /\ t.evaluated \in Time \cup {Never}
      /\ sessions'[s] \in SessionRow
      /\ sessions'[s].source = Written(sessions[s].source, t.source, t.row.source)
      /\ sessions'[s].outcome = Written(sessions[s].outcome, t.outcome, t.row.outcome)
      /\ sessions'[s].evaluated =
           IF t.evaluated = Never
           THEN Written(sessions[s].evaluated, Never, t.row.evaluated)
           ELSE t.evaluated
      /\ \A u \in SessionIds \ {s} : sessions'[u] = sessions[u]
      /\ writing'[w].stage = "idle"
      /\ \A v \in Writers \ {w} : writing'[v] = writing[v]
      /\ contended' = contended \ {w}
  BY <1>1, CommitEffect DEF VerdictInv
<1>3. sessions'[s] # NoSession
  BY <1>2, SessionsAssumption
<1>4. \A v \in Writers \ {w} : OnRow(v, s) => w \in contended /\ v \in contended'
  BY <1>1, <1>2 DEF VerdictInv, ContentionNoted, OnRow
<1>5. /\ \A u \in SessionIds \ {s} : handVerdict'[u] = handVerdict[u]
      /\ raced \ {s} = raced' \ {s}
      /\ t.source = "llm" => UNCHANGED <<handVerdict, raced>>
      /\ t.source # "llm" =>
           /\ handVerdict'[s] = t.outcome
           /\ s \in raced' <=> w \in contended
  BY <1>2 DEF CommitWrite, NoteHandWrite, VerdictInv, SessionsTypeOK, Sources
<1>6. \A v \in Writers, u \in SessionIds : OnRow(v, u)' => v # w /\ OnRow(v, u)
  BY <1>2 DEF OnRow
<1>7. WritersOnRows'
  <2> SUFFICES ASSUME NEW v \in Writers, writing'[v].stage # "idle"
               PROVE  /\ sessions'[writing'[v].session] # NoSession
                      /\ writing'[v].stage = "loaded" => WriteShape(writing'[v])
    BY <1>2 DEF WritersOnRows, WriteShape
  <2>1. v # w /\ writing'[v] = writing[v]
    BY <1>2
  <2>2. writing[v].session \in SessionIds
    BY <2>1 DEF VerdictInv, SessionsTypeOK, WriterStates, NotWriting
  <2> QED
    BY <1>2, <1>3, <2>1, <2>2 DEF VerdictInv, WritersOnRows
<1>8. ContentionNoted'
  BY <1>2, <1>6 DEF VerdictInv, ContentionNoted
<1>9. UncontendedLoadFresh'
  <2> SUFFICES ASSUME NEW v \in Writers, NEW u \in SessionIds,
                      LoadedOn(v, u)', v \notin contended'
               PROVE  Columns(writing'[v].row) = Columns(sessions'[u])
    BY DEF UncontendedLoadFresh, Columns
  <2>1. v # w /\ writing'[v] = writing[v] /\ LoadedOn(v, u) /\ v \notin contended
    BY <1>2 DEF LoadedOn
  <2>2. u # s
    BY <1>4, <2>1 DEF LoadedOn, OnRow
  <2> QED
    BY <1>2, <2>1, <2>2 DEF VerdictInv, UncontendedLoadFresh
<1>10. HandVerdictsOnRows'
  BY <1>2, <1>3, <1>5 DEF VerdictInv, HandVerdictsOnRows
<1>11. ASSUME NEW u \in SessionIds \ raced', u # s
       PROVE  SessionInv(u)'
  <2>1. SessionInv(u)
    BY <1>5, <1>11 DEF VerdictInv
  <2>2. sessions'[u] = sessions[u] /\ handVerdict'[u] = handVerdict[u]
    BY <1>2, <1>5, <1>11
  <2>3. KeepsHandVerdict(u)' /\ ColumnsTogether(u)'
    BY <2>1, <2>2 DEF SessionInv, KeepsHandVerdict, ColumnsTogether
  <2>4. NoEvaluatorOnManual(u)'
    BY <1>2, <2>1, <2>2 DEF SessionInv, NoEvaluatorOnManual, OnRow
  <2>5. EvaluatorLoadConsistent(u)'
    BY <1>2, <2>1, <2>2 DEF SessionInv, EvaluatorLoadConsistent, LoadedOn
  <2> QED
    BY <2>3, <2>4, <2>5 DEF SessionInv
<1>12. ASSUME t.source # "llm", s \notin raced'
       PROVE  SessionInv(s)'
  <2>1. w \notin contended /\ handVerdict'[s] = t.outcome
    BY <1>5, <1>12
  <2>2. Columns(t.row) = Columns(sessions[s])
    BY <1>1, <1>2, <2>1 DEF VerdictInv, UncontendedLoadFresh, LoadedOn
  <2>3. /\ sessions'[s].source = t.source
        /\ sessions'[s].outcome = t.outcome
        /\ sessions'[s].evaluated = t.evaluated
    BY <1>2, <2>2 DEF Columns, Written
  <2>4. \A v \in Writers : ~OnRow(v, s)'
    BY <1>2, <1>4, <1>6, <2>1
  <2>5. t.source \in {"manual", "none"}
    BY <1>2, <1>12 DEF Sources
  <2>6. KeepsHandVerdict(s)' /\ ColumnsTogether(s)'
    BY <1>1, <2>1, <2>3, <2>5 DEF KeepsHandVerdict, ColumnsTogether, WriteShape
  <2>7. NoEvaluatorOnManual(s)' /\ EvaluatorLoadConsistent(s)'
    BY <2>4 DEF NoEvaluatorOnManual, EvaluatorLoadConsistent, OnRow, LoadedOn
  <2> QED
    BY <2>6, <2>7 DEF SessionInv
<1>13. ASSUME t.source = "llm", s \notin raced'
       PROVE  SessionInv(s)'
  <2>1. SessionInv(s) /\ handVerdict'[s] = handVerdict[s]
    BY <1>2, <1>5, <1>13 DEF VerdictInv
  <2>2. OnRow(w, s) /\ LoadedOn(w, s)
    BY <1>1 DEF OnRow, LoadedOn
  <2>3. sessions[s].source # "manual"
    BY <1>1, <1>13, <2>1, <2>2 DEF SessionInv, NoEvaluatorOnManual
  <2>4. /\ t.row.outcome # "none" => t.row.source = "llm"
        /\ t.row.source = "llm" => sessions[s].source = "llm"
    BY <1>13, <2>1, <2>2 DEF SessionInv, EvaluatorLoadConsistent
  <2>5. t.outcome # "none" /\ t.evaluated # Never
    BY <1>1, <1>13 DEF WriteShape
  <2>6. sessions'[s].source = "llm"
    BY <1>2, <1>13, <2>4 DEF Written
  <2>7. sessions'[s].outcome # "none"
    BY <1>1, <1>2, <2>1, <2>4, <2>5 DEF Written, SessionInv, ColumnsTogether
  <2>8. sessions'[s].evaluated # Never
    BY <1>2, <2>5
  <2>9. KeepsHandVerdict(s)' /\ ColumnsTogether(s)'
    BY <2>1, <2>3, <2>6, <2>7, <2>8 DEF SessionInv, KeepsHandVerdict, ColumnsTogether
  <2>10. NoEvaluatorOnManual(s)' /\ EvaluatorLoadConsistent(s)'
    BY <1>2, <2>1, <2>6
       DEF SessionInv, NoEvaluatorOnManual, EvaluatorLoadConsistent, LoadedOn
  <2> QED
    BY <2>9, <2>10 DEF SessionInv
<1>14. \A u \in SessionIds \ raced' : SessionInv(u)'
  BY <1>11, <1>12, <1>13
<1> QED
  BY <1>7, <1>8, <1>9, <1>10, <1>14 DEF VerdictInv

LEMMA UsageKeeps ==
  ASSUME VerdictInv, SessionsTypeOK', NEW s \in SessionIds, RecordUsage(s)
  PROVE  VerdictInv'
<1>1. /\ UNCHANGED <<writing, handVerdict, contended, raced>>
      /\ \A u \in SessionIds \ {s} : sessions'[u] = sessions[u]
      /\ sessions'[s] \in SessionRow
  BY DEF RecordUsage, VerdictInv, SessionsTypeOK, SessionRow, Sources, Outcomes
<1>2. sessions[s] = NoSession =>
        /\ sessions'[s].source = "none" /\ sessions'[s].outcome = "none"
        /\ sessions'[s].evaluated = Never
        /\ handVerdict[s] = "none"
        /\ \A w \in Writers : ~OnRow(w, s)
  BY DEF RecordUsage, VerdictInv, SessionsTypeOK, HandVerdictsOnRows, WritersOnRows, OnRow
<1>3. sessions[s] # NoSession =>
        /\ sessions'[s].source = sessions[s].source
        /\ sessions'[s].outcome = sessions[s].outcome
        /\ sessions'[s].evaluated = sessions[s].evaluated
  BY DEF RecordUsage, VerdictInv, SessionsTypeOK, SessionRow
<1>4. sessions'[s] # NoSession
  BY <1>1, SessionsAssumption
<1>5. \A w \in Writers : writing[w].stage # "idle" => writing[w].session \in SessionIds
  BY DEF VerdictInv, SessionsTypeOK, WriterStates, NotWriting
<1>6. WritersOnRows'
  BY <1>1, <1>4, <1>5 DEF VerdictInv, WritersOnRows, WriteShape
<1>7. ContentionNoted'
  BY <1>1 DEF VerdictInv, ContentionNoted, OnRow
<1>8. UncontendedLoadFresh'
  BY <1>1, <1>2, <1>3 DEF VerdictInv, UncontendedLoadFresh, LoadedOn, OnRow, Columns
<1>9. HandVerdictsOnRows'
  BY <1>1, <1>4 DEF VerdictInv, HandVerdictsOnRows
<1>10. ASSUME NEW u \in SessionIds \ raced'
       PROVE  SessionInv(u)'
  <2>1. SessionInv(u)
    BY <1>1 DEF VerdictInv
  <2>2. KeepsHandVerdict(u)' /\ ColumnsTogether(u)'
    BY <1>1, <1>2, <1>3, <1>4, <2>1 DEF SessionInv, KeepsHandVerdict, ColumnsTogether
  <2>3. NoEvaluatorOnManual(u)'
    BY <1>1, <1>2, <1>3, <2>1 DEF SessionInv, NoEvaluatorOnManual, OnRow
  <2>4. EvaluatorLoadConsistent(u)'
    BY <1>1, <1>2, <1>3, <2>1 DEF SessionInv, EvaluatorLoadConsistent, LoadedOn, OnRow
  <2> QED
    BY <2>2, <2>3, <2>4 DEF SessionInv
<1> QED
  BY <1>6, <1>7, <1>8, <1>9, <1>10 DEF VerdictInv

LEMMA AbandonKeeps ==
  ASSUME VerdictInv, SessionsTypeOK', NEW W \in SUBSET Writers, AbandonWrites(W)
  PROVE  VerdictInv'
<1>1. /\ UNCHANGED <<sessions, handVerdict, raced>>
      /\ contended' = contended \ W
      /\ \A w \in W : writing'[w].stage = "idle"
      /\ \A w \in Writers \ W : writing'[w] = writing[w]
  BY DEF AbandonWrites, NotWriting
<1>2. \A w \in Writers : writing'[w].stage # "idle" => w \notin W /\ writing'[w] = writing[w]
  BY <1>1
<1>3. WritersOnRows'
  BY <1>1, <1>2 DEF VerdictInv, WritersOnRows, WriteShape
<1>4. ContentionNoted'
  BY <1>1, <1>2 DEF VerdictInv, ContentionNoted, OnRow
<1>5. UncontendedLoadFresh'
  BY <1>1, <1>2 DEF VerdictInv, UncontendedLoadFresh, LoadedOn, Columns
<1>6. HandVerdictsOnRows'
  BY <1>1 DEF VerdictInv, HandVerdictsOnRows
<1>7. \A s \in SessionIds \ raced' : SessionInv(s)'
  BY <1>1, <1>2
     DEF VerdictInv, SessionInv, KeepsHandVerdict, ColumnsTogether,
         NoEvaluatorOnManual, EvaluatorLoadConsistent, OnRow, LoadedOn
<1> QED
  BY <1>3, <1>4, <1>5, <1>6, <1>7 DEF VerdictInv

LEMMA StillVerdictInv ==
  ASSUME VerdictInv, SessionsTypeOK', UNCHANGED evaluationVars
  PROVE  VerdictInv'
BY DEF VerdictInv, evaluationVars, WritersOnRows, WriteShape, ContentionNoted,
       UncontendedLoadFresh, HandVerdictsOnRows, SessionInv, KeepsHandVerdict,
       ColumnsTogether, NoEvaluatorOnManual, EvaluatorLoadConsistent, OnRow,
       LoadedOn, Columns

LEMMA StepVerdict == VerdictInv /\ [SessionsNext]_sessionVars => VerdictInv'
<1> SUFFICES ASSUME VerdictInv, [SessionsNext]_sessionVars
             PROVE  VerdictInv'
  OBVIOUS
<1>0. SessionsTypeOK'
  BY StepTypes DEF VerdictInv
<1>1. ASSUME NEW s \in SessionIds, RecordUsage(s)
      PROVE  VerdictInv'
  BY <1>0, <1>1, UsageKeeps
<1>2. ASSUME NEW w \in Writers, NEW s \in SessionIds, BeginWrite(w, s)
      PROVE  VerdictInv'
  <2>1. writing[w].stage = "idle"
    BY <1>2 DEF BeginWrite
  <2>2. ASSUME NEW v \in Verdicts, LoadForUpsert(w, s, "manual", v, FALSE)
        PROVE  VerdictInv'
    BY <1>0, <2>1, <2>2, UpsertKeeps
  <2>3. ASSUME NEW v \in Verdicts \cup {NoOp}, LoadForUpsert(w, s, "llm", v, TRUE)
        PROVE  VerdictInv'
    <3>1. sessions[s].source # "manual"
      BY <2>3 DEF LoadForUpsert
    <3> QED
      BY <1>0, <2>1, <2>3, <3>1, UpsertKeeps
  <2>4. CASE CheckNotManual(w, s)
    <3> DEFINE t == Cleared(s)
    <3>1. t.session = s /\ t.stage = "cleared"
      BY DEF Cleared
    <3>2. writing' = [writing EXCEPT ![w] = t] /\ sessions[s].source # "manual"
      BY <2>4 DEF CheckNotManual
    <3> HIDE DEF t
    <3> QED
      BY <1>0, <2>1, <2>4, <3>1, <3>2, TurnTo DEF CheckNotManual
  <2>5. CASE LoadForDelete(w, s)
    <3> DEFINE t == Loaded(s, "none", "none", Never)
    <3>1. /\ t.session = s /\ t.stage = "loaded" /\ t.row = sessions[s]
          /\ t.source # "llm" /\ WriteShape(t)
      BY DEF Loaded, WriteShape
    <3>2. writing' = [writing EXCEPT ![w] = t]
      BY <2>5 DEF LoadForDelete
    <3> HIDE DEF t
    <3> QED
      BY <1>0, <2>1, <2>5, <3>1, <3>2, TurnTo DEF LoadForDelete
  <2> QED
    BY <1>2, <2>2, <2>3, <2>4, <2>5 DEF BeginWrite
<1>3. ASSUME NEW w \in Writers, LoadNoOp(w)
      PROVE  VerdictInv'
  <2> DEFINE s == writing[w].session
  <2>1. s \in SessionIds /\ writing[w].stage = "cleared" /\ OnRow(w, s)
    BY <1>3 DEF LoadNoOp, VerdictInv, SessionsTypeOK, WriterStates, NotWriting, OnRow
  <2>2. LoadForUpsert(w, s, "llm", NoOp, FALSE) /\ sessions[s] # NoSession
    BY <1>3 DEF LoadNoOp, LoadForUpsert
  <2>3. s \notin raced => sessions[s].source # "manual"
    BY <2>1, <2>2 DEF VerdictInv, SessionInv, NoEvaluatorOnManual
  <2> QED
    BY <1>0, <2>1, <2>2, <2>3, UpsertKeeps
<1>4. ASSUME NEW w \in Writers, CommitWrite(w)
      PROVE  VerdictInv'
  BY <1>0, <1>4, CommitKeeps
<1>5. ASSUME NEW W \in SUBSET Writers, AbandonWrites(W)
      PROVE  VerdictInv'
  BY <1>0, <1>5, AbandonKeeps
<1>6. CASE SessionClockTick
  BY <1>0, <1>6, StillVerdictInv DEF SessionClockTick
<1>7. CASE UNCHANGED sessionVars
  BY <1>0, <1>7, StillVerdictInv DEF sessionVars
<1> QED
  BY <1>1, <1>2, <1>3, <1>4, <1>5, <1>6, <1>7 DEF SessionsNext, RowWrite

\* The evaluation columns and the writes in flight have their types
\* (SessionsTypeOK), for any number of sessions and writers.
THEOREM SessionsTypeCorrect == SessionsSpec => []SessionsTypeOK
<1>1. VerdictInv => SessionsTypeOK
  BY DEF VerdictInv
<1> QED
  BY <1>1, InitVerdict, StepVerdict, PTL DEF SessionsSpec

\* A verdict given by hand while nobody else was writing the session is kept
\* (UncontendedVerdictKept), whatever upserts, no-op marks, deletions, usage
\* rows and crashes of upsert_session_evaluation's callers interleave.
THEOREM UncontendedVerdictsStay == SessionsSpec => []UncontendedVerdictKept
<1>1. VerdictInv => UncontendedVerdictKept
  BY DEF VerdictInv, UncontendedVerdictKept, SessionInv
<1> QED
  BY <1>1, InitVerdict, StepVerdict, PTL DEF SessionsSpec

==============================================================================
