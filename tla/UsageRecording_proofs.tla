------------------------ MODULE UsageRecording_proofs ------------------------
(***************************************************************************)
(* Proofs about the recording of usage, for any number of requests,        *)
(* sessions, rows, callers and prices.                                     *)
(***************************************************************************)
EXTENDS UsageRecording, FiniteSetTheorems, TLAPS

-----------------------------------------------------------------------------
(* Types. *)

LEMMA NoRollupType == NoRollup \in Rollup
BY DEF NoRollup, Rollup

LEMMA IdleType == Idle \in RecorderState
BY NoRollupType DEF Idle, RecorderState

LEMMA CostsAreIntegers == \A c \in Costs : c \in Int /\ c # None
BY UsageAssumption

\* Counting a row keeps the type of a rollup.
LEMMA CountedType ==
  ASSUME NEW sum \in Rollup, NEW r \in RowIds, NEW c \in Int
  PROVE  Counted(sum, r, c) \in Rollup
BY DEF Counted, Rollup

\* Repricing a row keeps the type of a rollup.
LEMMA RepricedType ==
  ASSUME NEW sum \in Rollup, NEW r \in RowIds, NEW d \in Int
  PROVE  Repriced(sum, r, d) \in Rollup
BY DEF Repriced, Rollup

\* The states a recording starts in and ends in.
LEMMA InsertingConsistent ==
  ASSUME NEW q \in Requests, NEW s \in SessionIds \cup {None}
  PROVE  Inserting(q, s) \in RecorderState /\ Consistent(Inserting(q, s))
<1>1. q # None
  BY UsageAssumption
<1> QED
  BY <1>1, NoRollupType DEF Inserting, RecorderState, Consistent

LEMMA EnrichingConsistent ==
  ASSUME NEW q \in Requests, NEW s \in SessionIds \cup {None},
         NEW r \in Rows, NEW c \in Costs
  PROVE  Enriching(q, s, r, c) \in RecorderState /\ Consistent(Enriching(q, s, r, c))
<1>1. r \in RowIds /\ r # None /\ q # None /\ c # None
  BY UsageAssumption DEF Rows
<1> QED
  BY <1>1, NoRollupType DEF Enriching, RecorderState, Consistent

LEMMA IdleConsistent == Consistent(Idle)
BY DEF Idle, Consistent

LEMMA InitTypes == Init => UsageTypeOK
<1> SUFFICES ASSUME Init PROVE UsageTypeOK
  OBVIOUS
<1>1. Rows = {}
  BY DEF Init, Rows
<1>2. \A p \in Paths : recorder[p] = Idle
  BY DEF Init
<1>3. recorder \in [Paths -> RecorderState]
  BY IdleType DEF Init
<1>4. missed \in [daily : SUBSET Rows, session : SUBSET Rows]
  BY DEF Init
<1>5. raced \in [requests : SUBSET Requests, repriced : SUBSET Rows, crossed : SUBSET Rows]
  BY DEF Init
<1>6. \A p \in Paths : Consistent(recorder[p])
  BY <1>2, IdleConsistent
<1>7. /\ usage \in [RowIds -> UsageRow \cup {None}]
      /\ sessions \in [SessionIds -> Rollup]
      /\ daily \in Rollup
      /\ recalc \in [Callers -> Loaded \cup {None}]
      /\ \A c \in Callers : recalc[c] = None
      /\ seen \in [Paths -> SUBSET Requests]
  BY NoRollupType DEF Init
<1> QED
  BY <1>3, <1>4, <1>5, <1>6, <1>7 DEF Init, UsageTypeOK

\* A step of one recorder keeps the types of all, if its new state has them and
\* no row goes away.
LEMMA RecorderStep ==
  ASSUME UsageTypeOK, NEW p \in Paths, NEW t \in RecorderState,
         recorder' = [recorder EXCEPT ![p] = t], Consistent(t)',
         Rows \subseteq Rows'
  PROVE  /\ recorder' \in [Paths -> RecorderState]
         /\ \A o \in Paths : Consistent(recorder[o])'
<1>1. ASSUME NEW o \in Paths, o # p
      PROVE  Consistent(recorder[o])'
  BY <1>1 DEF UsageTypeOK, Consistent
<1>2. Consistent(recorder[p])'
  BY DEF UsageTypeOK, Consistent
<1> QED
  BY <1>1, <1>2 DEF UsageTypeOK

LEMMA LookupTypes ==
  ASSUME UsageTypeOK, NEW p \in Paths, NEW q \in Requests, Lookup(p, q)
  PROVE  UsageTypeOK'
<1>1. SessionSent(p, q) \in SessionIds \cup {None}
  BY DEF SessionSent, UsageTypeOK
<1>2. Rows' = Rows /\ UNCHANGED <<world, tables, recalc, spent, missed>>
  BY DEF Lookup, Rows, tables
<1>3. \E t \in RecorderState : recorder' = [recorder EXCEPT ![p] = t] /\ Consistent(t)
  <2>1. CASE recorder' = [recorder EXCEPT ![p] = Inserting(q, SessionSent(p, q))]
    BY <1>1, <2>1, InsertingConsistent
  <2>2. ASSUME NEW r \in Duplicates(p, q),
               recorder' = [recorder EXCEPT ![p] =
                 Enriching(q, SessionSent(p, q), r, usage[r].cost)]
        PROVE  \E t \in RecorderState :
                 recorder' = [recorder EXCEPT ![p] = t] /\ Consistent(t)
    <3>1. r \in Rows /\ usage[r] \in UsageRow
      BY DEF Duplicates, Rows, UsageTypeOK
    <3>2. usage[r].cost \in Costs
      BY <3>1 DEF UsageRow
    <3> QED
      BY <1>1, <2>2, <3>1, <3>2, EnrichingConsistent
  <2> QED
    BY <2>1, <2>2 DEF Lookup
<1>4. PICK t \in RecorderState : recorder' = [recorder EXCEPT ![p] = t] /\ Consistent(t)
  BY <1>3
<1>5. /\ recorder' \in [Paths -> RecorderState]
      /\ \A o \in Paths : Consistent(recorder[o])'
  BY <1>2, <1>4, RecorderStep DEF Consistent
<1>6. raced' \in [requests : SUBSET Requests, repriced : SUBSET Rows, crossed : SUBSET Rows]
  BY DEF Lookup, UsageTypeOK, Duplicates
<1>7. seen' \in [Paths -> SUBSET Requests]
  BY DEF Lookup, UsageTypeOK
<1> QED
  BY <1>2, <1>5, <1>6, <1>7 DEF UsageTypeOK, world, tables

LEMMA EnrichTypes ==
  ASSUME UsageTypeOK, NEW p \in Paths, Enrich(p)
  PROVE  UsageTypeOK'
<1> DEFINE t == recorder[p]
<1>1. t \in RecorderState /\ Consistent(t) /\ t.pc = "enrich"
  BY DEF Enrich, UsageTypeOK
<1>2. t.row \in Rows /\ t.row # None /\ usage[t.row] \in UsageRow
  BY <1>1 DEF Consistent, Rows, UsageTypeOK
<1>3. /\ usage' \in [RowIds -> UsageRow \cup {None}]
      /\ Rows' = Rows
  <2> DEFINE row == [usage[t.row] EXCEPT !.session = t.session]
  <2>1. CASE t.session = None
    BY <2>1 DEF Enrich, UsageTypeOK, Rows
  <2>2. CASE t.session # None
    <3>1. row \in UsageRow /\ row # None
      BY <1>1, <1>2, <2>2, UsageAssumption DEF UsageRow, RecorderState
    <3>2. usage' = [usage EXCEPT ![t.row] = row]
      BY <2>2 DEF Enrich
    <3> QED
      BY <1>2, <3>1, <3>2 DEF UsageTypeOK, Rows
  <2> QED
    BY <2>1, <2>2
<1>4. Rows' = Rows
  BY <1>3
<1>5. \E n \in RecorderState : recorder' = [recorder EXCEPT ![p] = n] /\ Consistent(n)
  <2>1. CASE t.session # None /\ usage[t.row].session = None
    <3>1. [t EXCEPT !.pc = "session"] \in RecorderState
      BY <1>1 DEF RecorderState
    <3>2. Consistent([t EXCEPT !.pc = "session"])
      BY <1>1, <2>1 DEF Consistent, RecorderState
    <3> QED
      BY <2>1, <3>1, <3>2 DEF Enrich
  <2>2. CASE ~(t.session # None /\ usage[t.row].session = None)
    BY <2>2, IdleType, IdleConsistent DEF Enrich
  <2> QED
    BY <2>1, <2>2
<1>6. PICK n \in RecorderState : recorder' = [recorder EXCEPT ![p] = n] /\ Consistent(n)
  BY <1>5
<1>7. /\ recorder' \in [Paths -> RecorderState]
      /\ \A o \in Paths : Consistent(recorder[o])'
  BY <1>4, <1>6, RecorderStep DEF Consistent
<1> QED
  BY <1>3, <1>4, <1>7 DEF Enrich, UsageTypeOK, world

\* The key drawn for a new row is free.
LEMMA FreshRow == FreeRows # {} => (CHOOSE f \in FreeRows : TRUE) \in FreeRows
OBVIOUS

LEMMA InsertTypes ==
  ASSUME UsageTypeOK, NEW p \in Paths, Insert(p)
  PROVE  UsageTypeOK'
<1> DEFINE t == recorder[p]
           r == CHOOSE f \in FreeRows : TRUE
           row == [path |-> p, request |-> t.request, session |-> t.session,
                   cost |-> RecordCost]
           n == [t EXCEPT !.pc = "daily", !.row = r, !.cost = RecordCost]
<1>1. t \in RecorderState /\ Consistent(t) /\ t.pc = "insert"
  BY DEF Insert, UsageTypeOK
<1>2. r \in RowIds /\ r # None
  BY FreshRow, UsageAssumption DEF Insert, FreeRows
<1>3. row \in UsageRow /\ row # None /\ RecordCost \in Costs /\ RecordCost # None
  <2>1. t.request \in Requests /\ t.session \in SessionIds \cup {None}
    BY <1>1 DEF Consistent, RecorderState
  <2>2. row \in UsageRow
    BY <2>1, UsageAssumption DEF UsageRow
  <2> QED
    BY <2>2, UsageAssumption
<1>4. usage' = [usage EXCEPT ![r] = row] /\ recorder' = [recorder EXCEPT ![p] = n]
  BY DEF Insert
<1> HIDE DEF r, row
<1>5. usage' \in [RowIds -> UsageRow \cup {None}]
  BY <1>3, <1>4 DEF UsageTypeOK
<1>6. Rows' = Rows \cup {r}
  BY <1>2, <1>3, <1>4 DEF Rows, UsageTypeOK
<1>7. PICK m \in RecorderState : m = n
  BY <1>1, <1>2, <1>3 DEF RecorderState
<1>8. /\ recorder' \in [Paths -> RecorderState]
      /\ \A o \in Paths : Consistent(recorder[o])'
  <2>1. /\ m.pc = "daily" /\ m.row = r /\ m.cost = RecordCost
        /\ m.request = t.request /\ t.request # None
    BY <1>1, <1>7 DEF RecorderState, Consistent
  <2>2. Consistent(m)'
    BY <1>2, <1>3, <1>6, <2>1 DEF Consistent
  <2> QED
    BY <1>4, <1>6, <1>7, <2>2, RecorderStep
<1>9. /\ recalc' \in [Callers -> Loaded \cup {None}]
      /\ \A c \in Callers : recalc'[c] # None => recalc'[c].row \in Rows'
      /\ missed' \in [daily : SUBSET Rows', session : SUBSET Rows']
      /\ raced' \in [requests : SUBSET Requests, repriced : SUBSET Rows', crossed : SUBSET Rows']
  <2>1. UNCHANGED <<recalc, missed, raced>>
    BY DEF Insert
  <2> QED
    BY <1>6, <2>1 DEF UsageTypeOK
<1> QED
  BY <1>5, <1>8, <1>9 DEF Insert, UsageTypeOK, world

LEMMA AfterDailyConsistent ==
  ASSUME NEW t \in RecorderState, Consistent(t), t.pc = "daily"
  PROVE  AfterDaily(t) \in RecorderState /\ Consistent(AfterDaily(t))
<1>1. CASE t.session = None
  BY <1>1, IdleType, IdleConsistent DEF AfterDaily
<1>2. CASE t.session # None
  BY <1>2 DEF AfterDaily, RecorderState, Consistent
<1> QED
  BY <1>1, <1>2

LEMMA UpsertDailyTypes ==
  ASSUME UsageTypeOK, NEW p \in Paths, UpsertDaily(p)
  PROVE  UsageTypeOK'
<1> DEFINE t == recorder[p]
<1>1. t \in RecorderState /\ Consistent(t) /\ t.pc = "daily"
  BY DEF UpsertDaily, UsageTypeOK
<1>2. t.row \in RowIds /\ t.cost \in Costs /\ t.cost \in Int
  BY <1>1, CostsAreIntegers DEF Consistent, RecorderState, Rows
<1>3. daily' \in Rollup
  BY <1>2, CountedType DEF UpsertDaily, UsageTypeOK
<1>4. Rows' = Rows
  BY DEF UpsertDaily, Rows
<1>5. /\ recorder' \in [Paths -> RecorderState]
      /\ \A o \in Paths : Consistent(recorder[o])'
  BY <1>1, <1>4, AfterDailyConsistent, RecorderStep DEF UpsertDaily, Consistent
<1> QED
  BY <1>3, <1>4, <1>5 DEF UpsertDaily, UsageTypeOK, world

LEMMA LoadSessionTypes ==
  ASSUME UsageTypeOK, NEW p \in Paths, LoadSession(p)
  PROVE  UsageTypeOK'
<1> DEFINE t == recorder[p]
           n == [t EXCEPT !.pc = "commit", !.sum = sessions[t.session]]
<1>1. t \in RecorderState /\ Consistent(t) /\ t.pc = "session"
  BY DEF LoadSession, UsageTypeOK
<1>2. t.session \in SessionIds /\ sessions[t.session] \in Rollup
  BY <1>1 DEF Consistent, RecorderState, UsageTypeOK
<1>3. n \in RecorderState /\ Consistent(n)
  BY <1>1, <1>2 DEF Consistent, RecorderState
<1>4. Rows' = Rows /\ recorder' = [recorder EXCEPT ![p] = n]
  BY DEF LoadSession, Rows, tables
<1> HIDE DEF n
<1>5. /\ recorder' \in [Paths -> RecorderState]
      /\ \A o \in Paths : Consistent(recorder[o])'
  BY <1>3, <1>4, RecorderStep DEF Consistent
<1>6. raced' \in [requests : SUBSET Requests, repriced : SUBSET Rows, crossed : SUBSET Rows]
  BY DEF LoadSession, UsageTypeOK
<1> QED
  BY <1>4, <1>5, <1>6 DEF LoadSession, UsageTypeOK, world, tables

LEMMA CommitSessionTypes ==
  ASSUME UsageTypeOK, NEW p \in Paths, CommitSession(p)
  PROVE  UsageTypeOK'
<1> DEFINE t == recorder[p]
<1>1. t \in RecorderState /\ Consistent(t) /\ t.pc = "commit"
  BY DEF CommitSession, UsageTypeOK
<1>2. /\ t.row \in RowIds /\ t.cost \in Costs /\ t.cost \in Int
      /\ t.session \in SessionIds /\ t.sum \in Rollup
  BY <1>1, CostsAreIntegers DEF Consistent, RecorderState, Rows
<1>3. sessions' \in [SessionIds -> Rollup]
  BY <1>2, CountedType DEF CommitSession, UsageTypeOK
<1>4. Rows' = Rows
  BY DEF CommitSession, Rows
<1>5. /\ recorder' \in [Paths -> RecorderState]
      /\ \A o \in Paths : Consistent(recorder[o])'
  BY <1>4, IdleType, IdleConsistent, RecorderStep DEF CommitSession, Consistent
<1> QED
  BY <1>3, <1>4, <1>5 DEF CommitSession, UsageTypeOK, world

LEMMA FailDailyTypes ==
  ASSUME UsageTypeOK, NEW p \in Paths, FailDaily(p)
  PROVE  UsageTypeOK'
<1> DEFINE t == recorder[p]
<1>1. t \in RecorderState /\ Consistent(t) /\ t.pc = "daily"
  BY DEF FailDaily, UsageTypeOK
<1>2. t.row \in Rows
  BY <1>1 DEF Consistent
<1>3. missed' \in [daily : SUBSET Rows, session : SUBSET Rows]
  BY <1>2 DEF FailDaily, UsageTypeOK
<1>4. Rows' = Rows /\ spent' \in Nat
  BY DEF FailDaily, Rows, tables, Spend, UsageTypeOK
<1>5. /\ recorder' \in [Paths -> RecorderState]
      /\ \A o \in Paths : Consistent(recorder[o])'
  BY <1>1, <1>4, AfterDailyConsistent, RecorderStep DEF FailDaily, Consistent
<1> QED
  BY <1>3, <1>4, <1>5 DEF FailDaily, UsageTypeOK, world, tables

LEMMA AbandonTypes ==
  ASSUME UsageTypeOK, NEW p \in Paths, Abandon(p)
  PROVE  UsageTypeOK'
<1> DEFINE t == recorder[p]
<1>1. t \in RecorderState /\ Consistent(t)
  BY DEF UsageTypeOK
<1>2. t.pc \in {"daily", "session", "commit"} => t.row \in Rows
  BY <1>1 DEF Consistent
<1>3. missed' \in [daily : SUBSET Rows, session : SUBSET Rows]
  BY <1>2 DEF Abandon, UsageTypeOK
<1>4. Rows' = Rows /\ spent' \in Nat
  BY DEF Abandon, Rows, tables, Spend, UsageTypeOK
<1>5. /\ recorder' \in [Paths -> RecorderState]
      /\ \A o \in Paths : Consistent(recorder[o])'
  BY <1>4, IdleType, IdleConsistent, RecorderStep DEF Abandon, Consistent
<1> QED
  BY <1>3, <1>4, <1>5 DEF Abandon, UsageTypeOK, world, tables

LEMMA LoadUsageTypes ==
  ASSUME UsageTypeOK, NEW c \in Callers, NEW r \in RowIds, LoadUsage(c, r)
  PROVE  UsageTypeOK'
<1>1. usage[r] \in UsageRow /\ r \in Rows
  BY DEF LoadUsage, UsageTypeOK, Rows
<1> DEFINE n == [row |-> r, cost |-> usage[r].cost, session |-> usage[r].session]
<1>2. n \in Loaded /\ n.row \in Rows
  BY <1>1 DEF Loaded, UsageRow
<1>3. recalc' = [recalc EXCEPT ![c] = n]
  BY DEF LoadUsage
<1> HIDE DEF n
<1>4. Rows' = Rows /\ spent' \in Nat
  BY DEF LoadUsage, Rows, tables, Spend, UsageTypeOK
<1>5. /\ recalc' \in [Callers -> Loaded \cup {None}]
      /\ \A d \in Callers : recalc'[d] # None => recalc'[d].row \in Rows
  BY <1>2, <1>3 DEF UsageTypeOK
<1>6. raced' \in [requests : SUBSET Requests, repriced : SUBSET Rows, crossed : SUBSET Rows]
  BY <1>1 DEF LoadUsage, UsageTypeOK
<1>7. \A o \in Paths : Consistent(recorder[o])'
  BY <1>4 DEF LoadUsage, UsageTypeOK, Consistent
<1> QED
  BY <1>4, <1>5, <1>6, <1>7 DEF LoadUsage, UsageTypeOK, world, tables

\* What a caller loaded, and the difference it moves.
LEMMA RecalculateData ==
  ASSUME UsageTypeOK, NEW c \in Callers, recalc[c] # None
  PROVE  /\ recalc[c].row \in Rows /\ recalc[c].row \in RowIds
         /\ usage[recalc[c].row] \in UsageRow
         /\ recalc[c].session \in SessionIds \cup {None}
         /\ \A n \in Costs : n - recalc[c].cost \in Int
<1>1. recalc[c] \in Loaded /\ recalc[c].row \in Rows
  BY DEF UsageTypeOK
<1>2. usage[recalc[c].row] \in UsageRow
  BY <1>1 DEF Rows, UsageTypeOK
<1>3. recalc[c].cost \in Int /\ \A n \in Costs : n \in Int
  BY <1>1, CostsAreIntegers DEF Loaded
<1> QED
  BY <1>1, <1>2, <1>3 DEF Loaded

LEMMA RecalculateTypes ==
  ASSUME UsageTypeOK, NEW c \in Callers, Recalculate(c)
  PROVE  UsageTypeOK'
<1> DEFINE t == recalc[c]
<1>1. /\ t.row \in Rows /\ t.row \in RowIds /\ usage[t.row] \in UsageRow
      /\ t.session \in SessionIds \cup {None}
      /\ \A n \in Costs : n - t.cost \in Int
  BY RecalculateData DEF Recalculate
<1>2. PICK n \in Costs :
        LET d == n - t.cost IN
        /\ daily' = Repriced(daily, t.row, d)
        /\ sessions' = IF t.session # None /\ d # 0
                       THEN [sessions EXCEPT ![t.session] = Repriced(@, t.row, d)]
                       ELSE sessions
        /\ usage' = IF d # 0 THEN [usage EXCEPT ![t.row].cost = n] ELSE usage
  BY DEF Recalculate
<1>3. daily' \in Rollup
  BY <1>1, <1>2, RepricedType DEF UsageTypeOK
<1>4. sessions' \in [SessionIds -> Rollup]
  BY <1>1, <1>2, RepricedType DEF UsageTypeOK
<1>5. [usage[t.row] EXCEPT !.cost = n] \in UsageRow
  BY <1>1 DEF UsageRow
<1>6. usage' = usage \/ usage' = [usage EXCEPT ![t.row] = [usage[t.row] EXCEPT !.cost = n]]
  BY <1>2
<1>7. usage' \in [RowIds -> UsageRow \cup {None}]
  BY <1>5, <1>6 DEF UsageTypeOK
<1>8. Rows' = Rows
  BY <1>1, <1>5, <1>6, UsageAssumption DEF Rows, UsageTypeOK
<1>9. raced' \in [requests : SUBSET Requests, repriced : SUBSET Rows, crossed : SUBSET Rows]
  BY <1>1 DEF Recalculate, UsageTypeOK
<1>10. \A o \in Paths : Consistent(recorder[o])'
  BY <1>8 DEF Recalculate, UsageTypeOK, Consistent
<1>11. /\ recalc' \in [Callers -> Loaded \cup {None}]
       /\ \A d \in Callers : recalc'[d] # None => recalc'[d].row \in Rows
  BY DEF Recalculate, UsageTypeOK
<1> QED
  BY <1>3, <1>4, <1>7, <1>8, <1>9, <1>10, <1>11 DEF Recalculate, UsageTypeOK, world

LEMMA SkipTypes ==
  ASSUME UsageTypeOK, NEW c \in Callers, Skip(c)
  PROVE  UsageTypeOK'
<1>1. Rows' = Rows
  BY DEF Skip, Rows, tables
<1>2. \A o \in Paths : Consistent(recorder[o])'
  BY <1>1 DEF Skip, UsageTypeOK, Consistent
<1> QED
  BY <1>1, <1>2 DEF Skip, UsageTypeOK, world, tables

LEMMA StutterTypes == ASSUME UsageTypeOK, UNCHANGED vars PROVE UsageTypeOK'
<1>1. Rows' = Rows
  BY DEF vars, Rows, tables
<1>2. \A o \in Paths : Consistent(recorder[o])'
  BY <1>1 DEF vars, UsageTypeOK, Consistent
<1> QED
  BY <1>1, <1>2 DEF vars, UsageTypeOK, world, tables

\* Rows, rollups and what recorders and callers hold keep their types, and a
\* recorder holds what the point it reached needs (record_usage, log_usage,
\* recalculate_usage_cost).
THEOREM UsageTypeCorrect == UsageSpec => []UsageTypeOK
<1>1. ASSUME UsageTypeOK, [Next]_vars PROVE UsageTypeOK'
  <2>1. CASE UNCHANGED vars
    BY <1>1, <2>1, StutterTypes
  <2>2. ASSUME NEW p \in Paths, Record(p) PROVE UsageTypeOK'
    BY <1>1, <2>2, LookupTypes, EnrichTypes, InsertTypes, UpsertDailyTypes,
       LoadSessionTypes, CommitSessionTypes, FailDailyTypes, AbandonTypes DEF Record
  <2>3. ASSUME NEW c \in Callers, Reprice(c) PROVE UsageTypeOK'
    BY <1>1, <2>3, LoadUsageTypes, RecalculateTypes, SkipTypes DEF Reprice
  <2> QED
    BY <1>1, <2>1, <2>2, <2>3 DEF Next
<1> QED
  BY <1>1, InitTypes, PTL DEF UsageSpec

-----------------------------------------------------------------------------
(* The rollup into usage_daily. *)

\* Only the path that inserted a row still has to roll it up, and it has not
\* given that up.
PendingOwn ==
  \A p \in Paths :
    recorder[p].pc = "daily" =>
      /\ usage[recorder[p].row].path = p
      /\ recorder[p].row \notin missed.daily

DailyInv == UsageTypeOK /\ DailyCountsRows /\ PendingOwn

\* The row of a recorder, by the point it reached.
LEMMA RecorderRow ==
  ASSUME UsageTypeOK, NEW p \in Paths, recorder[p].pc \notin {"idle", "insert"}
  PROVE  /\ recorder[p].row \in Rows /\ recorder[p].row \in RowIds
         /\ usage[recorder[p].row] \in UsageRow
         /\ recorder[p].cost \in Costs /\ recorder[p].cost \in Int
         /\ recorder[p].session \in SessionIds \cup {None}
<1>1. recorder[p] \in RecorderState /\ Consistent(recorder[p])
  BY DEF UsageTypeOK
<1>2. recorder[p].row \in Rows /\ recorder[p].cost \in Costs
  BY <1>1 DEF Consistent, RecorderState
<1> QED
  BY <1>1, <1>2, CostsAreIntegers DEF RecorderState, Rows, UsageTypeOK

\* Two paths never have the same row to roll up.
LEMMA OnePending ==
  ASSUME PendingOwn, NEW p \in Paths, NEW o \in Paths,
         recorder[p].pc = "daily", recorder[o].pc = "daily",
         recorder[p].row = recorder[o].row
  PROVE  p = o
BY DEF PendingOwn

\* A step that leaves usage_daily, the pending rollups and the paths of the rows
\* as they are.
LEMMA DailyFrame ==
  ASSUME DailyInv, UsageTypeOK', daily'.count = daily.count, missed'.daily = missed.daily,
         Rows' = Rows,
         \A r \in Rows : usage'[r].path = usage[r].path,
         \A p \in Paths : recorder'[p].pc = "daily" <=> recorder[p].pc = "daily",
         \A p \in Paths : recorder[p].pc = "daily" => recorder'[p].row = recorder[p].row
  PROVE  DailyInv'
<1>1. \A r \in RowIds : DailyPending(r)' <=> DailyPending(r)
  BY DEF DailyPending
<1>2. DailyCountsRows'
  BY <1>1 DEF DailyInv, DailyCountsRows
<1>3. PendingOwn'
  BY RecorderRow DEF DailyInv, PendingOwn
<1> QED
  BY <1>2, <1>3 DEF DailyInv

LEMMA LookupDaily ==
  ASSUME DailyInv, UsageTypeOK', NEW p \in Paths, NEW q \in Requests, Lookup(p, q)
  PROVE  DailyInv'
<1>1. /\ recorder[p].pc = "idle" /\ recorder'[p].pc \in {"insert", "enrich"}
      /\ \A o \in Paths \ {p} : recorder'[o] = recorder[o]
  BY DEF Lookup, Inserting, Enriching, DailyInv, UsageTypeOK
<1>2. UNCHANGED <<usage, daily, missed>> /\ Rows' = Rows
  BY DEF Lookup, tables, Rows
<1> QED
  BY <1>1, <1>2, DailyFrame

LEMMA EnrichDaily ==
  ASSUME DailyInv, UsageTypeOK', NEW p \in Paths, Enrich(p)
  PROVE  DailyInv'
<1>1. recorder[p].pc = "enrich" /\ recorder'[p].pc \in {"session", "idle"}
  BY DEF Enrich, Idle, DailyInv, UsageTypeOK, RecorderState
<1>2. \A o \in Paths \ {p} : recorder'[o] = recorder[o]
  BY DEF Enrich, DailyInv, UsageTypeOK
<1>3. recorder[p].row \in Rows /\ usage[recorder[p].row] \in UsageRow
  BY <1>1, RecorderRow DEF DailyInv
<1>4. \A r \in Rows : usage'[r].path = usage[r].path
  BY <1>3 DEF Enrich, DailyInv, UsageTypeOK, UsageRow, Rows
<1>5. Rows' = Rows
  <2>1. [usage[recorder[p].row] EXCEPT !.session = recorder[p].session] # None
    BY <1>1, <1>3, RecorderRow, UsageAssumption DEF UsageRow, DailyInv
  <2> QED
    BY <1>3, <2>1 DEF Enrich, DailyInv, UsageTypeOK, Rows
<1> QED
  BY <1>1, <1>2, <1>4, <1>5, DailyFrame DEF Enrich

LEMMA InsertDaily ==
  ASSUME DailyInv, UsageTypeOK', NEW p \in Paths, Insert(p)
  PROVE  DailyInv'
<1> DEFINE r == CHOOSE f \in FreeRows : TRUE
<1>1. r \in RowIds /\ r \notin Rows
  BY FreshRow DEF Insert, FreeRows
<1>2. /\ recorder[p].pc = "insert" /\ recorder'[p].pc = "daily" /\ recorder'[p].row = r
      /\ usage'[r].path = p /\ usage'[r] # None
      /\ \A k \in RowIds \ {r} : usage'[k] = usage[k]
      /\ \A o \in Paths \ {p} : recorder'[o] = recorder[o]
      /\ UNCHANGED <<daily, missed>>
  <2>1. recorder'[p].row = r /\ recorder'[p].pc = "daily"
    BY DEF Insert, DailyInv, UsageTypeOK, RecorderState
  <2>2. usage'[r] # None
    <3>1. recorder'[p].row # None /\ recorder'[p].row \in Rows'
      BY <2>1, RecorderRow, UsageAssumption DEF UsageTypeOK, Consistent, Rows
    <3> QED
      BY <2>1, <3>1 DEF Rows
  <2> QED
    BY <1>1, <2>1, <2>2 DEF Insert, DailyInv, UsageTypeOK
<1> HIDE DEF r
<1>3. Rows' = Rows \cup {r}
  BY <1>1, <1>2 DEF Rows
<1>4. missed.daily \subseteq Rows
  BY DEF DailyInv, UsageTypeOK
<1>5. \A o \in Paths : recorder[o].pc = "daily" => recorder[o].row \in Rows
  BY RecorderRow DEF DailyInv
<1>6. \A k \in RowIds : DailyPending(k)' <=> DailyPending(k) \/ k = r
  BY <1>2 DEF DailyPending
<1>7. DailyCountsRows'
  BY <1>1, <1>2, <1>3, <1>4, <1>6 DEF DailyInv, DailyCountsRows
<1>8. PendingOwn'
  BY <1>1, <1>2, <1>4, <1>5 DEF DailyInv, PendingOwn, Rows
<1> QED
  BY <1>7, <1>8 DEF DailyInv

LEMMA UpsertDailyDaily ==
  ASSUME DailyInv, UsageTypeOK', NEW p \in Paths, UpsertDaily(p)
  PROVE  DailyInv'
<1> DEFINE t == recorder[p]
<1>1. t.pc = "daily" /\ t.row \in Rows /\ t.row \in RowIds /\ t.row \notin missed.daily
  BY RecorderRow DEF UpsertDaily, DailyInv, PendingOwn
<1>2. /\ recorder'[p].pc \in {"session", "idle"}
      /\ \A o \in Paths \ {p} : recorder'[o] = recorder[o]
      /\ UNCHANGED <<usage, missed>> /\ Rows' = Rows
  BY DEF UpsertDaily, AfterDaily, Idle, DailyInv, UsageTypeOK, RecorderState, Rows
<1>3. \A k \in RowIds : DailyPending(k)' <=> DailyPending(k) /\ k # t.row
  BY <1>1, <1>2, OnePending DEF DailyPending, DailyInv
<1>4. DailyPending(t.row)
  BY <1>1 DEF DailyPending
<1>5. \A k \in RowIds :
        daily'.count[k] = IF k = t.row THEN daily.count[k] + 1 ELSE daily.count[k]
  BY <1>1 DEF UpsertDaily, Counted, DailyInv, UsageTypeOK, Rollup
<1>6. DailyCountsRows'
  BY <1>1, <1>2, <1>3, <1>4, <1>5 DEF DailyInv, DailyCountsRows
<1>7. PendingOwn'
  BY <1>2 DEF DailyInv, PendingOwn
<1> QED
  BY <1>6, <1>7 DEF DailyInv

\* The rollup of a recorder that has it before it is given up.
LEMMA GiveUpDaily ==
  ASSUME DailyInv, UsageTypeOK', NEW p \in Paths, recorder[p].pc = "daily",
         missed'.daily = missed.daily \cup {recorder[p].row},
         recorder'[p].pc # "daily",
         \A o \in Paths \ {p} : recorder'[o] = recorder[o],
         UNCHANGED <<usage, daily>>
  PROVE  DailyInv'
<1>1. recorder[p].row \in Rows /\ Rows' = Rows
  BY RecorderRow DEF DailyInv, Rows
<1>2. \A k \in RowIds : DailyPending(k)' <=> DailyPending(k) /\ k # recorder[p].row
  BY OnePending DEF DailyPending, DailyInv
<1>3. DailyPending(recorder[p].row)
  BY DEF DailyPending
<1>4. DailyCountsRows'
  BY <1>1, <1>2, <1>3 DEF DailyInv, DailyCountsRows
<1>5. PendingOwn'
  BY OnePending DEF DailyInv, PendingOwn
<1> QED
  BY <1>4, <1>5 DEF DailyInv

LEMMA FailDailyDaily ==
  ASSUME DailyInv, UsageTypeOK', NEW p \in Paths, FailDaily(p)
  PROVE  DailyInv'
<1>1. /\ recorder[p].pc = "daily" /\ recorder'[p].pc \in {"session", "idle"}
      /\ \A o \in Paths \ {p} : recorder'[o] = recorder[o]
  BY DEF FailDaily, AfterDaily, Idle, DailyInv, UsageTypeOK, RecorderState
<1>2. missed'.daily = missed.daily \cup {recorder[p].row} /\ UNCHANGED <<usage, daily>>
  BY DEF FailDaily, tables, DailyInv, UsageTypeOK
<1> QED
  BY <1>1, <1>2, GiveUpDaily

LEMMA AbandonDaily ==
  ASSUME DailyInv, UsageTypeOK', NEW p \in Paths, Abandon(p)
  PROVE  DailyInv'
<1>1. /\ recorder'[p].pc = "idle"
      /\ \A o \in Paths \ {p} : recorder'[o] = recorder[o]
      /\ UNCHANGED <<usage, daily>> /\ Rows' = Rows
  BY DEF Abandon, Idle, DailyInv, UsageTypeOK, tables, Rows
<1>2. CASE recorder[p].pc = "daily"
  <2>1. missed'.daily = missed.daily \cup {recorder[p].row}
    BY <1>2 DEF Abandon
  <2> QED
    BY <1>1, <1>2, <2>1, GiveUpDaily
<1>3. CASE recorder[p].pc # "daily"
  <2>1. missed'.daily = missed.daily
    BY <1>3 DEF Abandon
  <2> QED
    BY <1>1, <1>3, <2>1, DailyFrame
<1> QED
  BY <1>2, <1>3

LEMMA RecalculateDaily ==
  ASSUME DailyInv, UsageTypeOK', NEW c \in Callers, Recalculate(c)
  PROVE  DailyInv'
<1> DEFINE t == recalc[c]
<1>1. t.row \in Rows /\ t.row \in RowIds /\ usage[t.row] \in UsageRow
  BY RecalculateData DEF Recalculate, DailyInv
<1>2. PICK n \in Costs :
        /\ daily' = Repriced(daily, t.row, n - t.cost)
        /\ usage' \in {usage, [usage EXCEPT ![t.row].cost = n]}
  BY DEF Recalculate
<1>3. daily'.count = daily.count
  BY <1>2 DEF Repriced, DailyInv, UsageTypeOK, Rollup
<1>4. \A r \in Rows : usage'[r].path = usage[r].path
  BY <1>1, <1>2 DEF DailyInv, UsageTypeOK, UsageRow, Rows
<1>5. Rows' = Rows
  <2>1. [usage[t.row] EXCEPT !.cost = n] # None
    BY <1>1, UsageAssumption DEF UsageRow
  <2> QED
    BY <1>1, <1>2, <2>1 DEF Rows, DailyInv, UsageTypeOK
<1> QED
  BY <1>3, <1>4, <1>5, DailyFrame DEF Recalculate

LEMMA InitDaily == Init => DailyInv
<1> SUFFICES ASSUME Init PROVE DailyInv
  OBVIOUS
<1>1. Rows = {} /\ \A p \in Paths : recorder[p].pc = "idle"
  BY DEF Init, Rows, Idle
<1>2. \A r \in RowIds : daily.count[r] = 0
  BY DEF Init, NoRollup
<1> QED
  BY <1>1, <1>2, InitTypes DEF DailyInv, DailyCountsRows, PendingOwn

LEMMA DailyStep == DailyInv /\ UsageTypeOK' /\ [Next]_vars => DailyInv'
<1> SUFFICES ASSUME DailyInv, UsageTypeOK', [Next]_vars PROVE DailyInv'
  OBVIOUS
<1>1. ASSUME UNCHANGED <<tables, recorder, missed>> PROVE DailyInv'
  BY <1>1, DailyFrame DEF tables, Rows
<1>2. ASSUME NEW p \in Paths, Record(p) PROVE DailyInv'
  <2>1. LoadSession(p) => DailyInv'
    <3> SUFFICES ASSUME LoadSession(p) PROVE DailyInv'
      OBVIOUS
    <3>1. recorder[p].pc = "session" /\ recorder'[p].pc = "commit"
      BY DEF LoadSession, DailyInv, UsageTypeOK, RecorderState
    <3>2. \A o \in Paths \ {p} : recorder'[o] = recorder[o]
      BY DEF LoadSession, DailyInv, UsageTypeOK
    <3> QED
      BY <3>1, <3>2, DailyFrame DEF LoadSession, tables, Rows
  <2>2. CommitSession(p) => DailyInv'
    <3> SUFFICES ASSUME CommitSession(p) PROVE DailyInv'
      OBVIOUS
    <3>1. recorder[p].pc = "commit" /\ recorder'[p].pc = "idle"
      BY DEF CommitSession, Idle, DailyInv, UsageTypeOK
    <3>2. \A o \in Paths \ {p} : recorder'[o] = recorder[o]
      BY DEF CommitSession, DailyInv, UsageTypeOK
    <3> QED
      BY <3>1, <3>2, DailyFrame DEF CommitSession, Rows
  <2> QED
    BY <1>2, <2>1, <2>2, LookupDaily, EnrichDaily, InsertDaily, UpsertDailyDaily,
       FailDailyDaily, AbandonDaily DEF Record
<1>3. ASSUME NEW c \in Callers, Reprice(c) PROVE DailyInv'
  <2>1. Skip(c) => DailyInv'
    BY <1>1 DEF Skip
  <2>2. ASSUME NEW r \in RowIds, LoadUsage(c, r) PROVE DailyInv'
    BY <1>1, <2>2 DEF LoadUsage
  <2> QED
    BY <1>3, <2>1, <2>2, RecalculateDaily DEF Reprice
<1> QED
  BY <1>1, <1>2, <1>3 DEF Next, vars

\* usage_daily counts every usage row exactly once, whatever recordings,
\* merges, failures and recalculations interleave (upsert_daily_aggregate).
THEOREM DailyCounted == UsageSpec => []DailyCountsRows
<1>1. DailyInv => DailyCountsRows
  BY DEF DailyInv
<1> QED
  BY <1>1, InitDaily, DailyStep, UsageTypeCorrect, PTL DEF UsageSpec

-----------------------------------------------------------------------------
(* The costs in usage_daily. *)

\* A row that no overlap disturbed is recalculated by one caller at a time, who
\* knows its cost; and usage_daily holds that cost, but for what the path that
\* inserted the row is still to add.
CostFollows(r) ==
  /\ \A c, d \in Callers :
       /\ recalc[c] # None /\ recalc[c].row = r
       /\ recalc[d] # None /\ recalc[d].row = r
       => c = d
  /\ \A c \in Callers :
       recalc[c] # None /\ recalc[c].row = r => recalc[c].cost = usage[r].cost
  /\ \A p \in Paths :
       recorder[p].pc = "daily" /\ recorder[p].row = r =>
         daily.cost[r] + recorder[p].cost = usage[r].cost
  /\ daily.count[r] = 1 => daily.cost[r] = usage[r].cost

CostInv ==
  /\ \A r \in Rows \ raced.repriced : CostFollows(r)
  /\ \A r \in RowIds \ Rows : daily.cost[r] = 0

\* A step that leaves the costs, the pending rollups and the callers alone.
LEMMA CostFrame ==
  ASSUME CostInv, UNCHANGED <<daily, recalc>>, Rows' = Rows,
         \A r \in Rows : usage'[r].cost = usage[r].cost,
         raced.repriced \subseteq raced'.repriced,
         \A p \in Paths : recorder'[p].pc = "daily" => recorder'[p] = recorder[p]
  PROVE  CostInv'
<1>1. \A r \in Rows : CostFollows(r) => CostFollows(r)'
  BY DEF CostFollows
<1> QED
  BY <1>1 DEF CostInv

\* What a recorder leaves to do when the daily rollup is behind it.
LEMMA AfterDailyPoint ==
  ASSUME NEW t \in RecorderState, t.pc = "daily"
  PROVE  AfterDaily(t).pc # "daily"
BY DEF AfterDaily, Idle, RecorderState

LEMMA RecordCosts ==
  ASSUME DailyInv, CostInv, UsageTypeOK', NEW p \in Paths, Record(p),
         ~Insert(p), ~UpsertDaily(p)
  PROVE  CostInv'
<1>1. UNCHANGED <<daily, recalc>> /\ raced.repriced \subseteq raced'.repriced
  BY DEF Record, Lookup, Enrich, LoadSession, CommitSession, FailDaily, Abandon, tables,
         DailyInv, UsageTypeOK
<1>2. recorder[p] \in RecorderState
  BY DEF DailyInv, UsageTypeOK
<1>3. \A o \in Paths : recorder'[o].pc = "daily" => recorder'[o] = recorder[o]
  <2>1. \A o \in Paths \ {p} : recorder'[o] = recorder[o]
    BY DEF Record, Lookup, Enrich, LoadSession, CommitSession, FailDaily, Abandon,
           DailyInv, UsageTypeOK
  <2>2. recorder'[p].pc # "daily"
    <3>1. ASSUME NEW q \in Requests, Lookup(p, q) PROVE recorder'[p].pc # "daily"
      BY <3>1 DEF Lookup, Inserting, Enriching, DailyInv, UsageTypeOK
    <3>2. Enrich(p) => recorder'[p].pc # "daily"
      BY <1>2 DEF Enrich, Idle, DailyInv, UsageTypeOK, RecorderState
    <3>3. LoadSession(p) => recorder'[p].pc # "daily"
      BY <1>2 DEF LoadSession, DailyInv, UsageTypeOK, RecorderState
    <3>4. CommitSession(p) \/ Abandon(p) => recorder'[p].pc # "daily"
      BY DEF CommitSession, Abandon, Idle, DailyInv, UsageTypeOK
    <3>5. FailDaily(p) => recorder'[p].pc # "daily"
      BY <1>2, AfterDailyPoint DEF FailDaily, DailyInv, UsageTypeOK
    <3> QED
      BY <3>1, <3>2, <3>3, <3>4, <3>5 DEF Record
  <2> QED
    BY <2>1, <2>2
<1>4. /\ \A r \in Rows : usage'[r].cost = usage[r].cost
      /\ Rows' = Rows
  <2>1. CASE Enrich(p)
    <3> DEFINE k == recorder[p].row
               row == [usage[k] EXCEPT !.session = recorder[p].session]
    <3>1. k \in Rows /\ k \in RowIds /\ usage[k] \in UsageRow
          /\ recorder[p].session \in SessionIds \cup {None}
      BY <2>1, RecorderRow DEF Enrich, DailyInv
    <3>2. row.cost = usage[k].cost /\ row # None
      BY <3>1, UsageAssumption DEF UsageRow
    <3>3. usage' = usage \/ usage' = [usage EXCEPT ![k] = row]
      BY <2>1 DEF Enrich
    <3>4. usage[k] # None
      BY <3>1 DEF Rows
    <3> HIDE DEF row
    <3>5. \A r \in RowIds :
            usage'[r].cost = usage[r].cost /\ (usage'[r] # None <=> usage[r] # None)
      BY <3>1, <3>2, <3>3, <3>4 DEF DailyInv, UsageTypeOK
    <3> QED
      BY <3>5 DEF Rows
  <2>2. CASE ~Enrich(p)
    <3>1. UNCHANGED usage
      BY <2>2 DEF Record, Lookup, LoadSession, CommitSession, FailDaily, Abandon, tables
    <3> QED
      BY <3>1 DEF Rows
  <2> QED
    BY <2>1, <2>2
<1> QED
  BY <1>1, <1>3, <1>4, CostFrame

LEMMA InsertCosts ==
  ASSUME DailyInv, CostInv, UsageTypeOK', NEW p \in Paths, Insert(p)
  PROVE  CostInv'
<1> DEFINE k == CHOOSE f \in FreeRows : TRUE
<1>1. k \in RowIds /\ k \notin Rows
  BY FreshRow DEF Insert, FreeRows
<1>2. /\ recorder'[p].row = k /\ recorder'[p].cost = RecordCost
      /\ usage'[k].cost = RecordCost /\ RecordCost \in Int
      /\ \A r \in RowIds \ {k} : usage'[r] = usage[r]
      /\ \A o \in Paths \ {p} : recorder'[o] = recorder[o]
      /\ UNCHANGED <<daily, recalc, raced>>
  BY <1>1, UsageAssumption DEF Insert, DailyInv, UsageTypeOK, RecorderState
<1> HIDE DEF k
<1>3. Rows' \subseteq Rows \cup {k} /\ Rows \subseteq Rows'
  BY <1>1, <1>2 DEF Rows
<1>4. daily.cost[k] = 0 /\ daily.count[k] = 0
  BY <1>1 DEF CostInv, DailyInv, DailyCountsRows
<1>5. /\ \A c \in Callers : recalc[c] # None => recalc[c].row \in Rows
      /\ \A o \in Paths : recorder[o].pc = "daily" => recorder[o].row \in Rows
  BY RecorderRow DEF DailyInv, UsageTypeOK
<1>6. ASSUME NEW r \in Rows, CostFollows(r) PROVE CostFollows(r)'
  BY <1>1, <1>2, <1>6 DEF CostFollows, Rows
<1>7. ASSUME NEW r \in RowIds, r = k PROVE CostFollows(r)'
  BY <1>1, <1>2, <1>4, <1>5, <1>7 DEF CostFollows
<1>8. \A r \in RowIds \ Rows' : daily'.cost[r] = 0
  BY <1>2, <1>3 DEF CostInv
<1> QED
  BY <1>1, <1>2, <1>3, <1>6, <1>7, <1>8 DEF CostInv

LEMMA UpsertDailyCosts ==
  ASSUME DailyInv, CostInv, UsageTypeOK', NEW p \in Paths, UpsertDaily(p)
  PROVE  CostInv'
<1> DEFINE t == recorder[p]
<1>1. /\ t.pc = "daily" /\ t.row \in Rows /\ t.row \in RowIds /\ t.cost \in Int
      /\ t \in RecorderState
  BY RecorderRow DEF UpsertDaily, DailyInv, UsageTypeOK
<1>2. /\ recorder'[p].pc # "daily"
      /\ \A o \in Paths \ {p} : recorder'[o] = recorder[o]
      /\ UNCHANGED <<usage, recalc, raced>> /\ Rows' = Rows
  BY <1>1, AfterDailyPoint DEF UpsertDaily, DailyInv, UsageTypeOK, Rows
<1>3. /\ daily'.cost[t.row] = daily.cost[t.row] + t.cost
      /\ \A r \in RowIds \ {t.row} :
           daily'.cost[r] = daily.cost[r] /\ daily'.count[r] = daily.count[r]
  BY <1>1 DEF UpsertDaily, Counted, DailyInv, UsageTypeOK, Rollup
<1>4. \A o \in Paths : recorder'[o].pc = "daily" =>
        recorder'[o] = recorder[o] /\ recorder'[o].row # t.row
  BY <1>1, <1>2, OnePending DEF DailyInv
<1>5. ASSUME NEW r \in Rows, CostFollows(r) PROVE CostFollows(r)'
  <2>1. CASE r = t.row
    BY <1>1, <1>2, <1>3, <1>4, <1>5, <2>1 DEF CostFollows
  <2>2. CASE r # t.row
    BY <1>2, <1>3, <1>4, <1>5, <2>2 DEF CostFollows, Rows
  <2> QED
    BY <2>1, <2>2
<1> QED
  BY <1>1, <1>2, <1>3, <1>5 DEF CostInv

LEMMA LoadUsageCosts ==
  ASSUME DailyInv, CostInv, NEW c \in Callers, NEW k \in RowIds, LoadUsage(c, k)
  PROVE  CostInv'
<1>1. /\ recalc[c] = None /\ recalc'[c].row = k /\ recalc'[c].cost = usage[k].cost
      /\ \A d \in Callers \ {c} : recalc'[d] = recalc[d]
      /\ UNCHANGED <<usage, daily, recorder>> /\ Rows' = Rows
  BY DEF LoadUsage, DailyInv, UsageTypeOK, tables, Rows
<1>2. /\ raced.repriced \subseteq raced'.repriced
      /\ Recalculating(k) => k \in raced'.repriced
  BY DEF LoadUsage, DailyInv, UsageTypeOK
<1>3. ASSUME NEW r \in Rows \ raced'.repriced, CostFollows(r) PROVE CostFollows(r)'
  <2>1. CASE r = k
    <3>1. \A d \in Callers \ {c} : recalc[d] # None => recalc[d].row # k
      BY <1>2, <1>3, <2>1 DEF Recalculating
    <3> QED
      BY <1>1, <1>3, <2>1, <3>1 DEF CostFollows
  <2>2. CASE r # k
    BY <1>1, <1>3, <2>2 DEF CostFollows
  <2> QED
    BY <2>1, <2>2
<1> QED
  BY <1>1, <1>2, <1>3 DEF CostInv

LEMMA RecalculateCosts ==
  ASSUME DailyInv, CostInv, NEW c \in Callers, Recalculate(c)
  PROVE  CostInv'
<1> DEFINE t == recalc[c]
<1>1. /\ t # None /\ t.row \in Rows /\ t.row \in RowIds /\ usage[t.row] \in UsageRow
      /\ t.cost \in Int /\ \A n \in Costs : n \in Int /\ n - t.cost \in Int
  BY RecalculateData, CostsAreIntegers DEF Recalculate, DailyInv, UsageTypeOK, Loaded
<1>2. PICK n \in Costs :
        /\ daily' = Repriced(daily, t.row, n - t.cost)
        /\ usage' = IF n - t.cost # 0 THEN [usage EXCEPT ![t.row].cost = n] ELSE usage
  BY DEF Recalculate
<1>3. /\ recalc'[c] = None /\ \A d \in Callers \ {c} : recalc'[d] = recalc[d]
      /\ UNCHANGED recorder
      /\ raced.repriced \subseteq raced'.repriced
      /\ ~daily.exists => t.row \in raced'.repriced
  BY DEF Recalculate, DailyInv, UsageTypeOK
<1>4. Rows' = Rows
  <2>1. [usage[t.row] EXCEPT !.cost = n] # None
    BY <1>1, UsageAssumption DEF UsageRow
  <2> QED
    BY <1>1, <1>2, <2>1 DEF Rows, DailyInv, UsageTypeOK
<1>5. /\ n # t.cost => usage'[t.row].cost = n
      /\ n = t.cost => usage' = usage
      /\ \A r \in RowIds \ {t.row} : usage'[r] = usage[r]
  BY <1>1, <1>2 DEF DailyInv, UsageTypeOK, UsageRow
<1>6. /\ daily'.count = daily.count
      /\ \A r \in RowIds \ {t.row} : daily'.cost[r] = daily.cost[r]
      /\ daily.exists => daily'.cost[t.row] = daily.cost[t.row] + (n - t.cost)
  BY <1>1, <1>2 DEF Repriced, DailyInv, UsageTypeOK, Rollup
<1>7. daily.cost[t.row] \in Int
  BY <1>1 DEF DailyInv, UsageTypeOK, Rollup
<1>8. ASSUME NEW r \in Rows \ raced'.repriced, CostFollows(r) PROVE CostFollows(r)'
  <2>1. CASE r = t.row
    <3>1. daily.exists /\ t.cost = usage[r].cost
      BY <1>1, <1>3, <1>8, <2>1 DEF CostFollows
    <3>2. usage'[r].cost = n
      BY <1>5, <2>1, <3>1
    <3>3. \A d \in Callers : recalc'[d] # None => recalc'[d].row # r
      BY <1>1, <1>3, <1>8, <2>1 DEF CostFollows
    <3>4. \A p \in Paths : recorder[p].pc = "daily" => recorder[p].cost \in Int
      BY RecorderRow DEF DailyInv
    <3>5. \A p \in Paths : recorder[p].pc = "daily" /\ recorder[p].row = r =>
            daily'.cost[r] + recorder[p].cost = usage'[r].cost
      BY <1>1, <1>6, <1>7, <1>8, <2>1, <3>1, <3>2, <3>4 DEF CostFollows
    <3>6. daily'.count[r] = 1 => daily'.cost[r] = usage'[r].cost
      BY <1>1, <1>6, <1>7, <1>8, <2>1, <3>1, <3>2 DEF CostFollows
    <3> QED
      BY <1>3, <3>3, <3>5, <3>6 DEF CostFollows
  <2>2. CASE r # t.row
    <3>1. /\ usage'[r] = usage[r] /\ daily'.cost[r] = daily.cost[r]
          /\ daily'.count[r] = daily.count[r]
      BY <1>5, <1>6, <2>2 DEF Rows
    <3> QED
      BY <1>3, <1>8, <3>1 DEF CostFollows
  <2> QED
    BY <2>1, <2>2
<1> QED
  BY <1>1, <1>3, <1>4, <1>6, <1>8 DEF CostInv

LEMMA RowCostInv == UsageSpec => []CostInv
<1>1. Init => DailyInv /\ CostInv
  <2> SUFFICES ASSUME Init PROVE DailyInv /\ CostInv
    OBVIOUS
  <2>1. Rows = {} /\ \A r \in RowIds : daily.cost[r] = 0
    BY DEF Init, Rows, NoRollup
  <2> QED
    BY <2>1, InitDaily DEF CostInv
<1>2. DailyInv /\ CostInv /\ UsageTypeOK' /\ [Next]_vars => CostInv'
  <2> SUFFICES ASSUME DailyInv, CostInv, UsageTypeOK', [Next]_vars PROVE CostInv'
    OBVIOUS
  <2>1. CASE UNCHANGED vars
    BY <2>1, CostFrame DEF vars, tables, Rows
  <2>2. ASSUME NEW p \in Paths, Record(p) PROVE CostInv'
    BY <2>2, RecordCosts, InsertCosts, UpsertDailyCosts
  <2>3. ASSUME NEW c \in Callers, Reprice(c) PROVE CostInv'
    <3>1. ASSUME Skip(c) PROVE CostInv'
      <4>1. /\ recalc'[c] = None /\ \A d \in Callers \ {c} : recalc'[d] = recalc[d]
            /\ UNCHANGED <<usage, daily, recorder, raced>> /\ Rows' = Rows
        BY <3>1 DEF Skip, DailyInv, UsageTypeOK, tables, Rows
      <4>2. \A r \in Rows : CostFollows(r) => CostFollows(r)'
        BY <4>1 DEF CostFollows
      <4> QED
        BY <4>1, <4>2 DEF CostInv
    <3> QED
      BY <2>3, <3>1, LoadUsageCosts, RecalculateCosts DEF Reprice
  <2> QED
    BY <2>1, <2>2, <2>3 DEF Next
<1> QED
  BY <1>1, <1>2, DailyStep, UsageTypeCorrect, PTL DEF UsageSpec

\* usage_daily holds the cost that each row it counts has now, whatever
\* recordings and recalculations interleave, as long as two recalculations of
\* the row never overlapped and each found the row of usage_daily
\* (recalculate_usage_cost, upsert_daily_aggregate).
THEOREM DailyCostsFollow == UsageSpec => []DailyCostsFollowRows
<1>1. CostInv => DailyCostsFollowRows
  BY DEF CostInv, CostFollows, DailyCostsFollowRows
<1> QED
  BY <1>1, RowCostInv, PTL

-----------------------------------------------------------------------------
(* The rollup into the sessions. *)

\* The collector is to count this row in a session.
Carries(t, r) ==
  t.pc \in {"daily", "session", "commit"} /\ t.session # None /\ t.row = r

\* Only the collector's recordings have a session, so it is the only one that
\* counts rows there; what it carries is not counted yet, and the sums it loaded
\* are those of the table.
SessionInv ==
  /\ recorder["proxy"].session = None
  /\ \A r \in RowIds : CountedBy(r) # {} => r \in Rows /\ usage[r].session # None
  /\ \A r \in RowIds :
       Carries(recorder["otlp"], r) => CountedBy(r) = {} /\ usage[r].session # None
  /\ recorder["otlp"].pc = "commit" =>
       recorder["otlp"].sum.count = sessions[recorder["otlp"].session].count
  /\ SessionsCountOnce
  /\ \A r \in Rows \ missed.session :
       usage[r].session # None /\ ~Carries(recorder["otlp"], r) => CountedBy(r) # {}

LEMMA TwoPaths == \A p \in Paths : p = "proxy" \/ p = "otlp"
BY DEF Paths

\* A step that counts nothing and leaves the sessions of the rows alone, while
\* the collector carries the row it carried.
LEMMA SessionFrame ==
  ASSUME UsageTypeOK, SessionInv, UsageTypeOK',
         \A s \in SessionIds : sessions'[s].count = sessions[s].count,
         Rows' = Rows, \A r \in Rows : usage'[r].session = usage[r].session,
         missed.session \subseteq missed'.session,
         recorder'["proxy"].session = None,
         \A r \in RowIds : Carries(recorder["otlp"]', r) <=> Carries(recorder["otlp"], r),
         recorder'["otlp"].pc = "commit" =>
           recorder'["otlp"].sum.count = sessions[recorder'["otlp"].session].count
  PROVE  SessionInv'
<1>1. \A r \in RowIds : CountedBy(r)' = CountedBy(r)
  BY DEF CountedBy
<1>2. SessionsCountOnce'
  BY <1>1 DEF SessionInv, SessionsCountOnce
<1>3. \A r \in RowIds : Carries(recorder["otlp"], r) => r \in Rows
  BY RecorderRow DEF Carries, Paths
<1>4. recorder'["otlp"].pc = "commit" => recorder'["otlp"].session \in SessionIds
  BY DEF UsageTypeOK, Consistent, RecorderState, Paths
<1> QED
  BY <1>1, <1>2, <1>3, <1>4 DEF SessionInv, Rows

LEMMA LookupSession ==
  ASSUME UsageTypeOK, SessionInv, UsageTypeOK',
         NEW p \in Paths, NEW q \in Requests, Lookup(p, q)
  PROVE  SessionInv'
<1>1. /\ recorder[p].pc = "idle" /\ recorder'[p].pc \in {"insert", "enrich"}
      /\ recorder'[p].session = SessionSent(p, q)
      /\ \A o \in Paths \ {p} : recorder'[o] = recorder[o]
  BY DEF Lookup, Inserting, Enriching, UsageTypeOK
<1>2. UNCHANGED <<usage, sessions, missed>> /\ Rows' = Rows
  BY DEF Lookup, tables, Rows
<1>3. recorder'["proxy"].session = None
  BY <1>1 DEF SessionInv, SessionSent, Paths
<1>4. \A r \in RowIds : Carries(recorder["otlp"]', r) <=> Carries(recorder["otlp"], r)
  BY <1>1 DEF Carries, Paths
<1>5. recorder'["otlp"].pc = "commit" => recorder'["otlp"] = recorder["otlp"]
  BY <1>1 DEF Paths
<1> QED
  BY <1>2, <1>3, <1>4, <1>5, SessionFrame DEF SessionInv

LEMMA EnrichSession ==
  ASSUME UsageTypeOK, SessionInv, UsageTypeOK', NEW p \in Paths, Enrich(p)
  PROVE  SessionInv'
<1> DEFINE t == recorder[p]
           k == recorder[p].row
<1>1. /\ t.pc = "enrich" /\ k \in Rows /\ k \in RowIds /\ usage[k] \in UsageRow
      /\ t.session \in SessionIds \cup {None}
  BY RecorderRow DEF Enrich
<1>2. /\ UNCHANGED <<sessions, missed>>
      /\ \A o \in Paths \ {p} : recorder'[o] = recorder[o]
      /\ recorder'[p] \in {Idle, [t EXCEPT !.pc = "session"]}
  BY DEF Enrich, UsageTypeOK
<1>3. CASE t.session = None
  <2>1. usage' = usage /\ Rows' = Rows /\ recorder'[p] = Idle
    BY <1>3 DEF Enrich, Rows, UsageTypeOK
  <2>2. recorder'["proxy"].session = None
    BY <1>2, <2>1 DEF SessionInv, Idle, Paths
  <2>3. \A r \in RowIds : Carries(recorder["otlp"]', r) <=> Carries(recorder["otlp"], r)
    BY <1>1, <1>2, <2>1 DEF Carries, Idle, Paths
  <2>4. recorder'["otlp"].pc = "commit" => recorder'["otlp"] = recorder["otlp"]
    BY <1>2, <2>1 DEF Idle, Paths
  <2> QED
    BY <1>2, <2>1, <2>2, <2>3, <2>4, SessionFrame DEF SessionInv
<1>4. CASE t.session # None
  <2>1. p = "otlp"
    BY <1>4, TwoPaths DEF SessionInv
  <2>2. /\ usage'[k].session = t.session
        /\ \A r \in RowIds \ {k} : usage'[r] = usage[r]
    BY <1>1, <1>4 DEF Enrich, UsageTypeOK, UsageRow
  <2>3. Rows' = Rows
    <3>1. [usage[k] EXCEPT !.session = t.session] # None
      BY <1>1, UsageAssumption DEF UsageRow
    <3> QED
      BY <1>1, <1>4, <3>1 DEF Enrich, Rows, UsageTypeOK
  <2>4. \A r \in RowIds : CountedBy(r)' = CountedBy(r)
    BY <1>2 DEF CountedBy
  <2>5. recorder'["proxy"] = recorder["proxy"]
    BY <1>2, <2>1 DEF Paths
  <2>6. recorder'["otlp"].pc # "commit"
    BY <1>1, <1>2, <2>1 DEF Idle, UsageTypeOK, RecorderState
  <2>7. \A r \in RowIds :
          Carries(recorder["otlp"]', r) <=> r = k /\ usage[k].session = None
    <3>1. CASE usage[k].session = None
      <4>1. recorder'["otlp"] = [t EXCEPT !.pc = "session"]
        BY <1>4, <2>1, <3>1 DEF Enrich, UsageTypeOK
      <4> QED
        BY <1>4, <2>1, <3>1, <4>1 DEF Carries, UsageTypeOK, RecorderState
    <3>2. CASE usage[k].session # None
      <4>1. recorder'["otlp"] = Idle
        BY <1>4, <2>1, <3>2 DEF Enrich, UsageTypeOK
      <4> QED
        BY <3>2, <4>1 DEF Carries, Idle
    <3> QED
      BY <3>1, <3>2
  <2>8. \A r \in RowIds : ~Carries(recorder["otlp"], r)
    BY <1>1, <2>1 DEF Carries
  <2>9. SessionsCountOnce'
    BY <1>2, <2>4 DEF SessionInv, SessionsCountOnce
  <2>10. \A r \in RowIds : usage[r].session # None => usage'[r].session # None
    BY <1>4, <2>2
  <2> QED
    BY <1>2, <1>4, <2>2, <2>3, <2>4, <2>5, <2>6, <2>7, <2>8, <2>9, <2>10
       DEF SessionInv, Rows
<1> QED
  BY <1>3, <1>4

LEMMA InsertSession ==
  ASSUME UsageTypeOK, SessionInv, UsageTypeOK', NEW p \in Paths, Insert(p)
  PROVE  SessionInv'
<1> DEFINE k == CHOOSE f \in FreeRows : TRUE
<1>1. k \in RowIds /\ k \notin Rows
  BY FreshRow DEF Insert, FreeRows
<1>2. /\ recorder[p].pc = "insert" /\ recorder'[p].pc = "daily" /\ recorder'[p].row = k
      /\ recorder'[p].session = recorder[p].session
      /\ usage'[k].session = recorder[p].session
      /\ \A r \in RowIds \ {k} : usage'[r] = usage[r]
      /\ \A o \in Paths \ {p} : recorder'[o] = recorder[o]
      /\ UNCHANGED <<sessions, missed>>
  BY <1>1 DEF Insert, UsageTypeOK, RecorderState
<1> HIDE DEF k
<1>3. Rows' = Rows \cup {k}
  <2>1. recorder'[p].row \in Rows'
    BY <1>2, RecorderRow DEF UsageTypeOK, Consistent
  <2> QED
    BY <1>1, <1>2, <2>1 DEF Rows
<1>4. \A r \in RowIds : CountedBy(r)' = CountedBy(r)
  BY <1>2 DEF CountedBy
<1>5. CountedBy(k) = {}
  BY <1>1 DEF SessionInv
<1>6. SessionsCountOnce'
  BY <1>2, <1>4 DEF SessionInv, SessionsCountOnce
<1>7. \A r \in RowIds : Carries(recorder["otlp"], r) => r \in Rows
  BY RecorderRow DEF Carries, Paths
<1>8. CASE p = "proxy"
  <2>1. recorder'["proxy"].session = None /\ recorder'["otlp"] = recorder["otlp"]
    BY <1>2, <1>8 DEF SessionInv, Paths
  <2>2. usage'[k].session = None
    BY <1>2, <1>8 DEF SessionInv
  <2> QED
    BY <1>1, <1>2, <1>3, <1>4, <1>5, <1>6, <1>7, <2>1, <2>2 DEF SessionInv, Rows
<1>9. CASE p = "otlp"
  <2>1. recorder'["proxy"].session = None /\ recorder'["otlp"].pc = "daily"
    BY <1>2, <1>9 DEF SessionInv, Paths
  <2>2. \A r \in RowIds :
          /\ Carries(recorder["otlp"]', r) <=> r = k /\ usage'[k].session # None
          /\ ~Carries(recorder["otlp"], r)
    BY <1>2, <1>9 DEF Carries
  <2> QED
    BY <1>1, <1>2, <1>3, <1>4, <1>5, <1>6, <2>1, <2>2 DEF SessionInv, Rows
<1> QED
  BY <1>8, <1>9, TwoPaths

\* A recorder goes on from the daily rollup with the row it carries, if any.
LEMMA AfterDailyCarries ==
  ASSUME NEW t \in RecorderState, t.pc = "daily", NEW r \in RowIds
  PROVE  /\ Carries(AfterDaily(t), r) <=> Carries(t, r)
         /\ AfterDaily(t).pc # "commit"
         /\ t.session = None => AfterDaily(t).session = None
BY DEF AfterDaily, Carries, Idle, RecorderState

LEMMA DailyStepSession ==
  ASSUME UsageTypeOK, SessionInv, UsageTypeOK', NEW p \in Paths,
         recorder[p].pc = "daily",
         recorder' = [recorder EXCEPT ![p] = AfterDaily(recorder[p])],
         UNCHANGED <<usage, sessions>>, missed'.session = missed.session
  PROVE  SessionInv'
<1>1. recorder[p] \in RecorderState /\ recorder'[p] = AfterDaily(recorder[p])
  BY DEF UsageTypeOK
<1>2. \A o \in Paths \ {p} : recorder'[o] = recorder[o]
  BY DEF UsageTypeOK
<1>3. recorder'["proxy"].session = None
  <2>1. CASE p = "proxy"
    BY <1>1, <2>1 DEF SessionInv, AfterDaily, Idle
  <2>2. CASE p = "otlp"
    BY <1>2, <2>2 DEF SessionInv, Paths
  <2> QED
    BY <2>1, <2>2, TwoPaths
<1>4. \A r \in RowIds : Carries(recorder["otlp"]', r) <=> Carries(recorder["otlp"], r)
  BY <1>1, <1>2, AfterDailyCarries DEF Paths
<1>5. recorder'["otlp"].pc = "commit" => recorder'["otlp"] = recorder["otlp"]
  <2>1. recorder'[p].pc # "commit"
    BY <1>1 DEF AfterDaily, Idle, RecorderState
  <2> QED
    BY <1>2, <2>1 DEF Paths
<1> QED
  BY <1>3, <1>4, <1>5, SessionFrame DEF SessionInv, Rows

LEMMA LoadSessionSession ==
  ASSUME UsageTypeOK, SessionInv, UsageTypeOK', NEW p \in Paths, LoadSession(p)
  PROVE  SessionInv'
<1> DEFINE t == recorder[p]
<1>1. t.pc = "session" /\ t.session # None /\ t \in RecorderState
  BY DEF LoadSession, UsageTypeOK, Consistent
<1>2. p = "otlp"
  BY <1>1, TwoPaths DEF SessionInv
<1>3. /\ recorder'["otlp"] = [t EXCEPT !.pc = "commit", !.sum = sessions[t.session]]
      /\ recorder'["proxy"] = recorder["proxy"]
  BY <1>2 DEF LoadSession, UsageTypeOK, Paths
<1>4. \A r \in RowIds : Carries(recorder["otlp"]', r) <=> Carries(recorder["otlp"], r)
  BY <1>1, <1>2, <1>3 DEF Carries, RecorderState
<1>5. recorder'["otlp"].sum = sessions[recorder'["otlp"].session]
  BY <1>1, <1>3 DEF RecorderState
<1> QED
  BY <1>3, <1>4, <1>5, SessionFrame DEF LoadSession, SessionInv, tables, Rows

LEMMA CommitSessionSession ==
  ASSUME UsageTypeOK, SessionInv, UsageTypeOK', NEW p \in Paths, CommitSession(p)
  PROVE  SessionInv'
<1> DEFINE t == recorder[p]
           k == recorder[p].row
           s == recorder[p].session
<1>1. /\ t.pc = "commit" /\ s # None /\ t \in RecorderState
      /\ k \in Rows /\ k \in RowIds /\ s \in SessionIds
  BY RecorderRow DEF CommitSession, UsageTypeOK, Consistent
<1>2. p = "otlp"
  BY <1>1, TwoPaths DEF SessionInv
<1>3. Carries(recorder["otlp"], k) /\ \A r \in RowIds : Carries(recorder["otlp"], r) => r = k
  BY <1>1, <1>2 DEF Carries
<1>4. /\ recorder'["otlp"] = Idle /\ recorder'["proxy"] = recorder["proxy"]
      /\ UNCHANGED <<usage, missed>> /\ Rows' = Rows
  BY <1>2 DEF CommitSession, UsageTypeOK, Paths, Rows
<1>5. t.sum.count = sessions[s].count /\ sessions \in [SessionIds -> Rollup]
  BY <1>1, <1>2 DEF SessionInv, UsageTypeOK
<1>6. /\ \A r \in RowIds :
           sessions'[s].count[r] = IF r = k THEN sessions[s].count[k] + 1 ELSE sessions[s].count[r]
      /\ \A u \in SessionIds \ {s} : sessions'[u] = sessions[u]
  BY <1>1, <1>5 DEF CommitSession, Counted, Rollup
<1>7. CountedBy(k) = {} /\ usage[k].session # None
  BY <1>1, <1>3 DEF SessionInv
<1>8. \A u \in SessionIds, r \in RowIds : sessions[u].count[r] \in Nat
  BY DEF UsageTypeOK, Rollup
<1>9. \A u \in SessionIds : sessions[u].count[k] = 0
  BY <1>1, <1>7, <1>8 DEF CountedBy
<1>10. \A r \in RowIds : CountedBy(r)' = IF r = k THEN {s} ELSE CountedBy(r)
  <2>1. \A u \in SessionIds : sessions'[u].count[k] > 0 <=> u = s
    BY <1>1, <1>6, <1>9
  <2>2. ASSUME NEW r \in RowIds, r = k
        PROVE  CountedBy(r)' = {s}
    BY <1>1, <2>1, <2>2 DEF CountedBy
  <2>3. \A r \in RowIds \ {k} : CountedBy(r)' = CountedBy(r)
    BY <1>1, <1>6 DEF CountedBy
  <2> QED
    BY <2>2, <2>3
<1>11. \A r \in RowIds, u \in SessionIds : sessions'[u].count[r] <= 1
  BY <1>1, <1>6, <1>9 DEF SessionInv, SessionsCountOnce
<1>12. SessionsCountOnce'
  BY <1>10, <1>11 DEF SessionInv, SessionsCountOnce
<1>13. ~\E r \in RowIds : Carries(recorder["otlp"]', r)
  BY <1>4 DEF Carries, Idle
<1>14. recorder'["otlp"].pc # "commit"
  BY <1>4 DEF Idle
<1> QED
  BY <1>1, <1>3, <1>4, <1>7, <1>10, <1>12, <1>13, <1>14 DEF SessionInv, Rows

LEMMA AbandonSession ==
  ASSUME UsageTypeOK, SessionInv, UsageTypeOK', NEW p \in Paths, Abandon(p)
  PROVE  SessionInv'
<1>1. /\ recorder'[p] = Idle
      /\ \A o \in Paths \ {p} : recorder'[o] = recorder[o]
      /\ UNCHANGED <<usage, sessions>> /\ Rows' = Rows
  BY DEF Abandon, UsageTypeOK, tables, Rows
<1>2. /\ missed.session \subseteq missed'.session
      /\ recorder[p].pc \in {"daily", "session", "commit"} =>
           recorder[p].row \in missed'.session
  BY DEF Abandon
<1>3. recorder'["proxy"].session = None
  BY <1>1 DEF SessionInv, Idle, Paths
<1>4. CASE p = "proxy"
  <2>1. recorder'["otlp"] = recorder["otlp"]
    BY <1>1, <1>4 DEF Paths
  <2> QED
    BY <1>1, <1>2, <1>3, <2>1, SessionFrame DEF SessionInv
<1>5. CASE p = "otlp"
  <2>1. recorder'["otlp"] = Idle
    BY <1>1, <1>5
  <2>2. \A r \in RowIds : ~Carries(recorder["otlp"]', r)
    BY <2>1 DEF Carries, Idle
  <2>3. recorder'["otlp"].pc # "commit"
    BY <2>1 DEF Idle
  <2>4. \A r \in Rows : Carries(recorder["otlp"], r) => r \in missed'.session
    BY <1>2, <1>5 DEF Carries
  <2>5. \A r \in RowIds : CountedBy(r)' = CountedBy(r)
    BY <1>1 DEF CountedBy
  <2>6. SessionsCountOnce'
    BY <1>1, <2>5 DEF SessionInv, SessionsCountOnce
  <2> QED
    BY <1>1, <1>2, <1>3, <2>2, <2>3, <2>4, <2>5, <2>6 DEF SessionInv, Rows
<1> QED
  BY <1>4, <1>5, TwoPaths

LEMMA RecalculateSession ==
  ASSUME UsageTypeOK, SessionInv, UsageTypeOK', NEW c \in Callers, Recalculate(c)
  PROVE  SessionInv'
<1> DEFINE t == recalc[c]
<1>1. /\ t.row \in Rows /\ t.row \in RowIds /\ usage[t.row] \in UsageRow
      /\ t.session \in SessionIds \cup {None}
  BY RecalculateData DEF Recalculate
<1>2. PICK n \in Costs :
        /\ usage' \in {usage, [usage EXCEPT ![t.row].cost = n]}
        /\ sessions' \in {sessions, [sessions EXCEPT ![t.session] =
                                       Repriced(@, t.row, n - t.cost)]}
        /\ sessions' # sessions => t.session # None
  BY DEF Recalculate
<1>3. \A s \in SessionIds : sessions'[s].count = sessions[s].count
  <2>1. \A s \in SessionIds :
          Repriced(sessions[s], t.row, n - t.cost).count = sessions[s].count
    BY DEF Repriced, UsageTypeOK, Rollup
  <2> QED
    BY <1>1, <1>2, <2>1 DEF UsageTypeOK
<1>4. \A r \in Rows : usage'[r].session = usage[r].session
  BY <1>1, <1>2 DEF UsageTypeOK, UsageRow, Rows
<1>5. Rows' = Rows
  <2>1. [usage[t.row] EXCEPT !.cost = n] # None
    BY <1>1, UsageAssumption DEF UsageRow
  <2> QED
    BY <1>1, <1>2, <2>1 DEF Rows, UsageTypeOK
<1>6. UNCHANGED <<recorder, missed>>
  BY DEF Recalculate
<1> QED
  BY <1>3, <1>4, <1>5, <1>6, SessionFrame DEF SessionInv

LEMMA SessionCountInv == UsageSpec => []SessionInv
<1>1. Init => SessionInv
  <2> SUFFICES ASSUME Init PROVE SessionInv
    OBVIOUS
  <2>1. Rows = {} /\ \A p \in Paths : recorder[p] = Idle
    BY DEF Init, Rows
  <2>2. \A s \in SessionIds, r \in RowIds : sessions[s].count[r] = 0
    BY DEF Init, NoRollup
  <2>3. \A r \in RowIds : CountedBy(r) = {}
    BY <2>2 DEF CountedBy
  <2>4. recorder["proxy"] = Idle /\ recorder["otlp"] = Idle
    BY <2>1 DEF Paths
  <2> QED
    BY <2>1, <2>2, <2>3, <2>4 DEF SessionInv, SessionsCountOnce, Carries, Idle
<1>2. UsageTypeOK /\ SessionInv /\ UsageTypeOK' /\ [Next]_vars => SessionInv'
  <2> SUFFICES ASSUME UsageTypeOK, SessionInv, UsageTypeOK', [Next]_vars
               PROVE  SessionInv'
    OBVIOUS
  <2>1. ASSUME UNCHANGED <<tables, recorder, missed>> PROVE SessionInv'
    BY <2>1, SessionFrame DEF SessionInv, tables, Rows
  <2>2. ASSUME NEW p \in Paths, Record(p) PROVE SessionInv'
    <3>1. UpsertDaily(p) => SessionInv'
      BY DailyStepSession DEF UpsertDaily
    <3>2. FailDaily(p) => SessionInv'
      BY DailyStepSession DEF FailDaily, tables, UsageTypeOK
    <3> QED
      BY <2>2, <3>1, <3>2, LookupSession, EnrichSession, InsertSession,
         LoadSessionSession, CommitSessionSession, AbandonSession DEF Record
  <2>3. ASSUME NEW c \in Callers, Reprice(c) PROVE SessionInv'
    <3>1. Skip(c) => SessionInv'
      BY <2>1 DEF Skip
    <3>2. ASSUME NEW r \in RowIds, LoadUsage(c, r) PROVE SessionInv'
      BY <2>1, <3>2 DEF LoadUsage
    <3> QED
      BY <2>3, <3>1, <3>2, RecalculateSession DEF Reprice
  <2> QED
    BY <2>1, <2>2, <2>3 DEF Next, vars
<1> QED
  BY <1>1, <1>2, UsageTypeCorrect, PTL DEF UsageSpec

\* Every row is counted by at most one session, and by one if it has a session
\* and its rollup was neither given up nor is still to come, although a row gets
\* its session when it is inserted or from a merge, while its own rollups are
\* still under way (merge_duplicate_usage, upsert_session_from_usage).
THEOREM SessionsCounted == UsageSpec => [](SessionsCountOnce /\ SessionsCountRows)
<1>1. SessionInv => SessionsCountOnce /\ SessionsCountRows
  <2> SUFFICES ASSUME SessionInv PROVE SessionsCountRows
    BY DEF SessionInv
  <2>1. \A r \in RowIds : Carries(recorder["otlp"], r) => SessionPending(r)
    BY DEF Carries, SessionPending, Paths
  <2> QED
    BY <2>1 DEF SessionInv, SessionsCountRows, Rows
<1> QED
  BY <1>1, SessionCountInv, PTL

\* A set without two elements has at most one.
LEMMA SmallSet ==
  ASSUME NEW S, \A x, y \in S : x = y
  PROVE  Cardinality(S) <= 1
<1>1. CASE S = {}
  BY <1>1, FS_EmptySet
<1>2. CASE S # {}
  <2>1. PICK x \in S : TRUE
    BY <1>2
  <2>2. S = {x}
    BY <2>1
  <2> QED
    BY <2>2, FS_Singleton
<1> QED
  BY <1>1, <1>2

\* A merge changes the session of a row only.
LEMMA EnrichRows ==
  ASSUME UsageTypeOK, NEW p \in Paths, Enrich(p)
  PROVE  /\ Rows' = Rows
         /\ \A r \in Rows : /\ usage'[r].path = usage[r].path
                            /\ usage'[r].request = usage[r].request
                            /\ usage'[r].cost = usage[r].cost
<1> DEFINE k == recorder[p].row
           row == [usage[k] EXCEPT !.session = recorder[p].session]
<1>1. k \in Rows /\ k \in RowIds /\ usage[k] \in UsageRow
      /\ recorder[p].session \in SessionIds \cup {None}
  BY RecorderRow DEF Enrich
<1>2. /\ row.cost = usage[k].cost /\ row.path = usage[k].path
      /\ row.request = usage[k].request /\ row # None
  BY <1>1, UsageAssumption DEF UsageRow
<1>3. usage' = usage \/ usage' = [usage EXCEPT ![k] = row]
  BY DEF Enrich
<1>4. usage[k] # None
  BY <1>1 DEF Rows
<1> HIDE DEF row
<1> QED
  BY <1>1, <1>2, <1>3, <1>4 DEF UsageTypeOK, Rows

\* A recalculation changes the cost of its row only.
LEMMA RecalculateRows ==
  ASSUME UsageTypeOK, NEW c \in Callers, Recalculate(c)
  PROVE  /\ Rows' = Rows
         /\ \A r \in Rows : /\ usage'[r].path = usage[r].path
                            /\ usage'[r].request = usage[r].request
                            /\ usage'[r].session = usage[r].session
<1> DEFINE t == recalc[c]
<1>1. t.row \in Rows /\ t.row \in RowIds /\ usage[t.row] \in UsageRow
  BY RecalculateData DEF Recalculate
<1>2. PICK n \in Costs : usage' \in {usage, [usage EXCEPT ![t.row].cost = n]}
  BY DEF Recalculate
<1>3. \A r \in Rows : /\ usage'[r].path = usage[r].path
                      /\ usage'[r].request = usage[r].request
                      /\ usage'[r].session = usage[r].session
  BY <1>1, <1>2 DEF UsageTypeOK, UsageRow, Rows
<1>4. [usage[t.row] EXCEPT !.cost = n] # None
  BY <1>1, UsageAssumption DEF UsageRow
<1>5. Rows' = Rows
  BY <1>1, <1>2, <1>4 DEF Rows, UsageTypeOK
<1> QED
  BY <1>3, <1>5

\* The count of the sessions in the form it is checked by itself: no row with a
\* session is left out (upsert_session_from_usage).
THEOREM SessionsCountAll == UsageSpec => []SessionsCountRows
BY SessionsCounted, PTL

-----------------------------------------------------------------------------
(* One row per request. *)

\* A path has inserted a row for a request, or looked for the row of the other
\* path, found none, and is about to.
Wrote(p, q) ==
  \/ \E r \in Rows : usage[r].path = p /\ usage[r].request = q
  \/ recorder[p].pc = "insert" /\ recorder[p].request = q

\* A path writes a request once, because it is given it once; and the two paths
\* do not both write it, unless their lookups crossed.
RequestInv ==
  /\ \A p \in Paths, q \in Requests : Wrote(p, q) => q \in seen[p]
  /\ \A r, k \in Rows :
       usage[r].path = usage[k].path /\ usage[r].request = usage[k].request => r = k
  /\ \A p \in Paths, r \in Rows :
       recorder[p].pc = "insert" /\ usage[r].path = p =>
         usage[r].request # recorder[p].request
  /\ \A q \in Requests \ raced.requests : ~(Wrote("proxy", q) /\ Wrote("otlp", q))

\* A step that inserts no row and starts no insertion.
LEMMA RequestFrame ==
  ASSUME RequestInv, Rows' = Rows,
         \A r \in Rows : usage'[r].path = usage[r].path /\ usage'[r].request = usage[r].request,
         \A p \in Paths : seen[p] \subseteq seen'[p],
         \A p \in Paths : recorder'[p].pc = "insert" => recorder'[p] = recorder[p],
         raced.requests \subseteq raced'.requests
  PROVE  RequestInv'
<1>1. \A p \in Paths, q \in Requests : Wrote(p, q)' => Wrote(p, q)
  BY DEF Wrote
<1>2. "proxy" \in Paths /\ "otlp" \in Paths
  BY DEF Paths
<1> QED
  BY <1>1, <1>2 DEF RequestInv

LEMMA LookupRequests ==
  ASSUME UsageTypeOK, RequestInv, UsageTypeOK',
         NEW p \in Paths, NEW q \in Requests, Lookup(p, q)
  PROVE  RequestInv'
<1>1. /\ recorder[p].pc = "idle" /\ q \notin seen[p] /\ q \in seen'[p]
      /\ \A o \in Paths : seen[o] \subseteq seen'[o]
      /\ \A o \in Paths \ {p} : recorder'[o] = recorder[o]
      /\ UNCHANGED usage /\ Rows' = Rows
      /\ raced.requests \subseteq raced'.requests
  BY DEF Lookup, UsageTypeOK, tables, Rows
<1>2. CASE Duplicates(p, q) # {}
  <2>1. recorder'[p].pc = "enrich"
    BY <1>2 DEF Lookup, Enriching, UsageTypeOK
  <2> QED
    BY <1>1, <2>1, RequestFrame
<1>3. CASE Duplicates(p, q) = {}
  <2>1. /\ recorder'[p].pc = "insert" /\ recorder'[p].request = q
        /\ recorder[Other(p)].pc = "insert" /\ recorder[Other(p)].request = q =>
             q \in raced'.requests
    BY <1>3 DEF Lookup, Inserting, UsageTypeOK
  <2>2. \A o \in Paths, k \in Requests :
          Wrote(o, k)' <=> Wrote(o, k) \/ (o = p /\ k = q)
    BY <1>1, <2>1 DEF Wrote
  <2>3. \A r \in Rows : usage[r].path = p => usage[r].request # q
    BY <1>1 DEF RequestInv, Wrote
  <2>4. Wrote(Other(p), q) => q \in raced'.requests
    <3>1. ~\E r \in Rows : usage[r].path = Other(p) /\ usage[r].request = q
      BY <1>3 DEF Duplicates
    <3> QED
      BY <2>1, <3>1 DEF Wrote
  <2>5. /\ p = "proxy" => Other(p) = "otlp"
        /\ p = "otlp" => Other(p) = "proxy"
        /\ "proxy" \in Paths /\ "otlp" \in Paths
    BY DEF Other, Paths
  <2>6. \A k \in Requests \ raced'.requests : ~(Wrote("proxy", k)' /\ Wrote("otlp", k)')
    BY <1>1, <2>2, <2>4, <2>5, TwoPaths DEF RequestInv
  <2>7. \A o \in Paths, k \in Requests : Wrote(o, k)' => k \in seen'[o]
    BY <1>1, <2>2 DEF RequestInv
  <2>8. \A o \in Paths, r \in Rows' :
          recorder'[o].pc = "insert" /\ usage'[r].path = o =>
            usage'[r].request # recorder'[o].request
    BY <1>1, <2>1, <2>3 DEF RequestInv
  <2> QED
    BY <1>1, <2>6, <2>7, <2>8 DEF RequestInv
<1> QED
  BY <1>2, <1>3

LEMMA InsertRequests ==
  ASSUME UsageTypeOK, RequestInv, UsageTypeOK', NEW p \in Paths, Insert(p)
  PROVE  RequestInv'
<1> DEFINE k == CHOOSE f \in FreeRows : TRUE
<1>1. k \in RowIds /\ k \notin Rows
  BY FreshRow DEF Insert, FreeRows
<1>2. /\ recorder[p].pc = "insert" /\ recorder'[p].pc = "daily" /\ recorder'[p].row = k
      /\ usage'[k].path = p /\ usage'[k].request = recorder[p].request
      /\ \A r \in RowIds \ {k} : usage'[r] = usage[r]
      /\ \A o \in Paths \ {p} : recorder'[o] = recorder[o]
      /\ UNCHANGED <<seen, raced>>
  BY <1>1 DEF Insert, UsageTypeOK, RecorderState
<1> HIDE DEF k
<1>3. Rows' = Rows \cup {k}
  <2>1. recorder'[p].row \in Rows'
    BY <1>2, RecorderRow DEF UsageTypeOK, Consistent
  <2> QED
    BY <1>1, <1>2, <2>1 DEF Rows
<1>4. \A r \in Rows : usage'[r] = usage[r]
  BY <1>1, <1>2 DEF Rows
<1>5. \A o \in Paths, q \in Requests : Wrote(o, q)' <=> Wrote(o, q)
  BY <1>2, <1>3, <1>4 DEF Wrote
<1>6. \A r, j \in Rows' :
        usage'[r].path = usage'[j].path /\ usage'[r].request = usage'[j].request => r = j
  BY <1>2, <1>3, <1>4 DEF RequestInv
<1>7. \A o \in Paths, r \in Rows' :
        recorder'[o].pc = "insert" /\ usage'[r].path = o =>
          usage'[r].request # recorder'[o].request
  BY <1>2, <1>3, <1>4 DEF RequestInv
<1>8. "proxy" \in Paths /\ "otlp" \in Paths
  BY DEF Paths
<1> QED
  BY <1>2, <1>5, <1>6, <1>7, <1>8 DEF RequestInv

LEMMA RecalculateRequests ==
  ASSUME UsageTypeOK, RequestInv, UsageTypeOK', NEW c \in Callers, Recalculate(c)
  PROVE  RequestInv'
<1>1. UNCHANGED <<recorder, seen>> /\ raced.requests \subseteq raced'.requests
  BY DEF Recalculate, UsageTypeOK
<1> QED
  BY <1>1, RecalculateRows, RequestFrame

\* The steps of a recorder that insert nothing.
LEMMA RecordRequests ==
  ASSUME UsageTypeOK, RequestInv, UsageTypeOK', NEW p \in Paths,
         \/ Enrich(p) \/ UpsertDaily(p) \/ LoadSession(p) \/ CommitSession(p)
         \/ FailDaily(p) \/ Abandon(p)
  PROVE  RequestInv'
<1>1. recorder[p] \in RecorderState
  BY DEF UsageTypeOK
<1>2. recorder'[p].pc # "insert" /\ \A o \in Paths \ {p} : recorder'[o] = recorder[o]
  <2>1. CASE Enrich(p)
    BY <1>1, <2>1 DEF Enrich, Idle, UsageTypeOK, RecorderState
  <2>2. CASE UpsertDaily(p) \/ FailDaily(p)
    BY <1>1, <2>2 DEF UpsertDaily, FailDaily, AfterDaily, Idle, UsageTypeOK, RecorderState
  <2>3. CASE LoadSession(p)
    BY <1>1, <2>3 DEF LoadSession, UsageTypeOK, RecorderState
  <2>4. CASE CommitSession(p) \/ Abandon(p)
    BY <2>4 DEF CommitSession, Abandon, Idle, UsageTypeOK
  <2> QED
    BY <2>1, <2>2, <2>3, <2>4
<1>3. UNCHANGED seen /\ raced.requests \subseteq raced'.requests
  BY DEF Enrich, UpsertDaily, FailDaily, LoadSession, CommitSession, Abandon, UsageTypeOK
<1>4. /\ Rows' = Rows
      /\ \A r \in Rows : usage'[r].path = usage[r].path /\ usage'[r].request = usage[r].request
  <2>1. CASE Enrich(p)
    BY <2>1, EnrichRows
  <2>2. CASE ~Enrich(p)
    BY <2>2 DEF UpsertDaily, FailDaily, LoadSession, CommitSession, Abandon, tables, Rows
  <2> QED
    BY <2>1, <2>2
<1> QED
  BY <1>2, <1>3, <1>4, RequestFrame

LEMMA RequestStep == UsageTypeOK /\ RequestInv /\ UsageTypeOK' /\ [Next]_vars => RequestInv'
<1> SUFFICES ASSUME UsageTypeOK, RequestInv, UsageTypeOK', [Next]_vars PROVE RequestInv'
  OBVIOUS
<1>1. ASSUME UNCHANGED <<tables, recorder, seen>>, raced.requests \subseteq raced'.requests
      PROVE  RequestInv'
  BY <1>1, RequestFrame DEF tables, Rows
<1>2. CASE UNCHANGED vars
  BY <1>1, <1>2 DEF vars
<1>3. ASSUME NEW p \in Paths, Record(p) PROVE RequestInv'
  BY <1>3, LookupRequests, InsertRequests, RecordRequests DEF Record
<1>4. ASSUME NEW c \in Callers, Reprice(c) PROVE RequestInv'
  <2>1. Skip(c) => RequestInv'
    BY <1>1 DEF Skip
  <2>2. ASSUME NEW r \in RowIds, LoadUsage(c, r) PROVE RequestInv'
    BY <1>1, <2>2 DEF LoadUsage, UsageTypeOK
  <2> QED
    BY <1>4, <2>1, <2>2, RecalculateRequests DEF Reprice
<1> QED
  BY <1>2, <1>3, <1>4 DEF Next

\* A request that both paths report, in either order and at once, has one row,
\* unless both looked for the row of the other before either was inserted
\* (record_usage, merge_duplicate_usage).
THEOREM RequestsHaveOneRow == UsageSpec => []OneRowPerRequest
<1>1. Init => RequestInv
  <2> SUFFICES ASSUME Init PROVE RequestInv
    OBVIOUS
  <2>1. Rows = {} /\ \A p \in Paths : recorder[p].pc = "idle"
    BY DEF Init, Rows, Idle
  <2> QED
    BY <2>1 DEF RequestInv, Wrote, Paths
<1>2. UsageTypeOK /\ RequestInv => OneRowPerRequest
  <2> SUFFICES ASSUME UsageTypeOK, RequestInv, NEW q \in Requests \ raced.requests
               PROVE  Cardinality({r \in Rows : usage[r].request = q}) <= 1
    BY DEF OneRowPerRequest
  <2> DEFINE S == {r \in Rows : usage[r].request = q}
  <2>1. \A r, k \in S : r = k
    <3> SUFFICES ASSUME NEW r \in S, NEW k \in S PROVE r = k
      OBVIOUS
    <3>1. usage[r] \in UsageRow /\ usage[k] \in UsageRow
      BY DEF UsageTypeOK, Rows
    <3>2. /\ usage[r].path \in {"proxy", "otlp"} /\ usage[k].path \in {"proxy", "otlp"}
          /\ Wrote(usage[r].path, q) /\ Wrote(usage[k].path, q)
      BY <3>1 DEF UsageRow, Paths, Wrote
    <3>3. usage[r].path = usage[k].path
      BY <3>2 DEF RequestInv
    <3> QED
      BY <3>3 DEF RequestInv
  <2> QED
    BY <2>1, SmallSet
<1> QED
  BY <1>1, <1>2, RequestStep, UsageTypeCorrect, PTL DEF UsageSpec

-----------------------------------------------------------------------------
(* The costs in the sessions. *)

\* The session of a row is the one telemetry named for a request of its shape;
\* the collector carries it with the row.
TelemetryInv ==
  /\ \A r \in Rows : usage[r].session # None =>
       \E q \in SameShape(usage[r].request) : agentSession[q] = usage[r].session
  /\ \A p \in Paths : recorder[p].pc \in {"insert", "enrich"} =>
        recorder[p].session = SessionSent(p, recorder[p].request)
  /\ \A p \in Paths : recorder[p].pc = "enrich" =>
        recorder[p].request \in SameShape(usage[recorder[p].row].request)
  /\ \A r \in Rows : Carries(recorder["otlp"], r) =>
        usage[r].session = recorder["otlp"].session

LEMMA TelemetryNext ==
  ASSUME UNCHANGED world,
         \A r \in Rows' : usage'[r].session # None =>
           \E q \in SameShape(usage'[r].request) : agentSession[q] = usage'[r].session,
         \A p \in Paths : recorder'[p].pc \in {"insert", "enrich"} =>
           recorder'[p].session = SessionSent(p, recorder'[p].request),
         \A p \in Paths : recorder'[p].pc = "enrich" =>
           recorder'[p].request \in SameShape(usage'[recorder'[p].row].request),
         \A r \in Rows' : Carries(recorder["otlp"]', r) =>
           usage'[r].session = recorder'["otlp"].session
  PROVE  TelemetryInv'
BY DEF TelemetryInv, SameShape, SessionSent, world

LEMMA TelemetryFrame ==
  ASSUME UsageTypeOK, TelemetryInv, UNCHANGED world, Rows' = Rows,
         \A r \in Rows : /\ usage'[r].request = usage[r].request
                         /\ usage'[r].session = usage[r].session,
         \A p \in Paths : recorder'[p].pc \in {"insert", "enrich"} =>
            recorder'[p] = recorder[p],
         \A r \in Rows : Carries(recorder["otlp"]', r) =>
            /\ Carries(recorder["otlp"], r)
            /\ recorder'["otlp"].session = recorder["otlp"].session
  PROVE  TelemetryInv'
<1>1. \A p \in Paths : recorder[p].pc = "enrich" => recorder[p].row \in Rows
  BY RecorderRow
<1>2. \A p \in Paths : recorder'[p].pc \in {"insert", "enrich"} =>
        recorder'[p].session = SessionSent(p, recorder'[p].request)
  BY DEF TelemetryInv
<1>3. \A p \in Paths : recorder'[p].pc = "enrich" =>
        recorder'[p].request \in SameShape(usage'[recorder'[p].row].request)
  BY <1>1 DEF TelemetryInv
<1>4. \A r \in Rows' : usage'[r].session # None =>
        \E q \in SameShape(usage'[r].request) : agentSession[q] = usage'[r].session
  BY DEF TelemetryInv
<1>5. \A r \in Rows' : Carries(recorder["otlp"]', r) =>
        usage'[r].session = recorder'["otlp"].session
  BY DEF TelemetryInv
<1> QED
  BY <1>2, <1>3, <1>4, <1>5, TelemetryNext

LEMMA LookupTelemetry ==
  ASSUME UsageTypeOK, TelemetryInv, UsageTypeOK',
         NEW p \in Paths, NEW q \in Requests, Lookup(p, q)
  PROVE  TelemetryInv'
<1>1. /\ \A o \in Paths \ {p} : recorder'[o] = recorder[o]
      /\ recorder'[p].pc \in {"insert", "enrich"}
      /\ recorder'[p].request = q /\ recorder'[p].session = SessionSent(p, q)
      /\ UNCHANGED <<world, usage>> /\ Rows' = Rows
  BY DEF Lookup, Inserting, Enriching, UsageTypeOK, tables, Rows
<1>2. recorder'[p].pc = "enrich" => q \in SameShape(usage[recorder'[p].row].request)
  <2>1. CASE Duplicates(p, q) = {}
    BY <2>1 DEF Lookup, Inserting, UsageTypeOK
  <2>2. CASE Duplicates(p, q) # {}
    BY <2>2 DEF Lookup, Enriching, UsageTypeOK, Duplicates, SameShape
  <2> QED
    BY <2>1, <2>2
<1>5. \A r \in Rows : Carries(recorder["otlp"]', r) =>
         /\ Carries(recorder["otlp"], r)
         /\ recorder'["otlp"].session = recorder["otlp"].session
  BY <1>1 DEF Carries, Paths
<1>9. \A r \in Rows' : Carries(recorder["otlp"]', r) =>
        usage'[r].session = recorder'["otlp"].session
  BY <1>1, <1>5 DEF TelemetryInv
<1>6. \A o \in Paths : recorder'[o].pc \in {"insert", "enrich"} =>
        recorder'[o].session = SessionSent(o, recorder'[o].request)
  BY <1>1 DEF TelemetryInv
<1>7. \A o \in Paths : recorder'[o].pc = "enrich" =>
        recorder'[o].request \in SameShape(usage'[recorder'[o].row].request)
  BY <1>1, <1>2 DEF TelemetryInv
<1>8. \A r \in Rows' : usage'[r].session # None =>
        \E k \in SameShape(usage'[r].request) : agentSession[k] = usage'[r].session
  BY <1>1 DEF TelemetryInv
<1> QED
  BY <1>1, <1>6, <1>7, <1>8, <1>9, TelemetryNext

LEMMA EnrichTelemetry ==
  ASSUME UsageTypeOK, SessionInv, TelemetryInv, UsageTypeOK', NEW p \in Paths, Enrich(p)
  PROVE  TelemetryInv'
<1> DEFINE t == recorder[p]
           k == recorder[p].row
<1>1. /\ t.pc = "enrich" /\ t \in RecorderState /\ k \in Rows /\ k \in RowIds
      /\ usage[k] \in UsageRow /\ t.session \in SessionIds \cup {None}
  BY RecorderRow DEF Enrich, UsageTypeOK
<1>2. /\ \A o \in Paths \ {p} : recorder'[o] = recorder[o]
      /\ recorder'[p] \in {Idle, [t EXCEPT !.pc = "session"]}
      /\ UNCHANGED world
  BY DEF Enrich, UsageTypeOK
<1>3. /\ Rows' = Rows
      /\ \A r \in Rows : usage'[r].path = usage[r].path /\ usage'[r].request = usage[r].request
  BY EnrichRows
<1>4. CASE t.session = None
  <2>1. usage' = usage /\ recorder'[p] = Idle
    BY <1>4 DEF Enrich, UsageTypeOK
  <2>2. recorder'[p].pc \notin {"insert", "enrich"}
    BY <2>1 DEF Idle
  <2>3. \A r \in Rows : Carries(recorder["otlp"]', r) =>
         /\ Carries(recorder["otlp"], r)
         /\ recorder'["otlp"].session = recorder["otlp"].session
    BY <1>2, <2>1 DEF Carries, Idle, Paths
  <2>4. \A o \in Paths : recorder'[o].pc \in {"insert", "enrich"} => recorder'[o] = recorder[o]
    BY <1>2, <2>2
  <2> QED
    BY <1>2, <1>3, <2>1, <2>3, <2>4, TelemetryFrame
<1>5. CASE t.session # None
  <2>1. p = "otlp"
    BY <1>5, TwoPaths DEF SessionInv
  <2>2. /\ usage'[k].session = t.session
        /\ \A r \in RowIds \ {k} : usage'[r] = usage[r]
    BY <1>1, <1>5 DEF Enrich, UsageTypeOK, UsageRow
  <2>3. /\ recorder'["proxy"] = recorder["proxy"]
        /\ recorder'["otlp"].pc \notin {"insert", "enrich"}
        /\ \A r \in Rows : Carries(recorder["otlp"]', r) =>
             r = k /\ recorder'["otlp"].session = t.session
    BY <1>1, <1>2, <2>1 DEF Idle, RecorderState, Carries, Paths
  <2>6. t.request \in SameShape(usage[k].request) /\ agentSession[t.request] = t.session
    BY <1>1, <2>1 DEF TelemetryInv, SessionSent
  <2>7. \A r \in Rows' : usage'[r].session # None =>
          \E q \in SameShape(usage'[r].request) : agentSession[q] = usage'[r].session
    <3> SUFFICES ASSUME NEW r \in Rows, usage'[r].session # None
                 PROVE  \E q \in SameShape(usage[r].request) :
                          agentSession[q] = usage'[r].session
      BY <1>3
    <3> QED
      BY <1>1, <2>2, <2>6 DEF TelemetryInv, Rows
  <2>8. recorder["proxy"].pc = "enrich" => recorder["proxy"].row \in Rows
    BY RecorderRow DEF Paths
  <2>9. \A o \in Paths : recorder'[o].pc \in {"insert", "enrich"} =>
          recorder'[o].session = SessionSent(o, recorder'[o].request)
    BY <2>3, TwoPaths DEF TelemetryInv
  <2>10. \A o \in Paths : recorder'[o].pc = "enrich" =>
           recorder'[o].request \in SameShape(usage'[recorder'[o].row].request)
    BY <1>3, <2>3, <2>8, TwoPaths DEF TelemetryInv
  <2> QED
    BY <1>2, <1>3, <2>2, <2>3, <2>7, <2>9, <2>10, TelemetryNext
<1> QED
  BY <1>4, <1>5

LEMMA InsertTelemetry ==
  ASSUME UsageTypeOK, TelemetryInv, UsageTypeOK', NEW p \in Paths, Insert(p)
  PROVE  TelemetryInv'
<1> DEFINE k == CHOOSE f \in FreeRows : TRUE
           t == recorder[p]
<1>1. k \in RowIds /\ k \notin Rows
  BY FreshRow DEF Insert, FreeRows
<1>2. /\ t.pc = "insert" /\ recorder'[p].pc = "daily" /\ recorder'[p].row = k
      /\ recorder'[p].session = t.session
      /\ usage'[k].request = t.request /\ usage'[k].session = t.session
      /\ \A r \in RowIds \ {k} : usage'[r] = usage[r]
      /\ \A o \in Paths \ {p} : recorder'[o] = recorder[o]
      /\ UNCHANGED world
  BY <1>1 DEF Insert, UsageTypeOK, RecorderState
<1> HIDE DEF k
<1>3. Rows' = Rows \cup {k}
  <2>1. recorder'[p].row \in Rows'
    BY <1>2, RecorderRow DEF UsageTypeOK, Consistent
  <2> QED
    BY <1>1, <1>2, <2>1 DEF Rows
<1>4. \A r \in Rows : usage'[r] = usage[r] /\ r # k
  BY <1>1, <1>2 DEF Rows
<1>7. t.request \in Requests /\ t.request \in SameShape(t.request)
  BY <1>2 DEF UsageTypeOK, RecorderState, Consistent, SameShape
<1>8. t.session # None => agentSession[t.request] = t.session
  BY <1>2 DEF TelemetryInv, SessionSent
<1>9. \A r \in Rows' : usage'[r].session # None =>
        \E q \in SameShape(usage'[r].request) : agentSession[q] = usage'[r].session
  BY <1>2, <1>3, <1>4, <1>7, <1>8 DEF TelemetryInv
<1>10. \A o \in Paths : recorder[o].pc = "enrich" => recorder[o].row \in Rows
  BY RecorderRow
<1>11. \A o \in Paths : recorder'[o].pc \in {"insert", "enrich"} =>
        recorder'[o].session = SessionSent(o, recorder'[o].request)
  BY <1>2 DEF TelemetryInv
<1>12. \A o \in Paths : recorder'[o].pc = "enrich" =>
         recorder'[o].request \in SameShape(usage'[recorder'[o].row].request)
  BY <1>2, <1>4, <1>10 DEF TelemetryInv
<1>13. Carries(recorder["otlp"], k) => k \in Rows
  BY RecorderRow DEF Carries, Paths
<1>14. \A r \in Rows' : Carries(recorder["otlp"]', r) =>
         usage'[r].session = recorder'["otlp"].session
  <2>1. CASE p = "otlp"
    BY <1>2, <2>1 DEF Carries
  <2>2. CASE p # "otlp"
    <3>1. recorder'["otlp"] = recorder["otlp"]
      BY <1>2, <2>2 DEF Paths
    <3> QED
      BY <1>1, <1>3, <1>4, <1>13, <3>1 DEF TelemetryInv
  <2> QED
    BY <2>1, <2>2
<1> QED
  BY <1>2, <1>9, <1>11, <1>12, <1>14, TelemetryNext

\* What the steps of a recorder after its insertion or merge leave of it.
LEMMA RollupPoint ==
  ASSUME UsageTypeOK, NEW p \in Paths,
         \/ UpsertDaily(p) \/ LoadSession(p) \/ CommitSession(p) \/ FailDaily(p)
         \/ Abandon(p)
  PROVE  /\ recorder'[p].pc \notin {"insert", "enrich", "daily"}
         /\ \A r \in RowIds : Carries(recorder[p]', r) => Carries(recorder[p], r)
         /\ \/ recorder'[p] = Idle
            \/ /\ recorder'[p].row = recorder[p].row
               /\ recorder'[p].cost = recorder[p].cost
               /\ recorder'[p].session = recorder[p].session
               /\ recorder[p].pc # "idle"
         /\ recorder'[p].pc = "commit" => LoadSession(p)
         /\ \A o \in Paths \ {p} : recorder'[o] = recorder[o]
         /\ UNCHANGED <<world, usage>> /\ Rows' = Rows
<1>1. recorder[p] \in RecorderState
  BY DEF UsageTypeOK
<1>2. UNCHANGED <<world, usage>> /\ Rows' = Rows
  BY DEF UpsertDaily, LoadSession, CommitSession, FailDaily, Abandon, tables, Rows
<1>3. CASE UpsertDaily(p) \/ FailDaily(p)
  <2>1. /\ recorder[p].pc = "daily" /\ recorder'[p] = AfterDaily(recorder[p])
        /\ \A o \in Paths \ {p} : recorder'[o] = recorder[o]
    BY <1>3 DEF UpsertDaily, FailDaily, UsageTypeOK
  <2> QED
    BY <1>1, <1>2, <2>1 DEF AfterDaily, Idle, Carries, RecorderState
<1>4. CASE LoadSession(p)
  BY <1>1, <1>2, <1>4 DEF LoadSession, UsageTypeOK, Carries, RecorderState
<1>5. CASE CommitSession(p) \/ Abandon(p)
  BY <1>2, <1>5 DEF CommitSession, Abandon, Idle, Carries, UsageTypeOK
<1> QED
  BY <1>3, <1>4, <1>5

LEMMA TelemetryStep ==
  UsageTypeOK /\ SessionInv /\ TelemetryInv /\ UsageTypeOK' /\ [Next]_vars => TelemetryInv'
<1> SUFFICES ASSUME UsageTypeOK, SessionInv, TelemetryInv, UsageTypeOK', [Next]_vars
             PROVE  TelemetryInv'
  OBVIOUS
<1>1. CASE UNCHANGED vars
  BY <1>1, TelemetryFrame DEF vars, tables, Rows
<1>2. ASSUME NEW p \in Paths, Record(p) PROVE TelemetryInv'
  <2>1. ASSUME \/ UpsertDaily(p) \/ LoadSession(p) \/ CommitSession(p) \/ FailDaily(p)
               \/ Abandon(p)
        PROVE  TelemetryInv'
    <3>1. \A o \in Paths : recorder'[o].pc \in {"insert", "enrich"} =>
            recorder'[o] = recorder[o]
      BY <2>1, RollupPoint
    <3>2. \A r \in Rows : Carries(recorder["otlp"]', r) =>
            /\ Carries(recorder["otlp"], r)
            /\ recorder'["otlp"].session = recorder["otlp"].session
      <4>1. CASE p = "otlp"
        BY <2>1, <4>1, RollupPoint DEF Carries, Idle, Rows
      <4>2. CASE p # "otlp"
        BY <2>1, <4>2, RollupPoint DEF Paths
      <4> QED
        BY <4>1, <4>2
    <3> QED
      BY <2>1, <3>1, <3>2, RollupPoint, TelemetryFrame
  <2> QED
    BY <1>2, <2>1, LookupTelemetry, EnrichTelemetry, InsertTelemetry DEF Record
<1>3. ASSUME NEW c \in Callers, Reprice(c) PROVE TelemetryInv'
  <2>1. /\ UNCHANGED <<world, recorder>> /\ Rows' = Rows
        /\ \A r \in Rows : /\ usage'[r].request = usage[r].request
                           /\ usage'[r].session = usage[r].session
    <3>1. CASE Recalculate(c)
      BY <3>1, RecalculateRows DEF Recalculate
    <3>2. CASE ~Recalculate(c)
      BY <1>3, <3>2 DEF Reprice, LoadUsage, Skip, tables, Rows
    <3> QED
      BY <3>1, <3>2
  <2> QED
    BY <2>1, TelemetryFrame
<1> QED
  BY <1>1, <1>2, <1>3 DEF Next

\* Telemetry names one session only for the requests of the shape of a row.
Agreed(r, s) == \A q \in SameShape(usage[r].request) : agentSession[q] = s

LEMMA AgreedNext ==
  ASSUME NEW r, NEW s, UNCHANGED world, usage'[r].request = usage[r].request
  PROVE  Agreed(r, s)' <=> Agreed(r, s)
BY DEF Agreed, SameShape, world

LEMMA AgreedSession ==
  ASSUME TelemetryInv, NEW r \in Rows, NEW s, Agreed(r, s), usage[r].session # None
  PROVE  usage[r].session = s
BY DEF TelemetryInv, Agreed

\* A row that no overlap disturbed is not recorded and recalculated at once; a
\* caller knows its session, whose sums nobody holds, and a recorder its cost;
\* and as long as it is not counted, no session holds a cost of it.
Undisturbed(r) ==
  /\ ~(Recalculating(r) /\ Recording(r))
  /\ \A c \in Callers : recalc[c] # None /\ recalc[c].row = r =>
        recalc[c].session = usage[r].session /\ ~Holding(usage[r].session)
  /\ \A p \in Paths : recorder[p].row = r => recorder[p].cost = usage[r].cost
  /\ Carries(recorder["otlp"], r) \/ usage[r].session = None =>
       \A s \in SessionIds : sessions[s].cost[r] = 0

SessionCostInv ==
  /\ \A r \in Rows \ raced.crossed : Undisturbed(r)
  /\ \A r \in RowIds \ Rows, s \in SessionIds : sessions[s].cost[r] = 0
  /\ recorder["otlp"].pc = "commit" =>
       \A r \in RowIds \ raced.crossed :
         recorder["otlp"].sum.cost[r] = sessions[recorder["otlp"].session].cost[r]
  /\ \A r \in RowIds : \A s \in CountedBy(r) : sessions[s].exists
  /\ \A r \in Rows \ (raced.repriced \cup raced.crossed) :
       \A s \in CountedBy(r) : Agreed(r, s) => sessions[s].cost[r] = usage[r].cost

\* Who has a row in hand records it.
LEMMA InHand ==
  ASSUME UsageTypeOK, NEW p \in Paths, NEW r \in RowIds, recorder[p].row = r
  PROVE  Recording(r)
<1>1. r # None
  BY UsageAssumption
<1> QED
  BY <1>1 DEF UsageTypeOK, Consistent, Recording

LEMMA NotHeld == ASSUME UsageTypeOK PROVE ~Holding(None)
BY DEF UsageTypeOK, Consistent, Holding

\* A step that leaves the tables alone, loads no sums and takes no row into a
\* hand that a caller has.
LEMMA SessionCostFrame ==
  ASSUME UsageTypeOK, SessionCostInv, UsageTypeOK',
         UNCHANGED <<world, sessions>>, Rows' = Rows,
         \A r \in Rows : /\ usage'[r].request = usage[r].request
                         /\ usage'[r].session = usage[r].session
                         /\ usage'[r].cost = usage[r].cost,
         raced.crossed \subseteq raced'.crossed,
         raced.repriced \subseteq raced'.repriced,
         \A c \in Callers : recalc'[c] # None => recalc'[c] = recalc[c],
         \A p \in Paths, r \in Rows \ raced'.crossed : recorder'[p].row = r =>
            recorder'[p].cost = usage[r].cost /\ ~Recalculating(r),
         \A r \in Rows : Carries(recorder["otlp"]', r) => Carries(recorder["otlp"], r),
         \A p \in Paths : recorder'[p].pc = "commit" => recorder'[p] = recorder[p]
  PROVE  SessionCostInv'
<1>1. \A r \in RowIds : CountedBy(r)' = CountedBy(r)
  BY DEF CountedBy
<1>3. \A r \in RowIds : Recalculating(r)' => Recalculating(r)
  BY DEF Recalculating
<1>4. ASSUME NEW r \in Rows \ raced'.crossed PROVE Undisturbed(r)'
  <2>1. Undisturbed(r) /\ r \in RowIds
    BY <1>4 DEF SessionCostInv, Rows
  <2>2. ~(Recalculating(r)' /\ Recording(r)')
    BY <1>3, <1>4, <2>1 DEF Recording
  <2>3. \A c \in Callers : recalc'[c] # None /\ recalc'[c].row = r =>
          recalc'[c].session = usage'[r].session /\ ~Holding(usage[r].session)'
    BY <1>4, <2>1 DEF Undisturbed, Holding
  <2> QED
    BY <1>4, <2>1, <2>2, <2>3 DEF Undisturbed, Holding
<1>5. \A r \in Rows : \A s : Agreed(r, s)' <=> Agreed(r, s)
  BY AgreedNext
<1>6. recorder'["otlp"].pc = "commit" =>
        recorder'["otlp"] = recorder["otlp"] /\ recorder["otlp"].pc = "commit"
  BY DEF Paths
<1>7. \A r \in Rows' \ (raced'.repriced \cup raced'.crossed) :
        \A s \in CountedBy(r)' : Agreed(r, s)' => sessions'[s].cost[r] = usage'[r].cost
  BY <1>1, <1>5 DEF SessionCostInv, Rows
<1> QED
  BY <1>1, <1>4, <1>6, <1>7 DEF SessionCostInv

LEMMA LookupSessionCosts ==
  ASSUME UsageTypeOK, SessionCostInv, UsageTypeOK',
         NEW p \in Paths, NEW q \in Requests, Lookup(p, q)
  PROVE  SessionCostInv'
<1>1. /\ \A o \in Paths \ {p} : recorder'[o] = recorder[o]
      /\ UNCHANGED <<world, usage, sessions, recalc>> /\ Rows' = Rows
      /\ raced.crossed \subseteq raced'.crossed /\ raced.repriced \subseteq raced'.repriced
  BY DEF Lookup, UsageTypeOK, tables, Rows
<1>2. /\ recorder'[p].pc \in {"insert", "enrich"}
      /\ \A r \in Rows \ raced'.crossed : recorder'[p].row = r =>
           recorder'[p].cost = usage[r].cost /\ ~Recalculating(r)
  <2>1. CASE Duplicates(p, q) = {}
    <3>1. recorder'[p].pc = "insert" /\ recorder'[p].row = None
      BY <2>1 DEF Lookup, Inserting, UsageTypeOK
    <3> QED
      BY <3>1, UsageAssumption DEF Rows
  <2>2. CASE Duplicates(p, q) # {}
    <3>1. PICK k \in Duplicates(p, q) :
            /\ recorder' = [recorder EXCEPT ![p] =
                 Enriching(q, SessionSent(p, q), k, usage[k].cost)]
            /\ raced' = IF Recalculating(k)
                        THEN [raced EXCEPT !.crossed = @ \cup {k}] ELSE raced
      BY <2>2 DEF Lookup
    <3>2. Recalculating(k) => k \in raced'.crossed
      BY <3>1 DEF UsageTypeOK
    <3>3. recorder'[p].pc = "enrich" /\ recorder'[p].row = k
          /\ recorder'[p].cost = usage[k].cost
      BY <3>1 DEF Enriching, UsageTypeOK
    <3> QED
      BY <3>2, <3>3
  <2> QED
    BY <2>1, <2>2
<1>3. \A o \in Paths, r \in Rows \ raced'.crossed : recorder'[o].row = r =>
        recorder'[o].cost = usage[r].cost /\ ~Recalculating(r)
  BY <1>1, <1>2, InHand DEF SessionCostInv, Undisturbed, Rows
<1>4. \A r \in Rows : Carries(recorder["otlp"]', r) => Carries(recorder["otlp"], r)
  BY <1>1, <1>2 DEF Carries, Paths
<1>5. \A o \in Paths : recorder'[o].pc = "commit" => recorder'[o] = recorder[o]
  BY <1>1, <1>2
<1> QED
  BY <1>1, <1>3, <1>4, <1>5, SessionCostFrame

LEMMA EnrichSessionCosts ==
  ASSUME UsageTypeOK, SessionInv, SessionCostInv, UsageTypeOK', NEW p \in Paths, Enrich(p)
  PROVE  SessionCostInv'
<1> DEFINE t == recorder[p]
           k == recorder[p].row
<1>1. /\ t.pc = "enrich" /\ t \in RecorderState /\ k \in Rows /\ k \in RowIds
      /\ usage[k] \in UsageRow /\ t.session \in SessionIds \cup {None}
  BY RecorderRow DEF Enrich, UsageTypeOK
<1>2. /\ \A o \in Paths \ {p} : recorder'[o] = recorder[o]
      /\ recorder'[p] \in {Idle, [t EXCEPT !.pc = "session"]}
      /\ UNCHANGED <<world, sessions, recalc, raced>>
  BY DEF Enrich, UsageTypeOK
<1>3. /\ Rows' = Rows
      /\ \A r \in Rows : usage'[r].request = usage[r].request /\ usage'[r].cost = usage[r].cost
  BY EnrichRows
<1>4. /\ recorder'[p].pc \in {"idle", "session"}
      /\ \A r \in Rows : recorder'[p].row = r => r = k /\ recorder'[p].cost = t.cost
  BY <1>1, <1>2, UsageAssumption DEF Idle, RecorderState, Rows
<1>5. \A o \in Paths, r \in Rows \ raced.crossed : recorder'[o].row = r =>
        recorder'[o].cost = usage[r].cost /\ ~Recalculating(r)
  BY <1>2, <1>4, InHand DEF SessionCostInv, Undisturbed, Rows
<1>6. \A o \in Paths : recorder'[o].pc = "commit" => recorder'[o] = recorder[o]
  BY <1>2, <1>4
<1>7. CASE t.session = None
  <2>1. usage' = usage /\ recorder'[p] = Idle
    BY <1>7 DEF Enrich, UsageTypeOK
  <2>2. \A r \in Rows : Carries(recorder["otlp"]', r) => Carries(recorder["otlp"], r)
    BY <1>2, <2>1 DEF Carries, Idle, Paths
  <2> QED
    BY <1>2, <1>3, <1>5, <1>6, <2>1, <2>2, SessionCostFrame
<1>8. CASE t.session # None
  <2>1. p = "otlp"
    BY <1>8, TwoPaths DEF SessionInv
  <2>2. /\ usage'[k].session = t.session
        /\ \A r \in RowIds \ {k} : usage'[r] = usage[r]
    BY <1>1, <1>8 DEF Enrich, UsageTypeOK, UsageRow
  <2>3. \A r \in Rows : Carries(recorder["otlp"]', r) => r = k /\ usage[k].session = None
    <3>1. CASE usage[k].session = None
      BY <1>4, <2>1, <3>1 DEF Carries
    <3>2. CASE usage[k].session # None
      <4>1. recorder'["otlp"] = Idle
        BY <2>1, <3>2 DEF Enrich, UsageTypeOK
      <4> QED
        BY <4>1 DEF Carries, Idle
    <3> QED
      BY <3>1, <3>2
  <2>4. \A r \in RowIds : CountedBy(r)' = CountedBy(r)
    BY <1>2 DEF CountedBy
  <2>6. ASSUME NEW r \in Rows \ raced.crossed PROVE Undisturbed(r)'
    <3>1. Undisturbed(r) /\ r \in RowIds
      BY <2>6 DEF SessionCostInv, Rows
    <3>2. Recalculating(r)' <=> Recalculating(r)
      BY <1>2 DEF Recalculating
    <3>3. ~(Recalculating(r)' /\ Recording(r)')
      BY <1>5, <2>6, <3>2 DEF Recording
    <3>4. CASE r = k
      <4>1. ~Recalculating(r)
        BY <1>1, <3>1, <3>4, InHand DEF Undisturbed
      <4>2. \A c \in Callers : ~(recalc'[c] # None /\ recalc'[c].row = r)
        BY <1>2, <4>1 DEF Recalculating
      <4>3. usage'[r].session # None
        BY <1>8, <2>2, <3>4
      <4>4. Carries(recorder["otlp"]', r) => \A s \in SessionIds : sessions[s].cost[r] = 0
        BY <2>3, <2>6, <3>1, <3>4 DEF Undisturbed
      <4> QED
        BY <1>2, <1>3, <1>5, <2>6, <3>3, <4>2, <4>3, <4>4 DEF Undisturbed
    <3>5. CASE r # k
      <4>1. usage'[r] = usage[r]
        BY <2>2, <3>1, <3>5
      <4>2. \A c \in Callers : recalc'[c] # None /\ recalc'[c].row = r =>
              recalc'[c].session = usage[r].session /\ ~Holding(usage[r].session)'
        BY <1>2, <1>6, <3>1, <4>1 DEF Undisturbed, Holding
      <4>3. ~Carries(recorder["otlp"]', r)
        BY <2>3, <2>6, <3>5
      <4> QED
        BY <1>2, <1>5, <2>6, <3>1, <3>3, <4>1, <4>2, <4>3 DEF Undisturbed, Holding
    <3> QED
      BY <3>4, <3>5
  <2>7. \A r \in Rows : \A s : Agreed(r, s)' <=> Agreed(r, s)
    BY <1>2, <1>3, AgreedNext
  <2>8. recorder'["otlp"].pc # "commit"
    BY <1>4, <2>1
  <2>9. \A r \in Rows' \ (raced'.repriced \cup raced'.crossed) :
          \A s \in CountedBy(r)' : Agreed(r, s)' => sessions'[s].cost[r] = usage'[r].cost
    BY <1>2, <1>3, <2>4, <2>7 DEF SessionCostInv, Rows
  <2> QED
    BY <1>2, <1>3, <2>4, <2>6, <2>8, <2>9 DEF SessionCostInv
<1> QED
  BY <1>7, <1>8

LEMMA InsertSessionCosts ==
  ASSUME UsageTypeOK, SessionInv, SessionCostInv, UsageTypeOK', NEW p \in Paths, Insert(p)
  PROVE  SessionCostInv'
<1> DEFINE k == CHOOSE f \in FreeRows : TRUE
<1>1. k \in RowIds /\ k \notin Rows
  BY FreshRow DEF Insert, FreeRows
<1>2. /\ recorder'[p].pc = "daily" /\ recorder'[p].row = k
      /\ recorder'[p].cost = RecordCost /\ usage'[k].cost = RecordCost
      /\ \A r \in RowIds \ {k} : usage'[r] = usage[r]
      /\ \A o \in Paths \ {p} : recorder'[o] = recorder[o]
      /\ UNCHANGED <<world, sessions, recalc, raced>>
  BY <1>1 DEF Insert, UsageTypeOK, RecorderState
<1> HIDE DEF k
<1>3. Rows' = Rows \cup {k}
  <2>1. recorder'[p].row \in Rows'
    BY <1>2, RecorderRow DEF UsageTypeOK, Consistent
  <2> QED
    BY <1>1, <1>2, <2>1 DEF Rows
<1>4. \A r \in Rows : usage'[r] = usage[r] /\ r # k
  BY <1>1, <1>2 DEF Rows
<1>5. \A r \in RowIds : CountedBy(r)' = CountedBy(r)
  BY <1>2 DEF CountedBy
<1>6. CountedBy(k) = {}
  BY <1>1 DEF SessionInv
<1>7. /\ \A c \in Callers : recalc[c] # None => recalc[c].row \in Rows
      /\ \A o \in Paths : recorder[o].row # k
  BY <1>1, UsageAssumption DEF UsageTypeOK, Consistent
<1>8. \A s : Holding(s)' => Holding(s)
  BY <1>2 DEF Holding
<1>9. ASSUME NEW r \in Rows \ raced.crossed PROVE Undisturbed(r)'
  <2>1. Undisturbed(r) /\ r # k /\ usage'[r] = usage[r]
    BY <1>4, <1>9 DEF SessionCostInv
  <2>2. Recalculating(r)' <=> Recalculating(r)
    BY <1>2 DEF Recalculating
  <2>3. Recording(r)' => Recording(r)
    BY <1>2, <2>1 DEF Recording
  <2>4. Carries(recorder["otlp"]', r) => Carries(recorder["otlp"], r)
    BY <1>2, <2>1 DEF Carries, Paths
  <2>5. \A c \in Callers : recalc'[c] # None /\ recalc'[c].row = r =>
          recalc'[c].session = usage[r].session /\ ~Holding(usage[r].session)'
    BY <1>2, <1>8, <2>1 DEF Undisturbed
  <2>6. \A o \in Paths : recorder'[o].row = r => recorder'[o].cost = usage[r].cost
    BY <1>2, <2>1 DEF Undisturbed
  <2> QED
    BY <1>2, <2>1, <2>2, <2>3, <2>4, <2>5, <2>6 DEF Undisturbed, Holding
<1>10. ASSUME NEW r, r = k PROVE Undisturbed(r)'
  <2>1. \A c \in Callers : ~(recalc'[c] # None /\ recalc'[c].row = r)
    BY <1>1, <1>2, <1>7, <1>10
  <2>2. \A o \in Paths : recorder'[o].row = r => recorder'[o].cost = usage'[r].cost
    BY <1>2, <1>7, <1>10
  <2>3. \A s \in SessionIds : sessions'[s].cost[r] = 0
    BY <1>1, <1>2, <1>10 DEF SessionCostInv
  <2> QED
    BY <2>1, <2>2, <2>3 DEF Undisturbed, Recalculating
<1>11. recorder'["otlp"].pc = "commit" => recorder'["otlp"] = recorder["otlp"]
  BY <1>2 DEF Paths
<1>12. \A r \in Rows : \A s : Agreed(r, s)' <=> Agreed(r, s)
  BY <1>2, <1>4, AgreedNext
<1>13. \A r \in Rows' \ (raced'.repriced \cup raced'.crossed) :
         \A s \in CountedBy(r)' : Agreed(r, s)' => sessions'[s].cost[r] = usage'[r].cost
  BY <1>1, <1>2, <1>3, <1>4, <1>5, <1>6, <1>12 DEF SessionCostInv, Rows
<1>14. \A r \in Rows' \ raced'.crossed : Undisturbed(r)'
  BY <1>2, <1>3, <1>9, <1>10
<1> QED
  BY <1>2, <1>3, <1>5, <1>11, <1>13, <1>14 DEF SessionCostInv

\* The rollup into usage_daily, and the end of a recording.
LEMMA RollupSessionCosts ==
  ASSUME UsageTypeOK, SessionCostInv, UsageTypeOK', NEW p \in Paths,
         UpsertDaily(p) \/ FailDaily(p) \/ Abandon(p)
  PROVE  SessionCostInv'
<1>1. /\ UNCHANGED <<world, usage, sessions, recalc, raced>> /\ Rows' = Rows
      /\ \A o \in Paths \ {p} : recorder'[o] = recorder[o]
      /\ recorder'[p].pc # "commit"
  <2>1. UNCHANGED <<world, usage, sessions, recalc, raced>> /\ Rows' = Rows
    BY DEF UpsertDaily, FailDaily, Abandon, tables, Rows
  <2>2. ~(recorder'[p].pc = "commit")
    <3>1. recorder[p] \in RecorderState
      BY DEF UsageTypeOK
    <3>2. CASE UpsertDaily(p) \/ FailDaily(p)
      BY <3>1, <3>2 DEF UpsertDaily, FailDaily, AfterDaily, Idle, UsageTypeOK, RecorderState
    <3>3. CASE Abandon(p)
      BY <3>3 DEF Abandon, Idle, UsageTypeOK
    <3> QED
      BY <3>2, <3>3
  <2> QED
    BY <2>1, <2>2, RollupPoint
<1>2. \A r \in Rows : recorder'[p].row = r =>
        recorder[p].row = r /\ recorder'[p].cost = recorder[p].cost
  BY RollupPoint, UsageAssumption DEF Idle, Rows
<1>3. \A o \in Paths, r \in Rows \ raced'.crossed : recorder'[o].row = r =>
        recorder'[o].cost = usage[r].cost /\ ~Recalculating(r)
  BY <1>1, <1>2, InHand DEF SessionCostInv, Undisturbed, Rows
<1>4. \A r \in Rows : Carries(recorder["otlp"]', r) => Carries(recorder["otlp"], r)
  BY <1>1, RollupPoint DEF Rows, Paths
<1>5. \A o \in Paths : recorder'[o].pc = "commit" => recorder'[o] = recorder[o]
  BY <1>1
<1> QED
  BY <1>1, <1>3, <1>4, <1>5, SessionCostFrame

LEMMA LoadSessionCosts ==
  ASSUME UsageTypeOK, SessionInv, SessionCostInv, UsageTypeOK',
         NEW p \in Paths, LoadSession(p)
  PROVE  SessionCostInv'
<1> DEFINE t == recorder[p]
<1>1. t.pc = "session" /\ t.session # None /\ t \in RecorderState
  BY DEF LoadSession, UsageTypeOK, Consistent
<1>2. p = "otlp" /\ t.session \in SessionIds
  BY <1>1, TwoPaths DEF SessionInv, RecorderState
<1>3. /\ recorder'["otlp"].pc = "commit" /\ recorder'["otlp"].session = t.session
      /\ recorder'["otlp"].sum = sessions[t.session]
      /\ recorder'["otlp"].row = t.row /\ recorder'["otlp"].cost = t.cost
      /\ recorder'["proxy"] = recorder["proxy"]
  BY <1>1, <1>2 DEF LoadSession, UsageTypeOK, Paths, RecorderState
<1>4. UNCHANGED <<world, usage, sessions, recalc>> /\ Rows' = Rows
  BY DEF LoadSession, tables, Rows
<1>5. /\ raced'.crossed = raced.crossed \cup {recalc[c].row : c \in
           {d \in Callers : recalc[d] # None /\ recalc[d].session = t.session}}
      /\ raced'.repriced = raced.repriced
  BY DEF LoadSession, UsageTypeOK
<1>6. /\ raced.crossed \subseteq raced'.crossed
      /\ \A c \in Callers : recalc[c] # None /\ recalc[c].session = t.session =>
           recalc[c].row \in raced'.crossed
  BY <1>5
<1> HIDE DEF t
<1>7. \A r \in RowIds : CountedBy(r)' = CountedBy(r)
  BY <1>4 DEF CountedBy
<1>8. ASSUME NEW r \in Rows \ raced'.crossed PROVE Undisturbed(r)'
  <2>1. Undisturbed(r) /\ r \in RowIds
    BY <1>6, <1>8 DEF SessionCostInv, Rows
  <2>2. Recalculating(r)' <=> Recalculating(r)
    BY <1>4 DEF Recalculating
  <2>3. Recording(r)' => Recording(r)
    BY <1>1, <1>2, <1>3, TwoPaths DEF Recording, t
  <2>4. \A c \in Callers : recalc'[c] # None /\ recalc'[c].row = r =>
          recalc'[c].session = usage[r].session /\ ~Holding(usage[r].session)'
    <3> SUFFICES ASSUME NEW c \in Callers, recalc[c] # None, recalc[c].row = r
                 PROVE  recalc[c].session = usage[r].session /\ ~Holding(usage[r].session)'
      BY <1>4
    <3>1. recalc[c].session = usage[r].session /\ ~Holding(usage[r].session)
      BY <2>1 DEF Undisturbed
    <3>2. usage[r].session # t.session
      BY <1>6, <1>8, <3>1
    <3> QED
      BY <1>3, <1>4, <3>1, <3>2, TwoPaths DEF Holding
  <2>5. \A o \in Paths : recorder'[o].row = r => recorder'[o].cost = usage[r].cost
    BY <1>2, <1>3, <2>1, TwoPaths DEF Undisturbed, t
  <2>6. Carries(recorder["otlp"]', r) => Carries(recorder["otlp"], r)
    BY <1>1, <1>2, <1>3 DEF Carries, t
  <2> QED
    BY <1>4, <2>1, <2>2, <2>3, <2>4, <2>5, <2>6 DEF Undisturbed, Holding
<1>9. \A r \in Rows : \A s : Agreed(r, s)' <=> Agreed(r, s)
  BY <1>4, AgreedNext
<1>10. \A r \in Rows' \ (raced'.repriced \cup raced'.crossed) :
         \A s \in CountedBy(r)' : Agreed(r, s)' => sessions'[s].cost[r] = usage'[r].cost
  BY <1>4, <1>5, <1>6, <1>7, <1>9 DEF SessionCostInv, Rows
<1> QED
  BY <1>3, <1>4, <1>7, <1>8, <1>10 DEF SessionCostInv

LEMMA CommitSessionCosts ==
  ASSUME UsageTypeOK, SessionInv, SessionCostInv, UsageTypeOK',
         NEW p \in Paths, CommitSession(p)
  PROVE  SessionCostInv'
<1> DEFINE t == recorder[p]
<1>0. PICK k, s : k = t.row /\ s = t.session
  OBVIOUS
<1>1. /\ t.pc = "commit" /\ s # None /\ t \in RecorderState
      /\ k \in Rows /\ k \in RowIds /\ s \in SessionIds
      /\ t.cost \in Int /\ k = t.row /\ s = t.session
  BY <1>0, RecorderRow DEF CommitSession, UsageTypeOK, Consistent
<1>2. p = "otlp"
  BY <1>1, TwoPaths DEF SessionInv
<1>3. /\ recorder'["otlp"] = Idle /\ recorder'["proxy"] = recorder["proxy"]
      /\ UNCHANGED <<world, usage, recalc, raced>> /\ Rows' = Rows
  BY <1>2 DEF CommitSession, UsageTypeOK, Paths, Rows
<1>4. t.sum.count = sessions[s].count /\ t.sum \in Rollup /\ sessions \in [SessionIds -> Rollup]
  BY <1>1, <1>2 DEF SessionInv, UsageTypeOK, RecorderState
<1>5. \A r \in RowIds \ raced.crossed : t.sum.cost[r] = sessions[s].cost[r]
  BY <1>1, <1>2 DEF SessionCostInv
<1>6. /\ sessions'[s].exists
      /\ \A r \in RowIds \ {k} : /\ sessions'[s].count[r] = sessions[s].count[r]
                                 /\ sessions'[s].cost[r] = t.sum.cost[r]
      /\ sessions'[s].cost[k] = t.sum.cost[k] + t.cost
      /\ \A u \in SessionIds \ {s} : sessions'[u] = sessions[u]
  BY <1>1, <1>4 DEF CommitSession, Counted, Rollup
<1>7. Carries(recorder["otlp"], k)
  BY <1>1, <1>2 DEF Carries
<1>8. usage[k].session # None
  BY <1>1, <1>7 DEF SessionInv
<1>9. raced.crossed \subseteq Rows
  BY DEF UsageTypeOK
<1> HIDE DEF t
<1>10. /\ \A r \in RowIds \ {k} : CountedBy(r)' = CountedBy(r)
       /\ \A u \in CountedBy(k)' : u = s \/ u \in CountedBy(k)
  BY <1>1, <1>6 DEF CountedBy
<1>11. \A r \in RowIds \ raced.crossed : r # k =>
         \A u \in SessionIds : sessions'[u].cost[r] = sessions[u].cost[r]
  BY <1>5, <1>6
<1>12. ASSUME NEW r \in Rows \ raced.crossed PROVE Undisturbed(r)'
  <2>1. Undisturbed(r) /\ r \in RowIds
    BY <1>12 DEF SessionCostInv, Rows
  <2>2. Recalculating(r)' <=> Recalculating(r)
    BY <1>3 DEF Recalculating
  <2>3. Recording(r)' => Recording(r)
    BY <1>3, TwoPaths DEF Recording, Idle
  <2>4. \A c \in Callers : recalc'[c] # None /\ recalc'[c].row = r =>
          recalc'[c].session = usage[r].session /\ ~Holding(usage[r].session)'
    BY <1>3, <2>1, TwoPaths DEF Undisturbed, Holding, Idle
  <2>5. \A o \in Paths : recorder'[o].row = r => recorder'[o].cost = usage[r].cost
    BY <1>3, <2>1, TwoPaths, UsageAssumption DEF Undisturbed, Idle
  <2>6. ~Carries(recorder["otlp"]', r)
    BY <1>3 DEF Carries, Idle
  <2>7. usage[r].session = None => \A u \in SessionIds : sessions'[u].cost[r] = 0
    BY <1>8, <1>11, <1>12, <2>1 DEF Undisturbed
  <2> QED
    BY <1>3, <2>1, <2>2, <2>3, <2>4, <2>5, <2>6, <2>7 DEF Undisturbed, Holding
<1>13. \A r \in RowIds \ Rows, u \in SessionIds : sessions'[u].cost[r] = 0
  BY <1>1, <1>9, <1>11 DEF SessionCostInv
<1>14. \A r \in RowIds : \A u \in CountedBy(r)' : sessions'[u].exists
  <2>1. \A r \in RowIds : \A u \in CountedBy(r)' : u = s \/ u \in CountedBy(r) \ {s}
    BY <1>10
  <2>2. \A r \in RowIds : CountedBy(r) \subseteq SessionIds
    BY DEF CountedBy
  <2> QED
    BY <1>6, <2>1, <2>2 DEF SessionCostInv
<1>15. \A r \in Rows : \A u : Agreed(r, u)' <=> Agreed(r, u)
  BY <1>3, AgreedNext
<1>16. ASSUME NEW r \in Rows \ (raced.repriced \cup raced.crossed),
              NEW u \in CountedBy(r)', Agreed(r, u)
       PROVE  sessions'[u].cost[r] = usage[r].cost
  <2>1. r \in RowIds /\ u \in SessionIds /\ Undisturbed(r)
    BY <1>16 DEF CountedBy, Rows, SessionCostInv
  <2>2. CASE r # k
    BY <1>10, <1>11, <1>16, <2>1, <2>2 DEF SessionCostInv
  <2>3. CASE r = k /\ u = s
    <3>1. t.sum.cost[k] = 0
      BY <1>5, <1>7, <1>1, <1>16, <2>1, <2>3 DEF Undisturbed
    <3>2. t.cost = usage[k].cost
      BY <1>1, <2>1, <2>3 DEF Undisturbed, t
    <3> QED
      BY <1>1, <1>6, <2>3, <3>1, <3>2
  <2>4. CASE r = k /\ u # s
    <3>1. u \in CountedBy(k)
      BY <1>10, <1>16, <2>4
    <3>2. CountedBy(k) = {}
      BY <1>1, <1>7 DEF SessionInv
    <3> QED
      BY <3>1, <3>2
  <2> QED
    BY <2>2, <2>3, <2>4
<1>17. recorder'["otlp"].pc # "commit"
  BY <1>3 DEF Idle
<1>18. \A r \in Rows' \ (raced'.repriced \cup raced'.crossed) :
         \A u \in CountedBy(r)' : Agreed(r, u)' => sessions'[u].cost[r] = usage'[r].cost
  BY <1>3, <1>15, <1>16
<1> QED
  BY <1>3, <1>12, <1>13, <1>14, <1>17, <1>18 DEF SessionCostInv

LEMMA LoadUsageSessionCosts ==
  ASSUME UsageTypeOK, SessionCostInv, NEW c \in Callers, NEW k \in RowIds, LoadUsage(c, k)
  PROVE  SessionCostInv'
<1>1. /\ recalc'[c].row = k /\ recalc'[c].session = usage[k].session
      /\ \A d \in Callers \ {c} : recalc'[d] = recalc[d]
      /\ UNCHANGED <<world, usage, sessions, recorder>> /\ Rows' = Rows
  BY DEF LoadUsage, UsageTypeOK, tables, Rows
<1>2. /\ raced.repriced \subseteq raced'.repriced /\ raced.crossed \subseteq raced'.crossed
      /\ k \notin raced'.crossed =>
           ~Recording(k) /\ (usage[k].session = None \/ ~Holding(usage[k].session))
  BY DEF LoadUsage, UsageTypeOK
<1>3. \A r \in RowIds : CountedBy(r)' = CountedBy(r)
  BY <1>1 DEF CountedBy
<1>4. ASSUME NEW r \in Rows \ raced'.crossed PROVE Undisturbed(r)'
  <2>1. Undisturbed(r)
    BY <1>2, <1>4 DEF SessionCostInv
  <2>2. Recording(r)' <=> Recording(r)
    BY <1>1 DEF Recording
  <2>3. \A u : Holding(u)' <=> Holding(u)
    BY <1>1 DEF Holding
  <2>4. ~(Recalculating(r)' /\ Recording(r)')
    <3>1. Recalculating(r)' => Recalculating(r) \/ r = k
      BY <1>1 DEF Recalculating
    <3> QED
      BY <1>2, <1>4, <2>1, <2>2, <3>1 DEF Undisturbed
  <2>5. r = k => ~Holding(usage[r].session)
    BY <1>2, <1>4, NotHeld
  <2>6. \A d \in Callers : recalc'[d] # None /\ recalc'[d].row = r =>
          recalc'[d].session = usage[r].session /\ ~Holding(usage[r].session)
    BY <1>1, <2>1, <2>5 DEF Undisturbed
  <2> QED
    BY <1>1, <2>1, <2>4, <2>6 DEF Undisturbed, Holding
<1>5. \A r \in Rows : \A s : Agreed(r, s)' <=> Agreed(r, s)
  BY <1>1, AgreedNext
<1>6. \A r \in Rows' \ (raced'.repriced \cup raced'.crossed) :
        \A s \in CountedBy(r)' : Agreed(r, s)' => sessions'[s].cost[r] = usage'[r].cost
  BY <1>1, <1>2, <1>3, <1>5 DEF SessionCostInv, Rows
<1> QED
  BY <1>1, <1>2, <1>3, <1>4, <1>6 DEF SessionCostInv

LEMMA RecalculateSessionCosts ==
  ASSUME UsageTypeOK, SessionInv, TelemetryInv, CostInv, SessionCostInv, UsageTypeOK',
         NEW c \in Callers, Recalculate(c)
  PROVE  SessionCostInv'
<1>1. PICK t, k : t = recalc[c] /\ k = t.row
  OBVIOUS
<1>2. /\ t # None /\ k \in Rows /\ k \in RowIds /\ usage[k] \in UsageRow
      /\ t.session \in SessionIds \cup {None} /\ t.cost \in Int
      /\ \A n \in Costs : n \in Int /\ n - t.cost \in Int
  BY <1>1, RecalculateData, CostsAreIntegers DEF Recalculate, UsageTypeOK, Loaded
<1>3. PICK n \in Costs :
        /\ sessions' = IF t.session # None /\ n - t.cost # 0
                       THEN [sessions EXCEPT ![t.session] = Repriced(@, k, n - t.cost)]
                       ELSE sessions
        /\ usage' = IF n - t.cost # 0 THEN [usage EXCEPT ![k].cost = n] ELSE usage
  BY <1>1 DEF Recalculate
<1>4. /\ recalc'[c] = None /\ \A d \in Callers \ {c} : recalc'[d] = recalc[d]
      /\ UNCHANGED <<world, recorder>>
      /\ raced.repriced \subseteq raced'.repriced /\ raced'.crossed = raced.crossed
  BY DEF Recalculate, UsageTypeOK
<1>5. /\ Rows' = Rows
      /\ \A r \in Rows : /\ usage'[r].request = usage[r].request
                         /\ usage'[r].session = usage[r].session
  BY RecalculateRows
<1>6. /\ n # t.cost => usage'[k].cost = n
      /\ n = t.cost => usage' = usage
      /\ \A r \in RowIds \ {k} : usage'[r] = usage[r]
  <2>1. n - t.cost # 0 <=> n # t.cost
    BY <1>2
  <2>2. usage' = IF n # t.cost THEN [usage EXCEPT ![k].cost = n] ELSE usage
    BY <1>3, <2>1
  <2> QED
    BY <1>2, <2>2 DEF UsageTypeOK, UsageRow
<1>7. \A s \in SessionIds :
        /\ sessions'[s].count = sessions[s].count
        /\ sessions'[s].exists = sessions[s].exists
        /\ \A r \in RowIds \ {k} : sessions'[s].cost[r] = sessions[s].cost[r]
        /\ s # t.session \/ n = t.cost => sessions'[s] = sessions[s]
        /\ s = t.session /\ n # t.cost /\ sessions[s].exists =>
             sessions'[s].cost[k] = sessions[s].cost[k] + (n - t.cost)
  <2> SUFFICES ASSUME NEW s \in SessionIds
               PROVE  /\ sessions'[s].count = sessions[s].count
                      /\ sessions'[s].exists = sessions[s].exists
                      /\ \A r \in RowIds \ {k} : sessions'[s].cost[r] = sessions[s].cost[r]
                      /\ s # t.session \/ n = t.cost => sessions'[s] = sessions[s]
                      /\ s = t.session /\ n # t.cost /\ sessions[s].exists =>
                           sessions'[s].cost[k] = sessions[s].cost[k] + (n - t.cost)
    OBVIOUS
  <2>1. sessions[s] \in Rollup /\ s # None
    BY UsageAssumption DEF UsageTypeOK
  <2>2. CASE s # t.session \/ n = t.cost
    <3>1. sessions'[s] = sessions[s]
      BY <1>2, <1>3, <2>2 DEF UsageTypeOK
    <3> QED
      BY <2>2, <3>1
  <2>3. CASE s = t.session /\ n # t.cost
    <3>1. sessions'[s] = Repriced(sessions[s], k, n - t.cost)
      BY <1>2, <1>3, <2>1, <2>3 DEF UsageTypeOK
    <3> QED
      BY <1>2, <2>1, <2>3, <3>1 DEF Repriced, Rollup
  <2> QED
    BY <2>2, <2>3
<1>8. \A r \in RowIds : CountedBy(r)' = CountedBy(r)
  BY <1>7 DEF CountedBy
<1>9. Recalculating(k)
  BY <1>1, <1>2 DEF Recalculating
<1>10. k \notin raced.crossed =>
         Undisturbed(k) /\ ~Recording(k) /\ t.session = usage[k].session
           /\ ~Holding(t.session)
  BY <1>1, <1>2, <1>9 DEF SessionCostInv, Undisturbed
<1>11. ASSUME NEW r \in Rows \ raced.crossed PROVE Undisturbed(r)'
  <2>1. Undisturbed(r) /\ r \in RowIds
    BY <1>11 DEF SessionCostInv, Rows
  <2>2. Recalculating(r)' => Recalculating(r)
    BY <1>4 DEF Recalculating
  <2>3. Recording(r)' <=> Recording(r)
    BY <1>4 DEF Recording
  <2>4. \A d \in Callers : recalc'[d] # None /\ recalc'[d].row = r =>
          recalc'[d].session = usage[r].session /\ ~Holding(usage[r].session)
    BY <1>4, <2>1 DEF Undisturbed
  <2>5. \A p \in Paths : recorder'[p].row = r => recorder'[p].cost = usage'[r].cost
    <3>1. CASE r = k
      BY <1>4, <1>10, <1>11, <2>1, <3>1, InHand
    <3>2. CASE r # k
      BY <1>4, <1>6, <2>1, <3>2 DEF Undisturbed
    <3> QED
      BY <3>1, <3>2
  <2>6. Carries(recorder["otlp"], r) \/ usage[r].session = None =>
          \A s \in SessionIds : sessions'[s].cost[r] = 0
    <3>1. CASE r = k
      <4>1. ~Carries(recorder["otlp"], r)
        BY <1>10, <1>11, <3>1 DEF Carries, Recording, Paths
      <4>2. usage[r].session = None => \A s \in SessionIds : sessions'[s] = sessions[s]
        BY <1>7, <1>10, <1>11, <3>1, UsageAssumption
      <4> QED
        BY <2>1, <4>1, <4>2 DEF Undisturbed
    <3>2. CASE r # k
      BY <1>7, <2>1, <3>2 DEF Undisturbed
    <3> QED
      BY <3>1, <3>2
  <2>7. Carries(recorder["otlp"]', r) <=> Carries(recorder["otlp"], r)
    BY <1>4 DEF Carries
  <2> QED
    BY <1>4, <1>5, <1>11, <2>1, <2>2, <2>3, <2>4, <2>5, <2>6, <2>7 DEF Undisturbed, Holding
<1>12. \A r \in RowIds \ Rows, s \in SessionIds : sessions'[s].cost[r] = 0
  BY <1>2, <1>7 DEF SessionCostInv
<1>13. recorder["otlp"].pc = "commit" =>
         \A r \in RowIds \ raced.crossed :
           recorder["otlp"].sum.cost[r] = sessions'[recorder["otlp"].session].cost[r]
  <2> SUFFICES ASSUME recorder["otlp"].pc = "commit", NEW r \in RowIds \ raced.crossed
               PROVE  recorder["otlp"].sum.cost[r] =
                        sessions'[recorder["otlp"].session].cost[r]
    OBVIOUS
  <2>1. recorder["otlp"].session \in SessionIds
    BY DEF UsageTypeOK, Consistent, RecorderState, Paths
  <2>2. recorder["otlp"].sum.cost[r] = sessions[recorder["otlp"].session].cost[r]
    BY DEF SessionCostInv
  <2>3. CASE r = k
    <3>1. recorder["otlp"].session # t.session
      BY <1>10, <2>3 DEF Holding, Paths
    <3> QED
      BY <1>7, <2>1, <2>2, <3>1
  <2>4. CASE r # k
    BY <1>7, <2>1, <2>2, <2>4
  <2> QED
    BY <2>3, <2>4
<1>14. \A r \in RowIds : \A s \in CountedBy(r)' : sessions'[s].exists
  BY <1>7, <1>8 DEF SessionCostInv, CountedBy
<1>15. \A r \in Rows : \A s : Agreed(r, s)' <=> Agreed(r, s)
  BY <1>4, <1>5, AgreedNext
<1>16. ASSUME NEW r \in Rows \ (raced'.repriced \cup raced.crossed),
              NEW s \in CountedBy(r), Agreed(r, s)
       PROVE  sessions'[s].cost[r] = usage'[r].cost
  <2>1. /\ r \in RowIds /\ s \in SessionIds /\ sessions[s].exists
        /\ sessions[s].cost[r] = usage[r].cost
    BY <1>4, <1>16 DEF SessionCostInv, CountedBy, Rows
  <2>2. CASE r # k
    BY <1>6, <1>7, <2>1, <2>2
  <2>3. CASE r = k
    <3>1. t.cost = usage[k].cost
      BY <1>1, <1>2, <1>4, <1>16, <2>3 DEF CostInv, CostFollows
    <3>2. usage[k].session # None
      BY <1>16, <2>1, <2>3 DEF SessionInv
    <3>3. t.session = s
      BY <1>10, <1>16, <2>3, <3>2, AgreedSession
    <3>4. CASE n = t.cost
      BY <1>6, <1>7, <2>1, <2>3, <3>4
    <3>5. CASE n # t.cost
      BY <1>2, <1>6, <1>7, <2>1, <2>3, <3>1, <3>3, <3>5
    <3> QED
      BY <3>4, <3>5
  <2> QED
    BY <2>2, <2>3
<1>17. \A r \in Rows' \ (raced'.repriced \cup raced'.crossed) :
         \A s \in CountedBy(r)' : Agreed(r, s)' => sessions'[s].cost[r] = usage'[r].cost
  <2>1. \A r \in Rows : CountedBy(r)' = CountedBy(r)
    BY <1>8 DEF Rows
  <2> QED
    BY <1>4, <1>5, <1>15, <1>16, <2>1
<1> QED
  BY <1>4, <1>5, <1>11, <1>12, <1>13, <1>14, <1>17 DEF SessionCostInv

\* A session holds the cost its rows have now, whatever recordings, merges and
\* recalculations interleave, as long as none of them overlapped on the row or on
\* the sums of its session and telemetry names one session for its shape
\* (upsert_session_from_usage, recalculate_usage_cost).
THEOREM SessionCostsFollow == UsageSpec => []SessionCostsFollowRows
<1>1. Init => TelemetryInv /\ SessionCostInv
  <2> SUFFICES ASSUME Init PROVE TelemetryInv /\ SessionCostInv
    OBVIOUS
  <2>1. Rows = {} /\ recorder["proxy"] = Idle /\ recorder["otlp"] = Idle
    BY DEF Init, Rows, Paths
  <2>2. \A s \in SessionIds, r \in RowIds :
          sessions[s].count[r] = 0 /\ sessions[s].cost[r] = 0
    BY DEF Init, NoRollup
  <2>3. \A r \in RowIds : CountedBy(r) = {}
    BY <2>2 DEF CountedBy
  <2>4. TelemetryInv
    BY <2>1, TwoPaths DEF TelemetryInv, Idle
  <2> QED
    BY <2>1, <2>2, <2>3, <2>4 DEF SessionCostInv, Idle
<1>2. UsageTypeOK /\ SessionInv /\ TelemetryInv /\ CostInv /\ SessionCostInv /\ UsageTypeOK'
        /\ [Next]_vars => SessionCostInv'
  <2> SUFFICES ASSUME UsageTypeOK, SessionInv, TelemetryInv, CostInv, SessionCostInv,
                      UsageTypeOK', [Next]_vars
               PROVE  SessionCostInv'
    OBVIOUS
  <2>1. \A p \in Paths, r \in Rows \ raced.crossed : recorder[p].row = r =>
          recorder[p].cost = usage[r].cost /\ ~Recalculating(r)
    BY InHand DEF SessionCostInv, Undisturbed, Rows
  <2>2. CASE UNCHANGED vars
    BY <2>1, <2>2, SessionCostFrame DEF vars, tables, Rows
  <2>3. ASSUME NEW p \in Paths, Record(p) PROVE SessionCostInv'
    BY <2>3, LookupSessionCosts, EnrichSessionCosts, InsertSessionCosts, RollupSessionCosts,
       LoadSessionCosts, CommitSessionCosts DEF Record
  <2>4. ASSUME NEW c \in Callers, Reprice(c) PROVE SessionCostInv'
    <3>1. ASSUME Skip(c) PROVE SessionCostInv'
      <4>1. /\ \A d \in Callers : recalc'[d] # None => recalc'[d] = recalc[d]
            /\ UNCHANGED <<world, usage, sessions, recorder, raced>> /\ Rows' = Rows
        BY <3>1 DEF Skip, UsageTypeOK, tables, Rows
      <4> QED
        BY <2>1, <4>1, SessionCostFrame
    <3> QED
      BY <2>4, <3>1, LoadUsageSessionCosts, RecalculateSessionCosts DEF Reprice
  <2> QED
    BY <2>2, <2>3, <2>4 DEF Next
<1>3. SessionCostInv => SessionCostsFollowRows
  BY DEF SessionCostInv, SessionCostsFollowRows, Agreed
<1> QED
  BY <1>1, <1>2, <1>3, TelemetryStep, SessionCountInv, RowCostInv, UsageTypeCorrect, PTL
     DEF UsageSpec

===============================================================================
