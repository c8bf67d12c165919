---------------------------- MODULE UsageRecording ----------------------------
(***************************************************************************)
(* Recording and repricing of usage. The proxy and the OTLP collector both *)
(* see requests of the agents; each is one process with one event loop,    *)
(* which records one request at a time (record_usage): it looks for a row  *)
(* the other path wrote and enriches it, or inserts a row, and then rolls  *)
(* the row up into usage_daily and into its session, each in a transaction *)
(* of its own. Callers of recalculate_usage_cost (the API route, the       *)
(* reprice thread) change the cost of a row and of both rollups meanwhile. *)
(*                                                                         *)
(* A running sum is kept as the contributions it consists of, one per      *)
(* usage row, so that an invariant can say which row a sum misses or       *)
(* counts twice. All rows are of one user, day, provider, model and family *)
(* of clients, hence in one row of usage_daily; the tokens and the         *)
(* latencies of a row follow its count. Timestamps are left out: two       *)
(* requests have one shape when their tokens are equal and they are within *)
(* the dedup window of each other, and which of two such rows is nearest   *)
(* is open, as the paths take their time from different clocks. A delivery *)
(* of telemetry that is repeated is a request of the same shape and        *)
(* session.                                                                *)
(***************************************************************************)
EXTENDS Integers, FiniteSets

CONSTANTS
  Requests,          \* model requests of the agents
  Shapes,            \* what the lookup of duplicates compares
  SessionIds,        \* sessions of the agents
  RowIds,            \* primary keys (uuid4) of usage rows that may be drawn
  Callers,           \* who recalculates: API requests, the reprice thread
  Costs,             \* prices of a request
  RecordCost,        \* the price while requests are recorded
  None,              \* NULL, and no row
  MaxEvents          \* bound of the recalculations and faults together

VARIABLES
  dialect,           \* the database
  shape,             \* shape[q] of request q
  agentSession,      \* the session telemetry names for q, or None
  usage,             \* usage[r]: the row with key r, or None
  daily,             \* the row of usage_daily
  sessions,          \* the rows of sessions
  recorder,          \* what the event loop of a path is doing
  recalc,            \* what a caller has loaded, or None
  seen,              \* the requests a path was given
  spent,             \* recalculations and faults so far
  missed,            \* history: rows whose rollup was given up
  raced              \* history: who met whom, see below

world == <<dialect, shape, agentSession>>
tables == <<usage, daily, sessions>>
vars == <<world, tables, recorder, recalc, seen, spent, missed, raced>>

Paths == {"proxy", "otlp"}
Other(p) == IF p = "proxy" THEN "otlp" ELSE "proxy"

UsageRow ==
  [path : Paths, request : Requests, session : SessionIds \cup {None}, cost : Costs]

\* A rollup row: how often it counts each usage row and what of its cost it
\* holds.
Rollup == [exists : BOOLEAN, count : [RowIds -> Nat], cost : [RowIds -> Int]]
NoRollup ==
  [exists |-> FALSE, count |-> [r \in RowIds |-> 0], cost |-> [r \in RowIds |-> 0]]

Counted(sum, r, c) ==
  [exists |-> TRUE,
   count  |-> [sum.count EXCEPT ![r] = @ + 1],
   cost   |-> [sum.cost EXCEPT ![r] = @ + c]]

Repriced(sum, r, d) ==
  IF sum.exists THEN [sum EXCEPT !.cost[r] = @ + d] ELSE sum

Loaded == [row : RowIds, cost : Costs, session : SessionIds \cup {None}]

\* "enrich": a duplicate was found; "insert": none was; "daily", "session":
\* the rollup of row is next; "commit": the session row is loaded as sum.
RecorderState ==
  [pc      : {"idle", "enrich", "insert", "daily", "session", "commit"},
   request : Requests \cup {None},
   row     : RowIds \cup {None},
   session : SessionIds \cup {None},
   cost    : Costs \cup {None},
   sum     : Rollup]

Idle ==
  [pc |-> "idle", request |-> None, row |-> None, session |-> None,
   cost |-> None, sum |-> NoRollup]
Inserting(q, s) ==
  [pc |-> "insert", request |-> q, row |-> None, session |-> s,
   cost |-> None, sum |-> NoRollup]
Enriching(q, s, r, c) ==
  [pc |-> "enrich", request |-> q, row |-> r, session |-> s,
   cost |-> c, sum |-> NoRollup]

ASSUME UsageAssumption ==
  /\ Costs \subseteq Int /\ RecordCost \in Costs
  /\ MaxEvents \in Nat
  /\ None \notin UsageRow \cup Loaded \cup Costs
  /\ None \notin Requests \cup RowIds \cup SessionIds

Spend == spent < MaxEvents /\ spent' = spent + 1

Rows == {r \in RowIds : usage[r] # None}
FreeRows == RowIds \ Rows

\* SELECT ... FOR UPDATE locks on PostgreSQL until the commit; SQLite ignores it.
Locked(r) ==
  /\ dialect = "postgresql"
  /\ \/ \E c \in Callers : recalc[c] # None /\ recalc[c].row = r
     \/ \E p \in Paths : recorder[p].pc = "enrich" /\ recorder[p].row = r

\* Who is at work on a row, or holds the sums of a session.
Recalculating(r) == \E c \in Callers : recalc[c] # None /\ recalc[c].row = r
Recording(r) == \E p \in Paths : recorder[p].pc # "idle" /\ recorder[p].row = r
Holding(s) == \E p \in Paths : recorder[p].pc = "commit" /\ recorder[p].session = s

-----------------------------------------------------------------------------
(* One recording. *)

\* Mutant: the lookup searches the path it records.
DuplicatesOwnPath(p, q) ==
  {r \in Rows : usage[r].path = p /\ shape[usage[r].request] = shape[q]}

\* The rows merge_duplicate_usage accepts for a request.
Duplicates(p, q) ==
  {r \in Rows : usage[r].path = Other(p) /\ shape[usage[r].request] = shape[q]}

\* The proxy never knows the session.
SessionSent(p, q) == IF p = "otlp" THEN agentSession[q] ELSE None

\* A recording starts with the lookup of the row the other path wrote.
Lookup(p, q) ==
  /\ recorder[p].pc = "idle"
  /\ q \notin seen[p]
  /\ seen' = [seen EXCEPT ![p] = @ \cup {q}]
  /\ \/ /\ Duplicates(p, q) = {}
        /\ recorder' = [recorder EXCEPT ![p] = Inserting(q, SessionSent(p, q))]
        /\ raced' = IF /\ recorder[Other(p)].pc = "insert"
                       /\ recorder[Other(p)].request = q
                    THEN [raced EXCEPT !.requests = @ \cup {q}] ELSE raced
     \/ \E r \in Duplicates(p, q) :
          /\ ~Locked(r)
          /\ recorder' = [recorder EXCEPT ![p] =
               Enriching(q, SessionSent(p, q), r, usage[r].cost)]
          /\ raced' = IF Recalculating(r)
                      THEN [raced EXCEPT !.crossed = @ \cup {r}] ELSE raced
  /\ UNCHANGED <<world, tables, recalc, spent, missed>>

\* Mutant: an enriched row is rolled up again like a new one.
EnrichAgain(p) ==
  LET r == recorder[p].row
      s == recorder[p].session IN
  /\ recorder[p].pc = "enrich"
  /\ usage' = IF s # None THEN [usage EXCEPT ![r].session = s] ELSE usage
  /\ recorder' = [recorder EXCEPT ![p] = [@ EXCEPT !.pc = "daily"]]
  /\ UNCHANGED <<world, daily, sessions, recalc, seen, spent, missed, raced>>

\* Mutant: the session counts every enriched row.
EnrichCounted(p) ==
  LET r == recorder[p].row
      s == recorder[p].session IN
  /\ recorder[p].pc = "enrich"
  /\ usage' = IF s # None THEN [usage EXCEPT ![r].session = s] ELSE usage
  /\ recorder' = [recorder EXCEPT ![p] =
       IF s # None THEN [@ EXCEPT !.pc = "session"] ELSE Idle]
  /\ UNCHANGED <<world, daily, sessions, recalc, seen, spent, missed, raced>>

\* The commit of a merge: telemetry overwrites the session of the row, the
\* proxy has none to add.  A row that had no session is now rolled up into it,
\* with the cost the lookup read.  (Only this path writes the session of the
\* rows of the other one, so what the lookup read of it still holds.)
Enrich(p) ==
  LET r == recorder[p].row
      s == recorder[p].session IN
  /\ recorder[p].pc = "enrich"
  /\ usage' = IF s # None THEN [usage EXCEPT ![r].session = s] ELSE usage
  /\ recorder' = [recorder EXCEPT ![p] =
       IF s # None /\ usage[r].session = None THEN [@ EXCEPT !.pc = "session"] ELSE Idle]
  /\ UNCHANGED <<world, daily, sessions, recalc, seen, spent, missed, raced>>

\* log_usage commits the row before its rollups.
Insert(p) ==
  LET t == recorder[p] IN
  /\ t.pc = "insert"
  /\ FreeRows # {}
  /\ LET r == CHOOSE f \in FreeRows : TRUE IN
     /\ usage' = [usage EXCEPT ![r] = [path |-> p, request |-> t.request,
                                       session |-> t.session, cost |-> RecordCost]]
     /\ recorder' = [recorder EXCEPT ![p] =
          [t EXCEPT !.pc = "daily", !.row = r, !.cost = RecordCost]]
  /\ UNCHANGED <<world, daily, sessions, recalc, seen, spent, missed, raced>>

\* Mutant: the check for an empty session is missing.
AfterDailyAlways(t) == [t EXCEPT !.pc = "session"]

\* Where log_usage goes when the daily rollup is done: upsert_session_from_usage
\* returns at once for a row without session.
AfterDaily(t) == IF t.session # None THEN [t EXCEPT !.pc = "session"] ELSE Idle

\* INSERT ... ON CONFLICT DO UPDATE with increments.
UpsertDaily(p) ==
  LET t == recorder[p] IN
  /\ t.pc = "daily"
  /\ daily' = Counted(daily, t.row, t.cost)
  /\ recorder' = [recorder EXCEPT ![p] = AfterDaily(t)]
  /\ UNCHANGED <<world, usage, sessions, recalc, seen, spent, missed, raced>>

\* The session row is read ...
LoadSession(p) ==
  LET t == recorder[p] IN
  /\ t.pc = "session"
  /\ recorder' = [recorder EXCEPT ![p] =
       [t EXCEPT !.pc = "commit", !.sum = sessions[t.session]]]
  /\ raced' = [raced EXCEPT !.crossed = @ \cup {recalc[c].row : c \in
       {d \in Callers : recalc[d] # None /\ recalc[d].session = t.session}}]
  /\ UNCHANGED <<world, tables, recalc, seen, spent, missed>>

\* Mutant: the session row is written anew instead of updated.
CommitSessionBlind(p) ==
  LET t == recorder[p] IN
  /\ t.pc = "commit"
  /\ sessions' = [sessions EXCEPT ![t.session] = Counted(NoRollup, t.row, t.cost)]
  /\ recorder' = [recorder EXCEPT ![p] = Idle]
  /\ UNCHANGED <<world, usage, daily, recalc, seen, spent, missed, raced>>

\* ... and written with the sums computed from what was read.
CommitSession(p) ==
  LET t == recorder[p] IN
  /\ t.pc = "commit"
  /\ sessions' = [sessions EXCEPT ![t.session] = Counted(t.sum, t.row, t.cost)]
  /\ recorder' = [recorder EXCEPT ![p] = Idle]
  /\ UNCHANGED <<world, usage, daily, recalc, seen, spent, missed, raced>>

-----------------------------------------------------------------------------
(* Failures of a recording. *)

\* The rollup into usage_daily raises: log_usage goes on without it.
FailDaily(p) ==
  LET t == recorder[p] IN
  /\ t.pc = "daily"
  /\ Spend
  /\ missed' = [missed EXCEPT !.daily = @ \cup {t.row}]
  /\ recorder' = [recorder EXCEPT ![p] = AfterDaily(t)]
  /\ UNCHANGED <<world, tables, recalc, seen, raced>>

\* A crash of the process, or an exception that ends the recording: of the
\* merge, of the insertion, or the swallowed one of the session rollup.
Abandon(p) ==
  LET t == recorder[p] IN
  /\ t.pc # "idle"
  /\ Spend
  /\ missed' =
       [daily   |-> IF t.pc = "daily" THEN missed.daily \cup {t.row} ELSE missed.daily,
        session |-> IF t.pc \in {"daily", "session", "commit"}
                    THEN missed.session \cup {t.row} ELSE missed.session]
  /\ recorder' = [recorder EXCEPT ![p] = Idle]
  /\ UNCHANGED <<world, tables, recalc, seen, raced>>

-----------------------------------------------------------------------------
(* Recalculation of the cost of a row. *)

\* The row is read, under a lock on PostgreSQL.
LoadUsage(c, r) ==
  /\ recalc[c] = None
  /\ usage[r] # None
  /\ ~Locked(r)
  /\ Spend
  /\ recalc' = [recalc EXCEPT ![c] =
       [row |-> r, cost |-> usage[r].cost, session |-> usage[r].session]]
  /\ raced' = [raced EXCEPT
       !.repriced = IF Recalculating(r) THEN @ \cup {r} ELSE @,
       !.crossed = IF Recording(r) \/ (usage[r].session # None /\ Holding(usage[r].session))
                   THEN @ \cup {r} ELSE @]
  /\ UNCHANGED <<world, tables, recorder, seen, missed>>

\* Mutant: the sessions keep the old cost.
RecalculateDailyOnly(c) ==
  LET t == recalc[c] IN
  /\ t # None
  /\ \E n \in Costs :
       LET d == n - t.cost IN
       /\ daily' = Repriced(daily, t.row, d)
       /\ usage' = IF d # 0 THEN [usage EXCEPT ![t.row].cost = n] ELSE usage
  /\ raced' = IF daily.exists THEN raced
              ELSE [raced EXCEPT !.repriced = @ \cup {t.row}]
  /\ recalc' = [recalc EXCEPT ![c] = None]
  /\ UNCHANGED <<world, sessions, recorder, seen, spent, missed>>

\* Mutant: the new cost is added where the difference belongs.
RecalculateWhole(c) ==
  LET t == recalc[c] IN
  /\ t # None
  /\ \E n \in Costs :
       LET d == n - t.cost IN
       /\ daily' = Repriced(daily, t.row, n)
       /\ sessions' = IF t.session # None /\ d # 0
                      THEN [sessions EXCEPT ![t.session] = Repriced(@, t.row, d)]
                      ELSE sessions
       /\ usage' = IF d # 0 THEN [usage EXCEPT ![t.row].cost = n] ELSE usage
  /\ raced' = IF daily.exists THEN raced
              ELSE [raced EXCEPT !.repriced = @ \cup {t.row}]
  /\ recalc' = [recalc EXCEPT ![c] = None]
  /\ UNCHANGED <<world, recorder, seen, spent, missed>>

\* One transaction moves the difference to the cost that was read: usage_daily
\* by an increment, the session if the row as read has one and it has a row,
\* and the row itself, whose column is written only if it changes.
Recalculate(c) ==
  LET t == recalc[c] IN
  /\ t # None
  /\ \E n \in Costs :
       LET d == n - t.cost IN
       /\ daily' = Repriced(daily, t.row, d)
       /\ sessions' = IF t.session # None /\ d # 0
                      THEN [sessions EXCEPT ![t.session] = Repriced(@, t.row, d)]
                      ELSE sessions
       /\ usage' = IF d # 0 THEN [usage EXCEPT ![t.row].cost = n] ELSE usage
  /\ raced' = IF daily.exists THEN raced
              ELSE [raced EXCEPT !.repriced = @ \cup {t.row}]
  /\ recalc' = [recalc EXCEPT ![c] = None]
  /\ UNCHANGED <<world, recorder, seen, spent, missed>>

\* The model has no price any more, or the recalculation fails or dies.
Skip(c) ==
  /\ recalc[c] # None
  /\ recalc' = [recalc EXCEPT ![c] = None]
  /\ UNCHANGED <<world, tables, recorder, seen, spent, missed, raced>>

-----------------------------------------------------------------------------

Init ==
  /\ dialect \in {"sqlite", "postgresql"}
  /\ shape \in [Requests -> Shapes]
  /\ agentSession \in [Requests -> SessionIds \cup {None}]
  /\ usage = [r \in RowIds |-> None]
  /\ daily = NoRollup
  /\ sessions = [s \in SessionIds |-> NoRollup]
  /\ recorder = [p \in Paths |-> Idle]
  /\ recalc = [c \in Callers |-> None]
  /\ seen = [p \in Paths |-> {}]
  /\ spent = 0
  /\ missed = [daily |-> {}, session |-> {}]
  /\ raced = [requests |-> {}, repriced |-> {}, crossed |-> {}]

Record(p) ==
  \/ \E q \in Requests : Lookup(p, q)
  \/ Enrich(p) \/ Insert(p) \/ UpsertDaily(p) \/ LoadSession(p) \/ CommitSession(p)
  \/ FailDaily(p) \/ Abandon(p)

Reprice(c) == (\E r \in RowIds : LoadUsage(c, r)) \/ Recalculate(c) \/ Skip(c)

Next == (\E p \in Paths : Record(p)) \/ (\E c \in Callers : Reprice(c))

UsageSpec == Init /\ [][Next]_vars

-----------------------------------------------------------------------------
(* Properties. *)

\* What a recorder holds at each point of its recording.
Consistent(t) ==
  /\ t.pc = "idle" <=> t.request = None
  /\ t.row = None <=> t.pc \in {"idle", "insert"}
  /\ t.row # None => t.row \in Rows
  /\ t.cost = None <=> t.pc \in {"idle", "insert"}
  /\ t.pc \in {"session", "commit"} => t.session # None

\* The types of the tables, and of what each thread holds at each point of its
\* recording.
UsageTypeOK ==
  /\ dialect \in {"sqlite", "postgresql"}
  /\ shape \in [Requests -> Shapes]
  /\ agentSession \in [Requests -> SessionIds \cup {None}]
  /\ usage \in [RowIds -> UsageRow \cup {None}]
  /\ daily \in Rollup
  /\ sessions \in [SessionIds -> Rollup]
  /\ recorder \in [Paths -> RecorderState]
  /\ \A p \in Paths : Consistent(recorder[p])
  /\ recalc \in [Callers -> Loaded \cup {None}]
  /\ \A c \in Callers : recalc[c] # None => recalc[c].row \in Rows
  /\ seen \in [Paths -> SUBSET Requests]
  /\ spent \in Nat
  /\ missed \in [daily : SUBSET Rows, session : SUBSET Rows]
  /\ raced \in [requests : SUBSET Requests, repriced : SUBSET Rows,
                crossed : SUBSET Rows]

DailyPending(r) == \E p \in Paths : recorder[p].pc = "daily" /\ recorder[p].row = r

\* However recordings, merges, failures and recalculations interleave,
\* usage_daily counts every usage row exactly once, except one whose rollup is
\* still to come or was given up with a warning.
DailyCountsRows ==
  \A r \in RowIds :
    daily.count[r] =
      IF r \in Rows /\ ~DailyPending(r) /\ r \notin missed.daily THEN 1 ELSE 0

\* usage_daily holds the cost each counted row has now, unless two
\* recalculations of the row overlapped or one found no row of usage_daily.
DailyCostsFollowRows ==
  \A r \in Rows :
    daily.count[r] = 1 /\ r \notin raced.repriced => daily.cost[r] = usage[r].cost

\* No row is counted twice by the sessions, although both paths, in either
\* order and at once, may roll it up.
CountedBy(r) == {s \in SessionIds : sessions[s].count[r] > 0}

SessionsCountOnce ==
  \A r \in RowIds :
    /\ \A s \in SessionIds : sessions[s].count[r] <= 1
    /\ \A s, t \in CountedBy(r) : s = t

SessionPending(r) ==
  \E p \in Paths :
    recorder[p].pc \in {"daily", "session", "commit"} /\ recorder[p].row = r

\* A row that got a session, when it was inserted or by a merge, is counted by
\* one, except a row whose rollup is still to come or was given up.
SessionsCountRows ==
  \A r \in Rows \ missed.session :
    usage[r].session # None /\ ~SessionPending(r) => CountedBy(r) # {}

SameShape(q) == {k \in Requests : shape[k] = shape[q]}

\* A session holds the cost its rows have now, as long as recordings and
\* recalculations that concern it did not overlap and telemetry agrees which
\* session the row belongs to.
SessionCostsFollowRows ==
  \A r \in Rows \ (raced.repriced \cup raced.crossed) :
    \A s \in CountedBy(r) :
      (\A q \in SameShape(usage[r].request) : agentSession[q] = s) =>
        sessions[s].cost[r] = usage[r].cost

\* A request that both paths report, in either order, has one row, unless both
\* looked for the other's row before either was inserted.
OneRowPerRequest ==
  \A q \in Requests \ raced.requests :
    Cardinality({r \in Rows : usage[r].request = q}) <= 1

\* A recalculation changes the sum of usage_daily by as much as it changes the
\* row, also beside other recalculations.
RecalculationMovesBoth ==
  [][\A c \in Callers :
       recalc[c] # None /\ recalc'[c] = None /\ daily.exists =>
         LET r == recalc[c].row IN
         daily'.cost[r] - daily.cost[r] = usage'[r].cost - usage[r].cost]_vars

===============================================================================
