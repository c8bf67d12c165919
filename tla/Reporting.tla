------------------------------ MODULE Reporting ------------------------------
(* What the dashboard reads (database/usage.py from line 639): the same rows   *)
(* are reported from the usage table for windows shorter than two days and     *)
(* from usage_daily, the sums per UTC day, for longer ones. Instants are       *)
(* counted in units of which DayLength make a day. A row and its share of      *)
(* usage_daily arrive in one step here: what may happen between the two is the *)
(* subject of UsageRecording.                                                  *)
EXTENDS Integers, Sequences, FiniteSetsExt

CONSTANTS
  DayLength,      \* instants of a day
  LastInstant,    \* instants are 0 .. LastInstant, for model checking
  MaxRows,        \* bound on the rows, for model checking
  Zones,          \* offsets from UTC in which the ends of windows are written
  Unbounded,      \* no since, or no until
  Responses,      \* the status and the latency of a call
  Providers,      \* a grouping column: provider, model or client_source
  AnyProvider     \* no filter on that column

NoStatus == 0       \* a row without an HTTP status
NoLatency == -1     \* a row without a latency

ASSUME ReportingAssumption ==
  /\ DayLength \in Nat \ {0} /\ LastInstant \in Nat /\ MaxRows \in Nat
  /\ Zones \subseteq (1 - DayLength) .. (DayLength - 1)
  /\ Unbounded \notin [at : Int, zone : Int]
  /\ Responses \subseteq (0 .. 599) \X (Nat \cup {NoLatency})
  /\ IsFiniteSet(Providers) /\ AnyProvider \notin Providers

Instants == 0 .. LastInstant
Days == 0 .. LastInstant \div DayLength
Day(at) == at \div DayLength
\* An end of a window: an instant, and the zone of the string that says it.
Ends == [at : Instants, zone : Zones]
UTC(at) == [at |-> at, zone |-> 0]

UsageReport ==
  {[at |-> at, provider |-> p, status |-> r[1], latency |-> r[2]] :
     at \in Instants, p \in Providers, r \in Responses}

VARIABLES
  reported,       \* the rows of usage
  daily           \* usage_daily: sums by day and provider

reportVars == <<reported, daily>>

NoSums == [requests |-> 0, ok |-> 0, s429 |-> 0, s4xx |-> 0, s5xx |-> 0, latency |-> 0]

ReportingInit ==
  /\ reported = <<>>
  /\ daily = [key \in Days \X Providers |-> NoSums]

Known(latency) == IF latency = NoLatency THEN 0 ELSE latency
One(condition) == IF condition THEN 1 ELSE 0
Failed(row) == row.status # NoStatus /\ row.status >= 400

(* ---- the rollup: upsert_daily_aggregate ----------------------------------- *)

\* Mutant: rate-limited calls also count as client errors.
AddedTwice(sums, row) ==
  [requests |-> sums.requests + 1, ok |-> sums.ok + One(~Failed(row)),
   s429 |-> sums.s429 + One(row.status = 429),
   s4xx |-> sums.s4xx + One(Failed(row) /\ row.status < 500),
   s5xx |-> sums.s5xx + One(row.status >= 500),
   latency |-> sums.latency + Known(row.latency)]

Added(sums, row) ==
  [requests |-> sums.requests + 1, ok |-> sums.ok + One(~Failed(row)),
   s429 |-> sums.s429 + One(row.status = 429),
   s4xx |-> sums.s4xx + One(Failed(row) /\ row.status # 429 /\ row.status < 500),
   s5xx |-> sums.s5xx + One(row.status >= 500),
   latency |-> sums.latency + Known(row.latency)]

ReportUsage(row) ==
  /\ Len(reported) < MaxRows
  /\ reported' = Append(reported, row)
  /\ daily' = [daily EXCEPT ![<<Day(row.at), row.provider>>] = Added(@, row)]

ReportingNext == \E row \in UsageReport : ReportUsage(row)

ReportingSpec == ReportingInit /\ [][ReportingNext]_reportVars

(* ---- the queries ------------------------------------------------------------ *)

\* _usage_filters: the rows of a window, the ends included, whatever their zones.
Selected(since, until, provider) ==
  {i \in DOMAIN reported :
     /\ since # Unbounded => reported[i].at >= since.at
     /\ until # Unbounded => reported[i].at <= until.at
     /\ provider \in {AnyProvider, reported[i].provider}}

\* The date an end is written with: value[:10].
DateOf(end) == (end.at + end.zone) \div DayLength

\* _daily_usage_filters compares dates as they are written, with the UTC dates of
\* usage_daily; without an until the last day is today's.
DaysOf(since, until, now) ==
  {d \in Days : since # Unbounded => d >= DateOf(since)} \cap
  {d \in Days : d <= DateOf(IF until = Unbounded THEN UTC(now) ELSE until)}

\* _should_use_daily_table
UsesDaily(since, until, now) ==
  since = Unbounded \/
    (IF until = Unbounded THEN now ELSE until.at) - since.at >= 2 * DayLength

\* SQL's sum of a column over some rows.
Total(weight, rows) == MapThenSumSet(LAMBDA i : weight[i], rows)

CountWhere(rows, statuses) == Cardinality({i \in rows : reported[i].status \in statuses})

\* _summarize_usage_raw and aggregate_usage_by_period sum in SQL.
RawSums(rows) ==
  [requests |-> Cardinality(rows),
   ok |-> CountWhere(rows, {NoStatus} \cup 1 .. 399),
   s429 |-> CountWhere(rows, {429}),
   s4xx |-> CountWhere(rows, (400 .. 499) \ {429}),
   s5xx |-> CountWhere(rows, 500 .. 599),
   latency |-> Total([i \in rows |-> Known(reported[i].latency)], rows)]

\* summarize_usage_window walks over the rows it selected.
StatusClass(row) ==
  IF ~Failed(row) THEN "ok"
  ELSE IF row.status = 429 THEN "s429"
  ELSE IF row.status < 500 THEN "s4xx" ELSE "s5xx"

WindowSums(rows) ==
  [field \in DOMAIN NoSums |->
     CASE field = "requests" -> Cardinality(rows)
       [] field = "latency" -> Total([i \in rows |-> Known(reported[i].latency)], rows)
       [] OTHER -> Cardinality({i \in rows : StatusClass(reported[i]) = field})]

\* summarize_usage_daily and its kin, per value of the grouping column.
DailySums(days, provider) ==
  LET keys == {key \in DOMAIN daily : key[1] \in days /\ provider \in {AnyProvider, key[2]}}
  IN  [field \in DOMAIN NoSums |-> Total([key \in keys |-> daily[key][field]], keys)]

\* fetch_recent_usage, all of its pages, and count_usage.
Listed(since, until, provider) == Cardinality(Selected(since, until, provider))
CountUsage(since, until, now, provider) ==
  IF UsesDaily(since, until, now) THEN DailySums(DaysOf(since, until, now), provider).requests
  ELSE Listed(since, until, provider)

\* summarize_usage_by_provider and its like: one group per value that occurs, with the
\* count of its own.
Groups(since, until, now) ==
  IF UsesDaily(since, until, now)
    THEN {p \in Providers : \E d \in DaysOf(since, until, now) : daily[<<d, p>>] # NoSums}
    ELSE {reported[i].provider : i \in Selected(since, until, AnyProvider)}

\* avg_latency_ms as sum and number: SQL's avg ignores rows without a latency,
\* the daily table divides by all requests.
RawAverage(rows) ==
  <<RawSums(rows).latency, Cardinality({i \in rows : reported[i].latency # NoLatency})>>
DailyAverage(sums) == <<sums.latency, sums.requests>>

\* _period_expression: the local day of an instant.
Period(at, offset) == (at + offset) \div DayLength
PeriodSums(since, until, offset, provider, period) ==
  RawSums({i \in Selected(since, until, provider) :
             Period(reported[i].at, offset) = period})

(* ---- properties ----------------------------------------------------------------- *)

ReportingTypeOK ==
  /\ reported \in Seq(UsageReport)
  /\ \A key \in Days \X Providers, field \in DOMAIN NoSums : daily[key][field] \in Nat

DayStart(day) == UTC(day * DayLength)
DayEnd(day) == UTC((day + 1) * DayLength - 1)

\* Whichever table answers, the reports tell the same story. From usage_daily a
\* report covers exactly the whole UTC days with the dates its window is written with,
\* with the same counts per status as SQL over the rows and as the walk over a run's
\* window, and with the same average latency if every row has one
\* (_should_use_daily_table and its two branches).
BranchesAgree ==
  \A since, until \in Ends, provider \in Providers \cup {AnyProvider} :
    UsesDaily(since, until, until.at) =>
      LET first == DayStart(DateOf(since))
          last == DayEnd(DateOf(until))
          rows == Selected(first, last, provider)
          raw == RawSums(rows)
          sums == DailySums(DaysOf(since, until, until.at), provider)
      IN  /\ sums = raw /\ WindowSums(rows) = raw
          /\ (\A i \in rows : reported[i].latency # NoLatency) =>
               DailyAverage(sums) = RawAverage(rows)
          /\ \A d \in DateOf(since) .. DateOf(until) :
               PeriodSums(first, last, 0, provider, d) = DailySums({d}, provider)

\* Whether the date an end is written with is no later, or no earlier, than its UTC date.
NoLater(end) == end # Unbounded => DateOf(end) <= Day(end.at)
NoEarlier(end) == end # Unbounded => DateOf(end) >= Day(end.at)

\* When a report may be asked for: at any time, which matters to an open window only.
Nows(until) == IF until = Unbounded THEN Instants ELSE {until.at}

\* The log page's count never falls short of the rows it lists, so that every row
\* has a page: for any window, open or closed, with no row from after today, unless
\* its since names a later date than UTC's, or its until an earlier one
\* (fetch_recent_usage against count_usage).
EveryRowHasAPage ==
  \A since, until \in Ends \cup {Unbounded} : \A now \in Nows(until) :
    /\ until = Unbounded => \A i \in DOMAIN reported : Day(reported[i].at) <= Day(now)
    /\ NoLater(since) /\ NoEarlier(until)
    => CountUsage(since, until, now, AnyProvider) >= Listed(since, until, AnyProvider)

\* A breakdown leaves nothing out and counts nothing twice: its groups add up to
\* the count of the same window, whichever table answers.
GroupsAddUp ==
  \A since, until \in Ends \cup {Unbounded} : \A now \in Nows(until) :
    LET groups == Groups(since, until, now)
    IN  Total([p \in groups |-> CountUsage(since, until, now, p)], groups)
          = CountUsage(since, until, now, AnyProvider)

ReportsAgree == reported # <<>> => BranchesAgree /\ EveryRowHasAPage /\ GroupsAddUp

===============================================================================
