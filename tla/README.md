# Formal models of the token tracker

TLA+ modules, TLC configurations and TLAPS proofs about the server in `src/`.
Paths below are relative to the repository (`src/database/usage.py` is the
server's package, `client/` the command-line client). Definitions keep the
names of the functions they model where that is possible; `PROJECT.json` maps
each of them to its lines.

Contents: [the system](#the-system) · [modules](#modules) ·
[runs](#runs-and-bounds) · [fairness](#fairness) · [proofs](#proofs) ·
[findings](#findings) · [left out](#what-is-not-modelled) · [plan](#plan)

## The system

Three server processes share one database (SQLite, or Postgres): the **API**
(`src/api.py`), the **proxy** (`src/proxy.py`) and the **OTLP collector**
(`src/otlp.py`). The proxy relays model requests and records their usage, the
collector receives the telemetry of coding agents, the API serves the
dashboard, the clients and the evaluation of sessions. No transaction spans two
of the helpers in `src/database/`: each opens a session of its own, reads, and
writes at commit, so everything below that "reads and then writes" can be
interleaved with another process or thread.

| Component | State | Operations | What is hard | What makes it correct |
|---|---|---|---|---|
| Evaluation job queue (`database/evaluation_jobs.py`) | `evaluation_jobs` rows with a partial unique index | create, promote, retarget, claim, expire, mark succeeded or failed | claims of several workers, late completions, expiry of live jobs | one active job per session; ended jobs are final; claimed jobs are fixed |
| Evaluation columns (`database/sessions.py`) | outcome, source, evaluated_at of `sessions` | upsert, upsert unless manual, mark no-op, delete, telemetry | decisions on a loaded row, column-wise UPDATE | a hand verdict wins; the columns agree |
| Evaluation worker (`evaluation_worker.py`, `evaluation.py`, `api.py`) | one tick in flight, threads of claimed jobs | tick: expire, classify, enqueue, claim, launch; evaluator: load transcript, run agent, store, mark; handlers: start, retarget, PUT, DELETE | interleaving of all of these, crashes, failed ticks, timeouts | limits respected, no automatic retry without a change, a job belongs to one thread, nothing waits for ever |
| Usage recording (`recorder.py`, `database/usage.py`, `database/sessions.py`) | `usage`, `usage_daily`, `sessions`, `tool_calls` | log, merge duplicate, roll up, recalculate, rebuild | several recorders of one request, three transactions per record | rollups equal the rows; a request is counted once |
| Price snapshots (`pricing/`, `recorder.py`) | `price_snapshots`, the snapshot id of each usage row | resolve, snapshot, record, recalculate, reprice | prices that change meanwhile, overlapping recalculations | a row bound to a snapshot costs what its replay charges |
| Configuration and prices in force (`config/app.py`, `pricing/sources/`, `api.py` 921-1053) | YAML file, cache file of prices, configuration and maps in each process | patch, refresh, fetch, notify the proxy | everything before the swap runs unlocked; torn files; failed and broken downloads; lost notices | what was patched takes hold; prices once loaded are not forgotten |
| OTLP ingest gate (`otlp.py` 60-185) | cache of invalid tokens, rate windows, executor | admit, refuse, limit | abandoned lookups, stale cache, window edges | bursts are bounded; no refusal outlives its cause |
| OTLP correlation (`otlp.py` 264-505, 838-1150; `recorder.py` 164-260) | bounded buffers in memory, `tool_calls`, the session's counter | buffer, match, evict, flush, record | any order of arrival, redelivery, eviction, failures in a batch | each tool is counted once, and none disappears |
| Device tokens and browser sessions (`auth/tokens.py`, `auth/routes.py`) | `auth_tokens`, `devices` | login, rotate, revoke, log out | overlapping logins, a revocation under a login | one live pair per machine, none when revoked; one live browser session |
| One-time codes (`auth/google.py`) | a JSON file rewritten under `flock` | store, pop | several processes, a death between truncate and write | a code is accepted once at most |
| Schema migrations (`schema_migrations.py`) | columns, tables, backfills, conversions | `migrate_database` | each step commits by itself; a death between any two; services run beside it | nothing is left half done; evaluations are kept |
| Reports over usage (`database/usage.py` from 639) | none; reads `usage` and `usage_daily` | summarize, aggregate, group, list, count | two sources for one question | they agree |
| Proxy relay, supervision, reports over sessions, client, plugins, frontend, packaging | | | | listed under "What is not modelled" |

How they meet. The collector passes a call through the gate, then the
correlation buffers, and ends in `record_usage` and `record_tool_call`; the
proxy ends in `record_usage`. Recording prices a row from the maps that are in
force in its process (`pricing/maps.py`) and binds it to a snapshot. The API
reads the rows for its reports, patches the configuration and tells the proxy,
serves the logins, and runs the evaluation of sessions. `server start` and
`server restart` migrate the database before (and, at a restart, while) the
services run.

The evaluation queue is the part with the most concurrency and the most states
that no test reaches, and its helpers are shared by every other part of that
feature; it is the core. Usage recording comes second: it is what
every report is computed from, and three processes write its tables. The other
parts keep state of their own, which no two of them write, and are modelled each
by a module.

## Modules

```
EvaluationSlots            what the queue promises a session (abstract)
   ^ implements
EvaluationJobs             the evaluation_jobs table, one action per statement
   ^ INSTANCE Jobs
EvaluationWorker ---- INSTANCE Rows ----> SessionEvaluation
   the API processes: handlers,              the evaluation columns of a
   worker tick, evaluator threads            session row and their writers

UsageRecording             usage rows, their two rollups, and who writes them

IngestGate   ToolCorrelation   OneTimeCodes   DeviceTokens
Migration    PriceSnapshots    PriceRefresh   Reporting
   |            one component each; MCServerParts is their disjoint sum
   |            (the first two share Buffers: taking entries out of a list)
   v
MCServerParts
```

**EvaluationSlots** is the abstract promise: every session owns one slot that
is idle, queued or running; a request enters an idle slot, is taken up once, and
is released.

**EvaluationJobs** models the table. `jobs[j]` is the row with key `j`, `now`
the clock. Each action is one SQL statement with its WHERE clause as guard:
`CreateJob` (insert under the partial unique index), `PromoteToManual`,
`UpdateQueuedEvaluator`, `ClaimJob`, `FailStaleJobs`, `MarkSucceeded`,
`MarkFailed`. In this module the callers are unconstrained, so its properties
hold for any program that uses these statements. Claims and expiries take the
time their caller read earlier (`at`), because the code computes the timestamp
before it looks for a row. A session has one owner (`sessions.session_id` is a
primary key), so the owner column is left out.

**SessionEvaluation** models the evaluation columns of a row. A write is two
steps, a load (`LoadForUpsert`, `CheckNotManual` and `LoadNoOp`,
`LoadForDelete`) that decides on what it read, and `CommitWrite`, which updates
the columns whose new value differs from the loaded one: that is what the ORM
emits, and it is why two overlapping writes can mix. `AbandonWrites` is the
rollback of a writer that raised or died. `verdict` columns (confidence, titles,
summary, evidence, reason, project) follow the outcome and are not separate.
Three history variables say what a person decided: `handVerdict`, the writers
that met another (`contended`), and the sessions whose last hand write was
contended (`raced`).

**EvaluationWorker** composes both. Per API process it has the request its event
loop serves (`api`), the worker tick (`tick`) and the evaluator `thread` of each
job; each record has a `pc` and what the thread has read and not used yet. Handlers never
await between two database calls, so one request is served at a time, and the
tick and the evaluators run in threads beside it. Every action is one database
transaction or the step after it. Crashes (`Crash`, `Boot`), exceptions of a
request, tick or evaluator (`FailRequest`, `FailTick`, `FailEvaluator`) can
happen between any two of them. A graceful shutdown is a crash that happens
when nothing is in flight. The two
modules below it are instantiated, and `ImplementsJobs` and
`ImplementsSessions` check that the composition uses them through their actions
only, so that what is proved of them holds of it.

**UsageRecording** models the recorders of the proxy and the collector and the
callers of `recalculate_usage_cost`. gunicorn runs each of the two processes
with `workers = 1` (`src/config/proxy.conf.py:9`, `otlp.conf.py:9`) and
`record_usage` never awaits, so a path records one request at a time. A
recording is a chain of transactions, each an action: `Lookup` (the search for
a row of the other path), then `Enrich` or `Insert`, `UpsertDaily`, and
`LoadSession` with `CommitSession`, which are two steps because the session's
sums are added to in Python. `FailDaily` and `Abandon` are the exceptions
`log_usage` swallows, those it does not, and the crash of the process. A
recalculation is `LoadUsage` and `Recalculate` (one transaction, that writes
all three tables) or `Skip`. The database is chosen at `Init`: on PostgreSQL
`FOR UPDATE` holds the row from load to commit (`Locked`), on SQLite it does
nothing.

A rollup row is not kept as a sum but as the contribution of each usage row to
it (`count[r]`, `cost[r]`), so that a row missed and another counted twice do
not cancel out. Timestamps and tokens are one `shape`: two requests share it if
the lookup takes one for the other. Telemetry that is delivered twice is a
second request with the same shape and session. `missed` and `raced` are
history: rows whose rollup was given up, requests both paths looked for before
either inserted, rows whose recalculations overlapped or found no daily row
(`repriced`), and rows a recalculation of which overlapped a recording that
concerns them (`crossed`).

**IngestGate** models the authentication of the collector's calls. A call
arrives (`Arrive`), waits for one of `LookupSlots` threads (`StartLookup`), which
looks in the cache of invalid tokens (`RefuseCached`), then in the database
(`ReadToken`), and refuses (`RefuseInvalid`, which remembers the token and
charges the address) or returns; the handler then charges the token's own window
(`AdmitOrLimit`) or has given up on its thread (`TimeOut`), which goes on. `Mint`
and `Revoke` are the database changing meanwhile. `passed` is history: the
instants of the last `MaxPerWindow + 1` calls that passed with a key, which is what it
takes to see whether more than `MaxPerWindow` of them fell into one window.

**ToolCorrelation** models what becomes of a tool call, for the three ways
agents report one: per prompt (Claude Code: `UserPrompt`, `ToolDecision`,
`ToolResult`, `ApiRequest`), per conversation (Codex: `CodexEvent`,
`ToolTime`, `CodexCompleted`) and per message (OpenCode and Kilo:
`MessageCompleted`). Every handler is one action: the collector handles the
records of a batch one after the other. Buffers are bounded and evicted
(`EvictTools`, `EvictUsage`, `EvictState`), a restart loses all of them
(`CollectorRestart`). Nothing ties the arrival of one record to that of
another: a result may come before the request it belongs to (it is then
recorded under the last usage of its prompt, or none), and a request late, after
others. The times of decisions are `Moments`; a request flushes
the tools decided before its `cut`, which the code computes from a latency or a
grace period and which may therefore fall anywhere, so that tools of earlier
requests may stay buffered or go in parts. A usage row (`UsageStored`) may leave
its session without a row, because `log_usage` swallows a rollup that fails. What
the recording does to the database, an insert of the tool and then the session's
counter, may fail at either. `usageRows` numbers the usage rows; `decided`,
`lostTools` and `uncounted` are history.

**OneTimeCodes** models the file of pending codes: a store or a pop takes the lock
(`LockFile`), loads and prunes (`LoadForStore`, `LoadForPop`), truncates
(`TruncateFile`), writes and unlocks. `DieInStore` is a death at any of these:
the lock goes, and so does what the file had before the truncation.

**DeviceTokens** models the tokens of a user: the pair of each machine, replaced at
every approved login (`LoadDevice`, `RetryRotation`, `RotatePair`), revoked with
the machine (`RevokeDevice`) or by itself; and the browser sessions, which a
local login lists (`ListBrowsers`), retires one transaction each
(`RetireBrowser`) and replaces (`MintBrowser`). `RowLocks` says whether
`FOR UPDATE` locks the row. `crossed` and `together` are history: machines
revoked between the lookup and the commit of a login, and logins that met.

**Migration** models `migrate_database` step by step, from any database an
earlier release left. Columns, tables and indexes that are only added are
grouped as they were released (`ColumnOrder`). A migrator dies between any two
transactions (`DieInMigration`) and is started again; the services record and
evaluate meanwhile (`RecordUsageRow`, `RollUpSession`, `EvaluateSession`). On
SQLite (`SchemaCommits`) a new table is committed before it is filled.
`evaluatedOnce` and `gap` are history.

**PriceSnapshots** models what a row is charged: `ResolveNew` or `LoadPriced`
fixes the rates, `EnsureSnapshot` stores them once (or fails, `MissSnapshot`; one step, as the
insert is one statement that the unique key decides),
`InsertPriced` or `CommitPriced` writes cost and binding, the latter only the
columns that changed. An offer has a rate below and above `TierFloor` tokens and
one at night, where a night may wrap past midnight. A read replays the cost of a
bound row from its snapshot (`Replayed`). `LockingReads` is PostgreSQL.

**PriceRefresh** models the configuration and the maps of each process. A refresh
loads the file (`LoadConfig`; a file just truncated reads as empty), fetches
prices, and swaps both in under the lock (`SwapMaps`): the only step the lock
covers. A fetch takes the prices of a fresh cache file (`FetchFromCache`), or
downloads (`FetchFromNet`), truncates the file (`TruncateCache`), and writes and
parses what it got (`SaveCache`); one that fails and says so keeps what the process has
(`FetchFails`). An exception that `fetch_json` does not catch, a download cut
short say, or a body that is no mapping (`FetchRaises`, `SaveCache`), reaches `fetch_sources`, which
goes on with no entries: the maps swapped in then lack LiteLLM's prices. The
price queries of the API fetch through the same cache and memory and swap
nothing (`FetchLive`, `AnswerQuery`). `PATCH` handlers rewrite the configuration
(`OpenForWrite`, `WritePatch`, `WriteEvaluator`), refresh, and tell the proxy (`NotifyProxy`),
which may not hear (`LoseNotice`). `hadPrices`, `interrupted`, `behind` and
`untold` are history: processes a refresh of which loaded LiteLLM's prices,
those that put maps in force after a fetch that raised, what an overtaken
refresh put in force, and processes no one told of the last change. LiteLLM is enabled in
every configuration.

**Reporting** models the reads of the dashboard as operators over a log of rows:
the filters, the choice between `usage` and `usage_daily`
(`UsesDaily`), counts by status, average latencies, periods, groups (`Groups`), the
listing and its count. Only recording a row is a step. The ends of a window are an
instant and the zone of the string that says it: rows are filtered by the
instant, `usage_daily` by the date as it is written (`DateOf`, the code's
`since[:10]` and `until[:10]`), which with an offset need not be the UTC date
that table is kept by.

**MCServerParts** extends these eight and runs them as a disjoint sum: a
behaviour chooses one part (`part`) and takes that part's actions, while the
others rest in their initial state. This is sound because no action of a part
reads or writes a variable of another; what they say of each other's subject is
said by the abstractions above (a row and its rollups are one step in Reporting,
for instance, because UsageRecording shows when they are). It is one run because
the parts ask one question each, and small. Deadlock is not checked
in it: each part stops where its bounds stop it. The correlation buffers of
different keys never meet, so each key is a part of its own.

**EvaluationJobs_proofs**, **SessionEvaluation_proofs**,
**EvaluationWorker_proofs**, **UsageRecording_proofs**, **Collector_proofs**,
**Auth_proofs**, **PricesAndReports_proofs** and **ServerParts_proofs** (migrations,
and the sum of the parts) hold the theorems.
**MC…** modules extend a specification with the symmetry sets of its instances.
Definitions whose comment starts with "Mutant" are deliberate mistakes: each is
the form a definition would have with a plausible bug, and some property of a
run is violated when it takes the definition's place. They belong to no
specification.

## Runs and bounds

Each cfg spends its budget on one question. Constants that are equal in all
those of the evaluation: `MaxConcurrent = 1`, `JobTimeout = 1`, `EvaluationTimeout = 1` (the code
has both at 300 s, and their being equal is what makes a live job expire),
`QuietDelay = 1`.

| Run | Instance | What it shows |
|---|---|---|
| `jobs` (MCEvaluationJobs) | 3 jobs, 2 sessions, 2 evaluators, clock 0..1 | under any callers: one active job per session, final and fixed rows, the table implements EvaluationSlots |
| `session_columns` (MCSessionEvaluation) | 1 session, 2 writers, 2 verdicts | a hand verdict that met nobody is kept, whatever overlaps later |
| `worker_queue` (MCWorkerQueue) | 1 process, 2 jobs, 2 sessions, 1 request, 2 usage rows, 1 fault, clock 0..2 | limits, ownership of jobs, no retry without change, use of the table |
| `worker_verdicts` (MCWorkerVerdicts) | 1 process, 1 job, 1 session (an evaluator's own), 2 requests, 2 hand writes | the worker and the handlers use the session row through SessionEvaluation only, so that its theorems hold of them |
| `worker_competing` (MCWorkerCompeting) | 2 processes, 2 jobs, 1 session, 2 evaluators, 1 request, 1 fault | claims of competing workers, one evaluation per session |
| `worker_liveness` (MCWorkerLiveness) | 1 process, 2 jobs, 2 sessions, buffer 2, 1 fault, clock 0..2 | running jobs end, queued jobs leave, sessions are served |
| `usage_recording` (MCUsageRecording) | 2 requests, 2 shapes, 2 sessions, 3 rows, 2 callers, 2 prices, 2 events, both databases | the rollups count every row once and follow its cost; one row per request |
| `server_parts` (MCServerParts) | the instances below, one part per behaviour | the invariants of the eight parts |
| `manual_verdict_kept`, `columns_together` | as `worker_verdicts` with one request | the first two findings below |
| `recalculation_moves_both` | 1 request, 2 callers, 2 prices | the third finding |
| `migration_keeps_evaluations` (MCMigration) | 1 migrator, 2 sessions, SQLite, 1 death | the fourth finding |

The parts of `server_parts`:

| Part | Instance | Invariants |
|---|---|---|
| gate | 2 calls, 1 token, window 2, 1 pass per window, cache of 1 for 2, 1 lookup thread, clock 0..3 | `RateLimitHolds`, `NoStuckRefusal` |
| a prompt, a conversation, a message | 2 tools, 2 moments, 2 usage rows, 1 waiting prompt length | `ToolCountsFollowRows`, `NoToolForgotten` |
| codes | 2 codes, 2 processes, room for 1, lifetime 1, clock 0..1 | `CodeRedeemedOnce` |
| auth | 1 machine, 2 threads, 4 tokens, SQLite | `DeviceCredentials`, `OneLiveBrowser` |
| migration | 1 migrator, 2 sessions, SQLite, 2 deaths, every earlier release | `MigrationComplete`, `EvaluationsKept` |
| reporting | 3 days of 2 instants, windows written one instant west or east of UTC, 2 rows, 2 providers, a response of each class, one without a latency | `ReportsAgree` |
| prices | 1 row, 2 threads, 2 offers and none, a tier from 2 tokens, a night from 3 to 1, SQLite | `BoundRowsReplay` |
| refresh | API and proxy, 2 threads that refresh or query prices (interchangeable), 2 patches | `RefreshTakesHold` |

Why these are enough. A race here is between two threads about one row or one
session, so two jobs, two sessions and two processes let each pair meet; a third
job in `jobs` lets a session be requested again beside a terminal row. A clock of three instants lets
a job be created, started and expired at different times. The clock is bounded
(`MaxTime`), requests, hand writes, usage and faults by the counters in `spent`. A fault may
happen only while the clock can still reach the deadline of what it orphans,
else the liveness properties would speak of a clock that stopped. The keys of
jobs are drawn in a fixed order (`FreshId`), which loses nothing as keys are
random; when none is left `InsertJob` leaves the table alone, and
`EligibleSessionsServed` says so. Symmetry: processes, sessions and verdicts are
interchangeable, and no run with a liveness property uses it.

In `usage_recording` two requests may be the same delivered twice, two that
look alike, or unrelated, of one session or two; each path may be given both.
Three rows let one row be inserted beside a merge on another and a duplicate
that was missed; a fourth would need every lookup to miss. When the keys are used
up `Insert` waits, which only cuts behaviours short. `MaxEvents = 2` bounds the
recalculations and faults together: two recalculations overlap, or one overlaps
a recording that fails. Deadlock checking is off in the two runs of this module: there is
nothing left to do when both paths have recorded every request.

In `server_parts` the bounds let each hazard happen: a second call of the same
token while the first looks it up, the clean-up of the rate table at the very end of a
window, an eviction between a decision and its result, a result before its
request and a request whose cut divides the tools of its prompt, a store that evicts the
code another process is about to pop, a revocation between a login's lookup and its
commit, a death after each step of a migration and one more in the run that
repairs it, a window of exactly two days, with room for rows before it, beside
shorter and longer ones, and of each some whose dates are not UTC's, a call at either edge of a night that wraps, and a
refresh overtaken by another one or interrupted in its download, beside a price
query that rewrites the cache.
SQLite is the database with fewer locks, hence the one to check; the theorems
about these parts hold for both. `MaxTime`, `MaxTokens`, `MaxRequests`,
`MaxCodeTime`, `MaxFaults`, `MaxRows` and `MaxPatches` bound only how long a
behaviour is. `MigrationComplete` is stated for one migrator at a time, which
is how the server starts them: two that overlap on SQLite may both find a
table not yet converted.

The program is deployed with one worker process. `RunningWithinLimit` and
`AutoQueueBounded` say what its limits are worth with more: a worker counts and acts in
two transactions, so each further process may act on a count that another one
has used up, which makes one running job more, or one buffer of automatic jobs.
The run checks them for one process; with two the bounds are reached.
`NoRetryWithoutChange` is stated for one process and false for two: both may
select a session before either inserts.

## Fairness

Only `FairSpec` has it, and only what the code justifies: the steps of a request, of
a tick and of an evaluator thread are weakly fair (threads are scheduled; a
database call returns or raises; `subprocess.run` is called with a timeout, so
an evaluator that never answers fails), a process that ended is started again
by its supervisor, and the clock advances. Requests, usage and faults are never
forced. `StartTick` is fair because `run_evaluation_worker` loops with a bounded
sleep and catches what a tick raises.

## Proofs

All are checked by TLAPS for every value of the constants that satisfies the
named assumptions (`JobsAssumption`, `SessionsAssumption`, `WorkerAssumption`,
`UsageAssumption`, `TablesAssumption`, `GateAssumption`, `ToolAssumption`,
`CodesAssumption`, `AuthAssumption`, `MigrationAssumption`, `PricesAssumption`,
`RefreshAssumption`, `ReportingAssumption`: bounds and prices are numbers, switches are Booleans, sets
whose elements are counted, processes included, are finite, and the values that stand for "no row",
NULL and "at rest" are none of the values proper). `RetriesNeedChange` and
`MigrationCompletes` have a hypothesis besides, that there is one
process (`\A p, q \in Processes : p = q`) or one migrator; the runs check them
for one, too, and "Runs and bounds" says why.

*EvaluationJobs_proofs.* `JobsTypeCorrect` is inductive together with the
agreement of timestamps and status. `OneActiveJob` adds the guard of
`CreateJob`, the only statement that makes a row active. `TerminalJobsStayFinal`
and `ClaimedJobsFixed` go statement by statement. `JobsImplementSlots` maps each
statement to a step or a stutter of the slots; it needs `OneActivePerSession`,
because the slot of a session is read off *the* active row.

*SessionEvaluation_proofs.* `SessionsTypeCorrect`, then `UncontendedVerdictsStay`:
a hand verdict that met no other writer is kept. It is not inductive: what
protects the row is that every write in flight on an unraced session either is
contended or loaded the row as it still is. `VerdictInv` adds that a
write in flight is on an existing row (`WritersOnRows`), that two writers on one
session are both contended (`ContentionNoted`), that the load of an uncontended
writer is still what the row says (`UncontendedLoadFresh`), and what an
evaluator's write may find on a manual row (`SessionInv`). One lemma per kind of
step preserves it.

*EvaluationWorker_proofs.* About the composition, in which any number of
processes crash, boot, tick, serve requests and run evaluators.
`WorkerImplementsJobs` and `WorkerImplementsSessions` are the refinements: each
step of a process is one statement of the job table, with a clock reading of
the past, or leaves it alone, and likewise for the session columns. Their proof
needs the types of what a thread carries between two transactions, so it goes
with the invariant `IInv` of `WorkerTypeCorrect`: the types, the two invariants
of the instantiated modules (`OneActivePerSession`, `VerdictInv`, whose preservation
is taken from their own lemmas) and `HandsInv`, that a job in the hands of a
tick or a thread was started, is in the hands of one only (`JobsClaimedByOne`) and runs with
the evaluator its row names (`JobsRunWithChosenEvaluator`). `HeldInv` adds that
such a job is running or its time is over; from it and one active job per
session follow `JobsHeld` and `OneEvaluatorPerSession`. `LimitInv` counts
the running jobs together with the processes whose tick is between its count and its claim:
a process that joins these has just seen a free place, and with a claim it leaves
them, hence `LimitHolds` for any number of processes, with exactly `MaxConcurrent` for one.
`QueueInv` counts the automatic jobs together with those each tick selected and has
yet to insert, which fit a buffer per process, whatever
requests promote or users delete meanwhile (`QueueBounded`). For one process,
`RetryInv` says that a session selected has no failed automatic job younger than its
last change, until the tick inserts its job (`RetriesNeedChange`).
`WorkerKeepsVerdicts` carries `UncontendedVerdictKept` over to the composition.

*UsageRecording_proofs.* `UsageTypeCorrect` is inductive with what a
recorder holds at each point (`Consistent`). `DailyCounted`: `DailyInv` adds to
`DailyCountsRows` that a row whose daily rollup is pending was written by that
very path, so no two recorders ever owe the same one. `DailyCostsFollow`: `CostInv` adds
that what `usage_daily` holds of a row and what its pending rollup will add make
the cost the row has now, and that one caller at most holds a row, with its
current cost, as long as the row is not in `raced.repriced`. `SessionsCounted`
and `SessionsCountAll`: `SessionInv` rests on the proxy never
carrying a session, so the collector alone adds to the counts of sessions; hence
the sums it loaded are still those of the table when it commits, at most one row is owed to a session at any
time, and a row it owes is counted by none. A recalculation changes costs and
leaves these counts alone.

`RequestsHaveOneRow`: `RequestInv` says that a path writes a request only when
it was given it, once, and that the two do not both write it unless it is in
`raced.requests`. `SessionCostsFollow` is the longest argument, since the cost
of a row reaches its session on two ways, the sums the collector carries and
the differences a recalculation adds. `SessionCostInv` says of each row not in
`raced.crossed` that it is not recorded and recalculated at once, that a caller
who holds it knows its session, whose sums nobody has loaded, and that no
session holds a cost of it before it is counted (`Undisturbed`). `TelemetryInv`
keeps track of the session a row was given by: telemetry that names two
sessions for requests that look alike may count one row in either (`Agreed`
excludes that, as the property does).

*Collector_proofs.* `RateLimitKept`: the clean-up may drop the deque of a
key and a call pops what is too old, so the deque is not what the property
speaks of; `RateInv` says that of the last passes those within the window are
the last entries of the deque (`StillThere`) and that passes are in the order of
the clock (`InOrder`). A call that passes found fewer than `MaxPerWindow`
entries, so the pass `MaxPerWindow` before it is older than the window. `RefusalsEnd` follows the entries of the cache through expiry, eviction
and the move to its end. `ToolsCounted` and `ToolsRemembered`: `ToolInv` adds
that a buffer holds a tool once (`BuffersDistinct`), that the rows a failure
left uncounted are rows (`CountInv`), and covers all keys together, which the
runs check one by one. Entries are taken out of a buffer
by `Kept`; the lemmas about it (`KeptDistinct` and those before it) say that what
is kept is there once and in order.

*Auth_proofs.* `CredentialsHold` and `OneBrowserStays`, on both databases.
`AuthInv` adds that the tokens of a machine were minted together (`OnePair`),
that a login that read "active" is still right unless it was crossed
(`LoadedActive`), and that a login that met no other one has listed every
browser session there is (`ListedAll`). `CodesTypeCorrect` and
`CodesRedeemedOnce`, of any number of codes and processes: `CodeInv` says what the lock is for: whoever is past
`LockFile` holds it, what he loaded is still what the file says until he
truncates it, and a code accepted is in no file and in no copy of one.

*ServerParts_proofs.* `EvaluationsStay`: without a gap no migration erases an
evaluation, for any number of migrators at once and any deaths. `MigrationInv`
adds that as long as there is no gap every session of usage has its row and no
migrator is in the rebuild; the proof names the step that would take it there,
`CheckSessions`. `MigrationCompletes`, of one migrator: `CompleteInv` says what a
migrator that reached a step has behind it (`ColumnsAdded`, `ColumnsFilled`,
`UsageConverted`, `DailyMerged`), and that neither conversion of timestamps and
ids was made twice, also when a death left `usage_new` behind.
`SumImplementsParts`: a behaviour of MCServerParts is one of each part, whose
actions it takes or whose variables it leaves alone. So the theorems about the
parts hold of the sum, which is how `PartsTypeCorrect` follows from their types;
and a state of a part the run reaches is one the part reaches.

*PricesAndReports_proofs.* `PricesTypeCorrect` and `BoundRowsAlwaysReplay`, for any
rates, tiers and nights, on both databases. `PriceInv` adds that a thread with a snapshot has
the one of its rates, also after others were appended (`WorkBound`), that a
recalculation which met no other finds its row as it loaded it (`WorkLoaded`),
that a locked row has one recalculation (`LockedAlone`) and that nobody works
on a row about to be inserted (`NewAlone`). `RefreshTypeCorrect` and
`RefreshesTakeHold`, for any number of threads that refresh or query prices, any
patches, and whatever the network returns:
`RefreshInv` adds that a refresh under way which was not overtaken has read the
file as it is, or one that will is due (`ConfigCurrent`), that API and proxy run the
file's configuration when nothing is on its way to them (`ConfigHolds`), that
prices a process loaded stay in its memory (`PricesHeld`) and that a refresh that was not
overtaken found them unless its fetch raised (`PricesFound`), hence that they are in
force, about to be, or left out by a refresh that was overtaken or interrupted
(`PricesComing`). `QueriesSave` keeps the price queries apart: they download, and
put nothing in force.

`ReportsAlwaysAgree`, in the same module, is about sums over sets of rows, for any number
of rows, any statuses and latencies, any window in any zones, any length of a
day and any values of the grouping column. A sum
is a fold, of which the prover knows nothing but its definition. The lemmas count it
instead: a sum of natural weights is the number of units the elements bring
along, a finite set of pairs (`TotalCounts`), so that sums of disjoint
sets add up (`TotalUnion`) and a sum grouped by a key is the sum of the groups (`TotalGrouped`)
for the same reasons as numbers of elements. The induction over the set this takes is done by a
least element (`LeastElementOf`). `ReportInv` says that `usage_daily` holds,
for each day and value of the grouping column, the sums of the rows of that day
and value (`ReportInvariant`). From there the argument is about windows: whole days cut the rows of a
window into those of its days (`WholeDays`), for whatever dates the window is
written with (`EndDates`), which makes both branches agree
(`TheBranches`); a window in days includes the one in instants (`EveryRow`), where
the dates as written are not narrower than UTC's;
and the groups that are listed are those that are not empty (`TheGroups`).

Checked by TLC only: the liveness properties (`RunningJobsEnd`,
`QueuedJobsLeaveQueue`, `EligibleSessionsServed`), which are out of the prover's
reach, and what the four violated properties below refute. Every other property
of a run is a theorem.

## Findings

* `ManualVerdictKept` is violated. `tests/evaluation/test_evaluation.py:889`
  asserts that an evaluation does not overwrite a later manual one, and it does
  not when the manual one is there at the load. A PUT that commits between the
  load and the commit of `upsert_session_evaluation` (or between the check and
  the upsert of `mark_evaluator_session_no_op`) is overwritten.
  `UncontendedVerdictKept` is the part that holds.
* `EvaluationColumnsTogether` is violated: a DELETE that commits between an
  evaluator's load and its commit leaves `source` NULL beside a fresh `outcome`
  and `evaluated_at`, because the UPDATE names only columns that changed. The
  dashboard then shows an evaluation from nobody, and it is overwritten or not
  depending on which column is asked.
* `RecalculationMovesBoth` is violated. The comment at
  `src/database/usage.py:480` calls the increment of `usage_daily` "correct even
  under concurrent recalculations on SQLite". The increment itself is atomic, but its
  amount is the difference to a cost loaded earlier: two overlapping
  recalculations both add it, and the daily sum is off by it for good.
  `DailyCostsFollowRows` is the part that holds: without overlap, which the
  row lock excludes on PostgreSQL.
* `EvaluationsSurviveMigration` is violated. The comment at
  `src/schema_migrations.py:1174` avoids `rebuild_sessions_from_usage` because it
  "would drop evaluation columns", and `tests/test_database.py:5174` asks for a
  backfill "without wiping evaluation fields"; but the step at line 1227 calls it
  whenever usage names a session without a row. One session rollup that failed
  is enough for the next start to erase every evaluation, those set by hand included.
  `EvaluationsKept` is the part that holds: it leaves every rebuild out, and with it
  a death between the rebuild's three transactions, which no property is about.

Met while modelling, and part of the models, though no document promises
otherwise. On SQLite a migrator that dies after it created `usage_new` leaves it
behind, and every later migration fails there. The rebuild of sessions
reads every column of usage, those a later step of the same migration adds
included: on a database that old it deletes the sessions and then fails
(`ReadUsage`). A configuration file is truncated before it is
written, and a refresh that reads it in between runs without a configuration
until the next one. `fetch_json` promises "None on any failure"
(`pricing/sources/base.py:148`), and the comment at `config/app.py:163` that each source uses its
local cache on failure; but a download cut short or not in UTF-8 raises what
`fetch_json` does not catch, and so does a body that is no mapping, which is
written to the cache first. `fetch_sources` takes either for a source without
entries, and the process prices without LiteLLM until its next refresh, although
it still holds those prices (`interrupted`). A window whose
ends are written with an offset is compared with `usage_daily` by the dates of the string
(`database/usage.py:871-874`) and with the rows by its instants: from
`2024-05-02T01:00:00+08:00` on, the count behind the pages leaves out the rows of
the last hours of 1 May UTC, which the pages list (`NoLater`, `NoEarlier`). Overlapping recalculations on SQLite may leave the cost of
one beside the snapshot of the other (`crossedRows`). A revocation on SQLite
that overlaps a login may leave a revoked machine its tokens (`crossed`). A
report from `usage_daily` divides latencies by all requests, one from `usage` by
those that have one. Records past `otlp.max_records_per_request` are dropped
with a partial success.

## What is not modelled

* Of the evaluation feature: `classify_transcriptless_evaluator_telemetry`, the
  transcript index (every session has a transcript, and a bounded candidate
  query returns all of them), the progress of jobs, the text handed to and
  parsed from the agents. A database `COMMIT` that fails after taking effect.
* Of usage recording: base URLs, and the columns no other one is computed from.
  All rows are of one user, day, provider and model.
* Of pricing: how a model name is matched, the separate rates of cached and output
  tokens, the guess for a row without a snapshot, the parsing and precedence of
  price sources.
* Of the collector: decoding of batches, latencies and token counts of the rows
  it records.
* Of auth: Google's exchange, users, device names and reports of devices.
* Of the reports: costs, tokens and groupings by several columns, which follow the
  same sums; the reports over sessions (`database/sessions.py` from 425), which only read.
* The proxy's relay of streams: I/O, whose result is an input of UsageRecording.
* Supervision (`ops.py`, `config/runtime_ports.py`): it starts, stops and asks
  supervisord, whose protocol is outside the repository.
* The client (`client/`): one short-lived process per command over the service
  manager of the operating system and the agents' own files.
* The plugins, which run in the event loops of the agents, the frontend,
  `protocol/`: outside processes, rendering, constants.
* Docker, scripts, workflows: build and deployment.
* The parts are not composed with each other: a rebuild during an evaluation, a
  refresh of prices under a recording. Migration says what the former loses, and
  PriceSnapshots lets prices change between any two calls.

## Plan

Done: the evaluation queue, its table, the session columns, their composition;
usage recording with merges, rollups and recalculation; the collector's gate and
buffers; one-time codes and device tokens; migrations; price snapshots and
the refresh of prices and configuration; the reports over usage; proofs of every
safety property of the passing runs.

Left: the rebuild of a migration composed with the queue, where a job may
outlive its session.
