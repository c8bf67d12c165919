------------------------------ MODULE Migration ------------------------------
(* migrate_database (schema_migrations.py): the steps that bring an older      *)
(* database to the current schema, each in transactions of its own, at every   *)
(* start and restart of the server. A migrator may die between any two         *)
(* transactions and is run again; at a restart the services record usage       *)
(* while it runs.                                                              *)
(*                                                                             *)
(* Columns, indexes and tables that are only added are abstracted to groups.   *)
(* On SQLite statements of the schema commit by themselves until the first     *)
(* write of rows begins the transaction.                                       *)
EXTENDS Naturals, Sequences, FiniteSets

CONSTANTS
  Migrators,      \* processes that run migrate_database
  Sessions,       \* session ids
  SchemaCommits,  \* TRUE: SQLite; FALSE: PostgreSQL
  MaxFaults       \* bound on deaths, for model checking

ASSUME MigrationAssumption == SchemaCommits \in BOOLEAN /\ MaxFaults \in Nat

VARIABLES
  columns,        \* groups of columns and tables that are there
  filled,         \* the columns and tables whose backfill has run
  conversions,    \* how often usage.ts and usage.id were converted
  usageNew,       \* a table usage_new is left behind
  dailyUnique,    \* usage_daily is merged and carries its unique indexes
  dailyNew,       \* a table usage_daily_new is left behind
  usageOf,        \* the sessions usage rows name
  sessionRows,    \* the sessions table: no row, or whether it is evaluated
  migrator,       \* step and local variables of each process
  faults,         \* deaths so far
  evaluatedOnce,  \* ghost: sessions that were evaluated
  gap             \* ghost: a migration began with usage of a session without a row,
                  \*   or met usage recorded for a new session

migrationVars == <<columns, filled, conversions, usageNew, dailyUnique, dailyNew,
                   usageOf, sessionRows, migrator, faults, evaluatedOnce, gap>>
schemaVars == <<columns, filled, conversions, usageNew, dailyUnique, dailyNew>>
rowVars == <<usageOf, sessionRows, faults, evaluatedOnce, gap>>

\* The groups in the order in which they are added, here and by earlier releases.
ColumnOrder == <<"queue", "usage", "status", "evaluation", "cache",
                 "toolcalls", "snapshots", "tenancy">>
AllColumns == {ColumnOrder[i] : i \in DOMAIN ColumnOrder}
Current == columns = AllColumns

\* The order of the steps, and the resting states around them.
Steps == <<"queue_columns", "usage_columns", "status_columns", "status_backfill",
           "daily_backfill", "evaluation_columns", "cache_column", "cache_backfill",
           "sessions_check", "sessions_delete", "sessions_read", "sessions_insert",
           "usage_check", "usage_create", "usage_copy", "toolcalls", "snapshots",
           "tenancy", "daily_check", "daily_create", "daily_copy">>
Resting == {"idle", "done", "failed"}

At(m, step) == migrator[m].step = step
Go(m, step) == migrator' = [migrator EXCEPT ![m].step = step]
GoAdded(m, step, added) ==
  migrator' = [migrator EXCEPT ![m].step = step, ![m].added = added]
AtStart(step) == [step |-> step, added |-> FALSE, read |-> {}, converting |-> "ts"]

MigrationTypeOK ==
  /\ columns \subseteq AllColumns
  /\ filled \subseteq {"status", "daily", "cache"}
  /\ conversions \in [{"ts", "id"} -> Nat]
  /\ {usageNew, dailyUnique, dailyNew, gap} \subseteq BOOLEAN
  /\ usageOf \subseteq Sessions
  /\ sessionRows \in [Sessions -> {"none", "plain", "evaluated"}]
  /\ \A m \in Migrators : migrator[m].step \in Resting \cup {Steps[i] : i \in DOMAIN Steps}

\* A database an earlier release left, with failures, cache writes and duplicate
\* daily rows to carry over. With tool_calls the timestamps and the ids had been
\* converted. A session of usage has no row before there were sessions, or where
\* its rollup failed.
MigrationInit ==
  /\ columns \in {{ColumnOrder[i] : i \in 1 .. n} : n \in 0 .. Len(ColumnOrder)}
  /\ filled \in {columns \cap {"status", "cache"}, (columns \cap {"status", "cache"}) \cup {"daily"}}
  /\ "status" \in columns => "daily" \in filled
  /\ conversions \in {[ts |-> 0, id |-> 0], [ts |-> 1, id |-> 0], [ts |-> 1, id |-> 1]}
  /\ "toolcalls" \in columns => conversions.id = 1
  /\ usageNew = FALSE /\ dailyUnique = FALSE /\ dailyNew = FALSE
  /\ usageOf \in SUBSET Sessions
  /\ sessionRows \in [Sessions -> {"none", "plain", "evaluated"}]
  /\ \A s \in Sessions : sessionRows[s] = "evaluated" => "evaluation" \in columns
  /\ \A s \in Sessions \ usageOf : sessionRows[s] = "none"
  /\ migrator = [m \in Migrators |-> AtStart("idle")]
  /\ faults = 0 /\ gap = FALSE
  /\ evaluatedOnce = {s \in Sessions : sessionRows[s] = "evaluated"}

Unrolled == \E s \in usageOf : sessionRows[s] = "none"

StartMigration(m) ==
  /\ migrator[m].step \in Resting
  /\ migrator' = [migrator EXCEPT ![m] = AtStart("queue_columns")]
  /\ gap' = (gap \/ Unrolled)
  /\ UNCHANGED <<schemaVars, usageOf, sessionRows, faults, evaluatedOnce>>

(* ---- columns and their backfills ----------------------------------------------- *)

\* _ensure_column and its kin: what is there already, or has just been added by
\* another process, is left.
Ensure(m, step, group, next) ==
  /\ At(m, step)
  /\ columns' = columns \cup {group}
  /\ Go(m, next)
  /\ UNCHANGED <<filled, conversions, usageNew, dailyUnique, dailyNew, rowVars>>

\* evaluation_jobs and the columns of devices and auth_tokens.
AddQueueColumns(m) == Ensure(m, "queue_columns", "queue", "usage_columns")

\* The plain columns of usage, those dropped from base_urls, and usage_daily, empty.
AddUsageColumns(m) == Ensure(m, "usage_columns", "usage", "status_columns")

\* The columns are added, or a row is looked for that an earlier run left zero.
AddStatusColumns(m) ==
  /\ At(m, "status_columns")
  /\ columns' = columns \cup {"status"}
  /\ GoAdded(m, "status_backfill",
       "status" \notin columns \/ ("daily" \in filled /\ "status" \notin filled))
  /\ UNCHANGED <<filled, conversions, usageNew, dailyUnique, dailyNew, rowVars>>

BackfillStatus(m) ==
  /\ At(m, "status_backfill")
  /\ filled' = IF migrator[m].added THEN filled \cup {"status"} ELSE filled
  /\ Go(m, "daily_backfill")
  /\ UNCHANGED <<columns, conversions, usageNew, dailyUnique, dailyNew, rowVars>>

\* An empty usage_daily is summed up from usage, its status columns included.
BackfillDaily(m) ==
  /\ At(m, "daily_backfill")
  /\ filled' = IF "daily" \in filled THEN filled ELSE filled \cup {"daily", "status"}
  /\ Go(m, "evaluation_columns")
  /\ UNCHANGED <<columns, conversions, usageNew, dailyUnique, dailyNew, rowVars>>

AddEvaluationColumns(m) ==
  Ensure(m, "evaluation_columns", "evaluation", "cache_column")

AddCacheColumn(m) ==
  /\ At(m, "cache_column")
  /\ columns' = columns \cup {"cache"}
  /\ GoAdded(m, "cache_backfill", "cache" \notin columns \/ "cache" \notin filled)
  /\ UNCHANGED <<filled, conversions, usageNew, dailyUnique, dailyNew, rowVars>>

BackfillCache(m) ==
  /\ At(m, "cache_backfill")
  /\ filled' = IF migrator[m].added THEN filled \cup {"cache"} ELSE filled
  /\ Go(m, "sessions_check")
  /\ UNCHANGED <<columns, conversions, usageNew, dailyUnique, dailyNew, rowVars>>

(* ---- sessions -------------------------------------------------------------------- *)

\* Mutant: the sessions are rebuilt at every migration.
CheckSessionsAlways(m) ==
  /\ At(m, "sessions_check")
  /\ Go(m, "sessions_delete")
  /\ UNCHANGED <<schemaVars, rowVars>>

\* Usage of a session without a row has the whole table rebuilt.
CheckSessions(m) ==
  /\ At(m, "sessions_check")
  /\ Go(m, IF Unrolled THEN "sessions_delete" ELSE "usage_check")
  /\ UNCHANGED <<schemaVars, rowVars>>

DeleteSessions(m) ==
  /\ At(m, "sessions_delete")
  /\ sessionRows' = [s \in Sessions |-> "none"]
  /\ Go(m, "sessions_read")
  /\ UNCHANGED <<schemaVars, usageOf, faults, evaluatedOnce, gap>>

\* The query names every column of the current schema, those that later steps of
\* this migration add included.
ReadUsage(m) ==
  /\ At(m, "sessions_read")
  /\ migrator' = [migrator EXCEPT ![m] = [@ EXCEPT
       !.step = IF {"snapshots", "tenancy"} \subseteq columns THEN "sessions_insert" ELSE "failed",
       !.read = usageOf]]
  /\ UNCHANGED <<schemaVars, rowVars>>

\* One transaction; a session recorded meanwhile makes all of it fail.
InsertSessions(m) ==
  /\ At(m, "sessions_insert")
  /\ LET conflict == \E s \in migrator[m].read : sessionRows[s] # "none"
     IN  /\ sessionRows' = IF conflict THEN sessionRows
              ELSE [s \in Sessions |-> IF s \in migrator[m].read THEN "plain"
                                                                  ELSE sessionRows[s]]
         /\ Go(m, IF conflict THEN "failed" ELSE "usage_check")
  /\ UNCHANGED <<schemaVars, usageOf, faults, evaluatedOnce, gap>>

(* ---- usage is copied into a new table ----------------------------------------------- *)

\* What follows the conversion of the timestamps, and that of the ids.
AfterConversion(m) ==
  migrator' = [migrator EXCEPT ![m] = [@ EXCEPT
    !.step = IF migrator[m].converting = "ts" THEN "usage_check" ELSE "toolcalls",
    !.converting = "id"]]

\* Mutant: nothing tells whether the column was converted.
CheckUsageNever(m) ==
  /\ At(m, "usage_check")
  /\ Go(m, "usage_create")
  /\ UNCHANGED <<schemaVars, rowVars>>

\* The type of the column tells whether it was converted.
CheckUsage(m) ==
  /\ At(m, "usage_check")
  /\ IF conversions[migrator[m].converting] = 0 THEN Go(m, "usage_create")
                                                ELSE AfterConversion(m)
  /\ UNCHANGED <<schemaVars, rowVars>>

\* Only SQLite has a table to create; it fails where one was left behind.
CreateUsageNew(m) ==
  /\ At(m, "usage_create")
  /\ usageNew' = (usageNew \/ SchemaCommits)
  /\ Go(m, IF SchemaCommits /\ usageNew THEN "failed" ELSE "usage_copy")
  /\ UNCHANGED <<columns, filled, conversions, dailyUnique, dailyNew, rowVars>>

\* Copy with the values converted, drop and rename in one transaction; sessions are
\* converted in it too. The columns' type changes with it.
CopyUsage(m) ==
  /\ At(m, "usage_copy")
  /\ conversions' = [conversions EXCEPT ![migrator[m].converting] = @ + 1]
  /\ usageNew' = FALSE
  /\ AfterConversion(m)
  /\ UNCHANGED <<columns, filled, dailyUnique, dailyNew, rowVars>>

(* ---- newer tables and columns --------------------------------------------------------- *)

AddToolCalls(m) == Ensure(m, "toolcalls", "toolcalls", "snapshots")

\* price_snapshots and the column that binds usage to it. Snapshots that differ only
\* in a provider are merged in a transaction that writes rows first.
AddSnapshots(m) == Ensure(m, "snapshots", "snapshots", "tenancy")

\* user_id of five tables, and tool_calls_json.
AddTenancy(m) == Ensure(m, "tenancy", "tenancy", "daily_check")

(* ---- usage_daily is merged ------------------------------------------------------------- *)

CheckDailyUnique(m) ==
  /\ At(m, "daily_check")
  /\ Go(m, IF dailyUnique THEN "done" ELSE "daily_create")
  /\ UNCHANGED <<schemaVars, rowVars>>

\* A table left behind is dropped first.
CreateDailyNew(m) ==
  /\ At(m, "daily_create")
  /\ dailyNew' = SchemaCommits
  /\ Go(m, "daily_copy")
  /\ UNCHANGED <<columns, filled, conversions, usageNew, dailyUnique, rowVars>>

MergeDaily(m) ==
  /\ At(m, "daily_copy")
  /\ dailyUnique' = TRUE /\ dailyNew' = FALSE
  /\ Go(m, "done")
  /\ UNCHANGED <<columns, filled, conversions, usageNew, rowVars>>

(* ---- the surroundings --------------------------------------------------------------------- *)

\* A death loses what was not committed: the migrator's step only.
DieInMigration(m) ==
  /\ migrator[m].step \notin Resting /\ faults < MaxFaults
  /\ migrator' = [migrator EXCEPT ![m].step = "idle"]
  /\ faults' = faults + 1
  /\ UNCHANGED <<schemaVars, usageOf, sessionRows, evaluatedOnce, gap>>

\* The services of the current release need its columns. A usage row commits
\* before its session is rolled up, and the rollup may fail: it then never comes.
RecordUsageRow(s) ==
  /\ Current /\ s \notin usageOf
  /\ usageOf' = usageOf \cup {s}
  /\ gap' = (gap \/ \E m \in Migrators : migrator[m].step \notin Resting)
  /\ UNCHANGED <<schemaVars, sessionRows, migrator, faults, evaluatedOnce>>

RollUpSession(s) ==
  /\ Current /\ s \in usageOf /\ sessionRows[s] = "none"
  /\ sessionRows' = [sessionRows EXCEPT ![s] = "plain"]
  /\ UNCHANGED <<schemaVars, usageOf, migrator, faults, evaluatedOnce, gap>>

EvaluateSession(s) ==
  /\ sessionRows[s] = "plain"
  /\ sessionRows' = [sessionRows EXCEPT ![s] = "evaluated"]
  /\ evaluatedOnce' = evaluatedOnce \cup {s}
  /\ UNCHANGED <<schemaVars, usageOf, migrator, faults, gap>>

MigrationNext ==
  \/ \E m \in Migrators :
       \/ StartMigration(m)
       \/ AddQueueColumns(m) \/ AddUsageColumns(m) \/ AddStatusColumns(m)
       \/ BackfillStatus(m) \/ BackfillDaily(m) \/ AddEvaluationColumns(m)
       \/ AddCacheColumn(m) \/ BackfillCache(m)
       \/ CheckSessions(m) \/ DeleteSessions(m) \/ ReadUsage(m) \/ InsertSessions(m)
       \/ CheckUsage(m) \/ CreateUsageNew(m) \/ CopyUsage(m)
       \/ AddToolCalls(m) \/ AddSnapshots(m) \/ AddTenancy(m)
       \/ CheckDailyUnique(m) \/ CreateDailyNew(m) \/ MergeDaily(m)
       \/ DieInMigration(m)
  \/ \E s \in Sessions :
       \/ RecordUsageRow(s) \/ RollUpSession(s) \/ EvaluateSession(s)

MigrationSpec == MigrationInit /\ [][MigrationNext]_migrationVars

(* ---- properties ------------------------------------------------------------------------------ *)

\* A migration that runs through leaves nothing half done by an earlier one that
\* died: every column is there and filled, timestamps and ids are converted, once,
\* and usage_daily is merged (the checks for backfills still needed).
MigrationComplete ==
  /\ \A what \in {"ts", "id"} : conversions[what] <= 1
  /\ \A m \in Migrators : At(m, "done") =>
       /\ Current /\ filled = {"status", "daily", "cache"}
       /\ conversions = [ts |-> 1, id |-> 1] /\ ~usageNew /\ dailyUnique /\ ~dailyNew

\* A migration erases no evaluation if every session of usage has a row when it
\* begins and the services record no new session meanwhile: a death leaves no
\* state in which the next run rebuilds without need.
EvaluationsKept ==
  gap \/ \A s \in evaluatedOnce : sessionRows[s] = "evaluated"

\* A migration erases no evaluation: "A targeted UPDATE (not
\* rebuild_sessions_from_usage, which deletes and recreates rows and would drop
\* evaluation columns it doesn't set)". The step after that one rebuilds.
EvaluationsSurviveMigration ==
  \A s \in evaluatedOnce : sessionRows[s] = "evaluated"

===============================================================================
