-------------------------- MODULE ServerParts_proofs --------------------------
(* Theorems about migrate_database, for any number of migrators, sessions and   *)
(* deaths, on both databases; and about the sum of the parts of the server that *)
(* share no state (MCServerParts), from the theorems on its parts.              *)
EXTENDS MCServerParts, Collector_proofs, Auth_proofs, PricesAndReports_proofs

(* ---- the migration -------------------------------------------------------------- *)

Step == Resting \cup {Steps[i] : i \in DOMAIN Steps}
Rebuilding == {"sessions_delete", "sessions_read", "sessions_insert"}
MigratorStates ==
  [step : Step, added : BOOLEAN, read : SUBSET Sessions, converting : {"ts", "id"}]
Migrating(m) == migrator[m].step \notin Resting

MigrationTypes ==
  /\ MigrationTypeOK
  /\ faults \in Nat
  /\ evaluatedOnce \subseteq Sessions
  /\ migrator \in [Migrators -> MigratorStates]

\* Without a gap a migration sees a row for every session of usage, and so no
\* migrator ever starts to rebuild.
KeptInv ==
  ~gap =>
    /\ \A s \in evaluatedOnce : sessionRows[s] = "evaluated"
    /\ (\E m \in Migrators : Migrating(m)) => ~Unrolled
    /\ \A m \in Migrators : migrator[m].step \notin Rebuilding

MigrationInv == MigrationTypes /\ KeptInv

-----------------------------------------------------------------------------
LEMMA StepNames ==
  Step = {"idle", "done", "failed",
          "queue_columns", "usage_columns", "status_columns", "status_backfill",
          "daily_backfill", "evaluation_columns", "cache_column", "cache_backfill",
          "sessions_check", "sessions_delete", "sessions_read", "sessions_insert",
          "usage_check", "usage_create", "usage_copy", "toolcalls", "snapshots",
          "tenancy", "daily_check", "daily_create", "daily_copy"}
<1>1. DOMAIN Steps = 1 .. 21
  BY DEF Steps
<1>2. {Steps[i] : i \in 1 .. 21} =
        {"queue_columns", "usage_columns", "status_columns", "status_backfill",
         "daily_backfill", "evaluation_columns", "cache_column", "cache_backfill",
         "sessions_check", "sessions_delete", "sessions_read", "sessions_insert",
         "usage_check", "usage_create", "usage_copy", "toolcalls", "snapshots",
         "tenancy", "daily_check", "daily_create", "daily_copy"}
  BY DEF Steps
<1> QED
  BY <1>1, <1>2 DEF Step, Resting

LEMMA ColumnNames ==
  AllColumns = {"queue", "usage", "status", "evaluation", "cache", "toolcalls", "snapshots", "tenancy"}
<1>1. DOMAIN ColumnOrder = 1 .. 8
  BY DEF ColumnOrder
<1> QED
  BY <1>1 DEF AllColumns, ColumnOrder

LEMMA InitMigration == MigrationInit => MigrationInv
<1> SUFFICES ASSUME MigrationInit PROVE MigrationInv
  OBVIOUS
<1>1. columns \subseteq AllColumns
  BY DEF MigrationInit, AllColumns, ColumnOrder
<1>2. filled \subseteq {"status", "daily", "cache"} /\ conversions \in [{"ts", "id"} -> Nat]
  BY DEF MigrationInit
<1>3. {usageNew, dailyUnique, dailyNew, gap} \subseteq BOOLEAN
  BY Zenon DEF MigrationInit
<1>4. \A m \in Migrators : migrator[m] = AtStart("idle")
  BY DEF MigrationInit
<1>5. AtStart("idle") \in MigratorStates
  BY DEF AtStart, MigratorStates, Step, Resting
<1>6. MigrationTypes
  BY <1>1, <1>2, <1>3, <1>4, <1>5 DEF MigrationInit, MigrationTypes, MigrationTypeOK, Step, Resting, AtStart
<1>7. KeptInv
  BY <1>4 DEF MigrationInit, KeptInv, Migrating, AtStart, Resting, Rebuilding
<1> QED
  BY <1>6, <1>7 DEF MigrationInv

(* How a migrator goes on. *)

LEMMA GoTypes ==
  ASSUME MigrationTypes, NEW m \in Migrators, NEW step \in Step, Go(m, step)
  PROVE  /\ migrator' \in [Migrators -> MigratorStates] /\ migrator'[m].step = step
         /\ \A k \in Migrators \ {m} : migrator'[k] = migrator[k]
BY DEF MigrationTypes, MigratorStates, Go

LEMMA GoAddedTypes ==
  ASSUME MigrationTypes, NEW m \in Migrators, NEW step \in Step, NEW added \in BOOLEAN,
         GoAdded(m, step, added)
  PROVE  /\ migrator' \in [Migrators -> MigratorStates] /\ migrator'[m].step = step
         /\ \A k \in Migrators \ {m} : migrator'[k] = migrator[k]
BY DEF MigrationTypes, MigratorStates, GoAdded

LEMMA AfterConversionTypes ==
  ASSUME MigrationTypes, NEW m \in Migrators, AfterConversion(m)
  PROVE  /\ migrator' \in [Migrators -> MigratorStates]
         /\ migrator'[m].step \in {"usage_check", "toolcalls"}
         /\ \A k \in Migrators \ {m} : migrator'[k] = migrator[k]
<1>1. PICK step \in {"usage_check", "toolcalls"} :
        migrator' = [migrator EXCEPT ![m] = [@ EXCEPT !.step = step, !.converting = "id"]]
  <2>1. CASE migrator[m].converting = "ts"
    BY <2>1 DEF AfterConversion
  <2>2. CASE migrator[m].converting # "ts"
    BY <2>2 DEF AfterConversion
  <2> QED
    BY <2>1, <2>2
<1>2. step \in Step
  BY StepNames
<1> QED
  BY <1>1, <1>2 DEF MigrationTypes, MigratorStates

\* A step of a migrator that is under way, not into the rebuild, and that changes
\* no rows: most of them.
LEMMA SchemaStep ==
  ASSUME MigrationInv, NEW m \in Migrators, Migrating(m),
         migrator' \in [Migrators -> MigratorStates],
         migrator'[m].step \notin Rebuilding,
         \A k \in Migrators \ {m} : migrator'[k] = migrator[k],
         columns' \subseteq AllColumns, filled' \subseteq {"status", "daily", "cache"},
         conversions' \in [{"ts", "id"} -> Nat],
         {usageNew', dailyUnique', dailyNew'} \subseteq BOOLEAN,
         UNCHANGED <<usageOf, sessionRows, evaluatedOnce, gap>>, faults' \in Nat
  PROVE  MigrationInv'
<1>1. gap' \in BOOLEAN
  BY Zenon DEF MigrationInv, MigrationTypes, MigrationTypeOK
<1>2. {usageNew', dailyUnique', dailyNew', gap'} \subseteq BOOLEAN
  BY <1>1
<1>3. \A k \in Migrators : migrator'[k].step \in Step
  BY DEF MigratorStates
<1>4. MigrationTypes'
  BY <1>2, <1>3 DEF MigrationInv, MigrationTypes, MigrationTypeOK, Step
<1>5. KeptInv'
  BY DEF MigrationInv, KeptInv, Migrating, Unrolled
<1> QED
  BY <1>4, <1>5 DEF MigrationInv

LEMMA Booleans ==
  MigrationInv => usageNew \in BOOLEAN /\ dailyUnique \in BOOLEAN /\ dailyNew \in BOOLEAN /\ gap \in BOOLEAN
BY Zenon DEF MigrationInv, MigrationTypes, MigrationTypeOK

LEMMA EnsuringKeeps ==
  ASSUME MigrationInv, NEW m \in Migrators, NEW at \in Step \ Resting, NEW group \in AllColumns,
         NEW next \in Step \ Rebuilding, Ensure(m, at, group, next)
  PROVE  MigrationInv'
<1>1. /\ Migrating(m) /\ columns' = columns \cup {group} /\ Go(m, next)
      /\ UNCHANGED <<filled, conversions, usageNew, dailyUnique, dailyNew, rowVars>>
  BY DEF Ensure, At, Migrating
<1>2. columns' \subseteq AllColumns
  BY <1>1 DEF MigrationInv, MigrationTypes, MigrationTypeOK
<1> QED
  BY <1>1, <1>2, GoTypes, SchemaStep, Booleans DEF MigrationInv, MigrationTypes, MigrationTypeOK, rowVars

LEMMA ColumnsKeep ==
  ASSUME MigrationInv, NEW m \in Migrators,
         \/ AddQueueColumns(m) \/ AddUsageColumns(m) \/ AddEvaluationColumns(m)
         \/ AddToolCalls(m) \/ AddSnapshots(m) \/ AddTenancy(m)
  PROVE  MigrationInv'
BY EnsuringKeeps, StepNames, ColumnNames
   DEF AddQueueColumns, AddUsageColumns, AddEvaluationColumns, AddToolCalls, AddSnapshots,
       AddTenancy, Rebuilding, Resting

LEMMA FlaggedColumnsKeep ==
  ASSUME MigrationInv, NEW m \in Migrators, AddStatusColumns(m) \/ AddCacheColumn(m)
  PROVE  MigrationInv'
<1>1. PICK step \in {"status_backfill", "cache_backfill"}, added \in BOOLEAN :
        GoAdded(m, step, added)
  <2>1. CASE AddStatusColumns(m)
    <3> DEFINE added == "status" \notin columns \/ ("daily" \in filled /\ "status" \notin filled)
    <3>1. added \in BOOLEAN /\ GoAdded(m, "status_backfill", added)
      BY <2>1 DEF AddStatusColumns
    <3> HIDE DEF added
    <3> QED
      BY <3>1
  <2>2. CASE AddCacheColumn(m)
    <3> DEFINE added == "cache" \notin columns \/ "cache" \notin filled
    <3>1. added \in BOOLEAN /\ GoAdded(m, "cache_backfill", added)
      BY <2>2 DEF AddCacheColumn
    <3> HIDE DEF added
    <3> QED
      BY <3>1
  <2> QED
    BY <2>1, <2>2
<1>2. step \in Step \ Rebuilding
  BY StepNames DEF Rebuilding
<1>3. /\ Migrating(m)
      /\ UNCHANGED <<filled, conversions, usageNew, dailyUnique, dailyNew, rowVars>>
  BY DEF AddStatusColumns, AddCacheColumn, At, Migrating, Resting
<1>4. columns' \subseteq AllColumns
  BY ColumnNames DEF AddStatusColumns, AddCacheColumn, MigrationInv, MigrationTypes, MigrationTypeOK
<1> QED
  BY <1>1, <1>2, <1>3, <1>4, GoAddedTypes, SchemaStep, Booleans
     DEF MigrationInv, MigrationTypes, MigrationTypeOK, rowVars

LEMMA BackfillsKeep ==
  ASSUME MigrationInv, NEW m \in Migrators, BackfillStatus(m) \/ BackfillDaily(m) \/ BackfillCache(m)
  PROVE  MigrationInv'
<1>1. PICK step \in {"daily_backfill", "evaluation_columns", "sessions_check"} : Go(m, step)
  BY DEF BackfillStatus, BackfillDaily, BackfillCache
<1>2. step \in Step \ Rebuilding
  BY StepNames DEF Rebuilding
<1>3. /\ Migrating(m)
      /\ UNCHANGED <<columns, conversions, usageNew, dailyUnique, dailyNew, rowVars>>
  BY DEF BackfillStatus, BackfillDaily, BackfillCache, At, Migrating, Resting
<1>4. filled' \subseteq {"status", "daily", "cache"}
  BY DEF BackfillStatus, BackfillDaily, BackfillCache, MigrationInv, MigrationTypes, MigrationTypeOK
<1> QED
  BY <1>1, <1>2, <1>3, <1>4, GoTypes, SchemaStep, Booleans
     DEF MigrationInv, MigrationTypes, MigrationTypeOK, rowVars

LEMMA UsageCopyKeeps ==
  ASSUME MigrationInv, NEW m \in Migrators, CheckUsage(m) \/ CreateUsageNew(m) \/ CopyUsage(m)
  PROVE  MigrationInv'
<1>1. Migrating(m) /\ UNCHANGED <<columns, filled, dailyUnique, dailyNew, rowVars>>
  BY DEF CheckUsage, CreateUsageNew, CopyUsage, At, Migrating, Resting, schemaVars
<1>2. (\E step \in {"usage_create", "usage_copy", "failed"} : Go(m, step)) \/ AfterConversion(m)
  BY DEF CheckUsage, CreateUsageNew, CopyUsage
<1>3. /\ migrator' \in [Migrators -> MigratorStates]
      /\ migrator'[m].step \in {"usage_create", "usage_copy", "failed", "usage_check", "toolcalls"}
      /\ \A k \in Migrators \ {m} : migrator'[k] = migrator[k]
  <2>1. ASSUME NEW step \in {"usage_create", "usage_copy", "failed"}, Go(m, step)
        PROVE  <1>3!:
    BY <2>1, GoTypes, StepNames DEF MigrationInv
  <2>2. ASSUME AfterConversion(m) PROVE <1>3!:
    BY <2>2, AfterConversionTypes DEF MigrationInv
  <2> QED
    BY <1>2, <2>1, <2>2
<1>4. usageNew' \in BOOLEAN
  <2>1. usageNew' = usageNew \/ usageNew' = FALSE \/ usageNew' = (usageNew \/ SchemaCommits)
    BY DEF CheckUsage, CreateUsageNew, CopyUsage, schemaVars
  <2> QED
    BY Zenon, <2>1, Booleans
<1>5. conversions' \in [{"ts", "id"} -> Nat]
  BY DEF CheckUsage, CreateUsageNew, CopyUsage, schemaVars, MigrationInv, MigrationTypes,
         MigrationTypeOK
<1>6. migrator'[m].step \notin Rebuilding
  BY <1>3 DEF Rebuilding
<1> QED
  BY <1>1, <1>3, <1>4, <1>5, <1>6, SchemaStep, Booleans
     DEF MigrationInv, MigrationTypes, MigrationTypeOK, rowVars

LEMMA DailyKeeps ==
  ASSUME MigrationInv, NEW m \in Migrators, CheckDailyUnique(m) \/ CreateDailyNew(m) \/ MergeDaily(m)
  PROVE  MigrationInv'
<1>1. PICK step \in {"done", "daily_create", "daily_copy"} : Go(m, step)
  BY DEF CheckDailyUnique, CreateDailyNew, MergeDaily
<1>2. step \in Step \ Rebuilding
  BY StepNames DEF Rebuilding
<1>3. Migrating(m) /\ UNCHANGED <<columns, filled, conversions, usageNew, rowVars>>
  BY DEF CheckDailyUnique, CreateDailyNew, MergeDaily, At, Migrating, Resting, schemaVars
<1>4. dailyUnique' \in BOOLEAN /\ dailyNew' \in BOOLEAN
  <2>1. dailyUnique' = dailyUnique \/ dailyUnique' = TRUE
    BY Zenon DEF CheckDailyUnique, CreateDailyNew, MergeDaily, schemaVars
  <2>2. dailyNew' = dailyNew \/ dailyNew' = FALSE \/ dailyNew' = SchemaCommits
    BY Zenon DEF CheckDailyUnique, CreateDailyNew, MergeDaily, schemaVars
  <2> QED
    BY Zenon, <2>1, <2>2, Booleans, MigrationAssumption
<1> QED
  BY <1>1, <1>2, <1>3, <1>4, GoTypes, SchemaStep, Booleans
     DEF MigrationInv, MigrationTypes, MigrationTypeOK, rowVars

LEMMA MigratorDeathKeeps ==
  ASSUME MigrationInv, NEW m \in Migrators, DieInMigration(m)
  PROVE  MigrationInv'
<1>1. Migrating(m) /\ Go(m, "idle") /\ faults' = faults + 1
      /\ UNCHANGED <<schemaVars, usageOf, sessionRows, evaluatedOnce, gap>>
  BY DEF DieInMigration, Migrating, Go
<1>2. "idle" \in Step \ Rebuilding
  BY DEF Step, Resting, Rebuilding
<1> QED
  BY <1>1, <1>2, GoTypes, SchemaStep, Booleans
     DEF MigrationInv, MigrationTypes, MigrationTypeOK, schemaVars

-----------------------------------------------------------------------------
(* The steps that concern rows. *)

\* Types when only rows, the history and the migrators change.
LEMMA RowTypes ==
  ASSUME MigrationInv, UNCHANGED <<schemaVars, faults>>, gap' \in BOOLEAN,
         migrator' \in [Migrators -> MigratorStates], usageOf' \subseteq Sessions,
         sessionRows' \in [Sessions -> {"none", "plain", "evaluated"}],
         evaluatedOnce' \subseteq Sessions
  PROVE  MigrationTypes'
<1>1. {usageNew', dailyUnique', dailyNew', gap'} \subseteq BOOLEAN
  BY Booleans DEF schemaVars
<1>2. \A k \in Migrators : migrator'[k].step \in Step
  BY DEF MigratorStates
<1> QED
  BY <1>1, <1>2 DEF MigrationInv, MigrationTypes, MigrationTypeOK, Step, schemaVars

LEMMA StartKeeps ==
  ASSUME MigrationInv, NEW m \in Migrators, StartMigration(m)
  PROVE  MigrationInv'
<1>1. /\ migrator' = [migrator EXCEPT ![m] = AtStart("queue_columns")]
      /\ UNCHANGED <<schemaVars, usageOf, sessionRows, faults, evaluatedOnce>>
  BY DEF StartMigration
<1>2. AtStart("queue_columns") \in MigratorStates /\ AtStart("queue_columns").step = "queue_columns"
  BY StepNames DEF AtStart, MigratorStates
<1>3. gap' \in BOOLEAN /\ (~gap' => ~gap /\ ~Unrolled)
  BY Zenon DEF StartMigration
<1>4. MigrationTypes'
  BY <1>1, <1>2, <1>3, RowTypes DEF MigrationInv, MigrationTypes, MigrationTypeOK
<1>5. KeptInv'
  BY <1>1, <1>2, <1>3 DEF MigrationInv, MigrationTypes, KeptInv, Unrolled, Rebuilding
<1> QED
  BY <1>4, <1>5 DEF MigrationInv

LEMMA CheckKeeps ==
  ASSUME MigrationInv, NEW m \in Migrators, CheckSessions(m)
  PROVE  MigrationInv'
<1>1. PICK step \in {"sessions_delete", "usage_check"} :
        Go(m, step) /\ (step = "sessions_delete" <=> Unrolled)
  BY DEF CheckSessions
<1>2. Migrating(m) /\ UNCHANGED <<schemaVars, rowVars>> /\ step \in Step
  BY StepNames DEF CheckSessions, At, Migrating, Resting
<1>3. MigrationTypes'
  BY <1>1, <1>2, GoTypes, RowTypes, Booleans DEF MigrationInv, MigrationTypes, MigrationTypeOK, rowVars
<1>4. migrator'[m].step = step /\ \A k \in Migrators \ {m} : migrator'[k] = migrator[k]
  BY <1>1, <1>2, GoTypes DEF MigrationInv
<1>5. KeptInv'
  BY <1>1, <1>2, <1>4 DEF MigrationInv, KeptInv, Migrating, Unrolled, Rebuilding, rowVars
<1> QED
  BY <1>3, <1>5 DEF MigrationInv

\* The rebuild runs after a gap only, and there is nothing left to keep.
LEMMA RebuildKeeps ==
  ASSUME MigrationInv, NEW m \in Migrators, DeleteSessions(m) \/ ReadUsage(m) \/ InsertSessions(m)
  PROVE  MigrationInv'
<1>1. gap /\ gap' = gap
  BY DEF DeleteSessions, ReadUsage, InsertSessions, At, MigrationInv, KeptInv, Rebuilding, rowVars
<1>2. UNCHANGED <<schemaVars, usageOf, faults, evaluatedOnce>>
  BY DEF DeleteSessions, ReadUsage, InsertSessions, rowVars
<1>3. sessionRows' \in [Sessions -> {"none", "plain", "evaluated"}]
  BY DEF DeleteSessions, ReadUsage, InsertSessions, rowVars, MigrationInv, MigrationTypes, MigrationTypeOK
<1>4. migrator' \in [Migrators -> MigratorStates]
  <2>1. CASE DeleteSessions(m)
    BY <2>1, GoTypes, StepNames DEF DeleteSessions, MigrationInv
  <2>2. CASE ReadUsage(m)
    <3>1. PICK step \in {"sessions_insert", "failed"} :
            migrator' = [migrator EXCEPT ![m] = [@ EXCEPT !.step = step, !.read = usageOf]]
      <4>1. CASE {"snapshots", "tenancy"} \subseteq columns
        BY <2>2, <4>1, Zenon DEF ReadUsage
      <4>2. CASE ~({"snapshots", "tenancy"} \subseteq columns)
        BY <2>2, <4>2, Zenon DEF ReadUsage
      <4> QED
        BY <4>1, <4>2
    <3>2. step \in Step /\ usageOf \subseteq Sessions /\ migrator \in [Migrators -> MigratorStates]
      BY StepNames DEF MigrationInv, MigrationTypes, MigrationTypeOK
    <3>3. [migrator[m] EXCEPT !.step = step, !.read = usageOf] \in MigratorStates
      BY <3>2 DEF MigratorStates
    <3> QED
      BY <3>1, <3>2, <3>3
  <2>3. CASE InsertSessions(m)
    <3>1. PICK step \in {"failed", "usage_check"} : Go(m, step)
      BY <2>3 DEF InsertSessions
    <3> QED
      BY <3>1, GoTypes, StepNames DEF MigrationInv
  <2> QED
    BY <2>1, <2>2, <2>3
<1>5. gap' \in BOOLEAN
  BY Zenon, <1>1, Booleans
<1>6. MigrationTypes'
  BY <1>2, <1>3, <1>4, <1>5, RowTypes DEF MigrationInv, MigrationTypes, MigrationTypeOK
<1>7. KeptInv'
  BY <1>1 DEF KeptInv
<1> QED
  BY <1>6, <1>7 DEF MigrationInv

LEMMA UsageRowKeeps ==
  ASSUME MigrationInv, NEW s \in Sessions, RecordUsageRow(s)
  PROVE  MigrationInv'
<1>1. usageOf' = usageOf \cup {s} /\ UNCHANGED <<schemaVars, sessionRows, migrator, faults, evaluatedOnce>>
  BY DEF RecordUsageRow
<1>2. gap' \in BOOLEAN /\ (~gap' => ~gap /\ ~\E m \in Migrators : Migrating(m))
  BY Zenon DEF RecordUsageRow, Migrating
<1>3. MigrationTypes'
  BY <1>1, <1>2, RowTypes DEF MigrationInv, MigrationTypes, MigrationTypeOK
<1>4. KeptInv'
  BY <1>1, <1>2 DEF MigrationInv, KeptInv, Migrating
<1> QED
  BY <1>3, <1>4 DEF MigrationInv

LEMMA SessionRowsKeep ==
  ASSUME MigrationInv, NEW s \in Sessions, RollUpSession(s) \/ EvaluateSession(s)
  PROVE  MigrationInv'
<1>1. PICK row \in {"plain", "evaluated"} : sessionRows' = [sessionRows EXCEPT ![s] = row]
  BY DEF RollUpSession, EvaluateSession
<1>2. UNCHANGED <<schemaVars, usageOf, migrator, faults, gap>>
  BY DEF RollUpSession, EvaluateSession
<1>3. /\ evaluatedOnce' \subseteq evaluatedOnce \cup {s}
      /\ s \in evaluatedOnce' => sessionRows[s] = "evaluated" \/ row = "evaluated" \/ s \in evaluatedOnce
      /\ sessionRows[s] # "evaluated"
      /\ s \in evaluatedOnce' /\ s \notin evaluatedOnce => row = "evaluated"
  BY <1>1 DEF RollUpSession, EvaluateSession, MigrationInv, MigrationTypes, MigrationTypeOK
<1>4. MigrationTypes'
  BY <1>1, <1>2, <1>3, RowTypes, Booleans DEF MigrationInv, MigrationTypes, MigrationTypeOK
<1>5. KeptInv'
  BY <1>1, <1>2, <1>3 DEF MigrationInv, MigrationTypes, MigrationTypeOK, KeptInv, Migrating, Unrolled
<1> QED
  BY <1>4, <1>5 DEF MigrationInv

LEMMA StepMigration == MigrationInv /\ [MigrationNext]_migrationVars => MigrationInv'
<1> SUFFICES ASSUME MigrationInv, [MigrationNext]_migrationVars PROVE MigrationInv'
  OBVIOUS
<1>1. CASE UNCHANGED migrationVars
  <2>1. MigrationTypes'
    BY <1>1, RowTypes, Booleans DEF MigrationInv, MigrationTypes, MigrationTypeOK, migrationVars, schemaVars
  <2>2. KeptInv'
    BY <1>1 DEF migrationVars, MigrationInv, KeptInv, Migrating, Unrolled
  <2> QED
    BY <2>1, <2>2 DEF MigrationInv
<1>2. CASE MigrationNext
  BY <1>2, StartKeeps, ColumnsKeep, FlaggedColumnsKeep, BackfillsKeep, CheckKeeps, RebuildKeeps,
     UsageCopyKeeps, DailyKeeps, MigratorDeathKeeps, UsageRowKeeps, SessionRowsKeep DEF MigrationNext
<1> QED
  BY <1>1, <1>2

-----------------------------------------------------------------------------
\* A migration erases no evaluation unless usage named a session without a row
\* when one began, or named a new one during it (EvaluationsKept), however many
\* processes migrate at once and wherever they die (migrate_database,
\* rebuild_sessions_from_usage).
THEOREM EvaluationsStay == MigrationSpec => []EvaluationsKept
<1>1. MigrationInv => EvaluationsKept
  BY DEF MigrationInv, KeptInv, EvaluationsKept
<1> QED
  BY <1>1, InitMigration, StepMigration, PTL DEF MigrationSpec

-----------------------------------------------------------------------------
(* A migration is complete. *)

\* The steps from one on, in the order in which a migrator takes them; "done"
\* comes after all of them.
DailySteps == {"daily_check", "daily_create", "daily_copy", "done"}
NewTableSteps == {"toolcalls", "snapshots", "tenancy"} \cup DailySteps
CopySteps == {"usage_check", "usage_create", "usage_copy"}
RowSteps == {"sessions_check", "sessions_delete", "sessions_read", "sessions_insert"}
              \cup CopySteps \cup NewTableSteps
CacheSteps == {"cache_column", "cache_backfill"} \cup RowSteps
FillSteps == {"status_backfill", "daily_backfill", "evaluation_columns"} \cup CacheSteps

\* The columns a migrator has added on its way to a step.
ColumnsAdded(step) ==
  /\ step \in {"usage_columns", "status_columns"} \cup FillSteps => "queue" \in columns
  /\ step \in {"status_columns"} \cup FillSteps => "usage" \in columns
  /\ step \in FillSteps => "status" \in columns
  /\ step \in CacheSteps => "evaluation" \in columns
  /\ step \in {"cache_backfill"} \cup RowSteps => "cache" \in columns
  /\ step \in {"snapshots", "tenancy"} \cup DailySteps => "toolcalls" \in columns
  /\ step \in {"tenancy"} \cup DailySteps => "snapshots" \in columns
  /\ step \in DailySteps => "tenancy" \in columns

\* What has been filled on the way: a column that is there but was not filled is
\* filled by this migrator.
ColumnsFilled(m) ==
  LET t == migrator[m] IN
  /\ t.step = "status_backfill" =>
       t.added \/ "status" \in filled \/ "daily" \notin filled
  /\ t.step = "daily_backfill" => "status" \in filled \/ "daily" \notin filled
  /\ t.step \in {"evaluation_columns"} \cup CacheSteps => {"status", "daily"} \subseteq filled
  /\ t.step = "cache_backfill" => t.added \/ "cache" \in filled
  /\ t.step \in RowSteps => "cache" \in filled

\* Timestamps come before ids, and each is converted once; a table left behind
\* names a conversion that never committed.
UsageConverted(m) ==
  LET t == migrator[m] IN
  /\ t.step \notin Resting \cup CopySteps \cup NewTableSteps => t.converting = "ts"
  /\ t.step \in CopySteps /\ t.converting = "id" => conversions["ts"] = 1
  /\ t.step \in {"usage_create", "usage_copy"} => conversions[t.converting] = 0
  /\ t.step \in NewTableSteps => conversions["ts"] = 1 /\ conversions["id"] = 1

DailyMerged(m) ==
  /\ migrator[m].step \in {"daily_create", "daily_copy"} => ~dailyUnique
  /\ At(m, "done") => dailyUnique

CompleteInv ==
  /\ \A m \in Migrators :
       ColumnsAdded(migrator[m].step) /\ ColumnsFilled(m) /\ UsageConverted(m) /\ DailyMerged(m)
  /\ conversions["ts"] <= 1 /\ conversions["id"] <= 1
  /\ usageNew => conversions["ts"] = 0 \/ conversions["id"] = 0
  /\ dailyUnique => ~dailyNew

\* What CompleteInv says of one migrator, and of the database alone.
CompleteFor(m) ==
  ColumnsAdded(migrator[m].step) /\ ColumnsFilled(m) /\ UsageConverted(m) /\ DailyMerged(m)
CompleteShared ==
  /\ conversions["ts"] <= 1 /\ conversions["id"] <= 1
  /\ usageNew => conversions["ts"] = 0 \/ conversions["id"] = 0
  /\ dailyUnique => ~dailyNew

Alone(m) == m \in Migrators /\ \A k \in Migrators : k = m

LEMMA CompleteParts ==
  CompleteInv <=> CompleteShared /\ \A m \in Migrators : CompleteFor(m)
BY DEF CompleteInv, CompleteShared, CompleteFor

LEMMA InitComplete == MigrationInit => CompleteInv
<1> SUFFICES ASSUME MigrationInit PROVE CompleteInv
  OBVIOUS
<1>1. CompleteShared
  BY DEF MigrationInit, CompleteShared
<1>2. ASSUME NEW m \in Migrators PROVE CompleteFor(m)
  <2>1. migrator[m] = AtStart("idle") /\ migrator[m].step = "idle"
    BY DEF MigrationInit, AtStart
  <2>2. ColumnsAdded("idle")
    BY DEF ColumnsAdded, FillSteps, CacheSteps, RowSteps, CopySteps, NewTableSteps, DailySteps
  <2>3. ColumnsFilled(m)
    BY <2>1 DEF ColumnsFilled, CacheSteps, RowSteps, CopySteps, NewTableSteps, DailySteps
  <2>4. UsageConverted(m)
    BY <2>1 DEF UsageConverted, Resting, CopySteps, NewTableSteps, DailySteps
  <2>5. DailyMerged(m)
    BY <2>1 DEF DailyMerged, At
  <2> QED
    BY <2>1, <2>2, <2>3, <2>4, <2>5 DEF CompleteFor
<1> QED
  BY <1>1, <1>2, CompleteParts

\* How a migrator that goes on keeps what it remembers.
LEMMA GoKeeps ==
  ASSUME MigrationTypes, NEW m \in Migrators, NEW step, Go(m, step)
  PROVE  /\ migrator'[m].step = step
         /\ migrator'[m].added = migrator[m].added
         /\ migrator'[m].converting = migrator[m].converting
BY DEF MigrationTypes, MigratorStates, Go

LEMMA GoAddedKeeps ==
  ASSUME MigrationTypes, NEW m \in Migrators, NEW step, NEW added, GoAdded(m, step, added)
  PROVE  /\ migrator'[m].step = step /\ migrator'[m].added = added
         /\ migrator'[m].converting = migrator[m].converting
BY DEF MigrationTypes, MigratorStates, GoAdded

\* For a migrator alone the invariant is what it says of that one.
LEMMA CompleteAlone ==
  ASSUME NEW m, Alone(m),
         CompleteShared', ColumnsAdded(migrator[m].step)', ColumnsFilled(m)',
         UsageConverted(m)', DailyMerged(m)'
  PROVE  CompleteInv'
BY DEF CompleteInv, CompleteShared, Alone

LEMMA EnsureCompletes ==
  ASSUME MigrationTypes, CompleteInv, NEW m, Alone(m),
         \/ AddQueueColumns(m) \/ AddUsageColumns(m) \/ AddEvaluationColumns(m)
         \/ AddToolCalls(m) \/ AddSnapshots(m) \/ AddTenancy(m)
  PROVE  CompleteInv'
<1>1. ASSUME NEW at, NEW group, NEW next, Ensure(m, at, group, next),
             <<at, group, next>> \in {<<"queue_columns", "queue", "usage_columns">>,
               <<"usage_columns", "usage", "status_columns">>,
               <<"evaluation_columns", "evaluation", "cache_column">>,
               <<"toolcalls", "toolcalls", "snapshots">>,
               <<"snapshots", "snapshots", "tenancy">>,
               <<"tenancy", "tenancy", "daily_check">>}
      PROVE  CompleteInv'
  <2>1. /\ migrator[m].step = at /\ columns' = columns \cup {group}
        /\ migrator'[m].step = next /\ migrator'[m].added = migrator[m].added
        /\ migrator'[m].converting = migrator[m].converting
    BY <1>1, GoKeeps DEF Ensure, At, Alone
  <2>2. UNCHANGED <<filled, conversions, usageNew, dailyUnique, dailyNew>>
    BY <1>1 DEF Ensure
  <2>3. CompleteShared /\ CompleteFor(m)
    BY CompleteParts DEF Alone
  <2>4. CompleteShared'
    BY <2>2, <2>3 DEF CompleteShared
  <2>5. ColumnsAdded(next)'
    BY <1>1, <2>1, <2>3 DEF CompleteFor, ColumnsAdded, FillSteps, CacheSteps, RowSteps, CopySteps,
                            NewTableSteps, DailySteps
  <2>6. ColumnsFilled(m)'
    BY <1>1, <2>1, <2>2, <2>3 DEF CompleteFor, ColumnsFilled, CacheSteps, RowSteps, CopySteps,
                            NewTableSteps, DailySteps
  <2>7. UsageConverted(m)'
    BY <1>1, <2>1, <2>2, <2>3 DEF CompleteFor, UsageConverted, Resting, CopySteps, NewTableSteps,
                                  DailySteps
  <2>8. DailyMerged(m)'
    BY <1>1, <2>1, <2>2, <2>3 DEF CompleteFor, DailyMerged, At
  <2>9. ColumnsAdded(migrator[m].step)'
    BY <2>1, <2>5 DEF ColumnsAdded
  <2> QED
    BY <2>4, <2>6, <2>7, <2>8, <2>9, CompleteAlone
<1> QED
  BY <1>1, Zenon DEF AddQueueColumns, AddUsageColumns, AddEvaluationColumns, AddToolCalls, AddSnapshots, AddTenancy

\* A step that changes nothing of the schema and goes on without a new flag.
LEMMA CheckCompletes ==
  ASSUME MigrationTypes, CompleteInv, NEW m, Alone(m), CheckSessions(m) \/ CheckDailyUnique(m)
  PROVE  CompleteInv'
<1>1. PICK next \in {"sessions_delete", "usage_check", "done", "daily_create"} :
        /\ Go(m, next)
        /\ next \in {"sessions_delete", "usage_check"} => migrator[m].step = "sessions_check"
        /\ next \in {"done", "daily_create"} => migrator[m].step = "daily_check"
        /\ next = "done" => dailyUnique
        /\ next = "daily_create" => ~dailyUnique
  BY DEF CheckSessions, CheckDailyUnique, At
<1>2. UNCHANGED <<columns, filled, conversions, usageNew, dailyUnique, dailyNew>>
  BY DEF CheckSessions, CheckDailyUnique, schemaVars
<1>3. CompleteShared /\ CompleteFor(m)
  BY CompleteParts DEF Alone
<1>4. /\ migrator'[m].step = next /\ migrator'[m].added = migrator[m].added
      /\ migrator'[m].converting = migrator[m].converting
  BY <1>1, GoKeeps DEF Alone
<1>5. CompleteShared'
  BY <1>2, <1>3 DEF CompleteShared
<1>6. ColumnsAdded(migrator[m].step)'
  BY <1>1, <1>2, <1>3, <1>4 DEF CompleteFor, ColumnsAdded, FillSteps, CacheSteps, RowSteps, CopySteps,
                                NewTableSteps, DailySteps
<1>7. ColumnsFilled(m)'
  BY <1>1, <1>2, <1>3, <1>4 DEF CompleteFor, ColumnsFilled, CacheSteps, RowSteps, CopySteps,
                                NewTableSteps, DailySteps
<1>8. UsageConverted(m)'
  BY <1>1, <1>2, <1>3, <1>4 DEF CompleteFor, UsageConverted, Resting, CopySteps, NewTableSteps,
                                DailySteps
<1>9. DailyMerged(m)'
  BY <1>1, <1>2, <1>3, <1>4 DEF CompleteFor, DailyMerged, At
<1> QED
  BY <1>5, <1>6, <1>7, <1>8, <1>9, CompleteAlone

\* A column that is there but not filled is remembered as one to fill.
LEMMA FlaggedCompletes ==
  ASSUME MigrationTypes, CompleteInv, NEW m, Alone(m), AddStatusColumns(m) \/ AddCacheColumn(m)
  PROVE  CompleteInv'
<1>1. PICK at, group, next, added :
        /\ At(m, at) /\ columns' = columns \cup {group} /\ GoAdded(m, next, added)
        /\ <<at, group, next>> \in {<<"status_columns", "status", "status_backfill">>,
                                    <<"cache_column", "cache", "cache_backfill">>}
        /\ next = "status_backfill" => added \/ "status" \in filled \/ "daily" \notin filled
        /\ next = "cache_backfill" => added \/ "cache" \in filled
  <2>1. CASE AddStatusColumns(m)
    <3> DEFINE added == "status" \notin columns \/ ("daily" \in filled /\ "status" \notin filled)
    <3>1. /\ At(m, "status_columns") /\ columns' = columns \cup {"status"}
          /\ GoAdded(m, "status_backfill", added)
          /\ added \/ "status" \in filled \/ "daily" \notin filled
      BY <2>1 DEF AddStatusColumns
    <3> HIDE DEF added
    <3> QED
      BY <3>1
  <2>2. CASE AddCacheColumn(m)
    <3> DEFINE added == "cache" \notin columns \/ "cache" \notin filled
    <3>1. /\ At(m, "cache_column") /\ columns' = columns \cup {"cache"}
          /\ GoAdded(m, "cache_backfill", added)
          /\ added \/ "cache" \in filled
      BY <2>2 DEF AddCacheColumn
    <3> HIDE DEF added
    <3> QED
      BY <3>1
  <2> QED
    BY <2>1, <2>2
<1>2. UNCHANGED <<filled, conversions, usageNew, dailyUnique, dailyNew>>
  BY DEF AddStatusColumns, AddCacheColumn
<1>3. CompleteShared /\ CompleteFor(m)
  BY CompleteParts DEF Alone
<1>4. /\ migrator[m].step = at /\ migrator'[m].step = next /\ migrator'[m].added = added
      /\ migrator'[m].converting = migrator[m].converting
  BY <1>1, GoAddedKeeps DEF Alone, At
<1>5. CompleteShared'
  BY <1>2, <1>3 DEF CompleteShared
<1>6. ColumnsAdded(migrator[m].step)'
  BY <1>1, <1>3, <1>4 DEF CompleteFor, ColumnsAdded, FillSteps, CacheSteps, RowSteps, CopySteps,
                          NewTableSteps, DailySteps
<1>7. ColumnsFilled(m)'
  BY <1>1, <1>2, <1>3, <1>4 DEF CompleteFor, ColumnsFilled, CacheSteps, RowSteps, CopySteps,
                                NewTableSteps, DailySteps
<1>8. UsageConverted(m)'
  BY <1>1, <1>2, <1>3, <1>4 DEF CompleteFor, UsageConverted, Resting, CopySteps, NewTableSteps,
                                DailySteps
<1>9. DailyMerged(m)'
  BY <1>1, <1>2, <1>3, <1>4 DEF CompleteFor, DailyMerged, At
<1> QED
  BY <1>5, <1>6, <1>7, <1>8, <1>9, CompleteAlone

LEMMA BackfillsComplete ==
  ASSUME MigrationTypes, CompleteInv, NEW m, Alone(m),
         BackfillStatus(m) \/ BackfillDaily(m) \/ BackfillCache(m)
  PROVE  CompleteInv'
<1>1. PICK at, next :
        /\ At(m, at) /\ Go(m, next)
        /\ <<at, next>> \in {<<"status_backfill", "daily_backfill">>,
             <<"daily_backfill", "evaluation_columns">>, <<"cache_backfill", "sessions_check">>}
        /\ at = "status_backfill" => (migrator[m].added => "status" \in filled')
        /\ at = "daily_backfill" => ("daily" \in filled \/ "status" \in filled') /\ "daily" \in filled'
        /\ at = "cache_backfill" => (migrator[m].added => "cache" \in filled')
  BY DEF BackfillStatus, BackfillDaily, BackfillCache
<1>2. UNCHANGED <<columns, conversions, usageNew, dailyUnique, dailyNew>> /\ filled \subseteq filled'
  BY DEF BackfillStatus, BackfillDaily, BackfillCache
<1>3. CompleteShared /\ CompleteFor(m)
  BY CompleteParts DEF Alone
<1>4. /\ migrator[m].step = at /\ migrator'[m].step = next /\ migrator'[m].added = migrator[m].added
      /\ migrator'[m].converting = migrator[m].converting
  BY <1>1, GoKeeps DEF Alone, At
<1>5. CompleteShared'
  BY <1>2, <1>3 DEF CompleteShared
<1>6. ColumnsAdded(migrator[m].step)'
  BY <1>1, <1>2, <1>3, <1>4 DEF CompleteFor, ColumnsAdded, FillSteps, CacheSteps, RowSteps, CopySteps,
                          NewTableSteps, DailySteps
<1>7. ColumnsFilled(m)'
  <2>1. at = "status_backfill" => "status" \in filled' \/ "daily" \notin filled'
    BY <1>1, <1>3, <1>4 DEF CompleteFor, ColumnsFilled, BackfillStatus, BackfillDaily, BackfillCache, At
  <2>2. at = "daily_backfill" => {"status", "daily"} \subseteq filled'
    BY <1>1, <1>2, <1>3, <1>4 DEF CompleteFor, ColumnsFilled
  <2>3. at = "cache_backfill" => {"status", "daily"} \subseteq filled' /\ "cache" \in filled'
    BY <1>1, <1>2, <1>3, <1>4 DEF CompleteFor, ColumnsFilled, CacheSteps
  <2> QED
    BY <1>1, <1>4, <2>1, <2>2, <2>3 DEF ColumnsFilled, CacheSteps, RowSteps, CopySteps,
                                NewTableSteps, DailySteps
<1>8. UsageConverted(m)'
  BY <1>1, <1>2, <1>3, <1>4 DEF CompleteFor, UsageConverted, Resting, CopySteps, NewTableSteps,
                                DailySteps
<1>9. DailyMerged(m)'
  BY <1>1, <1>2, <1>3, <1>4 DEF CompleteFor, DailyMerged, At
<1> QED
  BY <1>5, <1>6, <1>7, <1>8, <1>9, CompleteAlone

\* A migration that begins, dies or fails owes nothing, whatever was done.
LEMMA RestCompletes ==
  ASSUME CompleteInv, NEW m, Alone(m),
         UNCHANGED <<columns, filled, conversions, usageNew, dailyUnique, dailyNew>>,
         \/ migrator'[m].step \in {"idle", "failed"}
         \/ migrator'[m].step = "queue_columns" /\ migrator'[m].converting = "ts"
  PROVE  CompleteInv'
<1>1. CompleteShared'
  BY CompleteParts DEF CompleteShared
<1>2. ColumnsAdded(migrator[m].step)'
  BY DEF ColumnsAdded, FillSteps, CacheSteps, RowSteps, CopySteps, NewTableSteps, DailySteps
<1>3. ColumnsFilled(m)'
  BY DEF ColumnsFilled, CacheSteps, RowSteps, CopySteps, NewTableSteps, DailySteps
<1>4. UsageConverted(m)'
  BY DEF UsageConverted, Resting, CopySteps, NewTableSteps, DailySteps
<1>5. DailyMerged(m)'
  BY DEF DailyMerged, At
<1> QED
  BY <1>1, <1>2, <1>3, <1>4, <1>5, CompleteAlone

LEMMA RebuildCompletes ==
  ASSUME MigrationTypes, CompleteInv, NEW m, Alone(m),
         DeleteSessions(m) \/ ReadUsage(m) \/ InsertSessions(m)
  PROVE  CompleteInv'
<1>1. PICK at, next :
        /\ migrator[m].step = at /\ migrator'[m].step = next
        /\ migrator'[m].added = migrator[m].added
        /\ migrator'[m].converting = migrator[m].converting
        /\ <<at, next>> \in {<<"sessions_delete", "sessions_read">>,
             <<"sessions_read", "sessions_insert">>, <<"sessions_read", "failed">>,
             <<"sessions_insert", "failed">>, <<"sessions_insert", "usage_check">>}
  <2>1. CASE DeleteSessions(m)
    BY <2>1, GoKeeps DEF DeleteSessions, At, Alone
  <2>2. CASE ReadUsage(m)
    <3>1. PICK step \in {"sessions_insert", "failed"} :
            migrator' = [migrator EXCEPT ![m] = [@ EXCEPT !.step = step, !.read = usageOf]]
      <4>1. CASE {"snapshots", "tenancy"} \subseteq columns
        BY <2>2, <4>1, Zenon DEF ReadUsage
      <4>2. CASE ~({"snapshots", "tenancy"} \subseteq columns)
        BY <2>2, <4>2, Zenon DEF ReadUsage
      <4> QED
        BY <4>1, <4>2
    <3> QED
      BY <2>2, <3>1 DEF ReadUsage, At, Alone, MigrationTypes, MigratorStates
  <2>3. CASE InsertSessions(m)
    BY <2>3, GoKeeps DEF InsertSessions, At, Alone
  <2> QED
    BY <2>1, <2>2, <2>3
<1>2. UNCHANGED <<columns, filled, conversions, usageNew, dailyUnique, dailyNew>>
  BY DEF DeleteSessions, ReadUsage, InsertSessions, schemaVars
<1>3. CompleteShared /\ CompleteFor(m)
  BY CompleteParts DEF Alone
<1>5. CompleteShared'
  BY <1>2, <1>3 DEF CompleteShared
<1>6. ColumnsAdded(migrator[m].step)'
  BY <1>1, <1>2, <1>3 DEF CompleteFor, ColumnsAdded, FillSteps, CacheSteps, RowSteps, CopySteps,
                                NewTableSteps, DailySteps
<1>7. ColumnsFilled(m)'
  BY <1>1, <1>2, <1>3 DEF CompleteFor, ColumnsFilled, CacheSteps, RowSteps, CopySteps,
                                NewTableSteps, DailySteps
<1>8. UsageConverted(m)'
  BY <1>1, <1>2, <1>3 DEF CompleteFor, UsageConverted, Resting, CopySteps, NewTableSteps,
                                DailySteps
<1>9. DailyMerged(m)'
  BY <1>1, <1>2, <1>3 DEF CompleteFor, DailyMerged, At
<1> QED
  BY <1>5, <1>6, <1>7, <1>8, <1>9, CompleteAlone

LEMMA AfterConversionGoes ==
  ASSUME MigrationTypes, NEW m \in Migrators, AfterConversion(m)
  PROVE  /\ migrator[m].converting \in {"ts", "id"}
         /\ migrator[m].converting = "ts" => migrator'[m].step = "usage_check"
         /\ migrator[m].converting = "id" => migrator'[m].step = "toolcalls"
         /\ migrator'[m].converting = "id"
<1>1. migrator[m].converting \in {"ts", "id"}
  BY DEF MigrationTypes, MigratorStates
<1>2. CASE migrator[m].converting = "ts"
  <2>1. migrator' = [migrator EXCEPT ![m] = [@ EXCEPT !.step = "usage_check", !.converting = "id"]]
    BY <1>2 DEF AfterConversion
  <2> QED
    BY <1>2, <2>1 DEF MigrationTypes, MigratorStates
<1>3. CASE migrator[m].converting = "id"
  <2>1. migrator' = [migrator EXCEPT ![m] = [@ EXCEPT !.step = "toolcalls", !.converting = "id"]]
    BY <1>3 DEF AfterConversion
  <2> QED
    BY <1>3, <2>1 DEF MigrationTypes, MigratorStates
<1> QED
  BY <1>1, <1>2, <1>3

\* Where a conversion was found done or has just been done, the next one is due.
LEMMA ConversionCompletes ==
  ASSUME MigrationTypes, CompleteInv, NEW m, Alone(m), AfterConversion(m),
         migrator[m].step \in CopySteps,
         UNCHANGED <<columns, filled, dailyUnique, dailyNew>>,
         conversions'["ts"] <= 1 /\ conversions'["id"] <= 1,
         conversions'[migrator[m].converting] = 1,
         conversions["ts"] = 1 => conversions'["ts"] = 1,
         usageNew' => conversions'["ts"] = 0 \/ conversions'["id"] = 0
  PROVE  CompleteInv'
<1>1. CompleteShared /\ CompleteFor(m)
  BY CompleteParts DEF Alone
<1>2. /\ migrator[m].converting \in {"ts", "id"}
      /\ migrator[m].converting = "ts" => migrator'[m].step = "usage_check"
      /\ migrator[m].converting = "id" => migrator'[m].step = "toolcalls"
      /\ migrator'[m].converting = "id"
  BY AfterConversionGoes DEF Alone
<1>3. CompleteShared'
  BY <1>1 DEF CompleteShared
<1>4. ColumnsAdded(migrator[m].step)'
  BY <1>1, <1>2 DEF CompleteFor, ColumnsAdded, FillSteps, CacheSteps, RowSteps, CopySteps,
                    NewTableSteps, DailySteps
<1>5. ColumnsFilled(m)'
  BY <1>1, <1>2 DEF CompleteFor, ColumnsFilled, CacheSteps, RowSteps, CopySteps,
                    NewTableSteps, DailySteps
<1>6. UsageConverted(m)'
  BY <1>1, <1>2 DEF CompleteFor, UsageConverted, Resting, CopySteps, NewTableSteps, DailySteps
<1>7. DailyMerged(m)'
  BY <1>2 DEF DailyMerged, At
<1> QED
  BY <1>3, <1>4, <1>5, <1>6, <1>7, CompleteAlone

\* On the way to the copy the conversion is still due.
LEMMA TowardsCopyCompletes ==
  ASSUME MigrationTypes, CompleteInv, NEW m, Alone(m),
         migrator[m].step \in CopySteps, migrator'[m].step \in {"usage_create", "usage_copy"},
         migrator'[m].converting = migrator[m].converting,
         conversions[migrator[m].converting] = 0,
         UNCHANGED <<columns, filled, conversions, dailyUnique, dailyNew>>
  PROVE  CompleteInv'
<1>1. CompleteShared /\ CompleteFor(m)
  BY CompleteParts DEF Alone
<1>2. migrator[m].converting \in {"ts", "id"}
  BY DEF MigrationTypes, MigratorStates, Alone
<1>3. CompleteShared'
  BY <1>1, <1>2 DEF CompleteShared
<1>4. ColumnsAdded(migrator[m].step)'
  BY <1>1 DEF CompleteFor, ColumnsAdded, FillSteps, CacheSteps, RowSteps, CopySteps,
              NewTableSteps, DailySteps
<1>5. ColumnsFilled(m)'
  BY <1>1 DEF CompleteFor, ColumnsFilled, CacheSteps, RowSteps, CopySteps, NewTableSteps, DailySteps
<1>6. UsageConverted(m)'
  BY <1>1, <1>2 DEF CompleteFor, UsageConverted, Resting, CopySteps, NewTableSteps, DailySteps
<1>7. DailyMerged(m)'
  BY DEF DailyMerged, At
<1> QED
  BY <1>3, <1>4, <1>5, <1>6, <1>7, CompleteAlone

LEMMA UsageCopyCompletes ==
  ASSUME MigrationTypes, CompleteInv, NEW m, Alone(m),
         CheckUsage(m) \/ CreateUsageNew(m) \/ CopyUsage(m)
  PROVE  CompleteInv'
<1> DEFINE c == migrator[m].converting
<1>1. CompleteShared /\ CompleteFor(m) /\ migrator[m].step \in CopySteps
  BY CompleteParts DEF Alone, CheckUsage, CreateUsageNew, CopyUsage, At, CopySteps
<1>2. c \in {"ts", "id"} /\ conversions["ts"] \in Nat /\ conversions["id"] \in Nat
  BY DEF MigrationTypes, MigratorStates, MigrationTypeOK, Alone
<1>3. UNCHANGED <<columns, filled, dailyUnique, dailyNew>>
  BY DEF CheckUsage, CreateUsageNew, CopyUsage, schemaVars
<1>4. CASE CheckUsage(m)
  <2>1. UNCHANGED <<conversions, usageNew>>
    BY <1>4 DEF CheckUsage, schemaVars
  <2>2. CASE conversions[c] = 0
    <3>1. Go(m, "usage_create")
      BY <1>4, <2>2 DEF CheckUsage
    <3> QED
      BY <1>1, <1>3, <2>1, <2>2, <3>1, GoKeeps, TowardsCopyCompletes DEF Alone
  <2>3. CASE conversions[c] # 0
    <3>1. AfterConversion(m)
      BY <1>4, <2>3 DEF CheckUsage
    <3>2. conversions[c] = 1
      BY <1>1, <1>2, <2>3 DEF CompleteShared
    <3> QED
      BY <1>1, <1>3, <2>1, <3>1, <3>2, ConversionCompletes DEF CompleteShared
  <2> QED
    BY <2>2, <2>3
<1>5. CASE CreateUsageNew(m)
  <2>1. conversions' = conversions /\ conversions[c] = 0
    BY <1>1, <1>5 DEF CreateUsageNew, At, CompleteFor, UsageConverted
  <2>2. CASE SchemaCommits /\ usageNew
    <3>1. Go(m, "failed") /\ usageNew' /\ usageNew
      BY <1>5, <2>2 DEF CreateUsageNew
    <3>2. migrator'[m].step = "failed"
      BY <3>1, GoKeeps DEF Alone
    <3>3. CompleteShared'
      BY <1>1, <1>3, <2>1, <3>1 DEF CompleteShared
    <3>4. ColumnsAdded(migrator[m].step)' /\ ColumnsFilled(m)' /\ UsageConverted(m)' /\ DailyMerged(m)'
      BY <3>2 DEF ColumnsAdded, ColumnsFilled, UsageConverted, DailyMerged, At, Resting, FillSteps,
                  CacheSteps, RowSteps, CopySteps, NewTableSteps, DailySteps
    <3> QED
      BY <3>3, <3>4, CompleteAlone
  <2>3. CASE ~(SchemaCommits /\ usageNew)
    <3>1. Go(m, "usage_copy")
      BY <1>5, <2>3 DEF CreateUsageNew
    <3> QED
      BY <1>1, <1>3, <2>1, <3>1, GoKeeps, TowardsCopyCompletes DEF Alone
  <2> QED
    BY <2>2, <2>3
<1>6. CASE CopyUsage(m)
  <2>1. conversions' = [conversions EXCEPT ![c] = @ + 1] /\ usageNew' = FALSE /\ AfterConversion(m)
    BY <1>6 DEF CopyUsage
  <2>2. conversions[c] = 0 /\ conversions \in [{"ts", "id"} -> Nat]
    BY <1>1, <1>6 DEF CopyUsage, At, CompleteFor, UsageConverted, MigrationTypes, MigrationTypeOK
  <2>3. conversions'[c] = 1 /\ \A what \in {"ts", "id"} : what # c => conversions'[what] = conversions[what]
    BY <1>2, <2>1, <2>2
  <2>4. /\ conversions'["ts"] <= 1 /\ conversions'["id"] <= 1
        /\ conversions["ts"] = 1 => conversions'["ts"] = 1
    BY <1>1, <1>2, <2>2, <2>3 DEF CompleteShared
  <2> QED
    BY <1>1, <1>3, <2>1, <2>3, <2>4, ConversionCompletes
<1> QED
  BY <1>4, <1>5, <1>6

\* usage_daily is merged once, and the table it is merged into becomes it.
LEMMA DailyCompletes ==
  ASSUME MigrationTypes, CompleteInv, NEW m, Alone(m), CreateDailyNew(m) \/ MergeDaily(m)
  PROVE  CompleteInv'
<1>1. PICK at, next :
        /\ At(m, at) /\ Go(m, next)
        /\ <<at, next>> \in {<<"daily_create", "daily_copy">>, <<"daily_copy", "done">>}
        /\ at = "daily_create" => dailyUnique' = dailyUnique
        /\ at = "daily_copy" => dailyUnique' /\ ~dailyNew'
  BY DEF CreateDailyNew, MergeDaily
<1>2. UNCHANGED <<columns, filled, conversions, usageNew>>
  BY DEF CreateDailyNew, MergeDaily
<1>3. CompleteShared /\ CompleteFor(m)
  BY CompleteParts DEF Alone
<1>4. /\ migrator[m].step = at /\ migrator'[m].step = next
      /\ migrator'[m].converting = migrator[m].converting
  BY <1>1, GoKeeps DEF Alone, At
<1>5. CompleteShared'
  BY <1>1, <1>2, <1>3, <1>4 DEF CompleteShared, CompleteFor, DailyMerged
<1>6. ColumnsAdded(migrator[m].step)'
  BY <1>1, <1>2, <1>3, <1>4 DEF CompleteFor, ColumnsAdded, FillSteps, CacheSteps, RowSteps, CopySteps,
                                NewTableSteps, DailySteps
<1>7. ColumnsFilled(m)'
  BY <1>1, <1>2, <1>3, <1>4 DEF CompleteFor, ColumnsFilled, CacheSteps, RowSteps, CopySteps,
                                NewTableSteps, DailySteps
<1>8. UsageConverted(m)'
  BY <1>1, <1>2, <1>3, <1>4 DEF CompleteFor, UsageConverted, Resting, CopySteps, NewTableSteps,
                                DailySteps
<1>9. DailyMerged(m)'
  BY <1>1, <1>3, <1>4 DEF CompleteFor, DailyMerged, At
<1> QED
  BY <1>5, <1>6, <1>7, <1>8, <1>9, CompleteAlone

\* What leaves the schema and the migrators alone keeps the invariant.
LEMMA SurroundingsComplete ==
  ASSUME CompleteInv, UNCHANGED <<schemaVars, migrator>>
  PROVE  CompleteInv'
<1>1. \A m \in Migrators : ColumnsAdded(migrator[m].step)'
  BY DEF CompleteInv, schemaVars, ColumnsAdded
<1> QED
  BY <1>1 DEF CompleteInv, schemaVars, ColumnsFilled, UsageConverted, DailyMerged, At

LEMMA StepComplete ==
  ASSUME \A m, k \in Migrators : m = k, MigrationInv, CompleteInv, [MigrationNext]_migrationVars
  PROVE  CompleteInv'
<1> USE DEF MigrationInv
<1>1. CASE UNCHANGED migrationVars
  BY <1>1, SurroundingsComplete DEF migrationVars, schemaVars
<1>2. ASSUME NEW s \in Sessions, RecordUsageRow(s) \/ RollUpSession(s) \/ EvaluateSession(s)
      PROVE  CompleteInv'
  BY <1>2, SurroundingsComplete DEF RecordUsageRow, RollUpSession, EvaluateSession
<1>3. ASSUME NEW m \in Migrators, StartMigration(m) PROVE CompleteInv'
  <2>1. migrator'[m].step = "queue_columns" /\ migrator'[m].converting = "ts"
    BY <1>3 DEF StartMigration, AtStart, MigrationTypes
  <2> QED
    BY <1>3, <2>1, RestCompletes DEF StartMigration, schemaVars, Alone
<1>4. ASSUME NEW m \in Migrators, DieInMigration(m) PROVE CompleteInv'
  <2>1. migrator'[m].step = "idle"
    BY <1>4, GoKeeps DEF DieInMigration, Go
  <2> QED
    BY <1>4, <2>1, RestCompletes DEF DieInMigration, schemaVars, Alone
<1>5. \A m \in Migrators : Alone(m)
  BY DEF Alone
<1>6. CASE MigrationNext
  BY <1>2, <1>3, <1>4, <1>5, <1>6, EnsureCompletes, FlaggedCompletes, BackfillsComplete, CheckCompletes,
     RebuildCompletes, UsageCopyCompletes, DailyCompletes DEF MigrationNext
<1> QED
  BY <1>1, <1>6

\* A migration that runs through leaves the database complete (MigrationComplete):
\* every column is there and filled, timestamps and ids are converted once, and the
\* daily rows are merged, wherever earlier runs of the one process that migrates
\* died (migrate_database and its backfills).
THEOREM MigrationCompletes ==
  ASSUME \A m, k \in Migrators : m = k
  PROVE  MigrationSpec => []MigrationComplete
<1>1. MigrationInv /\ CompleteInv => MigrationComplete
  <2> SUFFICES ASSUME MigrationInv, CompleteInv PROVE MigrationComplete
    OBVIOUS
  <2>1. filled \subseteq {"status", "daily", "cache"} /\ columns \subseteq AllColumns
        /\ conversions \in [{"ts", "id"} -> Nat]
    BY DEF MigrationInv, MigrationTypes, MigrationTypeOK
  <2>2. ASSUME NEW m \in Migrators, At(m, "done")
        PROVE  /\ Current /\ filled = {"status", "daily", "cache"}
               /\ conversions = [ts |-> 1, id |-> 1] /\ ~usageNew /\ dailyUnique /\ ~dailyNew
    <3>1. /\ ColumnsAdded("done") /\ ColumnsFilled(m) /\ UsageConverted(m) /\ DailyMerged(m)
          /\ migrator[m].step = "done"
      BY <2>2 DEF CompleteInv, At
    <3>2. Current
      BY <2>1, <3>1, ColumnNames DEF Current, ColumnsAdded, FillSteps, CacheSteps, RowSteps,
                                     NewTableSteps, DailySteps
    <3>3. filled = {"status", "daily", "cache"}
      BY <2>1, <3>1 DEF ColumnsFilled, CacheSteps, RowSteps, NewTableSteps, DailySteps
    <3>4. conversions["ts"] = 1 /\ conversions["id"] = 1
      BY <3>1 DEF UsageConverted, NewTableSteps, DailySteps
    <3>5. conversions = [ts |-> 1, id |-> 1]
      BY <2>1, <3>4
    <3>6. ~usageNew /\ dailyUnique /\ ~dailyNew
      BY <2>2, <3>1, <3>4 DEF CompleteInv, DailyMerged
    <3> QED
      BY <3>2, <3>3, <3>5, <3>6
  <2> QED
    BY <2>2 DEF MigrationComplete, CompleteInv
<1> QED
  BY <1>1, InitMigration, InitComplete, StepMigration, StepComplete, PTL DEF MigrationSpec

(* ---- the sum of the parts ------------------------------------------------------- *)

Elsewhere == <<gateVars, toolVars, codeVars, authVars, migrationVars, reportVars,
               priceVars, refreshVars>>

LEMMA GateMoves == GatePart => GateNext /\ UNCHANGED <<toolVars, codeVars, authVars,
                                  migrationVars, reportVars, priceVars, refreshVars>>
<1> SUFFICES ASSUME GatePart
             PROVE  GateNext /\ UNCHANGED <<toolVars, codeVars, authVars, migrationVars,
                                            reportVars, priceVars, refreshVars>>
  OBVIOUS
<1>1. OfGate /\ GateNext
  BY DEF GatePart, GateNext, GateCallNext
<1> QED
  BY <1>1 DEF OfGate

LEMMA ToolsMove == ToolPart => ToolNext /\ UNCHANGED <<gateVars, codeVars, authVars,
                                  migrationVars, reportVars, priceVars, refreshVars>>
<1> SUFFICES ASSUME ToolPart
             PROVE  ToolNext /\ UNCHANGED <<gateVars, codeVars, authVars, migrationVars,
                                            reportVars, priceVars, refreshVars>>
  OBVIOUS
<1>1. (\E k \in Keys : OfTools(k)) /\ ToolNext
  BY DEF ToolPart, ToolNext
<1> QED
  BY <1>1 DEF OfTools

LEMMA CodesMove == CodesPart => CodesNext /\ UNCHANGED <<gateVars, toolVars, authVars,
                                  migrationVars, reportVars, priceVars, refreshVars>>
<1> SUFFICES ASSUME CodesPart
             PROVE  CodesNext /\ UNCHANGED <<gateVars, toolVars, authVars, migrationVars,
                                             reportVars, priceVars, refreshVars>>
  OBVIOUS
<1>1. OfCodes /\ CodesNext
  BY DEF CodesPart, CodesNext
<1> QED
  BY <1>1 DEF OfCodes

LEMMA AuthMoves == AuthPart => AuthNext /\ UNCHANGED <<gateVars, toolVars, codeVars,
                                  migrationVars, reportVars, priceVars, refreshVars>>
<1> SUFFICES ASSUME AuthPart
             PROVE  AuthNext /\ UNCHANGED <<gateVars, toolVars, codeVars, migrationVars,
                                            reportVars, priceVars, refreshVars>>
  OBVIOUS
<1>1. OfAuth /\ AuthNext
  BY DEF AuthPart, AuthNext
<1> QED
  BY <1>1 DEF OfAuth

LEMMA MigrationMoves == MigrationPart => MigrationNext /\ UNCHANGED <<gateVars, toolVars,
                                  codeVars, authVars, reportVars, priceVars, refreshVars>>
<1> SUFFICES ASSUME MigrationPart
             PROVE  MigrationNext /\ UNCHANGED <<gateVars, toolVars, codeVars, authVars,
                                                 reportVars, priceVars, refreshVars>>
  OBVIOUS
<1>1. OfMigration /\ MigrationNext
  BY DEF MigrationPart, MigrationNext
<1> QED
  BY <1>1 DEF OfMigration

LEMMA ReportsMove == ReportPart => ReportingNext /\ UNCHANGED <<gateVars, toolVars, codeVars,
                                  authVars, migrationVars, priceVars, refreshVars>>
<1> SUFFICES ASSUME ReportPart
             PROVE  ReportingNext /\ UNCHANGED <<gateVars, toolVars, codeVars, authVars,
                                                 migrationVars, priceVars, refreshVars>>
  OBVIOUS
<1>1. OfReporting /\ ReportingNext
  BY DEF ReportPart, ReportingNext
<1> QED
  BY <1>1 DEF OfReporting

LEMMA PricesMove == PricePart => PriceNext /\ UNCHANGED <<gateVars, toolVars, codeVars,
                                  authVars, migrationVars, reportVars, refreshVars>>
<1> SUFFICES ASSUME PricePart
             PROVE  PriceNext /\ UNCHANGED <<gateVars, toolVars, codeVars, authVars,
                                             migrationVars, reportVars, refreshVars>>
  OBVIOUS
<1>1. OfPrices /\ PriceNext
  BY DEF PricePart, PriceNext
<1> QED
  BY <1>1 DEF OfPrices

LEMMA RefreshMoves == RefreshPart => RefreshNext /\ UNCHANGED <<gateVars, toolVars, codeVars,
                                  authVars, migrationVars, reportVars, priceVars>>
<1> SUFFICES ASSUME RefreshPart
             PROVE  RefreshNext /\ UNCHANGED <<gateVars, toolVars, codeVars, authVars,
                                               migrationVars, reportVars, priceVars>>
  OBVIOUS
<1>1. OfRefresh /\ RefreshNext
  BY DEF RefreshPart, RefreshNext
<1> QED
  BY <1>1 DEF OfRefresh

\* Whatever the sum does is a step of a part, or leaves that part alone.
LEMMA PartsMove ==
  [PartsNext]_partsVars =>
    /\ [GateNext]_gateVars /\ [ToolNext]_toolVars /\ [CodesNext]_codeVars
    /\ [AuthNext]_authVars /\ [MigrationNext]_migrationVars /\ [ReportingNext]_reportVars
    /\ [PriceNext]_priceVars /\ [RefreshNext]_refreshVars
<1>1. UNCHANGED partsVars => UNCHANGED Elsewhere
  BY DEF partsVars, Elsewhere
<1> QED
  BY <1>1, GateMoves, ToolsMove, CodesMove, AuthMoves, MigrationMoves, ReportsMove, PricesMove,
     RefreshMoves DEF PartsNext, Elsewhere

LEMMA PartsBegin ==
  PartsInit => /\ GateInit /\ ToolInit /\ CodesInit /\ AuthInit /\ MigrationInit
               /\ ReportingInit /\ PriceInit /\ RefreshInit
BY DEF PartsInit

\* The sum implements the specification of each part: what is proved of a part
\* holds of the sum, and what the run of the sum finds is found of a part.
THEOREM SumImplementsParts ==
  PartsSpec => /\ GateSpec /\ ToolSpec /\ CodesSpec /\ AuthSpec /\ MigrationSpec
               /\ ReportingSpec /\ PriceSpec /\ RefreshSpec
BY PartsMove, PartsBegin, PTL DEF PartsSpec, GateSpec, ToolSpec, CodesSpec, AuthSpec,
   MigrationSpec, ReportingSpec, PriceSpec, RefreshSpec

\* Every part keeps its types, whatever the others do (PartsTypeOK).
THEOREM PartsTypeCorrect == PartsSpec => []PartsTypeOK
<1>1. GateSpec => []GateTypeOK
  <2>1. GateInv => GateTypeOK
    BY DEF GateInv
  <2> QED
    BY <2>1, GateAssumption, InitGate, GateStep, PTL DEF GateSpec
<1>2. ToolSpec => []ToolTypeOK
  <2>1. ToolInv => ToolTypeOK
    BY DEF ToolInv
  <2> QED
    BY <2>1, ToolAssumption, InitTools, ToolStep, PTL DEF ToolSpec
<1>3. AuthSpec => []AuthTypeOK
  <2>1. AuthInv => AuthTypeOK
    BY DEF AuthInv, AuthTypes
  <2> QED
    BY <2>1, InitAuth, StepAuth, PTL DEF AuthSpec
<1>4. MigrationSpec => []MigrationTypeOK
  <2>1. MigrationInv => MigrationTypeOK
    BY DEF MigrationInv, MigrationTypes
  <2> QED
    BY <2>1, InitMigration, StepMigration, PTL DEF MigrationSpec
<1>5. GateTypeOK /\ ToolTypeOK /\ CodesTypeOK /\ AuthTypeOK /\ MigrationTypeOK
        /\ ReportingTypeOK /\ PriceTypeOK /\ RefreshTypeOK => PartsTypeOK
  BY DEF PartsTypeOK
<1> QED
  BY <1>1, <1>2, <1>3, <1>4, <1>5, SumImplementsParts, CodesTypeCorrect, ReportTypeCorrect,
     PricesTypeCorrect, RefreshTypeCorrect, PTL

===============================================================================
