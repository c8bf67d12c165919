CONSTANTS
  Migrators = {mg1}
  Sessions = {s1, s2}
  SchemaCommits = TRUE
  MaxFaults = 1
SPECIFICATION MigrationSpec
INVARIANTS EvaluationsSurviveMigration
CHECK_DEADLOCK FALSE
