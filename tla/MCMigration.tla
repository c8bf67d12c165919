----------------------------- MODULE MCMigration -----------------------------
(* An instance of Migration on SQLite: one migrator that may die once, two     *)
(* sessions, and services that record and evaluate meanwhile.                  *)
EXTENDS Migration, TLC

===============================================================================
