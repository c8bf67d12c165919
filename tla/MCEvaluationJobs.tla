--------------------------- MODULE MCEvaluationJobs ---------------------------
(***************************************************************************)
(* A small instance of the job table.  Job keys, sessions and evaluators  *)
(* are interchangeable; no liveness is checked here.                       *)
(***************************************************************************)
EXTENDS EvaluationJobs, TLC

Symmetry ==
  Permutations(JobIds) \cup Permutations(SessionIds) \cup Permutations(Evaluators)

===============================================================================
