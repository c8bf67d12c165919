-------------------------- MODULE MCEvaluationWorker --------------------------
(***************************************************************************)
(* Small instances of the evaluation worker.  Each configuration spends    *)
(* its budget on one question: the queue under faults, competing processes *)
(* and requests, verdicts given by hand against evaluators, liveness.      *)
(***************************************************************************)
EXTENDS EvaluationWorker, TLC

\* Processes, sessions and verdicts are interchangeable; jobs are not, because
\* FreshId draws their keys in a fixed order, nor are evaluators, one of which is
\* the default.
Symmetry ==
  Permutations(Processes) \cup Permutations(SessionIds) \cup Permutations(Verdicts)

===============================================================================
