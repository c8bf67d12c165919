------------------------- MODULE MCSessionEvaluation -------------------------
(***************************************************************************)
(* One session and two writers of any kind: every pair of writes may       *)
(* overlap, and further writes follow.                                     *)
(***************************************************************************)
EXTENDS SessionEvaluation, TLC

Symmetry == Permutations(Writers) \cup Permutations(Verdicts)

==============================================================================
