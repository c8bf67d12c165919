--------------------------- MODULE MCUsageRecording ---------------------------
(* Instances of UsageRecording for TLC. *)
EXTENDS UsageRecording, TLC

\* Requests, shapes, sessions and callers are interchangeable; the keys of rows
\* are drawn in a fixed order.
Symmetry ==
  Permutations(Requests) \cup Permutations(Shapes)
    \cup Permutations(SessionIds) \cup Permutations(Callers)

===============================================================================
