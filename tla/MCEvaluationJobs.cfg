CONSTANTS
  JobIds = {j1, j2, j3}
  SessionIds = {s1, s2}
  Evaluators = {codex, claude}
  NoJob = NoJob
  Never = Never
  JobTimeout = 1
  MaxTime = 1
SYMMETRY Symmetry
SPECIFICATION JobsSpec
INVARIANTS JobsTypeOK OneActivePerSession
PROPERTIES TerminalJobsFinal ClaimedJobFixed ImplementsSlots
\* The table is passive: it stops when its callers do.
CHECK_DEADLOCK FALSE
