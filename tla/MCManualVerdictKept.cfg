CONSTANTS
  Processes = {p1}
  JobIds = {j1}
  SessionIds = {s1}
  Evaluators = {codex}
  Verdicts = {solved, stuck}
  DefaultEvaluator = codex
  EvaluatorSessions = {s1}
  AutoEnabled = TRUE
  MaxConcurrent = 1
  BufferMultiplier = 1
  QuietDelay = 1
  JobTimeout = 1
  EvaluationTimeout = 1
  NoJob = NoJob
  NoSession = NoSession
  NoThread = NoThread
  NoOp = no_op
  Never = Never
  MaxTime = 1
  MaxRequests = 1
  MaxHandWrites = 2
  MaxUsages = 1
  MaxFaults = 0
SPECIFICATION Spec
INVARIANTS ManualVerdictKept
