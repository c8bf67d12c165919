CONSTANTS
  Processes = {p1}
  JobIds = {j1, j2}
  SessionIds = {s1, s2}
  Evaluators = {codex}
  Verdicts = {}
  DefaultEvaluator = codex
  EvaluatorSessions = {}
  AutoEnabled = TRUE
  MaxConcurrent = 1
  BufferMultiplier = 1
  QuietDelay = 1
  JobTimeout = 1
  EvaluationTimeout = 1
  NoJob = NoJob
  NoSession = NoSession
  NoThread = NoThread
  NoOp = no_op
  Never = Never
  MaxTime = 2
  MaxRequests = 1
  MaxHandWrites = 0
  MaxUsages = 2
  MaxFaults = 1
SYMMETRY Symmetry
SPECIFICATION Spec
INVARIANTS TypeOK RunningWithinLimit AutoQueueBounded WorkersHoldTheirJobs
PROPERTIES NoRetryWithoutChange ImplementsJobs
