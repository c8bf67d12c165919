CONSTANTS
  Processes = {p1, p2}
  JobIds = {j1, j2}
  SessionIds = {s1}
  Evaluators = {codex, claude}
  Verdicts = {}
  DefaultEvaluator = codex
  EvaluatorSessions = {}
  AutoEnabled = TRUE
  MaxConcurrent = 1
  BufferMultiplier = 1
  QuietDelay = 1
  JobTimeout = 1
  EvaluationTimeout = 1
  NoJob = NoJob
  NoSession = NoSession
  NoThread = NoThread
  NoOp = no_op
  Never = Never
  MaxTime = 1
  MaxRequests = 1
  MaxHandWrites = 0
  MaxUsages = 1
  MaxFaults = 1
SYMMETRY Symmetry
SPECIFICATION Spec
INVARIANTS OneEvaluationPerSession RunWithChosenEvaluator ClaimedByOne
