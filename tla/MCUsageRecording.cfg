CONSTANTS
  Requests = {q1, q2}
  Shapes = {a, b}
  SessionIds = {s1, s2}
  RowIds = {r1, r2, r3}
  Callers = {c1, c2}
  Costs = {1, 2}
  RecordCost = 1
  None = None
  MaxEvents = 2
SPECIFICATION UsageSpec
SYMMETRY Symmetry
INVARIANTS UsageTypeOK DailyCountsRows DailyCostsFollowRows SessionsCountOnce SessionsCountRows SessionCostsFollowRows OneRowPerRequest
CHECK_DEADLOCK FALSE
