CONSTANTS
  Requests = {q1}
  Shapes = {a}
  SessionIds = {s1}
  RowIds = {r1, r2}
  Callers = {c1, c2}
  Costs = {1, 2}
  RecordCost = 1
  None = None
  MaxEvents = 2
SPECIFICATION UsageSpec
PROPERTIES RecalculationMovesBoth
CHECK_DEADLOCK FALSE
