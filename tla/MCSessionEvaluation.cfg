CONSTANTS
  SessionIds = {s1}
  Writers = {w1, w2}
  Verdicts = {solved, stuck}
  NoOp = no_op
  NoSession = NoSession
  Never = Never
  MaxTime = 1
SYMMETRY Symmetry
SPECIFICATION SessionsSpec
INVARIANTS SessionsTypeOK UncontendedVerdictKept
