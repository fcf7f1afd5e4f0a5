CONSTANTS
  Requests = {q1, q2, q3}
  Bodies = {order, edit}
  OrderBodies = {order}
  NoOne = NoOne
  Lease = 1
  Retention = 2
  Horizon = 4
SYMMETRY Symmetry
SPECIFICATION Spec
INVARIANTS
  TypeOK
  OneExecutor
  EffectKeepsTheKey
  AnswersAgree
CHECK_DEADLOCK FALSE
