CONSTANTS
  NoRun = NoRun
  Runs = {q}
  QueueRuns = {q}
  InlineRuns = {}
  BackgroundRuns = {q}
  CallbackRuns = {q}
  TtlRuns = {q}
  Apis = {a1, a2}
  Workers = {w1, w2}
  Consoles = {c1, c2}
  MaxAttempts = 3
SYMMETRY Symmetry
SPECIFICATION Spec
INVARIANTS
  TypeOK
  AtMostOneExecution
  NoManufacturedSuccess
  ClosedRowIsCoherent
PROPERTIES
  KeepsContract
CHECK_DEADLOCK FALSE
