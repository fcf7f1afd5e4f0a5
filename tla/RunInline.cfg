CONSTANTS
  NoRun = NoRun
  Runs = {i}
  QueueRuns = {}
  InlineRuns = {i}
  BackgroundRuns = {}
  CallbackRuns = {i}
  TtlRuns = {i}
  Apis = {a1, a2}
  Workers = {w1, w2}
  Consoles = {c1}
  MaxAttempts = 3
SPECIFICATION FairSpec
PROPERTIES
  KeepsCallbacks
  InlineRunResolves
CHECK_DEADLOCK FALSE
