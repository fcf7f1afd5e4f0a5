CONSTANTS
  r1 = r1
  r2 = r2
  openai = openai
  minimax = minimax
  mini = mini
  full = full
  abab = abab
  unpaid = unpaid
  free = free
  Runs = {r1, r2}
  Models = {mini, full, abab}
  Providers = {openai, minimax}
  Provider <- MCProvider
  Chain <- SameModel
  Daily <- Three
  Monthly <- Four
  Estimate = 2
  Actuals = {0, 3}
  MaxRetries = 0
  LastDay = 0
  Month <- OneMonth
  NoRun = NoRun
SPECIFICATION Spec
INVARIANTS
  CallsAreReserved
CHECK_DEADLOCK FALSE
