CONSTANTS
  r1 = r1
  r2 = r2
  openai = openai
  minimax = minimax
  mini = mini
  full = full
  abab = abab
  unpaid = unpaid
  free = free
  Runs = {r1, r2}
  Models = {mini, full}
  Providers = {openai}
  Provider <- MCProvider
  Chain <- OneProvider
  Daily <- Three
  Monthly <- Four
  Estimate = 2
  Actuals = {0, 3}
  MaxRetries = 1
  LastDay = 1
  Month <- OneMonth
  NoRun = NoRun
SPECIFICATION Spec
INVARIANTS
  TypeOK
  CounterIsSum
  ReservedWithinLimit
  CallsAreReserved
CHECK_DEADLOCK FALSE
