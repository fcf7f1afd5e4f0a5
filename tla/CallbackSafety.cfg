CONSTANTS
  Targeted = {t}
  Silent = {s}
  Workers = {w1, w2}
  Consoles = {c}
  Window = 5
  MaxAttempts = 3
  MaxOutcomes = 2
  MaxCrashes = 1
  NoRun = NoRun
SPECIFICATION FairSpec
INVARIANTS
  TypeOK
  DeliveredIsAccepted
  GivenUpForCause
PROPERTIES
  KeepsCallbacks
  CallbackSettles
CHECK_DEADLOCK FALSE
