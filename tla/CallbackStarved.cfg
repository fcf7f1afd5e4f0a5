CONSTANTS
  Targeted = {t}
  Silent = {s1, s2, s3, s4, s5}
  Workers = {w1}
  Consoles = {}
  Window = 5
  MaxAttempts = 1
  MaxOutcomes = 1
  MaxCrashes = 0
  NoRun = NoRun
SPECIFICATION FairSpec
PROPERTIES
  CallbackSettles
CHECK_DEADLOCK FALSE
