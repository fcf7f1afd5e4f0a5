CONSTANTS
  Keys = {1, 2}
  Reconcilers = {c1, c2}
  NoOne = NoOne
  CleanupEnabled = TRUE
  BatchSize = 1
  MaxFaults = 1
SPECIFICATION FairSpec
INVARIANTS
  TypeOK
  AvailableHasBytes
PROPERTIES
  OrphanIsRemoved
