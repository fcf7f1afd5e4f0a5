CONSTANTS
  Keys = {k}
  Deliveries = {d1, d2}
  Purgers = {p1, p2}
  NoOne = NoOne
  MaxFaults = 2
SPECIFICATION FairSpec
INVARIANTS
  TypeOK
  AvailableHasBytes
  NoOpenDeliveryOfPurged
  AckIsProof
PROPERTIES
  PurgedForGood
  ExpiredIsPurged
CHECK_DEADLOCK FALSE
