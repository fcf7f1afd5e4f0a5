CONSTANTS
  s1 = s1
  s2 = s2
  f1 = f1
  f2 = f2
  Orders = {o}
  Refunds = {f1, f2}
  Sessions = {s1, s2}
  Price = 2
  MaxQueries = 2
  None = None
SPECIFICATION FairSpec
INVARIANTS
  TypeOK
  CreditsConserved
  BooksAgree
  NeverOverRefunded
  CreditsArePaidFor
  NoSpendingUnderRefund
PROPERTIES
  ConfirmedRefundStays
  TimelyPaymentIsCredited
  SettledRefundIsPursued
CHECK_DEADLOCK FALSE
