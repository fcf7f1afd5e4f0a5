CONSTANTS
  s1 = s1
  s2 = s2
  f1 = f1
  f2 = f2
  Orders = {o}
  Refunds = {f1}
  Sessions = {s1, s2}
  Price = 2
  MaxQueries = 1
  None = None
SPECIFICATION Spec
PROPERTIES
  PaidOrderStays
CHECK_DEADLOCK FALSE
