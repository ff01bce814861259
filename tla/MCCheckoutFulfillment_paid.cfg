SPECIFICATION FairSpec
CONSTANTS
  Stores = {s1, s2}
  Calls = {w1, k1}
  Clients = {k1}
  SessionEvents = {}
  Procs = {p1}
  MaxOrders = 4
  Gifts = {TRUE, FALSE}
  Shopping = {s1}
  Slow = TRUE
  MaxMoves = 1
  MaxFailures = 1
  MaxCrashes = 1
  None = None
INVARIANTS
  TypeOK
  OnePaidOrder
  ReceiptTrue
PROPERTIES
  ImplementsPaidOrders
  BasketFulfilled
CHECK_DEADLOCK FALSE
