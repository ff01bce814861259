SPECIFICATION FairSpec
CONSTANTS
  Stores = {s1}
  Calls = {w1, w2}
  Clients = {}
  SessionEvents = {w2}
  Procs = {p1}
  MaxOrders = 2
  Gifts = {FALSE}
  Shopping = {}
  Slow = FALSE
  MaxMoves = 0
  MaxFailures = 0
  MaxCrashes = 0
  None = None
INVARIANTS
  OnePaidOrder
CHECK_DEADLOCK FALSE
