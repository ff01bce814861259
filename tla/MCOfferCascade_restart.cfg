SPECIFICATION FairSpec
CONSTANTS
  Agents = {a1, a2}
  VendorCalls = {v1}
  Procs = {p1}
  MaxOffers = 3
  Handles = {1, 2, 3}
  Mode = "AUTO"
  SelfDeliveryRequired = FALSE
  Payable = {a1,a2}
  Fickle = {a1}
  MaxCrashes = 1
  Rejecters = {}
  Claimers = {a2}
  Quitters = {a1}
  None = None
INVARIANTS
  AskedOnce
  AcceptedWonOrKilled
PROPERTIES
  NeverDisplaced
  CascadeEnds
  ImplementsAssignment
CHECK_DEADLOCK FALSE
