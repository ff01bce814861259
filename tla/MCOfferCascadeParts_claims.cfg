SPECIFICATION Spec
CONSTANTS
  Agents = {a1, a2}
  VendorCalls = {v1, v2, v3}
  Procs = {p1, p2}
  MaxOffers = 2
  Handles = {1, 2, 3, 4}
  Mode = "SEMI_AUTO"
  SelfDeliveryRequired = TRUE
  Payable = {a1, a2}
  Fickle = {}
  MaxCrashes = 0
  Rejecters = {v3}
  Claimers = {a1, a2}
  Quitters = {}
  None = None
CONSTRAINT InPart
SYMMETRY Symmetry
INVARIANTS
  TypeOK
  OnePending
  AcceptedWonOrKilled
PROPERTIES
  HonoursLiveOffer
  NeverDisplaced
  AnswersAreFinal
CHECK_DEADLOCK FALSE
