SPECIFICATION Spec
CONSTANTS
  Agents = {a1, a2}
  Vendor = vendor
  Calls = {h1, h2}
  MaxRequests = 4
  MaxFailures = 0
  MaxStripe = 0
  None = None
SYMMETRY Symmetry
INVARIANTS
  PaidOnce
CHECK_DEADLOCK FALSE
