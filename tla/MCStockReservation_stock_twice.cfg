SPECIFICATION Spec
CONSTANTS
  Drinks = {d1, d2}
  Bundles = {}
  Dishes = {}
  MenuBundles = {}
  Customers = {u1}
  Calls = {c1}
  MaxQty = 1
  MaxStock = 1
  MaxEdits = 0
  MaxFaults = 0
  None = None
INVARIANTS
  NotOversold
CHECK_DEADLOCK FALSE
