SPECIFICATION Spec
CONSTANTS
  Drinks = {d1}
  Bundles = {b1}
  Dishes = {p1}
  MenuBundles = {b1}
  Customers = {u1, u2}
  Calls = {c1, c2}
  MaxQty = 1
  MaxStock = 1
  MaxEdits = 1
  MaxFaults = 2
  None = None
SYMMETRY Symmetry
INVARIANTS
  TypeOK
  NothingLost
  MenuNotOversold
CHECK_DEADLOCK FALSE
