SPECIFICATION Spec
CONSTANTS
  Rejects = {v1, v2}
  Cancels = {}
  Readies = {r1}
  Crons = {c1}
  Admins = {a1}
  AdminOps = {"pause", "resume", "cancel", "override", "process"}
  Fees = {5}
  EventsOn = TRUE
  Capacity = 1
  MaxDecisions = 1
  MaxFailures = 1
  MaxKills = 1
  None = None
SYMMETRY Symmetry
INVARIANT TypeOK
INVARIANT OneActive
INVARIANT CaptureStatusTrue
PROPERTY ImplementsRequest
PROPERTY DecidedStays
CHECK_DEADLOCK FALSE
