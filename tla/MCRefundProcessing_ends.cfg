SPECIFICATION FairSpec
CONSTANTS
  Rejects = {}
  Cancels = {k1}
  Readies = {}
  Crons = {c1}
  Admins = {a1}
  AdminOps = {"pause", "resume", "cancel", "pause_all", "resume_all"}
  Fees = {5}
  EventsOn = FALSE
  Capacity = 1
  MaxDecisions = 3
  MaxFailures = 2
  MaxKills = 0
  None = None
PROPERTY RequestEnds
PROPERTY ImplementsRequest
PROPERTY DecidedStays
CHECK_DEADLOCK FALSE
