SPECIFICATION Spec
CONSTANTS
  Rejects = {v1}
  Cancels = {}
  Readies = {r1}
  Crons = {c1}
  Admins = {a1, a2}
  AdminOps = {"pause", "resume", "cancel", "override"}
  Fees = {5}
  EventsOn = FALSE
  Capacity = 2
  MaxDecisions = 3
  MaxFailures = 2
  MaxKills = 1
  None = None
INVARIANT RefundedOnce
PROPERTY MoneyOnlyIfApproved
CHECK_DEADLOCK FALSE
