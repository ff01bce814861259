SPECIFICATION FairSpec
CONSTANTS
  Publishers = {d1, d2}
  Procs = {p1, p2}
  Attempts = 2
  MaxFaults = 2
  None = None
INVARIANTS
  TypeOK
  HandledOnce
  RunsAreClaimed
PROPERTIES
  ClaimedIsHandled
  BusDelivers
CHECK_DEADLOCK FALSE
