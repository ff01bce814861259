SPECIFICATION FairSpec
CONSTANTS
  Agents = {a1, a2}
  Vendor = vendor
  Calls = {h1, h2}
  MaxRequests = 5
  MaxFailures = 1
  MaxStripe = 1
  None = None
INVARIANTS
  TypeOK
  NoCourierPaidTwice
  RecordedTransferExists
  StaleProofPurged
PROPERTIES
  NeverPaidAgain
  CourierIsPaid
CHECK_DEADLOCK FALSE
