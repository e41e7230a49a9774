SPECIFICATION FairSpec
CONSTANTS
  ana = ana
  s1 = s1
  s2 = s2
  d1 = d1
  d2 = d2
  None = None
  CallIds <- MCCallIds
  Percents <- MCPercents
  Requests = {r1}
  ChatMessages <- OneMessage
  MaxHandlings = 4
  Prefetch = 1
  MaxRetries = 1
  MaxPending = 1
  MaxFaults = 1
INVARIANTS
  SavedMeansStored
  OneOfferPerDelivery
  NoRequestLost
  RetriesAreBounded
PROPERTIES
  EveryRequestIsAnswered
CHECK_DEADLOCK FALSE
