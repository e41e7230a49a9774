SPECIFICATION FairSpec
CONSTANTS
  d1 = d1
  d2 = d2
  None = None
  CallIds <- MCCallIds
  Events = {e1}
  EventMessages <- MCEventMessages
  Listings <- MCListings
  ForeignOps = {"building.get", "offer.calculate"}
  MaxHandlings = 4
  MaxBacklog = 1
  Prefetch = 1
  MaxRetries = 1
  MaxFaults = 1
INVARIANTS
  RecommendationsAreBounded
  DoneMeansAdvised
PROPERTY
  EveryEventIsSettled
CHECK_DEADLOCK FALSE
