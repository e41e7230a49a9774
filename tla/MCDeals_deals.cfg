SPECIFICATION Spec
CONSTANTS
  client = client
  rival = rival
  ana = ana
  boris = boris
  sofia = sofia
  flat = flat
  None = None
  Users = {client, rival, ana, boris, sofia}
  Role <- MCRole
  Apartments = {flat}
  SessionIds = {s1}
  MessageIds = {m1}
  ChatCalls = {c1, c2}
  ChatRequests <- TakeRequests
  Faults = TRUE
  DealIds = {d1}
  DealCalls = {r1, r2}
  DealRequests <- DealingRequests
  Limits = {3000}
  ApartmentRows <- TwoRows
  ManagerMax = 5000
  SupervisorMax = 15000
SYMMETRY Symmetry
INVARIANTS
  DealsOnlyForOwnClients
  DiscountWithinALimit
  TotalFollowsDiscount
  ApartmentFollowsItsOnlyDeal
