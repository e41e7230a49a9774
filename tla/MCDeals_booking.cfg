SPECIFICATION Spec
CONSTANTS
  client = client
  rival = rival
  ana = ana
  boris = boris
  sofia = sofia
  flat = flat
  None = None
  Users = {client, rival, ana, boris, sofia}
  Role <- MCRole
  Apartments = {flat}
  SessionIds = {}
  MessageIds = {}
  ChatCalls = {}
  ChatRequests <- TakeRequests
  Faults = FALSE
  DealIds = {d1, d2}
  DealCalls = {r1, r2}
  DealRequests <- CompetingRequests
  Limits = {3000}
  ApartmentRows <- OneRow
  ManagerMax = 5000
  SupervisorMax = 15000
SYMMETRY Symmetry
INVARIANT
  NoDoubleBooking
