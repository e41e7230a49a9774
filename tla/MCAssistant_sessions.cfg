SPECIFICATION Spec
CONSTANTS
  client = client
  ana = ana
  boris = boris
  sofia = sofia
  flat = flat
  d1 = d1
  None = None
  Users = {client, ana, boris, sofia}
  Role <- MCRole
  Apartments = {flat}
  SessionIds = {s1}
  MessageIds = {m1, m2}
  ChatCalls = {c1, c2, c3}
  ChatRequests <- MCRequests
  Faults = TRUE
  Deals = {d1}
  DealRows <- MCDealRows
  Asks = {a1}
  AskRequests <- MCAskRequests
SYMMETRY Symmetry
INVARIANTS
  AssignmentStands
  OnlyTheAssignedManagerActs
  StaffAssistanceStaysPrivate
  AgentServesTheEntitled
  RecordsAreTruthful
CHECK_DEADLOCK FALSE
