SPECIFICATION Spec
CONSTANTS
  client = client
  ana = ana
  boris = boris
  sofia = sofia
  flat = flat
  d1 = d1
  None = None
  Users = {client, ana, boris, sofia}
  Role <- MCRole
  Apartments = {flat}
  SessionIds = {s1}
  MessageIds = {m1, m2}
  ChatCalls = {c1}
  ChatRequests <- MCRequests
  Faults = TRUE
  Deals = {d1}
  DealRows <- MCDealRows
  Asks = {a1}
  AskRequests <- MCAskRequests
SYMMETRY Symmetry
INVARIANT
  OnlyStaffAskTheAgent
CHECK_DEADLOCK FALSE
