SPECIFICATION Spec
CONSTANTS
  ana = ana
  s1 = s1
  s2 = s2
  d1 = d1
  d2 = d2
  None = None
  CallIds <- MCCallIds
  Percents <- MCPercents
  Requests = {r1, r2}
  ChatMessages <- Conversation
  MaxHandlings = 2
  Prefetch = 2
  MaxRetries = 1
  MaxPending = 1
  MaxFaults = 0
SYMMETRY Symmetry
INVARIANTS
  TypeOK
  OffersStayInTheConversation
  NoInventedDiscount
  PendingBounded
CHECK_DEADLOCK FALSE
