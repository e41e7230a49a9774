SPECIFICATION Spec
CONSTANTS
  tower1 = tower1
  tower2 = tower2
  flat = flat
  deal1 = deal1
  deal2 = deal2
  anna = anna
  None = None
  Complexes = {k1}
  Buildings = {tower1, tower2}
  Apartments = {flat}
  Stages = {st1}
  Deals = {deal1, deal2}
  Clients = {anna}
  Calls = {c1, c2, c3}
  Reports <- MCReports
  Trimmed <- MCTrimmed
  MaxMoves = 1
SYMMETRY Symmetry
INVARIANTS
  ToldOncePerTurn
  SteadyDealsAreTold
  ClaimFollowsStage
CHECK_DEADLOCK FALSE
