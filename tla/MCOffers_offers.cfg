SPECIFICATION Spec
CONSTANTS
  ana = ana
  boris = boris
  sofia = sofia
  timur = timur
  deal1 = deal1
  deal2 = deal2
  flat = flat
  tower1 = tower1
  tower2 = tower2
  spot = spot
  None = None
  Users = {ana, boris, sofia, timur}
  Role <- MCRole
  Deals = {deal1, deal2}
  DealEmployee <- MCDealEmployee
  DealApartment <- MCDealApartment
  Apartments = {flat}
  Buildings = {tower1, tower2}
  Units = {spot}
  UnitBuilding <- MCUnitBuilding
  RequestIds = {k1}
  OfferIds = {o1}
  Calls = {c1, c2, c3, c4}
  Requests <- MCRequests
  Limits = {300}
  ApartmentPrices <- SignedPrices
  UnitPrices = {90000}
  ManagerMax = 500
  SupervisorMax = 1500
  MaxInt = 100000
SYMMETRY Symmetry
CONSTRAINT Scenarios
INVARIANTS
  TypeOK
  OneVerdict
  NoUnsanctionedApproval
PROPERTIES
  ImplementsLifecycle
  ChangesAreAuthorised
