SPECIFICATION DeliverySpec
CONSTANTS
  ana = ana
  boris = boris
  sofia = sofia
  client = client
  rival = rival
  deal1 = deal1
  deal2 = deal2
  flat = flat
  tower1 = tower1
  None = None
  Users = {ana, boris, sofia, client, rival}
  Role <- MCRole
  Deals = {deal1, deal2}
  DealEmployee <- MCDealEmployee
  DealClient <- MCDealClient
  DealApartment <- MCDealApartment
  Apartments = {flat}
  Buildings = {tower1}
  Units = {}
  UnitBuilding <- MCUnitBuilding
  RequestIds = {k1, k2}
  OfferIds = {o1, o2}
  Calls = {c1, c2, c3}
  Requests <- MCRequests
  Limits = {500}
  ApartmentPrices = {4}
  UnitPrices = {}
  ManagerMax = 500
  SupervisorMax = 1500
  MaxInt = 100000
  Deliveries = {x1}
  DeliveryRequests <- MCDeliveryRequests
SYMMETRY Symmetry
INVARIANTS
  IdempotentCreate
  VersionsAreARun
  OnlySanctionedTermsLeave
  LogAgreesWithMail
