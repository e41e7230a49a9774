SPECIFICATION PolicySpec
CONSTANTS
  Null = Null
  PolicyIds = {p1, p2, p3, p4}
  Creations = {c1, c2, c3, c4}
  Instants = {1, 2, 3}
SYMMETRY Symmetry
INVARIANTS
  LatestRules
PROPERTIES
  PeriodsStand
CHECK_DEADLOCK FALSE
