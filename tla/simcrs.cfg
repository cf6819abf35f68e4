CONSTANTS
  t1 = t1
  t2 = t2
  out = out
  Y = Y
  NoTrip = NoTrip
  Trips = {t1}
  Segments = {out}
  Classes = {Y}
  Cabin <- MCCabin
  Capacity <- MCCapacity
  Party <- MCParty
  Paths <- MCPaths
  SearchLists <- MCSearchLists
  Tariff <- MCTariff
  Careful = TRUE
  MaxMaps = 0
  MaxLoads = 2
  MaxTrees = 2
SPECIFICATION ServiceSpec
INVARIANTS
  ServiceTypeOK
  PresentReconciled
PROPERTIES
  NoSeatVanishes
CHECK_DEADLOCK FALSE
