CONSTANTS
  t1 = t1
  t2 = t2
  out = out
  Y = Y
  NoTrip = NoTrip
  Trips = {t1, t2}
  Segments = {out}
  Classes = {Y}
  Cabin <- MCCabin
  Capacity <- MCCapacity
  Party <- MCParty
  Paths <- MCPaths
  SearchLists <- FoundLists
  Tariff <- MCTariff
  Careful = TRUE
  MaxMaps = 0
  MaxLoads = 1
  MaxTrees = 3
SPECIFICATION LoadedSpec
SYMMETRY Symmetry
INVARIANTS
  PresentReconciled
CHECK_DEADLOCK FALSE
