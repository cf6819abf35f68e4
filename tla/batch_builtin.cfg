CONSTANTS
  request = request
  out = out
  back = back
  Y = Y
  M = M
  NoTrip = NoTrip
  Main = request
  Trips = {request}
  Segments = {out, back}
  Classes = {Y, M}
  Cabin <- MCCabin
  Capacity <- MCCapacity
  Party <- MCParty
  Paths <- MCPaths
  SearchLists <- MCSearchLists
  Tariff <- MCTariff
  Careful = TRUE
  MaxMaps = 0
  MaxLoads = 2
  MaxTrees = 2
  Generic = {"help"}
  Inputs = {"schedule", "fare"}
SPECIFICATION BatchSpec
INVARIANTS
  BuiltinAsDocumented
CHECK_DEADLOCK FALSE
