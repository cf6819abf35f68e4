CONSTANTS
  t1 = t1
  t2 = t2
  out = out
  back = back
  Y = Y
  M = M
  NoTrip = NoTrip
  Trips = {t1}
  Segments = {out, back}
  Classes = {Y, M}
  Cabin <- MCCabin
  Capacity <- MCCapacity
  Party <- MCParty
  Paths <- TwoLegPaths
  SearchLists <- TwoLegLists
  Tariff <- TwoLegTariff
  Careful = TRUE
  MaxMaps = 0
SPECIFICATION Spec
INVARIANTS
  SaleAnswerIsTrue
CHECK_DEADLOCK FALSE
