CONSTANTS
  t1 = t1
  t2 = t2
  out = out
  back = back
  Y = Y
  M = M
  NoTrip = NoTrip
  Trips = {t1, t2}
  Segments = {out, back}
  Classes = {Y}
  Cabin <- MCCabin
  Capacity <- MCCapacity
  Party <- RetryParty
  Paths <- TwoLegPaths
  SearchLists <- RetryLists
  Tariff <- RetryTariff
  Careful = FALSE
  MaxMaps = 1
SPECIFICATION Spec
SYMMETRY Symmetry

  
PROPERTIES
  OnlyOwnSegments
CHECK_DEADLOCK FALSE
