CONSTANTS
  t1 = t1
  t2 = t2
  out = out
  back = back
  Y = Y
  M = M
  NoTrip = NoTrip
  Trips = {t1, t2}
  Segments = {out, back}
  Classes = {Y, M}
  Cabin <- MCCabin
  Capacity <- MCCapacity
  Party <- MCParty
  Paths <- TwoLegPaths
  SearchLists <- TwoLegLists
  Tariff <- MisfitTariff
  Careful = TRUE
  MaxMaps = 0
SPECIFICATION Spec
INVARIANTS
  AbortNeedsMisfit
  AnswerIsLastLeg
  SaleCoversItinerary
PROPERTIES
  ImplementsLegwise
CHECK_DEADLOCK FALSE
