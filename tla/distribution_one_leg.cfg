CONSTANTS
  t1 = t1
  t2 = t2
  out = out
  back = back
  Y = Y
  M = M
  NoTrip = NoTrip
  Trips = {t1, t2}
  Segments = {out, back}
  Classes = {Y, M}
  Cabin <- MCCabin
  Capacity <- MCCapacity
  Party <- MCParty
  Paths <- OneLegPaths
  SearchLists <- OneLegLists
  Tariff <- OneLegTariff
  Careful = TRUE
  MaxMaps = 0
SPECIFICATION Spec
INVARIANTS
  TypeOK
  Reconciled
PROPERTIES
  ImplementsAtomic
  CallsEnd
CHECK_DEADLOCK FALSE
