CONSTANTS
  MaxLoads = 3
SPECIFICATION DataSpec
INVARIANTS
  DataTypeOK
  ReturnedMeansServed
  LayersInOrder
PROPERTIES
  ServesUntilLoaded
  SharedTreeIsNotOurs
  LoadsEnd
