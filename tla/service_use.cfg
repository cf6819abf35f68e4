CONSTANTS
  s1 = s1
  s2 = s2
  s3 = s3
  c1 = c1
  c2 = c2
  Caller = Caller
  None = None
  Services = {s1, s2, s3}
  Contexts = {c1, c2}
SPECIFICATION UseSpec
SYMMETRY Symmetry
INVARIANTS
  FaultNeedsOrphan
  EventsGoHome
  OthersUnharmed
CHECK_DEADLOCK FALSE
