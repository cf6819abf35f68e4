CONSTANTS
  s1 = s1
  s2 = s2
  s3 = s3
  c1 = c1
  c2 = c2
  c3 = c3
  Caller = Caller
  None = None
  Services = {s1, s2, s3}
  Contexts = {c1, c2, c3}
SPECIFICATION Spec
SYMMETRY Symmetry
INVARIANTS
  TypeOK
  WiredUp
  ReleasedWithService
  Reclaimable
  AbortNeedsNullSEVMGR
CHECK_DEADLOCK FALSE
