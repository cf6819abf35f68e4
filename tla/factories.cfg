CONSTANTS
  FacBom = FacBom
  FacSimcrsServiceContext = FacSimcrsServiceContext
  a1 = a1
  a2 = a2
  a3 = a3
  o1 = o1
  o2 = o2
  o3 = o3
  Null = Null
  BomKinds = {FacBom}
  ServiceKinds = {FacSimcrsServiceContext}
  Memory = {a1, a2, a3}
  Objects = {o1, o2, o3}
SPECIFICATION Spec
INVARIANTS
  TypeOK
  NothingDeletedTwice
  NoDanglingInstance
  CleanReclaimsAll
PROPERTIES
  CleansEnd
