SPECIFICATION Spec
CONSTANTS
  Clients = {c1, c2, c3}
  Contents = {new, posted, broken}
  ValidContents = {new, posted}
  Fallback = new
  Absent = Absent
  ZeroVersion = ZeroVersion
  MaxGap = 2
  MaxGeneration = 5
SYMMETRY Symmetric
INVARIANTS
  TypeOK
PROPERTIES
  ImplementsVersionedStore
  SavesBuildOnCurrent
CHECK_DEADLOCK FALSE
