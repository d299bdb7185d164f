SPECIFICATION Spec
CONSTANTS
  Clients = {c1, c2, c3}
  Contents = {new, posted, broken}
  ValidContents = {new, posted}
  Fallback = new
  Absent = Absent
  ZeroVersion = ZeroVersion
  Torn = Torn
  PowerLosses = 2
  SerialSaves = TRUE
SYMMETRY Symmetric
INVARIANTS
  TypeOK
  CompleteDocument
PROPERTIES
  ImplementsVersionedStore
CHECK_DEADLOCK FALSE
