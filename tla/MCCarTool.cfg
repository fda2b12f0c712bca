SPECIFICATION Spec
CONSTANTS
  Paths = {in_car, out_car}
  Catalogs <- SomeCatalogs
  MaxFiles = 3
SYMMETRY PathsAlike
CHECK_DEADLOCK FALSE
INVARIANTS
  TypeOK
  RoundtripVerifies
  VerifiedIsCopy
  PatchKeepsTheRest
PROPERTIES
  FilesKept
