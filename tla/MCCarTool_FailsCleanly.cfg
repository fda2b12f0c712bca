SPECIFICATION Spec
CONSTANTS
  Paths = {in_car, out_car}
  Catalogs <- SomeCatalogs
  MaxFiles = 3
SYMMETRY PathsAlike
CHECK_DEADLOCK FALSE
INVARIANT FailsCleanly
