SPECIFICATION Spec
CONSTANTS
  Sources <- SomeFiles
  Managed = {"CARHEADER", "KEYFORMAT", "FACETKEYS", "RENDITIONS"}
  Written <- WrittenFile
CHECK_DEADLOCK FALSE
INVARIANTS
  ReferencesRewritten
