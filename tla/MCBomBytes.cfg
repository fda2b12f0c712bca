SPECIFICATION Spec
CONSTANTS
  Contents <- SomeContents
  Names <- SomeNames
  ReserveCounts <- SomeReserveCounts
  FreeCounts <- SomeFreeCounts
  Lengths <- SomeLengths
  Junk <- SomeJunk
  MaxSize = 100
CHECK_DEADLOCK FALSE
INVARIANTS
  WellFormed
PROPERTIES
  BytesImplementBlocks
  BytesImplementGeometry
