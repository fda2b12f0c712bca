SPECIFICATION CarefulSpec
CONSTANTS
  DataLengths <- SomeDataLengths
  NameLengths <- SomeNameLengths
  ReserveCounts <- SomeReserveCounts
  FreeCounts <- SomeFreeCounts
  MaxSize = 136
CHECK_DEADLOCK FALSE
INVARIANTS
  TypeOK
  Sound
PROPERTIES
  RelocatedForm
  OrderKept
