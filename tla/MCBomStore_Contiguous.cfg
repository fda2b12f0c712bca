SPECIFICATION Spec
CONSTANTS
  DataLengths <- SomeDataLengths
  NameLengths <- SomeNameLengths
  ReserveCounts <- SomeReserveCounts
  FreeCounts <- SomeFreeCounts
  MaxSize = 140
CHECK_DEADLOCK FALSE
INVARIANT Contiguous
