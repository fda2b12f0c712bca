SPECIFICATION FairSpec
CONSTANTS
  Keys <- SomeKeys
  Compare <- CompareKeys
  ReserveCounts <- SomeReserveCounts
  NodeSize = 32
  CountLimit = 65536
  MaxPaths = 5
CHECK_DEADLOCK FALSE
INVARIANTS
  TypeOK
  Sorted
  SearchInvariant
  LeafHoldsEntries
PROPERTIES
  OrderKept
  AddEnds
