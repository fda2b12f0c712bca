SPECIFICATION Spec
CONSTANTS
  Renditions <- MCRenditions
  Values <- MCValues
  Sizes = {3, 7}
  PageSize = 3
  PagesInBlock = 2
  NameSize = 3
  FrameOverhead = 2
  ShortScales <- MCShortScales
  MaxWrites = 2
INVARIANTS
  TypeOK
  WalksOnHeaders
  ReadBack
  BlocksFillValue
PROPERTIES
  ReadingEnds
CHECK_DEADLOCK FALSE
