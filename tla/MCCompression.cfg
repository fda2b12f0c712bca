SPECIFICATION Spec
CONSTANTS
  HighBits = 24
  AccumBits = 24
  Extra <- MCExtra
  States <- MCStates
  LiteralSymbols = 8
  FixedHeader = 32
  HashX <- MCHashX
  Hashes <- MCHashes
  HashWidth = 2
  GoodMatch = 12
  BacklogFactor = 2
  MatchLengthFactor = 1
  MatchesPerBlock = 16
  MaxRun = 17
  MaxDistance = 30
  HashValues = 3
  MaxLiteralBacklog = 18
  LzvnMargin = 8
  CopyMargin = 16
  MinSize = 8
  LzvnThreshold = 40
  HugeSize = 56
  ChunkSize = 20
  MaxUncompressed = 56
  Sources <- MCSources
  Destinations = {20, 44, 64, 120, 180, 300}
  Rooms = {0, 5, 33, 50, 100}
  Cuts = {0, 1, 11, 12, 19, 40}
INVARIANTS
  TypeOK
  SearchHolds
  NothingOverruns
  NeverRefused
  DecodesBack
PROPERTIES
  Ends
