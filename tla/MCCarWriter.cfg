SPECIFICATION Spec
CONSTANTS
  Names <- SomeNames
  AttributeLists <- SomeAttributeLists
  Payloads = {"p", "q"}
  KeyFormats <- SomeKeyFormats
  Headers <- SomeHeaders
  RawValues <- SomeRawValues
  PayloadLength = 10
  MaxRenditions = 2
  MaxPassed = 2
  NodeSize = 16
  NameLength <- LengthOfName
CHECK_DEADLOCK FALSE
INVARIANTS
  TypeOK
  ReferencesHold
  LeavesSearchable
  LayoutHolds
  ReadBack
