SPECIFICATION Spec
CONSTANTS
  Half = 256
  Strings <- MCStrings
  Pieces <- MCPieces
  MaxPieces = 2
  FifoDepth = 2
  Banner <- MCBanner
  KeyLog <- MCKeyLog
  MaxKeys = 2
INVARIANTS FormatsAsAsked LogComplete
CHECK_DEADLOCK FALSE
