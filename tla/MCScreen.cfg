SPECIFICATION Spec
CONSTANTS
  W = 3
  H = 2
  TabStop = 2
  Byte = 3
  Letters = {"a", "b"}
  Output = {"o"}
  MaxLine = 3
  MaxKeys = 2
  MaxCalls = 3
INVARIANTS StoresOnScreen LineOnScreen
PROPERTIES RefinesTerminal CursorHeals
CHECK_DEADLOCK FALSE
