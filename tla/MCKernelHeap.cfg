SPECIFICATION KSpec
CONSTANTS
  HeapBase = 4194304
  Sizes <- NoSizes
  Aligns <- NoSizes
  MaxLive = 20
  HeapTop = 8388608
  Careful = FALSE
  NFiles = 3
  TempSizes <- Temps
INVARIANTS KernelIsCareful HeapStopsGrowing BootDataKept
CHECK_DEADLOCK FALSE
