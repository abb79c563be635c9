SPECIFICATION FairSpec
CONSTANTS
  HeapBase = 64
  Sizes <- SmallSizes
  Aligns <- SmallAligns
  MaxLive = 4
  HeapTop = 190
  Careful = TRUE
INVARIANTS Tiling BackLinks Coalesced UsedIsHeld StoresInHeaders
PROPERTIES RefinesHeapSpec LookupReturns
CHECK_DEADLOCK FALSE
