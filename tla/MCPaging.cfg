SPECIFICATION Spec
CONSTANTS
  NPages = 5
  TableSize = 3
  DirSize = 3
  HeapPages = {1, 2, 3, 4}
  Clients = {0, 6}
  Frames = {1, 2}
  Stale <- SomeStale
INVARIANTS IdentityMap FramesShared FramesAreMapped
PROPERTY MappingsKept
CHECK_DEADLOCK FALSE
