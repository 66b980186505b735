SPECIFICATION Spec
CONSTANTS
  HeapStart = 3
  HeapSize = 9
  RedZone = 1
  PageSize = 3
  CacheSize = 2
  None = None
  Slots = 4
  Programs <- MCPrograms
INVARIANTS
  CountsAreExact
  MemoriesAreCurrent
  AccessIsAllocated
PROPERTIES
  Implements
CHECK_DEADLOCK FALSE
