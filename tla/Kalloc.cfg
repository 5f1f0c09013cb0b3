SPECIFICATION Spec
CONSTANTS
  PGW = 4
  HEAP_INIT = 4
  MaxAddr = 13
  Requests = {2, 3, 5}
  IsrFrees = FALSE
INVARIANTS ChunksTile BoundaryTags BlocksIntact HeapMapped
PROPERTIES MallocReturns ImplementsHeap
CHECK_DEADLOCK FALSE
