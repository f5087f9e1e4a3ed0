SPECIFICATION Spec
CONSTANTS
  HEAP_START = 16
  HEAP_SIZE = 120
  Requests = {1, 12, 40, 109}
INVARIANTS TypeOK HeapTiled FreeListOK HeapUsedExact
PROPERTY StrayFreeIgnored
CHECK_DEADLOCK FALSE
