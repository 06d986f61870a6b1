SPECIFICATION Spec
CONSTANTS
  HeapLog2 = 8
  RequestBytes = {8, 40, 41, 233}
INVARIANTS
  HeapPartition
  HeadersMatchLists
  Coalesced
  LostOnlyIfNoFit
PROPERTIES
  ImplementsAllocator
CHECK_DEADLOCK FALSE
