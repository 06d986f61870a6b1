SPECIFICATION FairSpec
CONSTANTS
  HeapBytes = 224
  RequestBytes = {1, 20, 40, 64}
INVARIANTS
  HeapPartition
  Coalesced
  Ordered
PROPERTIES
  RefusesFitOnlyIfSole
  ImplementsAllocator
  CallsReturn
