SPECIFICATION AnySpec
CONSTANTS
  HeapBytes = 128
  RequestBytes = {1, 20, 40}
PROPERTIES
  MallocFresh
