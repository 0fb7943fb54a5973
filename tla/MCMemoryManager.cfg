SPECIFICATION FairSpec
CONSTANTS
  AddrSpace = 4096
  HDR = 16
  HeapStart = 1000
  HeapSize = 80
  Sizes <- MCSizes
INVARIANTS
  IInv
  BlocksDisjoint
  HeapRestored
PROPERTIES
  BlocksStay
  MallocReturns
  ImplementsAllocator
\* With the manager destroyed and nothing held the system has really stopped.
CHECK_DEADLOCK FALSE
