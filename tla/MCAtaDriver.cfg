SPECIFICATION FairSpec
CONSTANTS
  W = 2
  Sectors <- MCSectors
  Counts <- MCCounts
  Buffers <- MCBuffers
  InitialDisk <- MCInitialDisk
  Junk <- MCJunk
INVARIANTS
  TypeOK
  ReadsTrue
  InStep
PROPERTIES
  SectorsWhole
  CallsReturn
