SPECIFICATION FairSpec
CONSTANTS
  Words = 16777216
  Disk <- MCDisk
  SectorSize = 2
  PerSector = 2
  Entries = 4
  Garbage <- MCGarbage
  Failures = 2
INVARIANTS
  TypeOK
  NothingSkipped
PROPERTIES
  VolumeEnds
\* The partitions are read once, during the boot.
CHECK_DEADLOCK FALSE
