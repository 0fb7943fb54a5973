SPECIFICATION Spec
CONSTANTS
  Words = 16777216
  Disk <- MCDisk
  SectorSize = 2
  PerSector = 2
  Entries = 4
  Garbage <- MCGarbage
  Failures = 2
INVARIANTS
  NothingExtra
\* The partitions are read once, during the boot.
CHECK_DEADLOCK FALSE
