SPECIFICATION Spec
CONSTANTS
  MaxClock = 3
  MaxDocs = 3
  MaxCrashes = 1
  Retention = 1
  SameSecond = FALSE
  Faults <- DiskFaults
INVARIANT TypeOK
INVARIANT ListedReadable
PROPERTY LosesOnlyExpired
PROPERTY ArchiveSpec
CHECK_DEADLOCK FALSE
