SPECIFICATION FairSpec
CONSTANTS
  MaxFile = 2
  InitialFiles <- Empty
  MaxHistory = 0
  Overlap = FALSE
  FetchFails = FALSE
  Pruning = FALSE
PROPERTY FirstSnapshotAppears
CHECK_DEADLOCK FALSE
