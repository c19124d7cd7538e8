SPECIFICATION Spec
CONSTANTS
  MaxFile = 3
  InitialFiles <- Some
  MaxHistory = 0
  Overlap = FALSE
  FetchFails = FALSE
  Pruning = TRUE
PROPERTY PollNeverYanks
CHECK_DEADLOCK FALSE
