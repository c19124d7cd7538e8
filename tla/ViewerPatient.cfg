SPECIFICATION FairSpec
CONSTANTS
  MaxFile = 4
  InitialFiles <- EmptyOrNot
  MaxHistory = 0
  Overlap = FALSE
  FetchFails = TRUE
  Pruning = TRUE
INVARIANT ShownIsCurrent
PROPERTY LoadingEnds
PROPERTY CatchesUp
CHECK_DEADLOCK FALSE
