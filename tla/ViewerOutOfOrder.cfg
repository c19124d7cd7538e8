SPECIFICATION Spec
CONSTANTS
  MaxFile = 2
  InitialFiles <- Some
  MaxHistory = 0
  Overlap = TRUE
  FetchFails = FALSE
  Pruning = FALSE
INVARIANT HighlightIsShown
CHECK_DEADLOCK FALSE
