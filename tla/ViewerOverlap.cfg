SPECIFICATION Spec
CONSTANTS
  MaxFile = 3
  InitialFiles <- Some
  MaxHistory = 2
  Overlap = TRUE
  FetchFails = FALSE
  Pruning = TRUE
INVARIANT TypeOK
INVARIANT DeltaIsConsecutive
INVARIANT UrlPinsCurrent
PROPERTY PollKeepsWindow
CHECK_DEADLOCK FALSE
