SPECIFICATION Spec
CONSTANTS
  MaxClock = 4
  MaxDocs = 2
  MaxCrashes = 1
  Retention = 1
  SameSecond = TRUE
  Faults <- WriteReadFaults
INVARIANT NoFreshLoss
INVARIANT GcExact
INVARIANT TmpsAccounted
CHECK_DEADLOCK FALSE
