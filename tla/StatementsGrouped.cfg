SPECIFICATION Spec
CONSTANTS
  n1 = n1
  n2 = n2
  orders = orders
  orders2 = orders2
  dropped = dropped
  Node <- MCNode
  Stmt <- MCStmt
  Qid <- MCQid
  Db <- MCDb
  NoDb = "none"
  Template <- MCTemplate
  NB = 6
  Measured <- MCMeasured
  Limit = 1
  MaxCalls = 3
  MaxResets = 1
  MaxDocs = 2
INVARIANT GroupedLikeUngrouped
SYMMETRY NodeSymmetry
CHECK_DEADLOCK FALSE
