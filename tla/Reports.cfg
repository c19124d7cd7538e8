SPECIFICATION ReportsSpec
CONSTANTS
  n1 = n1
  n2 = n2
  orders = orders
  orders2 = orders2
  dropped = dropped
  Node <- MCNode
  Stmt <- MCStmt
  Qid <- MCQid
  Db <- MCDb
  NoDb = "none"
  Template <- MCTemplate
  NB = 6
  Measured <- MCMeasured
  Limit = 2
  MaxCalls = 2
  MaxResets = 1
  MaxDocs = 2
  rows1 = rows1
  items1 = items1
  null = null
  MaxListed = 2
  Session <- MCSession
  Tablet = {rows1, items1}
  TableOf <- MCTableOf
  NamespaceOf <- MCNamespaceOf
  DbName <- MCDbName
  RawText <- MCRawText
  Background = {"q7"}
  Crz <- MCNodeItself
  Null = null
  Mid <- MCMid
  PerWidth <- MCPerWidth
  Kernel <- MCKernel
  Bc <- MCBc
  MinCalls = 2
  MinSeparation = 2
  Sidecars <- MCSidecars
  NoAnalysis = null
  NoDip = null
  MaxPerBucket = 2
  MaxSamples = 2
  MaxMoves = 2
INVARIANT TypeOK
INVARIANT DeltaIsTruth
INVARIANT GroupedAsUngrouped
INVARIANT ChartAgrees
INVARIANT TerminalAgrees
INVARIANT LinkLeadsHome
INVARIANT DistributionAddsUp
INVARIANT ReportsAddUp
INVARIANT FamilyCoversRow
INVARIANT DeltaHistogramIsTruth
INVARIANT ModesAreModes
INVARIANT FiltersKeepTemplates
SYMMETRY NodeSymmetry
CHECK_DEADLOCK FALSE
