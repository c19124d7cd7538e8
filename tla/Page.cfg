SPECIFICATION PageSpec
CONSTANTS
  q1 = q1
  q2 = q2
  node1 = node1
  table1 = table1
  null = null
  chip1 = chip1
  chip2 = chip2
  sql1 = sql1
  sql2 = sql2
  onTip = onTip
  Windows = 2
  Qid <- MCQid
  NodeId = {node1}
  TableId = {table1}
  Known <- MCKnown
  Histograms <- MCHistograms
  Tier <- MCTier
  Links <- MCLinks
  Nothing = null
  MaxEntries = 3
  MaxClicks = 5
  NodeText = {chip1, chip2}
  QueryText = {sql1, sql2}
  OnTip = onTip
  Nowhere = null
  MaxEvents = 6
  MaxFrames = 2
INVARIANT TypeOK
INVARIANT MergePinnedOnlyByFamily
INVARIANT ReloadKeeps
INVARIANT ScreenShowsControls
INVARIANT LinkAsClick
INVARIANT PointedIsDrawnLast
PROPERTY ControlsKept
PROPERTY PointedIsShown
CHECK_DEADLOCK FALSE
