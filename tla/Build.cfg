SPECIFICATION FairSpec
CONSTANTS
  n1 = n1
  n2 = n2
  n3 = n3
  Node <- ThreeNodes
  Seed = n1
  Parallelisms <- OneOrTwo
INVARIANT TypeOK
INVARIANT CompleteDocument
INVARIANT PoolConfined
INVARIANT TablesMeanWritten
PROPERTY TickEnds
PROPERTY Recovers
