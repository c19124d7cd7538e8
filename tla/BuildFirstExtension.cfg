SPECIFICATION Spec
CONSTANTS
  n1 = n1
  n2 = n2
  n3 = n3
  Node <- TwoNodes
  Seed = n1
  Parallelisms <- Two
INVARIANT FirstSnapshotHasExtension
