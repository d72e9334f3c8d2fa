SPECIFICATION Spec
CONSTANTS
  Capacity = 4096
  ReindexDepth = 2
  ReindexSlack = 1
  K = 1
  Genesis = 1
  Hash <- MCHash
  Work <- MCWork
  MaxHeaders = 12
  ParentSets <- MCParentSets
  Fixed = 8
  Reach = 3
  Low = {3, 4, 5}
  MergeDepth = 2
  PruningDepth = 2
  Window = 4
  MaxPrunings = 1
  MaxLevels = 1
CHECK_DEADLOCK FALSE
INVARIANTS QueriesExact NeverPanics Reloads BluesAreCluster
