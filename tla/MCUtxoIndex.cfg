SPECIFICATION FairSpec
CONSTANTS
  Outpoints <- MCOutpoints
  Owner <- MCOwner
  Amount <- MCAmount
  Parents <- MCParents
  UtxoOf <- MCUtxoOf
  PruningPoints <- MCPruningPoints
  ChunkSize = 2
  PageLimit = 2
  LastAddress = 2
  MaxLines = 3
  MaxLength = 3
  MaxCrashes = 1
INVARIANTS SyncedMeansEqual WalkComplete
PROPERTIES ImplementsView CatchesUp
CHECK_DEADLOCK FALSE
