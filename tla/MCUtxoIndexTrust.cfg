SPECIFICATION Spec
CONSTANTS
  Outpoints <- MCOutpoints
  Owner <- MCOwner
  Amount <- MCAmount
  Parents <- MCParents
  UtxoOf <- MCUtxoOf
  PruningPoints <- MCPruningPoints
  ChunkSize = 2
  PageLimit = 2
  LastAddress = 2
  MaxLines = 3
  MaxLength = 1
  MaxCrashes = 1
INVARIANT RestartTrust
CHECK_DEADLOCK FALSE
