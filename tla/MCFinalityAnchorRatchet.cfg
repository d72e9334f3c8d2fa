SPECIFICATION Spec
CONSTANTS
    Blocks <- MCBlocks
    Root = "r"
    Parents <- MCParents
    Hash <- MCHash
    Disqualified = {"w"}
    Quorum = 2
    AnchorDepth = 1
    Interval = 1
    FinalityDepth = 5
    MergeDepth = 5
    MaxParents = 2
    Gossip <- MCGossip
    Mined <- MCMined
    MaxCrashes = 1
PROPERTIES
    Ratchet
CHECK_DEADLOCK FALSE
