SPECIFICATION FairSpec
CONSTANTS
    Trustees = {t1, t2}
    Faulty = {}
    Quorum = 2
    Depth = 1
    Interval = 3
    Genesis = "g"
    Blocks <- SmallBlocks
    Daa <- SmallDaa
    Weight <- SmallDaa
    Chain <- SmallChain
    MaxMerge = 1
    PageSize = 2
    Faults = {"write_fails", "torn_write"}
    NoBlock = None
PROPERTY QuorumSubmitted
