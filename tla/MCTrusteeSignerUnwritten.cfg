SPECIFICATION Spec
CONSTANTS
    Trustees = {t1, t2, t3}
    Faulty = {t3}
    Quorum = 2
    Depth = 1
    Interval = 3
    Genesis = "g"
    Blocks <- MCBlocks
    Daa <- MCDaa
    Weight <- MCWeight
    Chain <- MCChain
    MaxMerge = 2
    PageSize = 2
    Faults = {"write_fails"}
    NoBlock = None
INVARIANT NoEquivocation
SYMMETRY Symmetry
