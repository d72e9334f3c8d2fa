SPECIFICATION FairSpec
CONSTANTS
    Blocks <- MCBlocks
    Root = "r"
    Parents <- MCParents
    Hash <- MCHash
    RootCoins <- MCRootCoins
    Offers <- MCOffers
    Note <- MCNote
    Faults <- MCFaults
    Subsidy = 2
    CoinbaseMaturity = 1
    FreshnessWindow = 1
    FinalityDepth = 3
    MergeDepth = 3
    MaxParents = 2
    MaxCrashes = 1
INVARIANTS
    NoPanic
    VerdictsPathIndependent
    VirtualIsRecomputable
    DiffPointTracked
    SupplyConserved
    ReplayComplete
    AcceptedOnce
    SinkIsHeaviest
PROPERTIES
    FinalityKept
    Settles
CHECK_DEADLOCK FALSE
