SPECIFICATION Spec
CONSTANTS
    P = P  Q = Q  C = C  D = D
    a = a  b = b  d = d  p0 = p0  s = s
    w1 = w1  w2 = w2
    None = None
    Txs = {P, Q, C, D}
    Outpoints = {a, b, d, p0}
    Serials = {s}
    Workers = {w1, w2}
    Inputs <- MCInputs
    Creator <- MCCreator
    Consumed <- MCConsumed
    Feerate <- MCFeerate
    Modes <- MCModes
    Bodies <- MCBodies
    BelowFloor = {P}
    AcceptOwn = TRUE
    MaxTxs = 2
    MaxOrphans = 1
    MaxBlocks = 1
    MaxSubmits = 3
    BlockCap = 1
    MaxAttempts = 2
SYMMETRY Symmetry
CHECK_DEADLOCK FALSE
INVARIANT NoDoubleSpend
