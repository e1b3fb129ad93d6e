SPECIFICATION CmdSpec
CONSTANTS
    b1 = b1
    b2 = b2
    k1 = k1
    k2 = k2
    NULL = NULL
    Borrowers = {b1, b2}
    Conns = {k1, k2}
    PoolSize = 1
    MaxTry = 2
    Fields = 2
    MaxOps = 1
SYMMETRY MCSymmetry
CHECK_DEADLOCK FALSE
INVARIANT FreesOnce
