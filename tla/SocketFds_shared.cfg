\* A pool and descriptors with numbers in common.
SPECIFICATION FdSpec
CONSTANTS
    P1 = P1
    P2 = P2
    Procs <- MCProcs
    PoolMax = 5
    FirstFd = 3
    LastFd = 5
SYMMETRY Symmetry
INVARIANTS NumbersBalance
CHECK_DEADLOCK FALSE
