\* A pool of six headers and their blocks; a product that overflows, one
\* whose rounding does, and one that wraps to a few bytes.
SPECIFICATION FairSpec
CONSTANTS
    PoolBytes = 144
    HeaderBytes = 16
    Word = 256
    Requests <- MCRequests
INVARIANTS Tiled Coalesced
PROPERTIES ImplementsPromise
CHECK_DEADLOCK FALSE
