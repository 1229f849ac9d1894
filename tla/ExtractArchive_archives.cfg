\* Blocks of two units and a window of four; paths of three components, one
\* of them for the destination.
SPECIFICATION Spec
CONSTANTS
    Archives <- MCArchives
    BlockSize = 2
    IoChunk = 3
    PaxMax = 2
    PathMax = 4
    Dest = 1
    Window = 4
    MaxStored = 2
    MaxCopy = 3
INVARIANTS  NoPartFile
CHECK_DEADLOCK FALSE
