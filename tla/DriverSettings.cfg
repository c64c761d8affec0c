SPECIFICATION FairLifeSpec
CONSTANTS
    Handles = {h1}
    Tuners = {h1}
    Sides = {"rd"}
    WIN_SIZE = 2
    DEFAULT_TIMEOUT = 1
    U32 = 4
    U64 = 8
    Inputs <- SomeNumbers
    Counts = {3}
INVARIANT LifeTypeOK
INVARIANT SysfsKeepsRanges
INVARIANT ChunkFitsBuffers
PROPERTY TransferEnds
