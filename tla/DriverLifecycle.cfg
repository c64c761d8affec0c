SPECIFICATION FairLifeSpec
CONSTANTS
    Handles = {h1, h2}
    Tuners = {h1}
    Sides = {"rd"}
    WIN_SIZE = 1
    DEFAULT_TIMEOUT = 1
    U32 = 3
    U64 = 3
    Inputs <- OnlyZero
    Counts = {2}
INVARIANT UsersFindDriver
INVARIANT HandlerFindsDriver
INVARIANT LeftBehind
INVARIANT UndoIsReverse
INVARIANT OneChunkPerSide
PROPERTY TransferEnds
