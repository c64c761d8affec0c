SPECIFICATION FlashSpec
CONSTANTS
    DiskSize = 3
    WinSize = 2
    Values = {0, 1, 2}
    Blank = 0
    SocketCapacity = 1
    Requests <- ValidCommands
    Readers = {r1}
    Writers = {w1}
    ReadCalls <- LastByte
    WriteCalls <- LongWrites
    MaxSize <- MixedChunks
    Impatient = {}
INVARIANT OneCompletionOwed
INVARIANT HostOwnsSide
INVARIANT CopiesInsideStorage
INVARIANT CopiesDisjoint
PROPERTY ImplementsBlockStore
