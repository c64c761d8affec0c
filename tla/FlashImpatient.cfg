SPECIFICATION FlashSpec
CONSTANTS
    DiskSize = 2
    WinSize = 1
    Values = {0}
    Blank = 0
    SocketCapacity = 1
    Requests <- ValidCommands
    Readers = {r1, r2}
    Writers = {}
    ReadCalls <- LongReads
    WriteCalls <- NoCalls
    MaxSize <- TwoByteChunks
    Impatient = {r1, r2}
INVARIANT FlashTypeOK
INVARIANT InterruptDue
INVARIANT CopiesInsideStorage
SYMMETRY ReadersAlike
