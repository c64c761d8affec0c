SPECIFICATION FairFlashSpec
CONSTANTS
    DiskSize = 2
    WinSize = 2
    Values = {0, 1}
    Blank = 0
    SocketCapacity = 2
    Requests <- ValidCommands
    Readers = {r1}
    Writers = {w1}
    ReadCalls <- DisjointReads
    WriteCalls <- DisjointWrites
    MaxSize <- OneByteChunks
    Impatient = {}
INVARIANT InterruptDue
PROPERTY CallsReturn
