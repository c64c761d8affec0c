SPECIFICATION FlashSpec
CONSTANTS
    DiskSize = 2
    WinSize = 1
    Values = {0}
    Blank = 0
    SocketCapacity = 1
    Requests <- ValidCommands
    Readers = {}
    Writers = {w1}
    ReadCalls <- NoCalls
    WriteCalls <- OutsideWrites
    MaxSize <- OneByteChunks
    Impatient = {}
PROPERTY WriteErrorReported
