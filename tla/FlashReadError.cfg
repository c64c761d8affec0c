SPECIFICATION FlashSpec
CONSTANTS
    DiskSize = 2
    WinSize = 1
    Values = {0}
    Blank = 0
    SocketCapacity = 1
    Requests <- ValidCommands
    Readers = {r1}
    Writers = {}
    ReadCalls <- ShortReads
    WriteCalls <- NoCalls
    MaxSize <- OneByteChunks
    Impatient = {}
PROPERTY ReadErrorReported
