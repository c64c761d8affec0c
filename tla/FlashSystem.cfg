SPECIFICATION FairSystemSpec
CONSTANTS
    DiskSize = 1
    WinSize = 1
    Values = {0}
    Blank = 0
    SocketCapacity = 1
    Requests <- ValidCommands
    HostCommands = {}
    Events = {"crash", "connection lost"}
    Readers = {r1}
    Writers = {}
    ReadCalls <- OneByte
    WriteCalls <- NoCalls
    MaxSize <- OneByteChunks
    Impatient = {r1}
INVARIANT DueWhileServing
PROPERTY CallsReturn
