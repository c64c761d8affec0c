SPECIFICATION FairProcessSpec
CONSTANTS
    DiskSize = 1
    WinSize = 1
    Values = {0}
    Blank = 0
    SocketCapacity = 1
    Requests <- ValidCommands
    HostCommands <- TheByte
    Events = {"failure", "signal", "crash", "connection lost"}
INVARIANT ProcessTypeOK
INVARIANT EnginesHaveFiles
INVARIANT LoopHasEngines
PROPERTY ShutdownEnds
