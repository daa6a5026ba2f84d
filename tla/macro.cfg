SPECIFICATION MCSpec
CONSTANTS
    HostMax = 3
    InMax = 2
    LogSize = 2
    Margin = 1
    RingSize = 2
    Reserve = 1
    Program = {"wait", "waitevent", "transfer", "sendfile", "send", "pause", "setsync", "flushrecv", "connect", "unlink", "closett"}
    Events = {{"timeout", "conn"}, {"disconn", "unlink"}}
    MaxCommands = 2
    MaxMacros = 1
    MaxSP = 4
    MaxNest = 2
    MaxIfNest = 3
    Macros <- MCMacros
    Nested <- MCNested
INVARIANTS
    NothingLost
    StackOwned
PROPERTIES
    CommandEnds
    ImplementsText
CHECK_DEADLOCK FALSE
