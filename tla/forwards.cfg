SPECIFICATION MCSpec
CONSTANTS
    WriteBufferSize = 5
    MaxWrite = 7
    MaxBytes = 12
    ChannelMax = 3
    FwdMax = 2
    Requests = {1, 2}
    MaxConns = 3
    MaxSocks = 3
    Setups <- MCSetups
INVARIANTS
    TypeOK
    InOrder
    EntriesLinked
    
PROPERTIES
    ImplementsQueue
CHECK_DEADLOCK FALSE
