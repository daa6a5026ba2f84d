SPECIFICATION FairSpec
CONSTANTS
    TcpPorts = {"tcp"}
    SerialPorts = {"COM1", "COM2"}
    PipePorts = {"pipe"}
    InMax = 2
    MaxAddrs = 2
    MaxOpens = 2
    MaxBytes = 2
    MaxResets = 1
    Setups <- MCSetups
PROPERTIES
    HostRead
    ConnectEnds
CHECK_DEADLOCK FALSE
