SPECIFICATION FairSpec
CONSTANTS
    NumMod = 3
    NakLimit = 10
    CLimit = 3
    Patience = 3
    WinSize = 1
    Room = 1
    SeqNums = 4
    HeaderDamage = FALSE
    OpenFails = FALSE
    WinSizes = {2, 4}
    Lows = 16
    NakByte = 2
    Retries = 10
    Protocols = {"X", "Y", "Z", "K", "Q"}
    Files <- MCFiles
    Faults <- MCFaults
PROPERTIES
    ImplementsTransfer
    Ends
    Repaired
CHECK_DEADLOCK FALSE
