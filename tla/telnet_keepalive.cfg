SPECIFICATION FairSpec
CONSTANTS
    MaxStarts = 2
    MaxSettings = 2
PROPERTIES
    StopReturns
CHECK_DEADLOCK FALSE
