SPECIFICATION FairSpec
CONSTANTS
    Methods = {"password"}
    KeyCount = 1
    Prompts = {0, 1}
    CheckAuthListFirst = {FALSE}
    ServerMay = {"rekey"}
    MaxFailures = 2
    MaxKeys = 2
PROPERTIES
    RekeyEnds
CHECK_DEADLOCK FALSE
