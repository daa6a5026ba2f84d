SPECIFICATION MCSpec
CONSTANTS
    Methods = {"pageant", "password", "keyboard", "publickey"}
    KeyCount = 1
    Prompts = {0, 1}
    CheckAuthListFirst = {TRUE, FALSE}
    ServerMay = {"close", "bad", "rekey", "ignore"}
    MaxFailures = 2
    MaxKeys = 2
    sent_file = sent_file
    got_file = got_file
INVARIANTS
    KeysAgree
    NothingUnexpected
    NothingBeforeHostOK
    RequestsInTurn
    FilesWhole
PROPERTIES
    MCLoginEnds
    Ends
CHECK_DEADLOCK FALSE
