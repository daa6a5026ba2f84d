SPECIFICATION FairSpec
CONSTANTS
    MyOptions = {"NAWS", "BINARY"}
    HisOptions = {"ECHO", "BINARY", "OTHER"}
    Sizes = {1, 2}
    MaxChanges = 2
    MaxOffers = 2
INVARIANTS
    EndsAgree
PROPERTIES
    NegotiationEnds
CHECK_DEADLOCK FALSE
