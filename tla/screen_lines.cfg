SPECIFICATION Spec
CONSTANTS
    Heights = {2, 3}
    ScrollSizes = {3, 4}
    Counts = {1, 2}
    ClearOnResize = TRUE
    MaxTexts = 1
INVARIANTS
    RingWhole
PROPERTIES
    OnlySetupMisleads
    ImplementsPage
CHECK_DEADLOCK FALSE
