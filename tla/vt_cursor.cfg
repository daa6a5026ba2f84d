SPECIFICATION MCSpec
CONSTANTS
    TabWidth = 2
    Params = {0, 1, 2, 3}
    Sizes <- MCSizes
    Settings <- MCSettings
INVARIANTS
    ReportRoundTrip
    TabFindsNearest
PROPERTIES
    StaysInPage
    WrapGoesWithCursor
    MainCursorReturns
CHECK_DEADLOCK FALSE
