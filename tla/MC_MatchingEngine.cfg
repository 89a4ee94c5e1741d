CONSTANTS
    o1 = o1
    o2 = o2
    o3 = o3
    OrderIds <- MCOrderIds
    NoId = NoId
    Prices = {1, 2}
    Quantities = {1, 2}
    EventCapacity = 2
SYMMETRY MCSymmetry
SPECIFICATION Spec
INVARIANTS
    BookMatchesLive
    BookUncrossed
    TimeInForceHonoured
    ReportMatchesOutcome
PROPERTIES
    PriceTimePriority
