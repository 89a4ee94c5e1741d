CONSTANTS
    u1 = u1
    u2 = u2
    o1 = o1
    o2 = o2
    o3 = o3
    Users <- MCUsers
    OrderIds <- MCOrderIds
    NoId = NoId
    NoHold = NoHold
    Prices = {2, 4}
    Quantities = {1, 2}
    OrderTifs = {"gtc"}
    Opening <- MCOpening
    InitialTop <- MCInitialTop
    MakerFeeBps = 0
    TakerFeeBps = 5000
    Inexact = {"quote"}
    EventCapacity = 2
    MaxOrders = 4
    MaxOrderQuantity = 2
    MaxOrderNotional = 7
    BandNum = 1
    BandDen = 2
    SelfTradePrevention = TRUE
SYMMETRY MCSymmetry
SPECIFICATION Spec
INVARIANTS
    RestingOrdersBacked
    NoSelfTrade
    RiskViewsFresh
    CompletionReleasesHolds
PROPERTIES
    HoldsSufficeForTrades
