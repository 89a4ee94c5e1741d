CONSTANTS
    u1 = u1
    u2 = u2
    Credentials <- MCCredentials
    RouteConfigs <- MCRouteConfigs
    UserLimits <- MCUserLimits
    Backends = {"risk", "matching"}
    SessionIds = {"s1"}
    Timeouts = {1}
    Times = {1, 2, 3}
    QueueCapacity = 2
    Setup <- MCSetup
    Requests <- MCRequests
    MaxCalls = 4
    RiskLimits <- MCRiskLimits
    RiskTops <- MCRiskTops
    RiskStates <- MCRiskStates
    OpeningStates <- MCOpeningStates
    RiskOrders <- MCRiskOrders
    MaxOrderQuantity = 2
    MaxOrderNotional = 7
    BandNum = 1
    BandDen = 2
    SelfTradePrevention = TRUE
SPECIFICATION Spec
INVARIANTS
    RateLimitsHonoured
    IngressOrder
    SessionsEndBySilence
