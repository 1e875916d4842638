SPECIFICATION Spec
CONSTANTS
    None = None
    Unknown = Unknown
    Blank = "blank"
    AmountTol = 2
    QtyTol = 0
    PriceTol = 1
    AllowPartial = TRUE
    Threshold = 85
    Margin = 5
    Score <- MCScore
    LiveOptions <- MCLiveOptions
    Tokens <- MCTokens
    UnitPrice <- MCUnitPrice
    ImageWeight = 162
    Usages <- MCUsages
    Suites = {"two-way", "three-way", "risk"}
    Evaluations <- MCEvaluations
    MatchInput <- MCMatchInput
    ContextOf <- MCContextOf
    Features <- MCFeatures
    Ratio <- MCRatio
    RiskAmountTol = 2
    WindowDays = 7
    NumberThreshold = 92
    RouteIncomplete = TRUE
INVARIANTS TwoWayExact ThreeWayExact RiskSound ReportsSound LiveEvaluationSound
CHECK_DEADLOCK FALSE
