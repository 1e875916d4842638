CONSTANTS
    Worker = {w1, w2}
    Candidate = {c1, c2}
    Unreadable = {c2}
    Baseline = Baseline
    None = None
    VlmMaxRetries = 1
    MaxDeliveries = 4
    MaxDeaths = 2
SPECIFICATION FairSpec
INVARIANTS SpendBound OutputBacked
PROPERTIES ResultsKept DeliveriesSettle
CHECK_DEADLOCK FALSE
