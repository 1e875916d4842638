SPECIFICATION StreamFairSpec
CONSTANTS
    Worker = {w1, w2}
    Crew = {w1}
    MaxRetries = 1
    MaxSends = 2
    MaxCrashes = 1
    HandlerMayFail = FALSE
    BatchSize = 2
    MaxDrops = 1
INVARIANTS TimelineFaithful
PROPERTIES TimelineStops EventuallySettled
CHECK_DEADLOCK FALSE
