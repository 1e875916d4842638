SPECIFICATION Spec
CONSTANTS
    Worker = {w1, w2}
    MaxRetries = 1
    MaxSends = 3
    MaxCrashes = 1
    HandlerMayFail = TRUE
SYMMETRY Symmetry
INVARIANTS EventHistory OutcomesBacked CaseFollowsJob
PROPERTIES RecordKept
CHECK_DEADLOCK FALSE
