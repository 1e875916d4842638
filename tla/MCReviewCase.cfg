SPECIFICATION AuditSpec
CONSTANTS
    Reviewer = {ann, bob}
    SystemActor = system
    NoReviewer = none
    Session = {s1, s2}
    Repairer = {j1, j2}
    Resolution = {"ACCEPTED_EXCEPTION", "REJECTED_DOCUMENT"}
    MatchCodes = {"QUANTITY_MISMATCH"}
    RiskCodes = {"DUPLICATE"}
    MaxVersion = 4
SYMMETRY Symmetry
INVARIANTS AuditIntact TriggersComplete
PROPERTIES CommandsSound WorkflowSpec QuietAuditValid
CHECK_DEADLOCK FALSE
