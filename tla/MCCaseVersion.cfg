SPECIFICATION Spec
CONSTANTS
    s1 = s1
    s2 = s2
    w1 = w1
    w2 = w2
    Invoice = {i1}
    Order = {o1, o2}
    Receipt = {r1}
    Teams <- MCOverlap
    MaxVersion = 9
    MaxAttachments = 3
PROPERTY VersionAdvances
CHECK_DEADLOCK FALSE
