SPECIFICATION Spec
CONSTANTS
    s1 = s1
    s2 = s2
    w1 = w1
    w2 = w2
    Invoice = {i1, i2}
    Order = {o1, o2}
    Receipt = {r1}
    Teams <- MCTeams
    MaxVersion = 8
    MaxAttachments = 3
SYMMETRY Symmetry
INVARIANTS SlotExclusive ConfirmedFirst MatchedIsCurrent
CHECK_DEADLOCK FALSE
