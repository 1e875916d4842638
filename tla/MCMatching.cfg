SPECIFICATION Spec
CONSTANTS
    None = None
    Free = Free
    o1 = o1
    l1 = l1
    l2 = l2
    d1 = d1
    d2 = d2
    x1 = x1
    x2 = x2
    y1 = y1
    AmountTol = 0
    QtyTol = 0
    PriceTol = 1
    AllowPartial = TRUE
    Doc = {d1, d2}
    Order = {o1}
    Session = {s1, s2}
    Extracted = {x1, y1}
    Extraction = {x1, x2, y1}
    Lines <- MCLines
    Ordered <- MCOrdered
    Invoice <- MCInvoice
    Delivery <- MCDelivery
    Legacy <- MCLegacy
    Scale = 2
    MaxRuns = 2
INVARIANTS OneRunPerEvidence MatchedIsReserved DuplicateNoticed
PROPERTIES ImplementsLedger TransactionsEnd
CHECK_DEADLOCK FALSE
