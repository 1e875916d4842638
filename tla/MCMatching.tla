----------------------------- MODULE MCMatching -----------------------------
(* A small instance of Matching for TLC: one order of two lines, two        *)
(* invoices that are duplicates of each other, and receipts that do not     *)
(* suffice for both.  Quantities are in half units of the quantity column.  *)
EXTENDS Matching, TLC

CONSTANTS o1, l1, l2, d1, d2, x1, x2, y1

MCLines == [o \in {o1} |-> {l1, l2}]
MCOrdered == [l \in {l1, l2} |-> IF l = l1 THEN 6 ELSE 2]

Bill(idx, line, qty) == [idx |-> idx, line |-> line, qty |-> qty]
Inv(doc, rank, bill) ==
    [doc |-> doc, rank |-> rank, sound |-> TRUE, day |-> 2, key |-> "A-1", bill |-> bill]

\* x1 is the baseline extraction of d1, x2 the hybrid one that supersedes it,
\* reads another quantity and finds a line of quantity zero.  The invoice d2
\* has a quantity with one decimal more than the column keeps.
MCInvoice ==
    [x \in {x1, x2, y1} |->
        CASE x = x1 -> Inv(d1, 2, {Bill(1, l1, 4)})
          [] x = x2 -> Inv(d1, 1, {Bill(1, l1, 2), Bill(2, l2, 0)})
          [] x = y1 -> Inv(d2, 1, {Bill(1, l1, 3), Bill(2, l2, 2)})]

Deliver(number, day, qty) == [order |-> o1, number |-> number, day |-> day, qty |-> qty]
MCDelivery ==
    {Deliver("R1", 1, [l \in {l1} |-> 4]),
     Deliver("R1", 1, [l \in {l1} |-> 2]),
     Deliver("R2", 2, [l \in {l1, l2} |-> 2])}

\* Up to two runs to repair: two transactions can each hold one of them.
LegacyRun(d, x) == NewRun(d, o1, x, "TWO_WAY", TwoWayContext, "NEEDS_REVIEW")
MCLegacy == {<<>>, <<LegacyRun(d2, y1)>>, <<LegacyRun(d2, y1), LegacyRun(d1, x1)>>}

=============================================================================
