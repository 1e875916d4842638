---------------------------- MODULE ThreeWayRules ----------------------------
(***************************************************************************)
(* The per-line part of match_invoice_three_way (matching/three_way.py):   *)
(* what a receipt context says about one invoice line that was assigned to *)
(* a purchase-order line.  Quantities and amounts are integers in the      *)
(* smallest unit the instance needs; a value is None when the extracted    *)
(* field is missing or ambiguous.                                          *)
(***************************************************************************)
EXTENDS Integers, FiniteSets, FiniteSetsExt

CONSTANTS
    None,            \* the value of a field that is not EXTRACTED
    AmountTol,       \* amount_absolute_tolerance
    QtyTol,          \* quantity_absolute_tolerance
    PriceTol,        \* unit_price_relative_tolerance, in percent
    AllowPartial     \* allow_partial_invoice

AbsDiff(a, b) == IF a >= b THEN a - b ELSE b - a
Near(a, b) == AbsDiff(a, b) <= AmountTol

\* The reason code of a check that fails when cond holds.
Fails(cond, code) == IF cond THEN {code} ELSE {}

\* A receipt context of one purchase-order line (ReceiptLineContextRead) has
\* the ordered quantity, the active receipts [qty, day], the reversed receipts
\* and the quantity already allocated to other invoices.
Received(line) == MapThenSumSet(LAMBDA r : r.qty, line.active)
Available(line) == Received(line) - line.prior

\* The checks on receipts: reversal, coverage, date and over-delivery.
ReceiptFailures(line, day, anyActive) ==
    Fails(line.reversed # {}, "GOODS_RECEIPT_REVERSED")
      \cup Fails(line.active = {},
                 IF anyActive THEN "RECEIPT_LINE_MISSING" ELSE "NO_GOODS_RECEIPT")
      \cup Fails(day # None /\ \E r \in line.active : r.day > day,
                 "RECEIPT_AFTER_INVOICE")
      \cup Fails(Received(line) > line.ordered + QtyTol,
                 "RECEIVED_QUANTITY_EXCEEDS_ORDERED")

\* Mutant of QuantityFailures: the quantity is compared with everything that
\* was received, whatever other invoices have taken.
QuantityFailuresIgnorePrior(line, qty) ==
    Fails(~AllowPartial /\ qty < line.ordered - QtyTol, "QUANTITY_MISMATCH")
      \cup Fails(qty > Received(line) + QtyTol, "INVOICE_QUANTITY_EXCEEDS_RECEIVED")

\* The checks on an extracted quantity.
QuantityFailures(line, qty) ==
    Fails(~AllowPartial /\ qty < line.ordered - QtyTol, "QUANTITY_MISMATCH")
      \cup Fails(qty > Available(line) + QtyTol,
                 IF line.prior > 0 THEN "CUMULATIVE_QUANTITY_EXCEEDS_RECEIVED"
                                   ELSE "INVOICE_QUANTITY_EXCEEDS_RECEIVED")

\* The checks of the invoice line's price and amount at the order's price.
PriceFailures(item, poPrice) ==
    Fails(item.price # None /\ AbsDiff(item.price, poPrice) * 100 > poPrice * PriceTol,
          "THREE_WAY_UNIT_PRICE_MISMATCH")
      \cup Fails(item.total # None /\ ~Near(item.total, item.qty * poPrice),
                 "THREE_WAY_LINE_AMOUNT_MISMATCH")
=============================================================================
