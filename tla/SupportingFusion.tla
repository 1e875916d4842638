-------------------------- MODULE SupportingFusion --------------------------
(***************************************************************************)
(* When a vision model is asked about a purchase order or a receipt, and   *)
(* how its proposal is merged (supporting_hybrid.py).  Lines are aligned   *)
(* by position first and kept only when the page shows the same row.       *)
(***************************************************************************)
EXTENDS Grounding

CONSTANTS
    AmountTolerance,      \* 0.02: 2 cents
    IdentKey(_),          \* normalize_identifier of a text (tokens)
    NumberToken,              \* the tokens with a number
    AmountLabel,          \* subtotal, tax, total -> the labels (sequences of tokens)
    ColumnAlias           \* line field -> the header tokens that name its column

PoHeader == {"po_number", "issue_date", "vendor", "buyer", "currency", "subtotal", "tax", "total"}
ReceiptHeader == {"receipt_number", "referenced_po_number", "received_date", "supplier"}
PoLineFields == {"line_number", "description", "ordered_quantity", "unit_price", "line_total"}
ReceiptLineFields ==
    {"description", "received_quantity", "accepted_quantity", "rejected_quantity"}
Quantities ==
    {"ordered_quantity", "unit_price", "line_total", "received_quantity", "accepted_quantity",
     "rejected_quantity"}

HeaderOf(role) == IF role = "PURCHASE_ORDER" THEN PoHeader ELSE ReceiptHeader
LinesOf(role) == IF role = "PURCHASE_ORDER" THEN PoLineFields ELSE ReceiptLineFields

\* The set of reasons to ask the model.
route_supporting(out, doc, role) ==
    LET po == role = "PURCHASE_ORDER"
        required == IF po THEN {out.po_number, out.issue_date, out.currency}
                    ELSE {out.receipt_number, out.received_date, out.referenced_po_number}
        statuses == {f.status : f \in required}
        complete == IF po THEN PoLineFields \ {"line_number"} ELSE {"description", "received_quantity"}
        reason(r, holds) == IF holds THEN {r} ELSE {}
    IN  reason("REQUIRED_FIELD_MISSING", "MISSING" \in statuses)
        \cup reason("REQUIRED_FIELD_AMBIGUOUS", "AMBIGUOUS" \in statuses)
        \cup reason("NO_LINE_ITEMS", out.line_items = <<>>)
        \cup reason(IF po THEN "INCOMPLETE_LINE_ITEMS" ELSE "QUANTITY_ASSOCIATION_INCOMPLETE",
                    \E l \in ToSet(out.line_items) : \E n \in complete : l[n].status # "EXTRACTED")
        \cup reason("TOTAL_CONFLICT",
                    /\ po /\ \A n \in {"subtotal", "tax", "total"} : out[n].value # None
                    /\ Gap(out.subtotal.value + out.tax.value, out.total.value) > AmountTolerance)
        \cup reason("OCR_REQUIRED_FIELD", doc.ocr # {} /\ statuses # {"EXTRACTED"})

-----------------------------------------------------------------------------
(* Grounding a field *)

_normalization_name(name) ==
    IF name \in {"issue_date", "received_date"} THEN "invoice_date"
    ELSE IF name \in Quantities \cup {"subtotal", "tax", "total"} THEN "line_total"
    ELSE name

\* Up to five tokens of the quote read as the value.
_value_supported(name, value, quote) ==
    \E i \in DOMAIN quote, n \in 1 .. 5 :
        /\ i + n - 1 <= Len(quote)
        /\ LET window == SubSeq(quote, i, i + n - 1)
           IN  IF _normalization_name(name) \in {"line_total", "invoice_date", "currency"}
               THEN NormalValue(_normalization_name(name), window) = value
               ELSE IdentKey(value) # <<>> /\ IdentKey(window) = IdentKey(value)

\* The first number after the first label of the field is the value.
_amount_labelled(name, value, quote) ==
    LET ends == {v \in (DOMAIN quote) \X (1 .. 2) :
                   v[1] + v[2] - 1 <= Len(quote)
                     /\ SubSeq(quote, v[1], v[1] + v[2] - 1) \in AmountLabel[name]}
        first == Min({v[1] : v \in ends})
        end == Max({v[1] + v[2] - 1 : v \in {u \in ends : u[1] = first}})
        suffix == SubSeq(quote, end + 1, Len(quote))
        k == SelectInSeq(suffix, LAMBDA t : t \in NumberToken)
    IN  /\ ends # {} /\ k # 0
        /\ NormalValue("line_total", <<suffix[k]>>) = value

\* The rows above a span that name its column among others.
HeaderAnchors(row) ==
    {c \in DOMAIN ColumnAlias : \E w \in ToSet(row.words) : w.text \in ColumnAlias[c]}
AnchorX2(row, c) ==
    CenterX2(row.words[SelectLastInSeq(row.words, LAMBDA w : w.text \in ColumnAlias[c])])
HeadersAbove(name, span, rows) ==
    SelectSeq(rows, LAMBDA r :
        /\ r.page = span.page /\ r.y1 < span.bbox.y0
        /\ {"description", name} \subseteq HeaderAnchors(r) /\ Cardinality(HeaderAnchors(r)) >= 3)

\* Under the header row, the span is on the column's side of both midpoints.
UnderColumn(name, span, row) ==
    LET at(c) == AnchorX2(row, c)
        left == {at(c) : c \in {d \in HeaderAnchors(row) : at(d) < at(name)}}
        right == {at(c) : c \in {d \in HeaderAnchors(row) : at(d) > at(name)}}
    IN  /\ left # {} => Max(left) + at(name) <= 2 * CenterX2(span.bbox)
        /\ right # {} => 2 * CenterX2(span.bbox) <= at(name) + Min(right)
Lowest(rows) == rows[SelectInSeq(rows, LAMBDA r : \A q \in ToSet(rows) : q.y1 <= r.y1)]
SupportedBy(name, span, headers) == headers # <<>> /\ UnderColumn(name, span, Lowest(headers))

\* The closest header row above the evidence decides.
_column_supported(name, evidence, doc) ==
    /\ evidence # {}
    /\ SupportedBy(name, FirstSpan(evidence),
                   HeadersAbove(name, FirstSpan(evidence), reconstruct_visual_rows(doc.words)))

\* The proposed field, or None.
FieldFrom(name, cand, doc, g) ==
    IF /\ IsGrounded(g) /\ _value_supported(name, g.value, cand.quote)
       /\ name \in {"subtotal", "tax", "total"} => _amount_labelled(name, g.value, cand.quote)
       /\ name \in Quantities => _column_supported(name, g.evidence, doc)
    THEN Field("EXTRACTED", g.value, g.evidence, "vlm")
    ELSE None
_ground_field(name, cand, doc) ==
    FieldFrom(name, cand, doc, locate_supporting_quote(_normalization_name(name), cand, doc, 100))

-----------------------------------------------------------------------------
(* Fusion *)

_fuse_supporting_field(det, proposed) ==
    IF proposed = None THEN det
    ELSE IF det.status # "EXTRACTED" THEN proposed
    ELSE IF det.value = proposed.value THEN det
    ELSE Field("AMBIGUOUS", None, det.evidence \cup proposed.evidence, "conflict")

\* Some pieces of evidence stand on one row of the page.
_same_row(pieces) ==
    LET spans == {FirstSpan(e) : e \in pieces}
    IN  /\ {} \notin pieces
        /\ Cardinality({s.page : s \in spans}) = 1
        /\ Max({s.bbox.y0 : s \in spans}) <= Min({s.bbox.y1 : s \in spans})

\* What a line of the model proposes for some fields: the grounded ones.
Proposed(line, names, doc) == [n \in {m \in names : line[m].raw # None} |-> _ground_field(n, line[n], doc)]

\* Mutant: a line is recognised by its position in the list.
AssociatedByIndex(proposed, original) ==
    Cardinality({n \in DOMAIN proposed : proposed[n] # None}) >= 2
\* The model's line names the row it is about: its description is on the page
\* with another of its cells on the same row, and it is the original's row.
Associated(proposed, original) ==
    LET grounded == {n \in DOMAIN proposed : proposed[n] # None}
    IN  /\ "description" \in grounded /\ Cardinality(grounded) >= 2
        /\ _same_row({proposed[n].evidence : n \in grounded})
        /\ \/ original = None
           \/ original["description"].evidence = {}
           \/ _same_row({original["description"].evidence, proposed["description"].evidence})

\* The lines that position i of the model's list stands for: none or one.
FusedAt(original, proposed, names) ==
    IF Associated(proposed, original)
    THEN <<[n \in names |->
             LET det == IF original = None THEN MissingField ELSE original[n]
             IN  IF n \in DOMAIN proposed THEN _fuse_supporting_field(det, proposed[n]) ELSE det]>>
    ELSE IF original = None THEN <<>> ELSE <<original>>

fuse_supporting(det, cand, doc, role) ==
    LET n == Len(det.line_items)
        at(i) == FusedAt(IF i <= n THEN det.line_items[i] ELSE None,
                         Proposed(cand.line_items[i], LinesOf(role), doc), LinesOf(role))
        header(f) == IF cand[f].raw = None THEN det[f]
                     ELSE _fuse_supporting_field(det[f], _ground_field(f, cand[f], doc))
    IN  [f \in HeaderOf(role) \cup {"line_items"} |->
            IF f # "line_items" THEN header(f)
            ELSE FlattenSeq([i \in DOMAIN cand.line_items |-> at(i)])
                   \o SubSeq(det.line_items, Len(cand.line_items) + 1, n)]
=============================================================================
