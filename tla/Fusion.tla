------------------------------- MODULE Fusion -------------------------------
(***************************************************************************)
(* When a vision model is asked about an invoice, and how its proposal is  *)
(* merged into the deterministic extraction (hybrid/router.py,             *)
(* hybrid/row_association.py, hybrid/fusion.py).                           *)
(***************************************************************************)
EXTENDS Grounding

CONSTANTS
    ArithmeticTolerance,      \* 0.02: 2 cents
    OcrHeavyNum, OcrHeavyDen, \* 0.5
    MaxEnvelope               \* 0.06 of the page: 60

HeaderFields == {"invoice_number", "invoice_date", "currency", "subtotal", "tax", "total"}
CriticalFields == {"invoice_number", "invoice_date", "currency", "total"}
LineFields == {"description", "quantity", "unit_price", "line_total"}
IsExtracted(f) == f.status = "EXTRACTED"
LineComplete(line) == \A n \in LineFields : IsExtracted(line[n])

-----------------------------------------------------------------------------
(* Routing *)

\* The set of reasons to ask the model; none means it is not asked.
route_extraction(inv, doc) ==
    LET lines == ToSet(inv.line_items)
        adds(a, b, c) == Gap(a + b, c) <= ArithmeticTolerance
        reason(r, holds) == IF holds THEN {r} ELSE {}
    IN  reason("CRITICAL_FIELD_MISSING", \E n \in CriticalFields : inv[n].status = "MISSING")
        \cup reason("CRITICAL_FIELD_AMBIGUOUS", \E n \in CriticalFields : inv[n].status = "AMBIGUOUS")
        \cup reason("NO_LINE_ITEMS", lines = {})
        \cup reason("INCOMPLETE_LINE_ITEMS", \E l \in lines : ~LineComplete(l))
        \cup reason("HEADER_ARITHMETIC_CONTRADICTION",
                    /\ \A n \in {"subtotal", "tax", "total"} : IsExtracted(inv[n])
                    /\ ~adds(inv.subtotal.value, inv.tax.value, inv.total.value))
        \cup reason("LINE_ARITHMETIC_CONTRADICTION",
                    \E l \in lines :
                      /\ \A n \in {"quantity", "unit_price", "line_total"} : IsExtracted(l[n])
                      /\ ~adds(l.quantity.value * l.unit_price.value, 0, l.line_total.value))
        \cup reason("OCR_HEAVY_DOCUMENT",
                    doc.pages > 0 /\ OcrHeavyDen * Cardinality(doc.ocr) >= OcrHeavyNum * doc.pages)

-----------------------------------------------------------------------------
(* Row association *)

\* The words, by index, that some evidence covers.
_tokens(evidence, doc) == {i \in DOMAIN doc.words : InEvidence(doc.words[i], evidence)}

_overlap(a, b) ==
    a.page = b.page /\ Min({a.bbox.y1, b.bbox.y1}) > Max({a.bbox.y0, b.bbox.y0})

\* A row is a function from the claimed fields to their grounding.
AllEvidence(row) == UNION {row[n].evidence : n \in DOMAIN row}
RowTokens(row, doc) == _tokens(AllEvidence(row), doc)

Coherent(row) ==
    LET spans == AllEvidence(row)
    IN  /\ Cardinality({s.page : s \in spans}) = 1 /\ row["description"].evidence # {}
        /\ Max({s.bbox.y1 : s \in spans}) - Min({s.bbox.y0 : s \in spans}) <= MaxEnvelope

\* Every cell lies beside the description.
Aligned(row) ==
    \A s \in AllEvidence(row) : \E a \in row["description"].evidence : _overlap(s, a)

\* A word serves one row and one cell of it.
Reuses(rows, i, doc) ==
    \/ \E j \in DOMAIN rows \ {i} : RowTokens(rows[i], doc) \cap RowTokens(rows[j], doc) # {}
    \/ \E m, n \in DOMAIN rows[i] :
         m # n /\ _tokens(rows[i][m].evidence, doc) \cap _tokens(rows[i][n].evidence, doc) # {}

\* The deterministic lines whose description shares a word with the row's.
SharedLines(lines, row, doc) ==
    {k \in DOMAIN lines : _tokens(row["description"].evidence, doc)
                            \cap _tokens(lines[k].description.evidence, doc) # {}}
\* The lines whose description lies beside some of the evidence.
BesideLines(lines, evidence) ==
    {k \in DOMAIN lines : \E a \in evidence, b \in lines[k].description.evidence : _overlap(a, b)}

\* What becomes of a candidate row on its own.
RowReason(lines, rows, i, doc) ==
    LET row == rows[i]
        shared == SharedLines(lines, row, doc)
    IN  IF "description" \notin DOMAIN row THEN "anchor_missing"
        ELSE IF ~IsGrounded(row["description"]) THEN "anchor_missing"
        ELSE IF \E n \in DOMAIN row : ~IsGrounded(row[n]) THEN "cell_ungrounded"
        ELSE IF ~Coherent(row) THEN "incoherent_geometry"
        ELSE IF ~Aligned(row) THEN "cross_row_cells"
        ELSE IF Reuses(rows, i, doc) THEN "reused_evidence"
        ELSE IF /\ Cardinality(shared) = 1
                /\ BesideLines(lines, row["description"].evidence) = shared
                /\ BesideLines(lines, AllEvidence(row)) \subseteq shared
        THEN "associated"
        ELSE IF shared # {} THEN "ambiguous_anchor" ELSE "candidate_only"

\* The associations, line -> row, and the final reason of every row: two rows
\* that claim the same line both lose it.
associate_rows(lines, rows, doc) ==
    LET first == [i \in DOMAIN rows |-> RowReason(lines, rows, i, doc)]
        claims == {i \in DOMAIN rows : first[i] = "associated"}
        line(i) == CHOOSE k \in SharedLines(lines, rows[i], doc) : TRUE
        won == {i \in claims : \A j \in claims \ {i} : line(j) # line(i)}
    IN  [map |-> [k \in {line(i) : i \in won} |-> CHOOSE i \in won : line(i) = k],
         reasons |-> [i \in DOMAIN rows |-> IF i \in claims \ won THEN "ambiguous_anchor" ELSE first[i]]]

-----------------------------------------------------------------------------
(* Fusion *)

_fuse_field(det, g) ==
    IF ~IsGrounded(g) \/ (IsExtracted(det) /\ det.value = g.value) THEN det
    ELSE IF IsExtracted(det)
    THEN Field("AMBIGUOUS", None, det.evidence \cup g.evidence, "disagreement")
    ELSE Field("EXTRACTED", g.value, g.evidence, "vlm")

Claimed(row) == {n \in LineFields : row[n].raw # None}
GroundRows(cand, doc) ==
    Apply(LAMBDA row : [n \in Claimed(row) |-> ground_candidate(n, row[n], doc)], cand.line_items)

FusedHeader(det, cand, doc, n) ==
    IF cand[n].raw = None THEN det[n] ELSE _fuse_field(det[n], ground_candidate(n, cand[n], doc))
FusedLine(line, row) ==
    [n \in LineFields |-> IF n \in DOMAIN row THEN _fuse_field(line[n], row[n]) ELSE line[n]]
NoRow == [n \in {} |-> None]

\* The lines after association, and the issue when some row or line is left over.
FusedLines(lines, rows, assoc) ==
    [line_items |-> [k \in DOMAIN lines |->
                        FusedLine(lines[k], IF k \in DOMAIN assoc.map THEN rows[assoc.map[k]] ELSE NoRow)],
     issues |-> IF \/ \E i \in DOMAIN rows : assoc.reasons[i] # "associated"
                   \/ DOMAIN assoc.map # DOMAIN lines
                THEN {"ROW_ASSOCIATION_UNRESOLVED"} ELSE {}]
FuseRows(lines, rows, doc) == FusedLines(lines, rows, associate_rows(lines, rows, doc))

fuse_invoice(det, cand, doc) ==
    LET fused == FuseRows(det.line_items, GroundRows(cand, doc), doc)
    IN  [f \in HeaderFields \cup {"line_items", "issues"} |->
            IF f = "line_items" THEN fused.line_items
            ELSE IF f = "issues" THEN det.issues \cup fused.issues
            ELSE FusedHeader(det, cand, doc, f)]
=============================================================================
