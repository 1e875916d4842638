------------------------------ MODULE Scoring ------------------------------
(***************************************************************************)
(* How extracted invoices are scored against their ground truth:           *)
(* EvaluationRunner (evaluation/runner.py), align_line_items               *)
(* (evaluation/matching.py), calculate_metrics (evaluation/metrics.py) and *)
(* the exact lines of mode_counts (evaluation/hybrid_live.py).             *)
(*                                                                         *)
(* A line has the four LINE_FIELDS and a document its HEADER_FIELDS; a     *)
(* field that is not labelled, or not extracted, is None.                  *)
(***************************************************************************)
EXTENDS Integers, FiniteSets, SequencesExt

CONSTANTS None

LINE_FIELDS == {"description", "quantity", "unit_price", "line_total"}
HEADER_FIELDS == {"invoice_number", "invoice_date", "currency", "subtotal", "tax", "total"}

\* A printed value is what it denotes and how it is written, <<10, "10.00">>:
\* canonical_value keeps the first.
canonical_value(v) == IF v = None THEN None ELSE v[1]
Agree(truth, predicted) == canonical_value(truth) = canonical_value(predicted)

line_item_pair_score(truth, line) ==
    Cardinality({f \in LINE_FIELDS : truth[f] # None /\ Agree(truth[f], line[f])})
is_exact_line_item(truth, line) == \A f \in LINE_FIELDS : Agree(truth[f], line[f])

-----------------------------------------------------------------------------
(* align_line_items: order-preserving dynamic programming *)

Pair(truth, lines, i, j) ==
    [truth |-> i, line |-> j, score |-> line_item_pair_score(truth[i], lines[j]),
     exact |-> is_exact_line_item(truth[i], lines[j])]

\* _State.rank: total score, then exact pairs, then pairs, compared in this order.
RankOf(pairs) ==
    <<FoldLeft(LAMBDA n, p : n + p.score, 0, pairs),
      Len(SelectSeq(pairs, LAMBDA p : p.exact)), Len(pairs)>>
Below(a, b) ==
    \/ a[1] < b[1]
    \/ a[1] = b[1] /\ a[2] < b[2]
    \/ a[1] = b[1] /\ a[2] = b[2] /\ a[3] < b[3]

\* max: the first of the best.
Better(a, b) == IF Below(RankOf(a), RankOf(b)) THEN b ELSE a

\* Mutant of Cell: a match is taken as soon as there is one.
CellGreedy(table, c, pair) ==
    IF pair.score > 0 THEN Append(table[<<c[1] - 1, c[2] - 1>>], pair)
    ELSE Better(table[<<c[1] - 1, c[2]>>], table[<<c[1], c[2] - 1>>])

\* One cell of the table from the three before it.
Cell(table, c, pair) ==
    LET skip == Better(table[<<c[1] - 1, c[2]>>], table[<<c[1], c[2] - 1>>])
    IN  IF pair.score > 0 THEN Better(skip, Append(table[<<c[1] - 1, c[2] - 1>>], pair))
        ELSE skip

align_line_items(truth, lines) ==
    LET m == Len(lines)
        cells == [k \in 1 .. Len(truth) * m |-> <<1 + ((k - 1) \div m), 1 + ((k - 1) % m)>>]
        empty == [c \in (0 .. Len(truth)) \X (0 .. m) |-> <<>>]
        table == FoldLeft(LAMBDA t, c : [t EXCEPT ![c] = Cell(t, c, Pair(truth, lines, c[1], c[2]))],
                          empty, cells)
    IN  table[<<Len(truth), m>>]

-----------------------------------------------------------------------------
(* calculate_metrics *)

Total(Of(_), results) == FoldLeft(LAMBDA n, r : n + Of(r), 0, results)
CountOf(Is(_), results) == Len(SelectSeq(results, Is))
Lines(r) == IF r.invoice = None THEN <<>> ELSE r.invoice.line_items
PairsOf(results) ==
    [k \in DOMAIN results |-> align_line_items(results[k].truth.line_items, Lines(results[k]))]

HeaderCounts(results, f) ==
    LET labeled == SelectSeq(results, LAMBDA r : r.truth[f] # None)
        extracted == SelectSeq(labeled, LAMBDA r : r.invoice # None /\ r.invoice[f] # None)
    IN  [labeled |-> Len(labeled), extracted |-> Len(extracted),
         correct |-> CountOf(LAMBDA r : Agree(r.truth[f], r.invoice[f]), extracted)]

\* What is read on the line that a truth line is paired with, if there is one.
Read(pairs, lines, i, f) ==
    LET k == SelectInSeq(pairs, LAMBDA p : p.truth = i)
    IN  IF k = 0 THEN None ELSE lines[pairs[k].line][f]

\* Values read where the truth has none, or another, on paired and unpaired lines.
Spurious(truth, lines, pairs, read, right, f) ==
    LET unpaired == DOMAIN lines \ {pairs[k].line : k \in DOMAIN pairs}
    IN  Cardinality({i \in DOMAIN truth \ right : read[i] # None})
          + Cardinality({j \in unpaired : lines[j][f] # None})

FieldCounts(truth, lines, pairs, f) ==
    LET read == [i \in DOMAIN truth |-> Read(pairs, lines, i, f)]
        labeled == {i \in DOMAIN truth : truth[i][f] # None}
        right == {i \in labeled : read[i] # None /\ Agree(truth[i][f], read[i])}
    IN  [labeled |-> Cardinality(labeled), tp |-> Cardinality(right),
         fn |-> Cardinality(labeled \ right),
         fp |-> Spurious(truth, lines, pairs, read, right, f)]

LineCounts(results, pairs, f) ==
    LET each == [k \in DOMAIN results |->
                   FieldCounts(results[k].truth.line_items, Lines(results[k]), pairs[k], f)]
    IN  [c \in {"labeled", "tp", "fn", "fp"} |-> Total(LAMBDA n : n[c], each)]

Metrics(results, pairs) ==
    [attempted |-> Len(results),
     schema_valid |-> CountOf(LAMBDA r : r.schema_valid, results),
     headers |-> [f \in HEADER_FIELDS |-> HeaderCounts(results, f)],
     truth_items |-> Total(LAMBDA r : Len(r.truth.line_items), results),
     predicted_items |-> Total(LAMBDA r : Len(Lines(r)), results),
     exact_tp |-> Total(LAMBDA ps : CountOf(LAMBDA p : p.exact, ps), pairs),
     per_field |-> [f \in LINE_FIELDS |-> LineCounts(results, pairs, f)],
     errors |-> [e \in {results[k].error_code : k \in DOMAIN results} \ {None} |->
                   CountOf(LAMBDA r : r.error_code = e, results)],
     ocr_documents |-> CountOf(LAMBDA r : r.used_ocr, results)]
calculate_metrics(results) == Metrics(results, PairsOf(results))

calculate_tagged_slices(results) ==
    [tag \in UNION {results[k].tags : k \in DOMAIN results} |->
       calculate_metrics(SelectSeq(results, LAMBDA r : tag \in r.tags))]

-----------------------------------------------------------------------------
(* EvaluationRunner *)

\* An example names the outcome of reading its document: the invoice, or the
\* error that reading, extraction or validation raised.
_evaluate(e) ==
    [truth |-> e.truth, tags |-> e.tags,
     invoice |-> IF e.error = None THEN e.invoice ELSE None,
     schema_valid |-> e.error = None,
     used_ocr |-> IF e.error = None THEN e.scanned ELSE e.error = "ocr_unavailable",
     error_code |-> e.error]

\* Nothing is evaluated when the holdout is not allowed, or OCR is missing and an
\* example needs it.
RunRefused(o) ==
    \/ o.split = "holdout" /\ ~o.allow_holdout
    \/ ~o.ocr_available /\ \E k \in DOMAIN o.examples : "source=ocr" \in o.examples[k].tags

-----------------------------------------------------------------------------
(* mode_counts: exact rows are a multiset *)

\* Every line, in order, uses up the first exact truth line that is left.
ExactLines(truth, lines) ==
    LET Step(st, line) ==
          LET k == SelectInSeq(st.unused, LAMBDA t : is_exact_line_item(t, line))
          IN  IF k = 0 THEN st
              ELSE [exact |-> st.exact + 1, unused |-> RemoveAt(st.unused, k)]
    IN  FoldLeft(Step, [exact |-> 0, unused |-> truth], lines).exact
=============================================================================
