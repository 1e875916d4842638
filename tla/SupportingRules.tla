--------------------------- MODULE SupportingRules ---------------------------
(***************************************************************************)
(* Purchase orders and goods receipts read from documents (supporting.py). *)
(* Both read a table whose header names its columns; the purchase order    *)
(* also joins wrapped descriptions and refuses repeated line numbers.      *)
(***************************************************************************)
EXTENDS HeaderRules

CONSTANTS
    PoAliases, ReceiptAliases,     \* column -> header texts (sequences of tokens)
    PoFooter, ReceiptFooter,       \* phrases that end the table
    PoLabel, ReceiptLabel,         \* identifier labels (phrases)
    OtherLabel, OtherHeader,       \* phrases that start another field
    IdentToken,                    \* tokens of identifier characters
    JoinIdent(_),                  \* the identifier some tokens spell, or None
    PoDateLabel, ReceiptDateLabel, VendorLabel, BuyerLabel, SupplierLabel,
    LegacyPoLabel, LegacyReceiptLabel,      \* phrases
    MaxRowGap,                     \* 0.045 of the page: 45
    MaxWordGap, MaxLabelGap, Indent      \* 0.08, 0.45, 0.025: 80, 450, 25

-----------------------------------------------------------------------------
(* Labelled fields *)

\* The text after a label, or the following line unless it starts another field.
LabelledText(lines, i, label) ==
    LET rest == After(lines[i], label)
    IN  IF rest = None THEN <<>>
        ELSE IF rest # <<>> THEN <<Cand(rest, Ident(rest), Evidence1(lines, i), "labeled", 100)>>
        ELSE IF HasNext(lines, i) /\ ~StartsWith(LineText(lines[i + 1]), OtherLabel)
        THEN <<Cand(LineText(lines[i + 1]), Ident(LineText(lines[i + 1])), Evidence2(lines, i),
                    "labeled", 100)>>
        ELSE <<>>
_labeled_text(lines, label) ==
    resolve_candidates(FromLines(lines, LAMBDA i : LabelledText(lines, i, label)))

_labeled_date(lines, label) ==
    resolve_candidates(FromLines(lines, LAMBDA i :
        IF After(lines[i], label) = None THEN <<>>
        ELSE Beside(lines, i, After(lines[i], label), DateOf, Same, "date", <<100, 100>>)))

-----------------------------------------------------------------------------
(* Identifiers placed by layout *)

\* The longest label, of at most four words, that starts a row; 0 without one.
_identifier_label_length(words, labels) ==
    Max({0} \cup {n \in 1 .. 4 : n <= Len(words) /\ Texts(SubSeq(words, 1, n)) \in labels})

\* Up to three identifier words close together.
IdentWords(words) ==
    LET ok(n) == /\ \A i \in 1 .. n : words[i].text \in IdentToken
                 /\ \A i \in 2 .. n : words[i].x0 - words[i - 1].x1 <= MaxWordGap
    IN  SubSeq(words, 1, Max({n \in 0 .. 3 : n <= Len(words) /\ ok(n)}))

_identifier_value(words) ==
    LET chosen == IdentWords(words)
    IN  IF words = <<>> \/ chosen = <<>> THEN None
        ELSE IF StartsWith(Texts(words), OtherHeader) THEN None
        ELSE JoinIdent(Texts(chosen))

\* The words to the right of the label, or else the row just below it.
IdentifierWords(rows, i, labels) ==
    LET row == rows[i]
        n == _identifier_label_length(row.words, labels)
        first == row.words[1]
        last == row.words[n]
        beside == SelectSeq(SubSeq(row.words, n + 1, Len(row.words)), LAMBDA w : w.x0 >= last.x0)
        near == beside # <<>> /\ beside[1].x0 - last.x1 <= MaxLabelGap
        below == rows[i + 1]
    IN  IF near THEN beside
        ELSE IF /\ i < Len(rows) /\ below.page = row.page
                /\ below.y0 - row.y1 \in 0 .. MaxRowGap
                /\ below.words[1].x0 >= first.x0 - Indent
                /\ below.words[1].x0 - last.x1 <= MaxLabelGap
                /\ _identifier_label_length(below.words, labels) = 0
        THEN below.words ELSE <<>>

IdentifierCandidate(value) ==
    LET ident == _identifier_value(value)
    IN  IF ident = None THEN <<>>
        ELSE <<Cand(ident, Ident(<<ident>>), evidence_from_words(IdentWords(value)), "layout", 100)>>
LayoutCandidates(rows, labels) ==
    FlattenSeq([i \in DOMAIN rows |->
        IF _identifier_label_length(rows[i].words, labels) = 0 THEN <<>>
        ELSE IdentifierCandidate(IdentifierWords(rows, i, labels))])
_layout_identifier(words, labels) ==
    resolve_candidates(LayoutCandidates(reconstruct_visual_rows(words), labels))

-----------------------------------------------------------------------------
(* Table headers and cells *)

\* Where a column name first appears, trying two words before one at each word;
\* four times its centre, or None.
HeaderAt(row, aliases) ==
    LET segment(i, n) == SubSeq(row.words, i, Min({i + n - 1, Len(row.words)}))
        hits == {i \in DOMAIN row.words : \E n \in {1, 2} : Texts(segment(i, n)) \in aliases}
        i == Min(hits)
        seg == IF Texts(segment(i, 2)) \in aliases THEN segment(i, 2) ELSE segment(i, 1)
    IN  IF hits = {} THEN None
        ELSE IF Len(seg) = 2 THEN CenterX2(seg[1]) + CenterX2(seg[2])
        ELSE 2 * CenterX2(seg[1])

Anchors(row, aliases) == {c \in DOMAIN aliases : HeaderAt(row, aliases[c]) # None}

_po_header_anchors(row) ==
    LET found == Anchors(row, PoAliases)
    IN  IF {"description", "line_total"} \subseteq found /\ {"quantity", "unit_price"} \cap found # {}
        THEN found ELSE {}
_header_anchors(row) ==
    LET found == Anchors(row, ReceiptAliases)
    IN  IF "description" \in found /\ {"received_quantity", "accepted_quantity"} \cap found # {}
        THEN found ELSE {}

ColumnOrder ==
    <<"line_number", "description", "quantity", "unit_price", "line_total", "received_quantity",
      "accepted_quantity", "rejected_quantity">>

\* The columns with their bounds, eight times a coordinate: halfway between
\* neighbouring headers.
Boundaries(row, found, aliases) ==
    LET at(c) == HeaderAt(row, aliases[c])
        order == SortBy(SelectSeq(ColumnOrder, LAMBDA c : c \in found), LAMBDA c : <<at(c)>>)
    IN  [i \in DOMAIN order |->
            [column |-> order[i],
             lo8 |-> IF i = 1 THEN 0 ELSE at(order[i - 1]) + at(order[i]),
             hi8 |-> IF i = Len(order) THEN 8000 ELSE at(order[i]) + at(order[i + 1])]]

\* Each word goes to the first column whose closed range holds its centre.
ColumnOf(w, bounds) ==
    LET i == SelectInSeq(bounds, LAMBDA b : b.lo8 <= 4 * CenterX2(w) /\ 4 * CenterX2(w) <= b.hi8)
    IN  IF i = 0 THEN None ELSE bounds[i].column
CellOf(row, bounds, column) == SelectSeq(row.words, LAMBDA w : ColumnOf(w, bounds) = column)

ColumnField(words, value) ==
    IF value = None THEN MissingField
    ELSE Field("EXTRACTED", value, evidence_from_words(words), "column")
NumberField(row, bounds, column) ==
    ColumnField(CellOf(row, bounds, column), parse_money_cell(CellOf(row, bounds, column)))
TextField(row, bounds, column) ==
    LET words == CellOf(row, bounds, column)
    IN  ColumnField(words, IF words = <<>> THEN None ELSE Texts(words))

-----------------------------------------------------------------------------
(* Purchase-order lines *)

PoNumbers == {"quantity", "unit_price", "line_total"}
NoPoTable == [bounds |-> <<>>, lines |-> <<>>, page |-> -1, y1 |-> 0]

PoLine(row, bounds) ==
    LET number == CellOf(row, bounds, "line_number")
    IN  [line_number |->
            ColumnField(number, IF number = <<>> THEN None ELSE Ident(Texts(number))),
         description |-> TextField(row, bounds, "description"),
         ordered_quantity |-> NumberField(row, bounds, "quantity"),
         unit_price |-> NumberField(row, bounds, "unit_price"),
         line_total |-> NumberField(row, bounds, "line_total")]

Wrapped(line, words) ==
    [line EXCEPT !.description =
        Field("EXTRACTED", @.value \o Texts(words), @.evidence \cup evidence_from_words(words),
              "wrapped")]

\* One row of the document: a header, a footer, a wrapped description, an item,
\* or a row that is skipped because its numbers cannot be read.
PoStep(st, row) ==
    LET header == _po_header_anchors(row)
        cell(c) == CellOf(row, st.bounds, c)
        description == cell("description")
        wraps == /\ description # <<>> /\ cell("line_number") = <<>>
                 /\ \A c \in PoNumbers : cell(c) = <<>>
        close == /\ st.lines # <<>> /\ row.page = st.page
                 /\ row.y0 - st.y1 \in 0 .. MaxRowGap
        readable == /\ description # <<>>
                    /\ \E c \in PoNumbers : parse_money_cell(cell(c)) # None
                    /\ \A c \in PoNumbers : cell(c) # <<>> => parse_money_cell(cell(c)) # None
    IN  IF header # {} THEN [st EXCEPT !.bounds = Boundaries(row, header, PoAliases)]
        ELSE IF st.bounds = <<>> THEN st
        ELSE IF StartsWith(Texts(row.words), PoFooter) THEN [st EXCEPT !.bounds = <<>>]
        ELSE IF wraps
        THEN IF close
             THEN [st EXCEPT !.lines = Front(@) \o <<Wrapped(Last(@), description)>>,
                             !.y1 = row.y1]
             ELSE st
        ELSE IF readable
        THEN [st EXCEPT !.lines = Append(@, PoLine(row, st.bounds)),
                        !.page = row.page, !.y1 = row.y1]
        ELSE st

Repeated(lines, i) ==
    /\ lines[i].line_number.value # None
    /\ \E j \in DOMAIN lines : j # i /\ lines[j].line_number.value = lines[i].line_number.value

\* Lines that print the same number all lose it.
WithoutRepeats(lines) ==
    [i \in DOMAIN lines |->
        IF Repeated(lines, i)
        THEN [lines[i] EXCEPT !.line_number = Field("AMBIGUOUS", None, @.evidence, "duplicate")]
        ELSE lines[i]]
_purchase_order_rows(words) ==
    WithoutRepeats(FoldLeft(PoStep, NoPoTable, reconstruct_visual_rows(words)).lines)

PurchaseOrderFromLines(lines, po_lines, number) ==
    [po_number |-> number, issue_date |-> _labeled_date(lines, PoDateLabel),
     vendor |-> _labeled_text(lines, VendorLabel), buyer |-> _labeled_text(lines, BuyerLabel),
     currency |-> extract_currency(lines), subtotal |-> extract_subtotal(lines),
     tax |-> extract_tax(lines), total |-> extract_total(lines), line_items |-> po_lines]

extract_purchase_order(words) ==
    PurchaseOrderFromLines(reconstruct_lines(words), _purchase_order_rows(words),
                           _layout_identifier(words, PoLabel))

\* The historical extractor: invoice-style lines, with line numbers only when
\* there are as many.
LegacyStep(st, row) ==
    LET header == _po_header_anchors(row)
        cell(c) == CellOf(row, st.bounds, c)
    IN  IF "line_number" \in header
        THEN [st EXCEPT !.bounds = Boundaries(row, header, PoAliases)]
        ELSE IF st.bounds = <<>> THEN st
        ELSE IF StartsWith(Texts(row.words), PoFooter) THEN [st EXCEPT !.bounds = <<>>]
        ELSE IF /\ cell("line_number") # <<>> /\ cell("description") # <<>>
                /\ \E c \in PoNumbers : parse_money_cell(cell(c)) # None
        THEN [st EXCEPT !.lines = Append(@, PoLine(row, st.bounds).line_number)]
        ELSE st
_legacy_purchase_order_line_numbers(words) ==
    FoldLeft(LegacyStep, NoPoTable, reconstruct_visual_rows(words)).lines

LegacyLines(items, numbers) ==
    [i \in DOMAIN items |->
        [line_number |-> IF Len(numbers) = Len(items) THEN numbers[i] ELSE MissingField,
         description |-> items[i].description, ordered_quantity |-> items[i].quantity,
         unit_price |-> items[i].unit_price, line_total |-> items[i].line_total]]
extract_purchase_order_v1(words) ==
    LET lines == reconstruct_lines(words)
    IN  PurchaseOrderFromLines(lines,
            LegacyLines(extract_line_items(words), _legacy_purchase_order_line_numbers(words)),
            _labeled_text(lines, LegacyPoLabel))

-----------------------------------------------------------------------------
(* Goods receipts *)

ReceiptNumbers == {"received_quantity", "accepted_quantity", "rejected_quantity"}
NoReceiptTable == [bounds |-> <<>>, lines |-> <<>>]

ReceiptStep(st, row) ==
    LET header == _header_anchors(row)
        number(c) == NumberField(row, st.bounds, c)
    IN  IF header # {} THEN [st EXCEPT !.bounds = Boundaries(row, header, ReceiptAliases)]
        ELSE IF st.bounds = <<>> THEN st
        ELSE IF StartsWith(Texts(row.words), ReceiptFooter) THEN [st EXCEPT !.bounds = <<>>]
        ELSE IF /\ CellOf(row, st.bounds, "description") # <<>>
                /\ \E c \in ReceiptNumbers : number(c) # MissingField
        THEN [st EXCEPT !.lines = Append(@,
                 [description |-> TextField(row, st.bounds, "description"),
                  received_quantity |-> number("received_quantity"),
                  accepted_quantity |-> number("accepted_quantity"),
                  rejected_quantity |-> number("rejected_quantity")])]
        ELSE st
_receipt_rows(words) ==
    FoldLeft(ReceiptStep, NoReceiptTable, reconstruct_visual_rows(words)).lines

ReceiptFromLines(words, lines, legacy) ==
    [receipt_number |-> IF legacy THEN _labeled_text(lines, LegacyReceiptLabel)
                        ELSE _layout_identifier(words, ReceiptLabel),
     referenced_po_number |-> IF legacy THEN _labeled_text(lines, LegacyPoLabel)
                              ELSE _layout_identifier(words, PoLabel),
     received_date |-> _labeled_date(lines, ReceiptDateLabel),
     supplier |-> _labeled_text(lines, SupplierLabel),
     line_items |-> _receipt_rows(words)]
_extract_goods_receipt(words, legacy) == ReceiptFromLines(words, reconstruct_lines(words), legacy)
extract_goods_receipt(words) == _extract_goods_receipt(words, FALSE)
extract_goods_receipt_v1(words) == _extract_goods_receipt(words, TRUE)
=============================================================================
