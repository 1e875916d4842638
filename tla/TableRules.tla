----------------------------- MODULE TableRules -----------------------------
(***************************************************************************)
(* Line items read from printed tables: header detection, column ranges,   *)
(* the section loop with its footers, continuation rows, and the opt-in    *)
(* two-column grammar (table_layout.py, line_item_rules.py,                *)
(* line_coverage_candidate.py).                                            *)
(***************************************************************************)
EXTENDS Document

CONSTANTS
    Aliases,          \* column -> the header texts (sequences of tokens) that name it
    Chars(_),         \* the length of a sequence of tokens as text
    HasDigit,         \* the tokens with a digit
    Plain,            \* those of digits, commas and dots only
    CurrencyMark,     \* the tokens that mark a currency
    StrongFooter,     \* phrases that always end a table (subtotal, amount due ...)
    WeakFooter,       \* phrases that end it when no words follow (tax, discount ...)
    IgnoredStart,     \* phrases: page numbers, terms, bank details, signatures
    ProseEnding,      \* phrases: thank you, remit to ...
    TotalLabel,       \* the token "total"
    Money(_),         \* parse_money on a sequence of tokens
    MaxWrapGap,       \* 0.03 of the page: 30
    MinHeaderGap      \* 0.02 of the page: 20

Columns == <<"description", "quantity", "unit_price", "line_total">>
Score == [description |-> 2, quantity |-> 1, unit_price |-> 1, line_total |-> 2]

-----------------------------------------------------------------------------
(* Headers and column ranges *)

Windows(row) ==
    {v \in (1 .. Len(row.words)) \X (1 .. 3) : v[1] + v[2] - 1 <= Len(row.words)}
WindowWords(row, v) == SubSeq(row.words, v[1], v[1] + v[2] - 1)
AliasWindows(row, column) ==
    {v \in Windows(row) : Texts(WindowWords(row, v)) \in Aliases[column]}
Rank(row, v) == <<v[2], Chars(Texts(WindowWords(row, v)))>>

Anchor(row, column, v) ==
    LET box == union_bbox(WindowWords(row, v))
    IN  [column |-> column, bbox |-> box, center2 |-> CenterX2(box)]

\* The longest alias in the row, the first one on a tie.
BestWindow(row, column) ==
    CHOOSE v \in AliasWindows(row, column) :
        \A u \in AliasWindows(row, column) :
            \/ Precedes(Rank(row, u), Rank(row, v))
            \/ Rank(row, u) = Rank(row, v) /\ v[1] <= u[1]
HasAnchor(row, column) == AliasWindows(row, column) # {}
_best_anchor(row, column) == Anchor(row, column, BestWindow(row, column))

\* The anchors of a table header, from left to right; None when the row is none.
detect_table_header(row) ==
    LET found == SelectSeq(Columns, LAMBDA c : HasAnchor(row, c))
        anchors == Apply(LAMBDA c : _best_anchor(row, c), found)
    IN  IF /\ {"description", "line_total"} \subseteq ToSet(found)
           /\ {"quantity", "unit_price"} \cap ToSet(found) # {}
           /\ FoldLeft(LAMBDA n, c : n + Score[c], 0, found) >= 5
           /\ _best_anchor(row, "description").center2 < _best_anchor(row, "line_total").center2
        THEN SortBy(anchors, LAMBDA a : <<a.center2>>)
        ELSE None

\* A column reaches halfway to its neighbours.  Bounds are four times a
\* coordinate, so that midpoints of centres stay integers.
infer_column_ranges(anchors) ==
    [i \in DOMAIN anchors |->
        [column |-> anchors[i].column,
         lo4 |-> IF i = 1 THEN 0 ELSE anchors[i - 1].center2 + anchors[i].center2,
         hi4 |-> IF i = Len(anchors) THEN 4000 ELSE anchors[i].center2 + anchors[i + 1].center2]]

InRange(center4, ranges, i) ==
    \/ ranges[i].lo4 <= center4 /\ center4 < ranges[i].hi4
    \/ i = Len(ranges) /\ center4 = ranges[i].hi4

column_for_word(w, ranges) ==
    LET i == SelectInSeq([j \in DOMAIN ranges |-> j],
                         LAMBDA j : InRange(2 * CenterX2(w), ranges, j))
    IN  IF i = 0 THEN None ELSE ranges[i].column

-----------------------------------------------------------------------------
(* Rows of a table *)

Cell(row, ranges, column) ==
    SelectSeq(row.words, LAMBDA w : column_for_word(w, ranges) = column)

\* A row without a digit or a currency mark is text, whatever columns it spans.
AllText(row) ==
    \A w \in ToSet(row.words) : w.text \notin HasDigit /\ w.text \notin CurrencyMark

parse_table_row(row, ranges) ==
    LET wraps == Cell(row, ranges, "description") # <<>> /\ AllText(row)
        cell(c) == IF wraps THEN <<>> ELSE Cell(row, ranges, c)
    IN  [y0 |-> row.y0, y1 |-> row.y1,
         description |-> IF wraps THEN row.words ELSE Cell(row, ranges, "description"),
         quantity |-> cell("quantity"), unit_price |-> cell("unit_price"),
         line_total |-> cell("line_total"), continued |-> FALSE]

parse_money_cell(words) == IF words = <<>> THEN None ELSE Money(Texts(words))
parse_quantity(words) ==
    IF words = <<>> \/ \E w \in ToSet(words) : w.text \in CurrencyMark THEN None
    ELSE Money(Texts(words))

is_probable_line_item(r) ==
    /\ r.description # <<>>
    /\ \/ parse_money_cell(r.line_total) # None
       \/ parse_quantity(r.quantity) # None /\ parse_money_cell(r.unit_price) # None

_description_only(r) ==
    r.description # <<>> /\ r.quantity = <<>> /\ r.unit_price = <<>> /\ r.line_total = <<>>

_decimal_field(words, value, rule) ==
    IF value = None THEN MissingField
    ELSE Field("EXTRACTED", value, evidence_from_words(words), rule)

_to_invoice_line(r) ==
    [description |-> Field("EXTRACTED", Texts(r.description), evidence_from_words(r.description),
                           IF r.continued THEN "continuation" ELSE "column"),
     quantity |-> _decimal_field(r.quantity, parse_quantity(r.quantity), "quantity"),
     unit_price |-> _decimal_field(r.unit_price, parse_money_cell(r.unit_price), "unit_price"),
     line_total |-> _decimal_field(r.line_total, parse_money_cell(r.line_total), "line_total"),
     words |-> r.description \o r.quantity \o r.unit_price \o r.line_total]

_is_footer(row) ==
    LET text == Texts(row.words)
    IN  \/ StartsWith(text, StrongFooter)
        \/ /\ StartsWith(text, WeakFooter)
           /\ ToSet(RestAfter(text, WeakFooter)) \subseteq Plain \cup CurrencyMark
_is_ignored(row) == StartsWith(Texts(row.words), IgnoredStart)

-----------------------------------------------------------------------------
(* Continuation rows *)

\* The item a continuation row belongs to: the nearer of its neighbours, the
\* previous one on a tie; <<index, prepend>>, or None without any item.
ContinuationTarget(rows, valid, i) ==
    LET before == {v \in valid : v < i}
        after == {v \in valid : v > i}
        previous == Max(before)
        following == Min(after)
    IN  IF valid = {} THEN None
        ELSE IF before = {} THEN <<following, TRUE>>
        ELSE IF after = {} THEN <<previous, FALSE>>
        ELSE IF rows[following].y0 - rows[i].y1 < rows[i].y0 - rows[previous].y1
        THEN <<following, TRUE>> ELSE <<previous, FALSE>>

\* The words that continuation rows put before (or after) item v.
Attached(rows, valid, v, prepend) ==
    FlattenSeq([i \in DOMAIN rows |->
        IF _description_only(rows[i]) /\ ContinuationTarget(rows, valid, i) = <<v, prepend>>
        THEN rows[i].description ELSE <<>>])

_resolve_continuations(rows) ==
    LET valid == {i \in DOMAIN rows : is_probable_line_item(rows[i])}
        line(v) ==
            LET prefix == Attached(rows, valid, v, TRUE)
                suffix == Attached(rows, valid, v, FALSE)
            IN  _to_invoice_line([rows[v] EXCEPT
                    !.description = prefix \o rows[v].description \o suffix,
                    !.continued = prefix \o suffix # <<>>])
    IN  Apply(line, Ascending(valid))

-----------------------------------------------------------------------------
(* The section loop of the frozen parser *)

NoSection == [ranges |-> None, rows |-> <<>>, items |-> <<>>]
Open(st) == st.ranges # None
Flushed(st) == st.items \o (IF Open(st) THEN _resolve_continuations(st.rows) ELSE <<>>)

\* A header opens a section, a footer closes it, and the rows between are kept.
SectionStep(st, row) ==
    LET header == detect_table_header(row)
    IN  IF header # None
        THEN [ranges |-> infer_column_ranges(header), rows |-> <<>>, items |-> Flushed(st)]
        ELSE IF ~Open(st) THEN st
        ELSE IF _is_footer(row) THEN [ranges |-> None, rows |-> <<>>, items |-> Flushed(st)]
        ELSE IF _is_ignored(row) THEN st
        ELSE [st EXCEPT !.rows = Append(@, parse_table_row(row, st.ranges))]

LineItems(rows) ==
    FlattenSeq(Apply(LAMBDA p : Flushed(FoldLeft(SectionStep, NoSection, OnPage(rows, p))), Pages(rows)))
extract_line_items(words) == LineItems(reconstruct_visual_rows(words))

-----------------------------------------------------------------------------
(* The opt-in two-column grammar *)

Inside(w, box) == box.x0 <= w.x0 /\ w.x1 <= box.x1

\* The best anchor, unless the row names the column outside it too.
HasUniqueAnchor(row, column) ==
    /\ HasAnchor(row, column)
    /\ \A v \in AliasWindows(row, column) : \A w \in ToSet(WindowWords(row, v)) :
         Inside(w, _best_anchor(row, column).bbox)

detect_two_columns(row) ==
    LET description == _best_anchor(row, "description")
        total == _best_anchor(row, "line_total")
    IN  IF /\ \A w \in ToSet(row.words) : w.text \notin HasDigit
           /\ ~HasAnchor(row, "quantity") /\ ~HasAnchor(row, "unit_price")
           /\ HasUniqueAnchor(row, "description") /\ HasUniqueAnchor(row, "line_total")
           /\ total.bbox.x0 - description.bbox.x1 >= MinHeaderGap
           /\ \A w \in ToSet(row.words) : Inside(w, description.bbox) \/ Inside(w, total.bbox)
        THEN <<description, total>>
        ELSE None

detect_candidate_header(row) ==
    LET frozen == detect_table_header(row)
    IN  IF frozen # None THEN frozen ELSE detect_two_columns(row)

TwoColumns(ranges) == Len(ranges) = 2

candidate_row_is_probable(r, ranges) ==
    /\ TwoColumns(ranges) =>
         Cardinality({i \in DOMAIN r.line_total : Money(<<r.line_total[i].text>>) # None}) = 1
    /\ is_probable_line_item(r)

candidate_is_footer(row, ranges) ==
    LET text == Texts(row.words)
    IN  \/ _is_footer(row)
        \/ /\ TwoColumns(ranges)
           /\ \/ _is_ignored(row) \/ StartsWith(text, ProseEnding)
              \/ /\ text[1] = TotalLabel
                 /\ Len(text) = 1 \/ Money(Tail(text)) # None

\* In this grammar a continuation needs a unique item close by.
_resolve_two_column_section(rows, ranges) ==
    LET valid == {i \in DOMAIN rows : candidate_row_is_probable(rows[i], ranges)}
        gap(i, v) == IF v < i THEN rows[i].y0 - rows[v].y1 ELSE rows[v].y0 - rows[i].y1
        near(i) == {v \in valid : \A u \in valid : gap(i, v) <= gap(i, u)}
        kept(i) ==
            \/ i \in valid
            \/ /\ _description_only(rows[i]) /\ Cardinality(near(i)) = 1
               /\ \A v \in near(i) : gap(i, v) \in 0 .. MaxWrapGap
    IN  _resolve_continuations(
            Apply(LAMBDA i : rows[i], SelectSeq([i \in DOMAIN rows |-> i], kept)))

_flush_section(st) ==
    st.items \o
        IF ~Open(st) THEN <<>>
        ELSE IF TwoColumns(st.ranges) THEN _resolve_two_column_section(st.rows, st.ranges)
        ELSE _resolve_continuations(st.rows)

\* Mutant: a two-column header is honoured inside a frozen table too.
CandidateStepInside(st, row) ==
    LET header == detect_candidate_header(row)
    IN  IF header # None
        THEN [ranges |-> infer_column_ranges(header), rows |-> <<>>, items |-> _flush_section(st)]
        ELSE IF ~Open(st) THEN st
        ELSE IF candidate_is_footer(row, st.ranges)
        THEN [ranges |-> None, rows |-> <<>>, items |-> _flush_section(st)]
        ELSE IF _is_ignored(row) THEN st
        ELSE [st EXCEPT !.rows = Append(@, parse_table_row(row, st.ranges))]
CandidateStep(st, row) ==
    LET inside == Open(st) /\ ~TwoColumns(st.ranges)
        header == IF inside THEN detect_table_header(row) ELSE detect_candidate_header(row)
    IN  IF header # None
        THEN [ranges |-> infer_column_ranges(header), rows |-> <<>>, items |-> _flush_section(st)]
        ELSE IF ~Open(st) THEN st
        ELSE IF candidate_is_footer(row, st.ranges)
        THEN [ranges |-> None, rows |-> <<>>, items |-> _flush_section(st)]
        ELSE IF _is_ignored(row) THEN st
        ELSE [st EXCEPT !.rows = Append(@, parse_table_row(row, st.ranges))]

CandidateLineItems(rows) ==
    FlattenSeq(Apply(LAMBDA p : _flush_section(FoldLeft(CandidateStep, NoSection, OnPage(rows, p))),
                     Pages(rows)))
=============================================================================
