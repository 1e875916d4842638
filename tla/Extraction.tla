----------------------------- MODULE Extraction -----------------------------
(***************************************************************************)
(* The extraction pipeline driven over bounded documents: a document is    *)
(* chosen in the initial state and each action runs one stage of the       *)
(* pipeline on it, from the words of the page to the result merged with    *)
(* the answer of a model, if one is asked.                                 *)
(***************************************************************************)
EXTENDS TotalGuards, SupportingRules, Fusion, SupportingFusion

CONSTANTS
    Layouts,             \* words in the order the text source gave them
    TableDocs, HeaderDocs, OrderDocs, ReceiptDocs,    \* word sequences
    Quotes,              \* [field, cand, doc]
    InvoiceAnswers,      \* the model's answers for each invoice
    SupportingAnswers,   \* the model's answers for each [doc, role]
    PrintedAmounts       \* [amount, group, point]

VARIABLES
    input,               \* the document
    out                  \* the stage that ran and its result

vars == <<input, out>>

Amounts == INSTANCE Amounts

NoResult == [ran |-> "nothing"]

Init ==
    /\ \/ \E c \in DOMAIN SupportingAnswers : input = [kind |-> "supporting", case |-> c]
       \/ \E d \in DOMAIN InvoiceAnswers : input = [kind |-> "invoice", case |-> [doc |-> d]]
       \/ \E d \in HeaderDocs : input = [kind |-> "header", words |-> d]
       \/ \E d \in Layouts : input = [kind |-> "layout", words |-> d]
       \/ \E d \in TableDocs : input = [kind |-> "table", words |-> d]
       \/ \E d \in OrderDocs : input = [kind |-> "order", words |-> d]
       \/ \E d \in ReceiptDocs : input = [kind |-> "receipt", words |-> d]
       \/ \E q \in Quotes : input = [kind |-> "quote", q |-> q]
       \/ \E p \in PrintedAmounts : input = [kind |-> "amount", printed |-> p]
    /\ out = NoResult

Ready(kind) == input.kind = kind /\ out = NoResult

ReadRows ==
    /\ Ready("layout")
    /\ out' = [ran |-> "layout", rows |-> reconstruct_visual_rows(input.words)]
    /\ UNCHANGED input

ReadAmount ==
    /\ Ready("amount")
    /\ LET p == input.printed
       IN  out' = [ran |-> "amount",
                   value |-> Amounts!parse_money(Amounts!Printed(p.amount, p.group, p.point))]
    /\ UNCHANGED input

\* The frozen parser and the one with the two-column grammar.
ReadTable ==
    /\ Ready("table")
    /\ LET rows == reconstruct_visual_rows(input.words)
       IN  out' = [ran |-> "table", rows |-> rows, frozen |-> LineItems(rows),
                   wide |-> CandidateLineItems(rows)]
    /\ UNCHANGED input

ReadHeader ==
    /\ Ready("header")
    /\ out' = [ran |-> "header", inv |-> extract(input.words),
               rows |-> reconstruct_visual_rows(input.words)]
    /\ UNCHANGED input

\* The total under both guards and with narrowed evidence.
GuardTotal ==
    LET total == out.inv.total
    IN  /\ out.ran = "header"
        /\ out' = [ran |-> "guarded", rows |-> out.rows, total |-> total,
                   guarded |-> guard_total(total, out.rows),
                   role |-> role_guard_total(total, out.rows),
                   local |-> localize_header_value(total, input.words,
                                                   LAMBDA text : Money(text) = total.value)]
        /\ UNCHANGED input

ReadOrder ==
    /\ Ready("order")
    /\ out' = [ran |-> "order", rows |-> reconstruct_visual_rows(input.words),
               now |-> extract_purchase_order(input.words),
               v1 |-> extract_purchase_order_v1(input.words)]
    /\ UNCHANGED input

ReadReceipt ==
    /\ Ready("receipt")
    /\ out' = [ran |-> "receipt", now |-> extract_goods_receipt(input.words),
               v1 |-> extract_goods_receipt_v1(input.words)]
    /\ UNCHANGED input

GroundQuote ==
    /\ Ready("quote")
    /\ out' = [ran |-> "quote",
               result |-> ground_candidate(input.q.field, input.q.cand, input.q.doc)]
    /\ UNCHANGED input

\* Deterministic extraction, then routing and, when routed, fusion with whatever
\* the model answers.
ReadInvoice ==
    /\ Ready("invoice")
    /\ out' = [ran |-> "read", rows |-> reconstruct_visual_rows(input.case.doc.words),
               det |-> extract(input.case.doc.words) @@ [issues |-> {}]]
    /\ UNCHANGED input
FuseInvoice ==
    /\ input.kind = "invoice" /\ out.ran = "read"
    /\ LET doc == input.case.doc
           routed == route_extraction(out.det, doc) # {}
       IN  \E cand \in IF routed THEN InvoiceAnswers[doc] ELSE {None} :
             out' = [ran |-> "invoice", rows |-> out.rows, det |-> out.det, cand |-> cand,
                     fused |-> IF routed THEN fuse_invoice(out.det, cand, doc) ELSE out.det]
    /\ UNCHANGED input

ReadSupporting ==
    /\ Ready("supporting")
    /\ out' = [ran |-> "read", rows |-> reconstruct_visual_rows(input.case.doc.words),
               det |-> IF input.case.role = "PURCHASE_ORDER"
                       THEN extract_purchase_order(input.case.doc.words)
                       ELSE extract_goods_receipt(input.case.doc.words)]
    /\ UNCHANGED input
FuseSupporting ==
    /\ input.kind = "supporting" /\ out.ran = "read"
    /\ LET c == input.case
           routed == route_supporting(out.det, c.doc, c.role) # {}
       IN  \E cand \in IF routed THEN SupportingAnswers[c] ELSE {None} :
             out' = [ran |-> "supporting", rows |-> out.rows, det |-> out.det, cand |-> cand,
                     fused |-> IF routed THEN fuse_supporting(out.det, cand, c.doc, c.role)
                               ELSE out.det]
    /\ UNCHANGED input

Next ==
    \/ ReadRows \/ ReadAmount \/ ReadTable \/ ReadHeader \/ GuardTotal \/ ReadOrder \/ ReadReceipt
    \/ GroundQuote \/ ReadInvoice \/ FuseInvoice \/ ReadSupporting \/ FuseSupporting
Spec == Init /\ [][Next]_vars

-----------------------------------------------------------------------------
(* Words and rows *)

Shuffled(s, p) == [i \in DOMAIN s |-> s[p[i]]]

\* The order in which PyMuPDF or the OCR engine lists the words of a page does
\* not matter: in any order they form the same rows, and every word is in one.
RowsStable ==
    out.ran = "layout" =>
        /\ \A p \in Permutations(DOMAIN input.words) :
             reconstruct_visual_rows(Shuffled(input.words, p)) = out.rows
        /\ LET placed == FlattenSeq(Apply(LAMBDA r : r.words, out.rows))
           IN  Len(placed) = Len(input.words) /\ ToSet(placed) = ToSet(input.words)

\* An amount printed with either decimal convention is read back as printed,
\* except when its only mark can be taken either way: one dot is always a
\* decimal point and one comma before three digits never is, so 1.234 and
\* 1,234 printed by the other convention are read by this one.
AmountsReadBack ==
    out.ran = "amount" =>
        LET p == input.printed
            int == p.amount.int
            frac == p.amount.frac
            grouped == p.group # "none" /\ Len(int) > 3
        IN  IF frac = <<>> /\ p.group = "." /\ Len(int) \in 4 .. 6
            THEN out.value = Amounts!Amount(SubSeq(int, 1, Len(int) - 3),
                                            SubSeq(int, Len(int) - 2, Len(int)), p.amount.negative)
            ELSE IF Len(frac) = 3 /\ p.point = "," /\ ~grouped
            THEN out.value = Amounts!Amount(int \o frac, <<>>, p.amount.negative)
            ELSE out.value = p.amount

\* A page is read as printed, whatever the order and convention of its text.
PageReadAsPrinted == RowsStable /\ AmountsReadBack

-----------------------------------------------------------------------------
(* Line items *)

EvidenceWords(f) == SelectSeq(input.words, LAMBDA w : InEvidence(w, f.evidence))
ItemWords(items) == FlattenSeq(Apply(LAMBDA item : item.words, items))

\* No printed word is used by two line items or twice by one, whatever headers
\* repeat and wherever continuation rows attach, in either parser.
WordsUsedOnce ==
    out.ran = "table" =>
        \A items \in {out.frozen, out.wide} : IsInjective(ItemWords(items))

\* Line items come only from rows between a table header and the next footer.
ItemsInsideTables ==
    out.ran = "table" =>
        LET rows == out.rows
            inside(i) ==
                \E h \in 1 .. i - 1 :
                    /\ detect_table_header(rows[h]) # None
                    /\ \A k \in h .. i : rows[k].page = rows[h].page /\ ~_is_footer(rows[k])
        IN  \A i \in DOMAIN rows :
              ToSet(rows[i].words) \cap ToSet(ItemWords(out.frozen)) # {} => inside(i)

\* The two-column grammar only adds lines: every line of the frozen parser is
\* still there, unchanged.
FrozenLinesKept ==
    out.ran = "table" => ToSet(out.frozen) \subseteq ToSet(out.wide)

\* The two-column grammar never runs two amounts together: in the cell that a
\* line it adds takes its total from, one word is an amount by itself, and the
\* total is what the cell reads.  (A word that is no amount may still belong to
\* the number: "1," and "200" are read as 1200.)
AddedTotalsPrinted ==
    out.ran = "table" =>
        \A item \in ToSet(out.wide) \ ToSet(out.frozen) :
            \E s \in item.line_total.evidence :
                /\ Money(s.text) = item.line_total.value
                /\ Cardinality({i \in DOMAIN s.text : Money(<<s.text[i]>>) # None}) = 1
                /\ \E r \in ToSet(out.rows) : ToSet(EvidenceWords(item.line_total)) \subseteq ToSet(r.words)

-----------------------------------------------------------------------------
(* Header fields and the guards of the total *)

\* The texts that the amount of a label on line i may end: the line after the
\* label and the next line of the page.
Reach(lines, i, label) ==
    {RestAfter(LineText(lines[i]), label)}
      \cup (IF HasNext(lines, i) THEN {LineText(lines[i + 1])} ELSE {})
Readable(lines, i, label) ==
    \E text \in Reach(lines, i, label) : _money_from_text(text) # None

\* A header amount belongs to the strongest label on the document: some line
\* starts with a label, its text or the next line ends in the amount (before a
\* bar or at its end), the line is evidence, and no line with a stronger label
\* has an amount within reach.  A subtotal or tax line never gives the total.
AmountBesideLabel ==
    out.ran = "header" =>
        \A v \in {<<"total", TotalLabels, NotTotal>>, <<"subtotal", SubtotalLabels, {}>>,
                  <<"tax", TaxLabels, {}>>} :
            LET f == out.inv[v[1]]
                lines == reconstruct_lines(input.words)
                labelled(i, k) ==
                    StartsWith(LineText(lines[i]), v[2][k][2]) /\ ~StartsWith(LineText(lines[i]), v[3])
            IN  IsExtracted(f) =>
                \E i \in DOMAIN lines, k \in DOMAIN v[2] :
                    /\ labelled(i, k)
                    /\ ToSet(lines[i].words) \subseteq ToSet(EvidenceWords(f))
                    /\ \E text \in Reach(lines, i, v[2][k][2]) : \E b, e \in DOMAIN text :
                         /\ e = Len(text) \/ text[e + 1] \in Bar
                         /\ Money(<<NumberTail(text[b])>> \o SubSeq(text, b + 1, e)) = f.value
                    /\ \A j \in DOMAIN lines, l \in 1 .. k - 1 :
                         labelled(j, l) => ~Readable(lines, j, v[2][l][2])

\* The summary guard keeps the value or abstains; a value it keeps is printed
\* once in the evidence, and on a row of several amounts only directly after
\* the one gross label of the row.
GuardKeepsOrAbstains ==
    out.ran = "guarded" /\ IsExtracted(out.guarded) =>
        LET total == out.total
            places == Bound(total, out.rows)
        IN  /\ out.guarded.value = total.value
            /\ Cardinality(places) = 1
            /\ \A at \in places :
                 \/ ~GenericTotal(total)
                 \/ Cardinality(_money_spans(at.row.words)) = 1
                 \/ LET gross == RolesOf(at.row, GrossRole)
                    IN  /\ Len(gross) = 1 /\ gross[1].x1 <= at.words[1].x0
                        /\ \A w \in ToSet(at.row.words) :
                             gross[1].x1 <= w.x0 /\ w.x0 < at.words[1].x0 => w.text \notin HasDigit

\* The role guard answers for a payable amount only with the gross amount: one
\* row within twelve text heights of the payable row speaks of a gross amount,
\* and that row, a gross label and the reported value, is the evidence.
PayableNeedsGross ==
    out.ran = "guarded" /\ IsExtracted(out.role) =>
        \A at \in Bound(out.total, out.rows) :
            PayableRule(out.total) \/ Payable \in ToSet(Texts(at.row.words)) =>
                LET near == {r \in ToSet(out.rows) :
                               /\ r.page = at.row.page /\ MentionsGross(r)
                               /\ Gap(RowCenter2(r), RowCenter2(at.row)) <= 12 * RowHeight2(at.row)}
                IN  \E r \in near :
                      /\ near = {r} /\ out.role.evidence = evidence_from_words(r.words)
                      /\ \E k \in DOMAIN r.words :
                           /\ Texts(SubSeq(r.words, 1, k)) \in GrossLabel
                           /\ Money(Texts(SubSeq(r.words, k + 1, Len(r.words)))) = out.role.value

\* Narrowed evidence still proves the value: it lies inside the original
\* evidence, reads as the value, and the value is printed nowhere else in it.
NarrowedEvidenceProves ==
    out.ran = "guarded" /\ IsExtracted(out.local) =>
        LET total == out.total
            local == out.local
        IN  local.evidence # total.evidence =>
              /\ Money(Texts(EvidenceWords(local))) = total.value
              /\ ToSet(EvidenceWords(local)) \subseteq ToSet(EvidenceWords(total))
              /\ Len(EvidenceWords(local)) = 1 =>
                   \A w \in ToSet(EvidenceWords(total)) :
                     Money(<<w.text>>) = total.value => w \in ToSet(EvidenceWords(local))

\* A reported amount has its label, a total survives the guards only if it is
\* the gross amount, and keeps evidence that proves it.
TotalsProven ==
    /\ AmountBesideLabel /\ GuardKeepsOrAbstains
    /\ PayableNeedsGross /\ NarrowedEvidenceProves

-----------------------------------------------------------------------------
(* Purchase orders and receipts *)

\* A line number the extractor stands by is printed on one line only, also when
\* a number repeats under a second header or after a page break.
LineNumbersUnique ==
    out.ran = "order" =>
        LET lines == out.now.line_items
        IN  \A i, j \in DOMAIN lines :
              i # j /\ IsExtracted(lines[i].line_number) =>
                \A s \in lines[j].line_number.evidence : Ident(s.text) # lines[i].line_number.value

\* A quantity of a receipt stands on the row of its description and belongs to
\* the column whose label, in the last header above, is the nearest; a label
\* may be repeated and the table may go on over a page break.
QuantitiesUnderLabel ==
    out.ran = "receipt" =>
        LET rows == reconstruct_visual_rows(input.words)
            on(s) == {i \in DOMAIN rows : \E w \in ToSet(rows[i].words) : InEvidence(w, {s})}
            headers(i) == {h \in 1 .. i - 1 : _header_anchors(rows[h]) # {}}
        IN  \A line \in ToSet(out.now.line_items) :
              \A n \in ReceiptNumbers : \A s \in line[n].evidence : \A i \in on(s) :
                LET h == rows[Max(headers(i))]
                    away(c) == Gap(HeaderAt(h, ReceiptAliases[c]), 2 * CenterX2(s.bbox))
                IN  /\ \A d \in line.description.evidence : i \in on(d)
                    /\ headers(i) # {} /\ n \in _header_anchors(h)
                    /\ \A c \in _header_anchors(h) : away(n) <= away(c)

\* Line items come from table rows, each word once; the wider grammar only adds
\* lines, one amount each; a line number names one line; a received quantity
\* stands in its column.
LineItemsSound ==
    /\ WordsUsedOnce /\ ItemsInsideTables
    /\ FrozenLinesKept /\ AddedTotalsPrinted
    /\ LineNumbersUnique /\ QuantitiesUnderLabel

-----------------------------------------------------------------------------
(* Grounding and fusion *)

\* Grounding against its definition on whole words: an exact grounding means
\* that one run of words on the page spells the quote and one run inside it
\* reads as the value, which is then the evidence; and whenever the page has
\* such a place, the candidate is grounded.
GroundedWhereQuoted ==
    out.ran = "quote" =>
        LET q == input.q
            words == ReadingOrder(OnPage(q.doc.words, q.cand.page))
            run(v) == SubSeq(words, v[1], v[2])
            runs == {v \in (DOMAIN words) \X (DOMAIN words) : v[1] <= v[2]}
            places == {v \in runs : /\ PartsOf(Texts(run(v))) = PartsOf(q.cand.quote)
                                    /\ Parts(words[v[1]].text) # <<>>
                                    /\ Parts(words[v[2]].text) # <<>>}
            values == {v \in runs : /\ \E p \in places : p[1] <= v[1] /\ v[2] <= p[2]
                                    /\ NormalValue(q.field, Texts(run(v)))
                                         = NormalValue(q.field, q.cand.raw)}
            proven == /\ NormalValue(q.field, q.cand.raw) # None
                      /\ Cardinality(places) = 1 /\ Cardinality(values) = 1
        IN  /\ proven <=> out.result.reason = "GROUNDED_EXACT"
            /\ proven => \A v \in values : out.result.evidence = evidence_from_words(run(v))
            /\ out.result.reason = "GROUNDED_FUZZY" => places = {}

Fused == out.fused
Before == out.det

\* The model never overrules what was read: a field read deterministically
\* keeps its value or becomes ambiguous, no line appears or disappears, and a
\* value that is new is printed inside its evidence.
ModelNeverOverrules ==
    out.ran = "invoice" =>
        LET kept(old, new) ==
                /\ IsExtracted(old) => new.value \in {old.value, None}
                /\ IsExtracted(new) /\ new.value # old.value =>
                     \E w \in ToSet(input.case.doc.words) : InEvidence(w, new.evidence)
        IN  /\ Len(Fused.line_items) = Len(Before.line_items)
            /\ \A n \in HeaderFields : kept(Before[n], Fused[n])
            /\ \A k \in DOMAIN Before.line_items : \A n \in LineFields :
                 kept(Before.line_items[k][n], Fused.line_items[k][n])

\* The evidence that fusing added to a cell, and the rows of the page that a
\* span reaches.
Added(k, n) == Fused.line_items[k][n].evidence \ Before.line_items[k][n].evidence
RowsOf(s) ==
    {r \in ToSet(out.rows) : r.page = s.page /\ r.y0 <= s.bbox.y1 /\ s.bbox.y0 <= r.y1}
OnOneRow(s) == Cardinality(RowsOf(s)) = 1

\* Fusing never moves a number from one line of an invoice to another.  What it
\* adds to a line stands beside a description the model quoted, which shares a
\* word with the description of that line, and beside the description of no
\* other line; no word is added to two lines.  So if the quoted description
\* stays on one row, what is added is on a row of the line itself.
CellsStayOnTheirRow ==
    out.ran = "invoice" =>
        \A k \in DOMAIN Fused.line_items : \A n \in LineFields : \A s \in Added(k, n) :
            LET doc == input.case.doc
                own == Before.line_items[k].description.evidence
                quoted(i) == ground_candidate("description", out.cand.line_items[i].description, doc)
            IN  /\ \E i \in DOMAIN out.cand.line_items : \E d \in quoted(i).evidence :
                     /\ _overlap(s, d)
                     /\ _tokens({d}, doc) \cap _tokens(own, doc) # {}
                     /\ OnOneRow(d) => \E a \in own : RowsOf(a) \cap RowsOf(s) # {}
                /\ \A j \in DOMAIN Before.line_items \ {k} :
                     /\ ~\E a \in Before.line_items[j].description.evidence : _overlap(s, a)
                     /\ \A m \in LineFields : _tokens({s}, doc) \cap _tokens(Added(j, m), doc) = {}

\* What the model fills into a line of an order or a receipt never overrules
\* what was read there.  It stands level with the description the model quoted,
\* and when that stays on one row, it is on a row of the line itself.  A number
\* is nearest to the label of its column in the closest table header above.
FilledOnItsRow ==
    out.ran = "supporting" =>
        \A k \in DOMAIN Before.line_items : \A n \in LinesOf(input.case.role) :
            LET f == Fused.line_items[k][n]
                line == Before.line_items[k]
                doc == input.case.doc
                d == FirstSpan(_ground_field("description", out.cand.line_items[k].description,
                                             doc).evidence)
                away(s, r, c) == Gap(AnchorX2(r, c), CenterX2(s.bbox))
            IN  /\ f # line[n] /\ IsExtracted(line[n]) => f.status = "AMBIGUOUS"
                /\ \A s \in Added(k, n) :
                     /\ RowsOf(s) \cap RowsOf(d) # {}
                     /\ OnOneRow(d) => \E a \in line.description.evidence : RowsOf(d) \subseteq RowsOf(a)
                     /\ n \in Quantities =>
                          LET header == Lowest(HeadersAbove(n, s, out.rows))
                          IN  \A c \in HeaderAnchors(header) : away(s, header, n) <= away(s, header, c)

\* Fusion fills gaps with values printed in their place, on invoices and on
\* supporting documents, and overrules nothing.
FusionSound == ModelNeverOverrules /\ CellsStayOnTheirRow /\ FilledOnItsRow
=============================================================================
