----------------------------- MODULE HeaderRules -----------------------------
(***************************************************************************)
(* The labelled header fields of an invoice and the deterministic          *)
(* extraction pipeline (header_rules.py, pipeline.py, value_grounding.py). *)
(***************************************************************************)
EXTENDS TableRules

CONSTANTS
    NumberLabel, DateLabel, ExcludedDate, CurrencyLabel,   \* sets of phrases
    CurrencyContext,      \* phrases that make a line speak of amounts
    IsoCode, CurrencyName, CurrencySymbol,    \* sets of currency tokens
    Code(_),              \* normalize_currency of a token, or None
    ValidIdentifier(_), Ident(_),             \* on sequences of tokens
    DateOf(_),            \* parse_invoice_date on a sequence of tokens, or None
    NumberTail(_),        \* the digits, commas and dots that end a token, from its first
                          \* such digit and with its sign, as a token; None without one
    Bar                   \* the tokens that separate amounts on a line: | and ;

HasNext(lines, i) == i < Len(lines) /\ lines[i + 1].page = lines[i].page
LineText(line) == Texts(line.words)
Evidence1(lines, i) == evidence_from_words(lines[i].words)
Evidence2(lines, i) == Evidence1(lines, i) \cup Evidence1(lines, i + 1)

\* The candidates of all lines, in line order; of(i) is a sequence.
FromLines(lines, of(_)) == FlattenSeq([i \in DOMAIN lines |-> of(i)])

\* What follows the first label in a line; None without one.
After(line, labels) == RestAfter(LineText(line), labels)

\* A value next to its label, or else on the following line of the page, at a
\* lower priority.
Beside(lines, i, rest, Read(_), Key(_), field, priority) ==
    LET here == Read(rest)
        below == IF HasNext(lines, i) THEN Read(LineText(lines[i + 1])) ELSE None
    IN  IF here # None
        THEN <<Cand(here, Key(here), Evidence1(lines, i), <<field, "same_line">>, priority[1])>>
        ELSE IF below # None
        THEN <<Cand(below, Key(below), Evidence2(lines, i), <<field, "next_line">>, priority[2])>>
        ELSE <<>>

ReadIdentifier(text) == IF text # <<>> /\ ValidIdentifier(text) THEN text ELSE None

extract_invoice_number(lines) ==
    resolve_candidates(FromLines(lines, LAMBDA i :
        LET rest == After(lines[i], NumberLabel)
        IN  IF rest = None THEN <<>>
            ELSE Beside(lines, i, rest, ReadIdentifier, Ident, "invoice_number", <<100, 90>>)))

Same(x) == x

extract_invoice_date(lines) ==
    resolve_candidates(FromLines(lines, LAMBDA i :
        LET rest == After(lines[i], DateLabel)
        IN  IF After(lines[i], ExcludedDate) # None \/ rest = None THEN <<>>
            ELSE Beside(lines, i, rest, DateOf, Same, "invoice_date", <<100, 90>>)))

-----------------------------------------------------------------------------
(* Labelled amounts *)

\* The number that ends at token e: all the digits and separators before that
\* point, the end of a token that starts with something else included.
Fragment(text, e) ==
    LET starts == {k \in 1 .. e : /\ NumberTail(text[k]) # None
                                  /\ \A j \in k + 1 .. e : text[j] \in Plain}
    IN  IF starts = {} THEN <<>>
        ELSE <<NumberTail(text[Min(starts)])>> \o SubSeq(text, Min(starts) + 1, e)

\* The last such number, before a bar or at the end, that reads as an amount.
_money_from_text(text) ==
    LET ends == {e \in DOMAIN text : e = Len(text) \/ text[e + 1] \in Bar}
        read == {e \in ends : Money(Fragment(text, e)) # None}
    IN  IF read = {} THEN None ELSE Money(Fragment(text, Max(read)))

\* labels is a sequence of <<name, phrases, priority>>; a line counts for the
\* first of its labels only, which starts the line.
_extract_labeled_money(lines, field, labels, exclusions) ==
    resolve_candidates(FromLines(lines, LAMBDA i :
        LET text == LineText(lines[i])
            k == SelectInSeq(labels, LAMBDA l : StartsWith(text, l[2]))
        IN  IF StartsWith(text, exclusions) \/ k = 0 THEN <<>>
            ELSE Beside(lines, i, RestAfter(text, labels[k][2]), _money_from_text, Same,
                        <<field, labels[k][1]>>, <<labels[k][3], labels[k][3] - 1>>)))

Subtotal == {<<"subtotal">>, <<"sub", "total">>}
TaxTotal == {<<"tax", "total">>, <<"total", "tax">>}
SubtotalLabels == <<<<"subtotal", Subtotal, 90>>, <<"taxable_amount", {<<"taxable", "amount">>}, 80>>>>
TaxLabels ==
    <<<<"tax_total", TaxTotal, 95>>, <<"gst", {<<"gst">>, <<"igst">>}, 90>>,
      <<"split_gst", {<<"cgst">>, <<"sgst">>}, 85>>>>
TotalLabels ==
    <<<<"amount_due", {<<"amount", "due">>}, 100>>, <<"grand_total", {<<"grand", "total">>}, 95>>,
      <<"total_payable", {<<"total", "payable">>}, 90>>,
      <<"invoice_total", {<<"invoice", "total">>}, 85>>,
      <<"net_payable", {<<"net", "payable">>}, 80>>, <<"total", {<<"total">>}, 50>>>>
NotTotal == Subtotal \cup TaxTotal \cup {<<"quantity", "total">>, <<"discount", "total">>}

extract_subtotal(lines) == _extract_labeled_money(lines, "subtotal", SubtotalLabels, {})
extract_tax(lines) == _extract_labeled_money(lines, "tax", TaxLabels, {})
extract_total(lines) == _extract_labeled_money(lines, "total", TotalLabels, NotTotal)

-----------------------------------------------------------------------------
(* The currency *)

\* A labelled code, or a code on the line below a bare label; then codes, names
\* and symbols on the lines that speak of amounts.
CurrencyCandidates(lines, i) ==
    LET text == LineText(lines[i])
        rest == After(lines[i], CurrencyLabel)
        codes == IF rest = None THEN <<>> ELSE SelectSeq(rest, LAMBDA t : t \in IsoCode)
        context == Occurrences(text, CurrencyContext) # {}
        amounts == {j \in DOMAIN text : j > 1 /\ text[j] \in Plain}
        found(kind, rule, priority) ==
            Apply(LAMBDA t : Cand(Code(t), Code(t), Evidence1(lines, i), <<"currency", rule>>, priority),
                  SelectSeq(text, LAMBDA t : context /\ t \in kind))
        labelled ==
            IF rest = None THEN <<>>
            ELSE IF codes # <<>>
            THEN <<Cand(Code(codes[1]), Code(codes[1]), Evidence1(lines, i),
                        <<"currency", "label_iso">>, 120)>>
            ELSE IF rest = <<>> /\ HasNext(lines, i)
            THEN LET below == LineText(lines[i + 1])
                 IN  IF Len(below) = 1 /\ Code(below[1]) # None
                     THEN <<Cand(Code(below[1]), Code(below[1]), Evidence2(lines, i),
                                 <<"currency", "label_next_line">>, 119)>>
                     ELSE <<>>
            ELSE <<>>
    IN  labelled \o found(IsoCode, "iso_code", 100) \o found(CurrencyName, "name", 80)
          \o found(CurrencySymbol \cap {text[j - 1] : j \in amounts}, "symbol", 60)

extract_currency(lines) ==
    resolve_candidates(FromLines(lines, LAMBDA i : CurrencyCandidates(lines, i)))

-----------------------------------------------------------------------------
(* The pipeline *)

extract(words) ==
    LET lines == reconstruct_lines(words)
    IN  [invoice_number |-> extract_invoice_number(lines),
         invoice_date |-> extract_invoice_date(lines),
         currency |-> extract_currency(lines), subtotal |-> extract_subtotal(lines),
         tax |-> extract_tax(lines), total |-> extract_total(lines),
         line_items |-> extract_line_items(words)]

-----------------------------------------------------------------------------
(* Narrowing the evidence of a header value *)

Covered(w, evidence) ==
    \E s \in evidence :
        /\ s.page = w.page /\ s.source = w.source
        /\ s.bbox.x0 <= w.x0 /\ s.bbox.y0 <= w.y0 /\ s.bbox.x1 >= w.x1 /\ s.bbox.y1 >= w.y1

\* The spans of source words inside the evidence whose text reads as the value.
ValueSpans(words, evidence, Reads(_)) ==
    UNION {LET inside == SelectSeq(line.words, LAMBDA w : Covered(w, evidence))
           IN  {SubSeq(inside, v[1], v[2]) :
                  v \in {u \in (DOMAIN inside) \X (DOMAIN inside) :
                           u[1] <= u[2] /\ Reads(Texts(SubSeq(inside, u[1], u[2])))}}
             : line \in ToSet(reconstruct_lines(words))}

Smallest(spans) == {s \in spans : \A t \in spans : Len(s) <= Len(t)}
Boxes(span) == {[page |-> e.page, bbox |-> e.bbox] : e \in evidence_from_words(span)}

\* The evidence becomes the smallest span, if it is printed in one place.
Narrowed(field, spans) ==
    IF field.status # "EXTRACTED" \/ Cardinality({Boxes(s) : s \in spans}) # 1 THEN field
    ELSE [field EXCEPT !.evidence = evidence_from_words(CHOOSE s \in spans : TRUE)]
localize_header_value(field, words, Reads(_)) ==
    Narrowed(field, Smallest(ValueSpans(words, field.evidence, Reads)))
=============================================================================
