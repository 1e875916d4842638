----------------------------- MODULE TotalGuards -----------------------------
(***************************************************************************)
(* The two opt-in guards of the extracted total: abstain unless the page   *)
(* shows which amount is the invoice total (financial_summary_guard.py,    *)
(* financial_role_guard.py).                                               *)
(***************************************************************************)
EXTENDS HeaderRules

CONSTANTS
    Role,             \* tokens net, tax, gross, vat, gst, subtotal, taxable, payable
    GrossRole,        \* gross, payable
    Between,          \* amount, total, ":"
    Payable,          \* the token payable
    GrossMention,     \* phrases: gross, grand total, invoice total
    GrossLabel,       \* phrases: grand total, invoice total, gross amount ...
    Reference, ReferenceWord, Identifier,     \* reference; id, number, no; plain numbers
    Financial,        \* Role and credit, prepayment
    Splits,           \* tokens that start or end with a separator
    PageHeight, PageWidth

-----------------------------------------------------------------------------
(* Amounts on a row *)

\* Up to four words, close together, read as one amount; two numbers only with
\* a separator between them.
IsAmount(words) ==
    /\ \A i \in 1 .. Len(words) - 1 :
         /\ words[i].page = words[i + 1].page
         /\ words[i + 1].x0 - words[i].x1 <= 2 * Max({Height(words[i]), Height(words[i + 1])})
    /\ \/ Cardinality({i \in DOMAIN words : words[i].text \in HasDigit}) <= 1
       \/ \E i \in DOMAIN words : words[i].text \in Splits
    /\ Money(Texts(words)) # None

\* The amounts of a row, as index ranges; an amount within a longer one is part
\* of it.
_money_spans(words) ==
    LET spans == {v \in (DOMAIN words) \X (DOMAIN words) :
                    v[1] <= v[2] /\ v[2] - v[1] < 4 /\ IsAmount(SubSeq(words, v[1], v[2]))}
    IN  {v \in spans : \A u \in spans : u[1] <= v[1] /\ v[2] <= u[2] => u = v}
SpanWords(words, v) == SubSeq(words, v[1], v[2])

_ambiguous(words, reason) ==
    Field("AMBIGUOUS", None, evidence_from_words(words), <<"guard", reason>>)

\* Where the value of the total is printed inside its evidence.
Bound(total, rows) ==
    UNION {LET quoted == SelectSeq(r.words, LAMBDA w : InEvidence(w, total.evidence))
           IN  {[row |-> r, words |-> SpanWords(quoted, v)] :
                  v \in {u \in _money_spans(quoted) :
                           Money(Texts(SpanWords(quoted, u))) = total.value}}
             : r \in ToSet(rows)}

-----------------------------------------------------------------------------
(* financial_summary_guard.py *)

GenericTotal(total) ==
    total.rule \in {<<<<"total", "total">>, "same_line">>, <<<<"total", "total">>, "next_line">>}

RowHeight2(row) == Median2(Apply(Height, row.words))
RowCenter2(row) == row.y0 + row.y1
RolesOf(row, labels) == SelectSeq(row.words, LAMBDA w : w.text \in labels)

\* A single gross label directly before the selected amount.
InlineGross(row, selected) ==
    LET gross == RolesOf(row, GrossRole)
        label == gross[1]
    IN  /\ Len(gross) = 1
        /\ selected[1].x0 - label.x1 \in 0 .. 2 * RowHeight2(row)
        /\ \A w \in ToSet(row.words) :
             label.x1 <= w.x0 /\ w.x0 < selected[1].x0 => w.text \in Between
        /\ \A w \in ToSet(selected) : w.x1 > label.x0

\* The rows close by with a role label over the amounts.
NearbyRoles(row, rows) ==
    LET amounts == UNION {ToSet(SpanWords(row.words, v)) : v \in _money_spans(row.words)}
        height2 == RowHeight2(row)
    IN  SelectSeq(rows, LAMBDA r :
            /\ r.page = row.page
            /\ Gap(RowCenter2(r), RowCenter2(row)) <= 8 * height2
            /\ \E w \in ToSet(r.words) :
                 /\ w.text \in Role
                 /\ 2 * Min({a.x0 : a \in amounts}) - 2 * height2 <= CenterX2(w)
                 /\ CenterX2(w) <= 2 * Max({a.x1 : a \in amounts}) + 2 * height2)

\* The total printed in the given place of a row: kept when it is not generic,
\* when it is the row's only amount, or under a gross label of its own.
PlacedTotal(total, at, rows, nearby) ==
    LET bounded == FlattenSeq(Apply(LAMBDA r : r.words,
                       SelectSeq(rows, LAMBDA r : r = at.row \/ r \in ToSet(nearby))))
    IN  IF ~GenericTotal(total) \/ Cardinality(_money_spans(at.row.words)) <= 1 THEN total
        ELSE IF InlineGross(at.row, at.words)
        THEN [total EXCEPT !.evidence = evidence_from_words(at.words),
                           !.rule = <<"guard", "inline_gross_unique">>]
        ELSE _ambiguous(bounded,
                 IF nearby # <<>> \/ RolesOf(at.row, Role) # <<>> THEN "competing_amount_roles"
                 ELSE "unresolved_multi_amount_total")

TheOne(S) == CHOOSE x \in S : TRUE
QuotedWords(total, rows) ==
    SelectSeq(FlattenSeq(Apply(LAMBDA r : r.words, rows)), LAMBDA w : InEvidence(w, total.evidence))

\* Mutant: the first amount of a generic total row is believed.
GuardRowsFirst(total, rows, bound) ==
    IF total.status # "EXTRACTED" \/ bound # {} THEN total
    ELSE _ambiguous(QuotedWords(total, rows), "unbound_or_repeated_value")
GuardRows(total, rows, bound) ==
    IF total.status # "EXTRACTED" THEN total
    ELSE IF Cardinality(bound) # 1
    THEN _ambiguous(QuotedWords(total, rows), "unbound_or_repeated_value")
    ELSE PlacedTotal(total, TheOne(bound), rows, NearbyRoles(TheOne(bound).row, rows))
guard_total(total, rows) == GuardRows(total, rows, Bound(total, rows))

-----------------------------------------------------------------------------
(* financial_role_guard.py *)

Proper(row) == \A w \in ToSet(row.words) : w.x1 > w.x0 /\ w.y1 > w.y0
OneSource(row) == Cardinality({w.source : w \in ToSet(row.words)}) = 1
Level(row) ==
    LET centres == {CenterY2(w) : w \in ToSet(row.words)}
    IN  4 * (Max(centres) - Min(centres)) <= RowHeight2(row)
\* A horizontal distance of at most n text heights.
WithinHeights(distance, n, row) ==
    2 * distance * PageWidth <= n * RowHeight2(row) * PageHeight

MentionsGross(row) == Occurrences(Texts(row.words), GrossMention) # {}

\* A row whose only amount follows a gross label and nothing else.
IsGrossProof(row) ==
    LET spans == _money_spans(row.words)
        amount == SpanWords(row.words, CHOOSE v \in spans : TRUE)
        before == SelectSeq(row.words, LAMBDA w : w.x1 <= amount[1].x0)
        after == SelectSeq(row.words, LAMBDA w : w.x0 >= Last(amount).x1)
    IN  /\ Proper(row) /\ Cardinality(spans) = 1
        /\ before # <<>> /\ after = <<>> /\ Texts(before) \in GrossLabel
        /\ amount[1].x0 - Last(before).x1 >= 0
        /\ WithinHeights(amount[1].x0 - Last(before).x1, 8, row)
        /\ OneSource(row) /\ Level(row)

GrossProof(row) ==
    LET v == CHOOSE u \in _money_spans(row.words) : TRUE
    IN  Field("EXTRACTED", Money(Texts(SpanWords(row.words, v))), evidence_from_words(row.words),
              <<"guard", "explicit_gross_unique">>)

\* The rows near the payable amount that mention a gross amount.
GrossRows(rows, payable) ==
    {r \in ToSet(rows) :
        /\ r.page = payable.page
        /\ Gap(RowCenter2(r), RowCenter2(payable)) <= 12 * RowHeight2(payable)
        /\ MentionsGross(r)}

\* Every such row must be a proof and there must be exactly one.
UniqueGross(rows, payable) ==
    /\ \A r \in GrossRows(rows, payable) : IsGrossProof(r)
    /\ Cardinality(GrossRows(rows, payable)) = 1

\* A reference number printed to the right of the amounts, across an empty gutter.
HasReferencePanel(row, selected, rows) ==
    LET labels == RolesOf(row, {Reference})
        label == labels[1]
        right == SelectSeq(row.words, LAMBDA w : w.x0 >= label.x0)
        skip == IF Len(right) > 1 /\ right[2].text \in ReferenceWord THEN 2 ELSE 1
        tail == SubSeq(right, skip + 1, Len(right))
        financial == SelectSeq(row.words, LAMBDA w : w.x1 < label.x0)
        edge == Max({w.x1 : w \in ToSet(financial)})
        place(w) == <<w.block, w.line>>
        gutter == tail[1].x0 - right[Len(right) - 1].x1
    IN  /\ Len(labels) = 1 /\ Proper(row)
        /\ Len(tail) = 1 /\ tail[1].text \in Identifier
        /\ financial # <<>> /\ ToSet(selected) \subseteq ToSet(financial)
        /\ 2 * (label.x0 - edge) * PageWidth >= 6 * RowHeight2(row) * PageHeight
        /\ gutter >= 0 /\ WithinHeights(gutter, 4, row)
        /\ OneSource(row) /\ Level(row)
        /\ {place(w) : w \in ToSet(financial)} \cap {place(w) : w \in ToSet(right)} = {}
        /\ \A r \in ToSet(rows) :
             r.page = row.page /\ Gap(RowCenter2(r), RowCenter2(row)) <= 4 * RowHeight2(row) =>
               \A w \in ToSet(r.words) :
                 /\ ~(w.x0 < label.x0 /\ w.x1 > edge)
                 /\ ~(w.x0 >= label.x0 /\ w.text \in Financial)
WithoutReference(row) ==
    LET label == RolesOf(row, {Reference})[1]
    IN  SelectSeq(row.words, LAMBDA w : w.x1 < label.x0)

PayableRule(total) ==
    \E name \in {"amount_due", "total_payable", "net_payable"} :
        total.rule \in {<<<<"total", name>>, "same_line">>, <<<<"total", name>>, "next_line">>}

\* The role guard for a total printed in the given place.
PlacedRole(total, at, rows, guarded) ==
    IF PayableRule(total) \/ RolesOf(at.row, {Payable}) # <<>>
    THEN IF UniqueGross(rows, at.row) THEN GrossProof(CHOOSE r \in GrossRows(rows, at.row) : IsGrossProof(r))
         ELSE _ambiguous(at.row.words, "payable_without_unique_gross")
    ELSE IF /\ guarded.status = "AMBIGUOUS" /\ GenericTotal(total)
            /\ HasReferencePanel(at.row, at.words, rows)
            /\ Cardinality(_money_spans(WithoutReference(at.row))) = 1
    THEN [total EXCEPT !.evidence = evidence_from_words(WithoutReference(at.row)),
                       !.rule = <<"guard", "separated_reference">>]
    ELSE guarded
RoleRows(total, rows, bound, guarded) ==
    IF total.status # "EXTRACTED" THEN total
    ELSE IF Cardinality(bound) # 1 THEN guarded
    ELSE PlacedRole(total, TheOne(bound), rows, guarded)
role_guard_total(total, rows) ==
    RoleRows(total, rows, Bound(total, rows), guard_total(total, rows))
=============================================================================
