--------------------------- MODULE MatchingEngine ---------------------------
(***************************************************************************)
(* The deterministic matching engine: validate_invoice_financials          *)
(* (matching/validation.py), match_invoice (matching/engine.py) and        *)
(* match_invoice_three_way (matching/three_way.py).                        *)
(*                                                                         *)
(* An invoice has issues, currency, subtotal, tax, total, day and a        *)
(* sequence of lines [desc, qty, price, total]; a field that is missing or *)
(* ambiguous is None.  An order has a currency and a sequence of lines     *)
(* [key, desc, qty, price, total].  A check is what the code records of    *)
(* it: code, outcome, invoice line index and order line index (0: none).   *)
(***************************************************************************)
EXTENDS ThreeWayRules, SequencesExt

CONSTANTS
    Score(_, _),     \* token_set_ratio of two descriptions, in percent
    Blank,           \* a description that normalises to nothing
    Threshold,       \* description_similarity_threshold, in percent
    Margin           \* ambiguity_margin, in percent

Check(code, passed, i, j) == [code |-> code, passed |-> passed, line |-> i, po |-> j]
Issue(code, i, j) == Check(code, FALSE, i, j)

-----------------------------------------------------------------------------
(* validate_invoice_financials *)

Usable(line) == None \notin {line.qty, line.price, line.total}
Negative(v) == v # None /\ v < 0

LineChecks(line, i) ==
    {Check("INVOICE_SCHEMA_INCOMPLETE", Usable(line), i, 0)}
      \cup (IF \E v \in {line.qty, line.price, line.total} : Negative(v)
            THEN {Issue("NEGATIVE_AMOUNT", i, 0)} ELSE {})
      \cup (IF Usable(line)
            THEN {Check("INVOICE_LINE_ARITHMETIC_MISMATCH",
                        Near(line.qty * line.price, line.total), i, 0)}
            ELSE {})

UsableLines(inv) == {i \in DOMAIN inv.lines : Usable(inv.lines[i])}
LinesTotal(inv) == MapThenSumSet(LAMBDA i : inv.lines[i].total, UsableLines(inv))

\* Mutant of TotalChecks: the tax is left out of the sum.
TotalChecksNoTax(inv) ==
    IF None \notin {inv.subtotal, inv.tax, inv.total}
    THEN {Check("INVOICE_TOTAL_MISMATCH", Near(inv.subtotal, inv.total), 0, 0)}
    ELSE {}

TotalChecks(inv) ==
    IF None \notin {inv.subtotal, inv.tax, inv.total}
    THEN {Check("INVOICE_TOTAL_MISMATCH", Near(inv.subtotal + inv.tax, inv.total), 0, 0)}
    ELSE {}

HeaderChecks(inv) ==
    LET Present(v) == Check("INVOICE_SCHEMA_INCOMPLETE", v # None, 0, 0)
    IN  (IF inv.issues THEN {Issue("EXTRACTION_ROW_ASSOCIATION_UNRESOLVED", 0, 0)} ELSE {})
          \cup {Present(inv.currency), Present(inv.total)}
          \cup {Check("INVOICE_SCHEMA_INCOMPLETE", UsableLines(inv) # {}, 0, 0)}
          \cup {Issue("INVOICE_SCHEMA_INCOMPLETE", 0, 0) :
                   v \in {inv.subtotal, inv.tax} \cap {None}}
          \cup (IF inv.subtotal # None /\ UsableLines(inv) # {}
                THEN {Check("INVOICE_SUBTOTAL_MISMATCH",
                            Near(LinesTotal(inv), inv.subtotal), 0, 0)}
                ELSE {})
          \cup (IF \E v \in {inv.subtotal, inv.tax, inv.total} : Negative(v)
                THEN {Issue("NEGATIVE_AMOUNT", 0, 0)} ELSE {})
          \cup TotalChecks(inv)

FinancialChecks(inv) ==
    HeaderChecks(inv) \cup UNION {LineChecks(inv.lines[i], i) : i \in DOMAIN inv.lines}

-----------------------------------------------------------------------------
(* _candidate_pairs: a one-to-one assignment of invoice lines to PO lines *)

Described(line) == line.desc # None /\ line.desc # Blank
ExactLines(line, po, free) == {j \in free : po.lines[j].desc = line.desc}

\* Mutant of ExactStep: the first of several exact descriptions is taken.
ExactStepFirst(inv, po, st, i) ==
    LET exact == ExactLines(inv.lines[i], po, st.free)
    IN  CASE ~Described(inv.lines[i]) ->
               [st EXCEPT !.checks = @ \cup {Issue("INVOICE_LINE_UNMATCHED", i, 0)}]
          [] Described(inv.lines[i]) /\ exact # {} ->
               [st EXCEPT !.free = @ \ {Min(exact)}, !.pairs = @ \cup {<<i, Min(exact)>>}]
          [] OTHER -> [st EXCEPT !.open = @ \cup {i}]

\* The first pass, in invoice order: a unique exact description takes its PO
\* line, several are ambiguous, and the other lines stay open.
ExactStep(inv, po, st, i) ==
    LET exact == ExactLines(inv.lines[i], po, st.free)
    IN  CASE ~Described(inv.lines[i]) ->
               [st EXCEPT !.checks = @ \cup {Issue("INVOICE_LINE_UNMATCHED", i, 0)}]
          [] Described(inv.lines[i]) /\ Cardinality(exact) = 1 ->
               LET j == CHOOSE k \in exact : TRUE
               IN  [st EXCEPT !.free = @ \ {j}, !.pairs = @ \cup {<<i, j>>}]
          [] Described(inv.lines[i]) /\ Cardinality(exact) > 1 ->
               [st EXCEPT !.checks = @ \cup {Issue("DESCRIPTION_AMBIGUOUS", i, 0)}]
          [] OTHER -> [st EXCEPT !.open = @ \cup {i}]

ExactPass(inv, po) ==
    FoldLeft(LAMBDA st, i : ExactStep(inv, po, st, i),
             [free |-> DOMAIN po.lines, pairs |-> {}, checks |-> {}, open |-> {}],
             [i \in DOMAIN inv.lines |-> i])

\* The second pass, for one open line: the free PO lines above the threshold.
ScoreOf(inv, po, i, j) == Score(inv.lines[i].desc, po.lines[j].desc)
Eligible(inv, po, free, i) == {j \in free : ScoreOf(inv, po, i, j) >= Threshold}

\* The best eligible score is less than the margin above the next best.
TooClose(inv, po, eligible, i) ==
    \E j, k \in eligible :
        /\ j # k
        /\ \A l \in eligible : ScoreOf(inv, po, i, j) >= ScoreOf(inv, po, i, l)
        /\ \A l \in eligible \ {j} : ScoreOf(inv, po, i, k) >= ScoreOf(inv, po, i, l)
        /\ ScoreOf(inv, po, i, j) - ScoreOf(inv, po, i, k) < Margin

FuzzyIssue(inv, po, free, i) ==
    LET eligible == Eligible(inv, po, free, i)
    IN  CASE free = {} -> {Issue("EXTRA_INVOICE_LINE", i, 0)}
          [] free # {} /\ eligible = {} -> {Issue("DESCRIPTION_BELOW_THRESHOLD", i, 0)}
          [] TooClose(inv, po, eligible, i) -> {Issue("DESCRIPTION_AMBIGUOUS", i, 0)}
          [] OTHER -> {}

Edges(inv, po, st) ==
    UNION {{<<i, j>> : j \in Eligible(inv, po, st.free, i)} :
             i \in {i \in st.open : FuzzyIssue(inv, po, st.free, i) = {}}}

\* Highest score first, then the PO line's sort key, then the invoice index.
EdgeBefore(inv, po, e, f) ==
    LET se == ScoreOf(inv, po, e[1], e[2])
        sf == ScoreOf(inv, po, f[1], f[2])
        ke == po.lines[e[2]].key
        kf == po.lines[f[2]].key
    IN  \/ se > sf
        \/ se = sf /\ ke < kf
        \/ se = sf /\ ke = kf /\ e[1] < f[1]

\* An edge is taken when both its ends are still free.
GreedyStep(pairs, e) ==
    IF \E p \in pairs : p[1] = e[1] \/ p[2] = e[2] THEN pairs ELSE pairs \cup {e}

Greedy(inv, po, st) ==
    FoldLeft(GreedyStep, st.pairs,
             SetToSortSeq(Edges(inv, po, st), LAMBDA e, f : EdgeBefore(inv, po, e, f)))

\* Lines that lost the assignment.  Any check that names the line suppresses
\* the INVOICE_LINE_UNMATCHED issue, whether that check failed or passed.
LostLines(open, pairs, checks) ==
    {Issue("INVOICE_LINE_UNMATCHED", i, 0) :
       i \in {i \in open : /\ \A p \in pairs : p[1] # i
                          /\ \A c \in checks : c.line # i}}

\* _candidate_pairs: the pairs, and the checks found before with its issues added.
Assigned(po, st, pairs, found) ==
    [pairs  |-> pairs,
     checks |-> found \cup LostLines(st.open, pairs, found)
                  \cup {Issue("PO_LINE_UNMATCHED", 0, j) :
                          j \in {j \in DOMAIN po.lines : \A p \in pairs : p[2] # j}}]
SecondPass(inv, po, st, checks) ==
    Assigned(po, st, Greedy(inv, po, st),
             checks \cup st.checks \cup UNION {FuzzyIssue(inv, po, st.free, i) : i \in st.open})
Pairing(inv, po, checks) == SecondPass(inv, po, ExactPass(inv, po), checks)

-----------------------------------------------------------------------------
(* match_invoice *)

\* A zero PO price admits a zero invoice price only.
PriceAgrees(price, poPrice) ==
    IF poPrice = 0 THEN price = 0 ELSE AbsDiff(price, poPrice) * 100 <= poPrice * PriceTol

\* _assignment: the checks of one assigned pair.
AssignmentChecks(inv, po, p) ==
    LET item == inv.lines[p[1]]
        line == po.lines[p[2]]
        Compare(v, code, ok) == IF v = None THEN {} ELSE {Check(code, ok, p[1], p[2])}
    IN  Compare(item.qty, "QUANTITY_MISMATCH", AbsDiff(item.qty, line.qty) <= QtyTol)
          \cup Compare(item.price, "UNIT_PRICE_MISMATCH", PriceAgrees(item.price, line.price))
          \cup Compare(item.total, "LINE_AMOUNT_MISMATCH",
                       Near(item.total, line.qty * line.price))

OrderChecks(po) ==
    {Check("PO_LINE_AMOUNT_MISMATCH",
           Near(po.lines[j].total, po.lines[j].qty * po.lines[j].price), 0, j) :
       j \in {j \in DOMAIN po.lines : po.lines[j].total # None}}

Result(checks, pairs) ==
    LET failed == {c \in checks : ~c.passed}
    IN  [decision |-> IF failed = {} THEN "MATCHED" ELSE "NEEDS_REVIEW",
         reasons  |-> {c.code : c \in failed},
         checks   |-> checks,
         pairs    |-> pairs]

BaseChecks(inv, po) ==
    FinancialChecks(inv) \cup OrderChecks(po)
      \cup {Check("CURRENCY_MISMATCH", inv.currency # None /\ inv.currency = po.currency, 0, 0)}

\* The checks of the assigned pairs complete the result.
Compared(inv, po, pairing) ==
    Result(pairing.checks \cup UNION {AssignmentChecks(inv, po, p) : p \in pairing.pairs},
           pairing.pairs)
match_invoice(inv, po) == Compared(inv, po, Pairing(inv, po, BaseChecks(inv, po)))

-----------------------------------------------------------------------------
(* match_invoice_three_way: receipts replace the comparison with the order *)

Discarded == {"PO_LINE_UNMATCHED", "QUANTITY_MISMATCH", "UNIT_PRICE_MISMATCH",
              "LINE_AMOUNT_MISMATCH"}

\* The receipt checks of pair p; the price and amount checks need a quantity.
PairFailures(inv, po, context, p) ==
    LET item == inv.lines[p[1]]
        active == \E j \in DOMAIN context : context[j].active # {}
    IN  ReceiptFailures(context[p[2]], inv.day, active)
          \cup (IF item.qty = None THEN {}
                ELSE QuantityFailures(context[p[2]], item.qty)
                       \cup PriceFailures(item, po.lines[p[2]].price))

\* The receipt checks take the place of the discarded ones.
ReceiptResult(inv, po, context, base) ==
    Result({c \in base.checks : c.code \notin Discarded}
             \cup UNION {{Issue(code, p[1], p[2]) : code \in PairFailures(inv, po, context, p)} :
                          p \in base.pairs},
           base.pairs)

\* The allocations of a match: the invoiced quantity of every assigned pair.
WithDrafts(inv, result) ==
    [result |-> result,
     drafts |-> IF result.decision # "MATCHED" THEN {}
                ELSE {[idx |-> p[1], line |-> p[2], qty |-> inv.lines[p[1]].qty] :
                        p \in {p \in result.pairs : inv.lines[p[1]].qty # None}}]

match_invoice_three_way(inv, po, context) ==
    WithDrafts(inv, ReceiptResult(inv, po, context, match_invoice(inv, po)))
=============================================================================
