----------------------------- MODULE Decisions -----------------------------
(***************************************************************************)
(* The pure decision procedures, driven over bounded inputs: an input is   *)
(* chosen in the initial state and each action runs one procedure on it;   *)
(* and the evaluations of the repository, which run the procedures on      *)
(* labelled scenarios and on a corpus with a paid provider.                *)
(***************************************************************************)
EXTENDS MatchingEngine

CONSTANTS
    LiveOptions,         \* the arguments of live evaluations
    Tokens, UnitPrice, ImageWeight, Usages,
    Suites,              \* the labelled scenario sets to evaluate
    Evaluations,         \* the arguments of extraction evaluations
    MatchInput,          \* pairs of an invoice and an order
    ContextOf(_),        \* the receipt contexts to try on an order
    Features,            \* sets of feature snapshots, one per document
    Unknown, Ratio(_, _), RiskAmountTol, WindowDays, NumberThreshold, RouteIncomplete

VARIABLES
    input,               \* what is being decided
    out,                 \* the procedure that ran and its result
    live                 \* the process of a live evaluation

vars == <<input, out, live>>

Risk == INSTANCE RiskEngine
Bench == INSTANCE Benchmarks
Scores == INSTANCE Scoring
Live == INSTANCE LiveEvaluation WITH options <- input, run <- live

Apply(Op(_), s) == [i \in DOMAIN s |-> Op(s[i])]
NoResult == [ran |-> "nothing"]
NoProcess == [pc |-> "none"]

Init ==
    /\ \/ \E m \in MatchInput : input = [kind |-> "match", inv |-> m.inv, po |-> m.po]
       \/ \E h \in Features : input = [kind |-> "risk", history |-> h]
       \/ \E s \in Suites : input = [kind |-> "suite", suite |-> s]
       \/ input \in Evaluations
       \/ input \in LiveOptions
    /\ out = NoResult
    /\ live = IF input.kind = "live" THEN Live!NewRun ELSE NoProcess

MatchTwoWay ==
    /\ input.kind = "match" /\ out = NoResult
    /\ out' = [ran |-> "two", result |-> match_invoice(input.inv, input.po)]
    /\ UNCHANGED <<input, live>>

MatchThreeWay ==
    /\ input.kind = "match" /\ out = NoResult
    /\ \E context \in ContextOf(input.po) :
         LET r == match_invoice_three_way(input.inv, input.po, context)
         IN  out' = [ran |-> "three", result |-> r.result, drafts |-> r.drafts,
                     context |-> context]
    /\ UNCHANGED <<input, live>>

AssessRisk ==
    /\ input.kind = "risk" /\ out = NoResult
    /\ \E cur \in input.history :
         out' = [ran |-> "risk", cur |-> cur, result |-> Risk!Ensure(cur, input.history)]
    /\ UNCHANGED <<input, live>>

\* The three evaluation scripts, on their own scenario sets: the scenarios are
\* decided, then reported on.
Decide(suite, done) ==
    /\ input = [kind |-> "suite", suite |-> suite] /\ out = NoResult
    /\ out' = [ran |-> "scenarios", done |-> done]
    /\ UNCHANGED <<input, live>>
Report(suite, report) ==
    /\ out.ran = "scenarios" /\ input.suite = suite
    /\ out' = [ran |-> "report", report |-> report]
    /\ UNCHANGED <<input, live>>

DecideTwoWay == Decide("two-way", Apply(Bench!TwoWayOutcome, Bench!synthetic_matching_scenarios))
DecideThreeWay ==
    Decide("three-way", Apply(LAMBDA s : Bench!ThreeWayOutcome(s, Bench!_inputs(s)), Bench!scenarios))
DecideRisk == Decide("risk", Apply(Bench!RiskOutcome, Bench!synthetic_duplicate_risk_scenarios))
ReportTwoWay == Report("two-way", Bench!run_matching_evaluation(out.done))
ReportThreeWay == Report("three-way", Bench!run_evaluation(out.done))
ReportRisk == Report("risk", Bench!run_duplicate_risk_evaluation(out.done))

\* EvaluationRunner: all examples are evaluated, then scored; or none is.
EvaluateCorpus ==
    /\ input.kind = "corpus" /\ out = NoResult /\ ~Scores!RunRefused(input)
    /\ out' = [ran |-> "corpus", results |-> Apply(Scores!_evaluate, input.examples)]
    /\ UNCHANGED <<input, live>>
ScoreCorpus ==
    /\ out.ran = "corpus"
    /\ out' = [ran |-> "score", results |-> out.results, pairs |-> Scores!PairsOf(out.results),
               metrics |-> Scores!calculate_metrics(out.results),
               slices |-> Scores!calculate_tagged_slices(out.results)]
    /\ UNCHANGED <<input, live>>

Next ==
    \/ EvaluateCorpus \/ ScoreCorpus
    \/ MatchTwoWay \/ MatchThreeWay \/ AssessRisk
    \/ DecideTwoWay \/ DecideThreeWay \/ DecideRisk
    \/ ReportTwoWay \/ ReportThreeWay \/ ReportRisk
    \/ Live!Start /\ UNCHANGED out
    \/ Live!Preprocess /\ UNCHANGED out
    \/ Live!MakeDirectory /\ UNCHANGED out
    \/ Live!Skip /\ UNCHANGED out
    \/ Live!Refuse /\ UNCHANGED out
    \/ Live!Reserve /\ UNCHANGED out
    \/ Live!Answer /\ UNCHANGED out
    \/ Live!Die /\ UNCHANGED out
    \/ Live!WriteReport /\ UNCHANGED out
Spec == Init /\ [][Next]_vars

-----------------------------------------------------------------------------
(* Properties of the matching engine *)

Inv == input.inv
PO == input.po
Matched(mode) == out.ran = mode /\ out.result.decision = "MATCHED"

\* The assignment is one-to-one in both modes, even when several invoice lines
\* compete for a purchase-order line by similarity.
OneToOne ==
    out.ran \in {"two", "three"} =>
        \A p, q \in out.result.pairs : p[1] = q[1] \/ p[2] = q[2] => p = q

\* A sum of invoice lines agrees with the header and the header with itself.
AddsUp(inv) ==
    /\ \A i \in DOMAIN inv.lines :
         /\ Usable(inv.lines[i])
         /\ Near(inv.lines[i].qty * inv.lines[i].price, inv.lines[i].total)
         /\ inv.lines[i].qty >= 0 /\ inv.lines[i].price >= 0 /\ inv.lines[i].total >= 0
    /\ inv.lines # <<>> /\ None \notin {inv.subtotal, inv.tax, inv.total}
    /\ Near(FoldLeft(LAMBDA sum, l : sum + l.total, 0, inv.lines), inv.subtotal)
    /\ Near(inv.subtotal + inv.tax, inv.total)

\* A two-way MATCHED is never wrong about the order: every order line is billed
\* by an invoice line of its quantity, price and amount, in the currency of the
\* order, on an invoice whose own sums agree.
TwoWaySound ==
    Matched("two") =>
        /\ AddsUp(Inv) /\ Inv.currency = PO.currency
        /\ \A j \in DOMAIN PO.lines : \E i \in DOMAIN Inv.lines :
             /\ <<i, j>> \in out.result.pairs
             /\ AbsDiff(Inv.lines[i].qty, PO.lines[j].qty) <= QtyTol
             /\ AbsDiff(Inv.lines[i].price, PO.lines[j].price) * 100
                  <= PriceTol * PO.lines[j].price
             /\ Near(Inv.lines[i].total, PO.lines[j].qty * PO.lines[j].price)

\* The order in which the purchase order's lines are loaded does not matter:
\* reversing them gives the same decision, reasons and line pairs.
OrderIndependent ==
    out.ran = "two" =>
        LET n == Len(PO.lines)
            other == match_invoice(Inv, [PO EXCEPT !.lines = Reverse(@)])
        IN  /\ other.reasons = out.result.reasons
            /\ {<<p[1], n + 1 - p[2]>> : p \in other.pairs} = out.result.pairs

\* A three-way MATCHED reserves what was assigned, line by line, from goods
\* that were received, in time, not reversed and not reserved by others.
ThreeWaySound ==
    Matched("three") =>
        /\ {<<d.idx, d.line>> : d \in out.drafts} = out.result.pairs
        /\ out.drafts # {} /\ AddsUp(Inv)
        /\ \A d \in out.drafts :
             LET line == out.context[d.line]
             IN  /\ d.qty = Inv.lines[d.idx].qty
                 /\ d.qty + line.prior <= Received(line) + QtyTol
                 /\ line.reversed = {}
                 /\ \A r \in line.active : Inv.day = None \/ r.day <= Inv.day

\* The modes agree: what matches the order exactly also matches three-way once
\* all of it was received, and then the whole order is reserved.
ModesAgree ==
    /\ out.ran = "three" /\ match_invoice(Inv, PO).decision = "MATCHED"
    /\ \A j \in DOMAIN PO.lines :
         LET line == out.context[j]
         IN  /\ Received(line) = line.ordered /\ line.prior = 0 /\ line.reversed = {}
             /\ \A r \in line.active : Inv.day = None \/ r.day <= Inv.day
    => /\ out.result.decision = "MATCHED"
       /\ \A j \in DOMAIN PO.lines : \E d \in out.drafts :
            d.line = j /\ d.qty = PO.lines[j].qty

\* No invoice line is left over: a MATCHED invoice has each of its lines
\* assigned to an order line ("A line ... loses one-to-one assignment" is
\* INVOICE_LINE_UNMATCHED, docs/matching.md).
EveryLineAssigned ==
    out.ran \in {"two", "three"} /\ out.result.decision = "MATCHED" =>
        {p[1] : p \in out.result.pairs} = DOMAIN Inv.lines

\* The assignment of lines is a partial matching that depends on the contents of
\* the order alone.
AssignmentSound == OneToOne /\ OrderIndependent

\* A two-way match is right about the order and about which line is which.
TwoWayExact == TwoWaySound /\ AssignmentSound

\* Three-way matching reserves exactly what two-way matching would accept and
\* the warehouse has received.
ThreeWayExact == ThreeWaySound /\ ModesAgree

-----------------------------------------------------------------------------
(* Properties of duplicate risk *)

\* The candidate query loses nothing: assessing against the whole history
\* raises the same signals and gives the same disposition.
CandidatesSuffice ==
    out.ran = "risk" =>
        out.result = Risk!assess_duplicate_risk(out.cur, input.history)

\* Detection is symmetric: when one of two documents is flagged against the
\* other, it would have been flagged as well had it been processed first.
RiskSymmetric ==
    out.ran = "risk" =>
        \A s \in out.result.signals, ref \in input.history :
            ref.run = s.run =>
                [s EXCEPT !.run = out.cur.run] \in Risk!Ensure(ref, input.history).signals

\* Duplicates are found in either order of arrival and by the query's candidates
\* alone.
RiskSound == CandidatesSuffice /\ RiskSymmetric

-----------------------------------------------------------------------------
(* The labelled scenario sets *)

Reported(suite) == out.ran = "report" /\ input.suite = suite

\* The procedures decide every labelled scenario as labelled and give its
\* reason: no review scenario is matched, none reserves goods, no known duplicate
\* is cleared and no clean invoice is held (tests/matching/test_evaluation.py,
\* test_three_way_evaluation.py and tests/risk/test_evaluation.py).
LabelsReproduced ==
    /\ Reported("two-way") =>
         /\ out.report.decisions_correct = out.report.scenario_count
         /\ out.report.reason_sets_correct = out.report.review_scenarios
         /\ out.report.false_auto_match_count = 0 /\ out.report.matched = 5
    /\ Reported("three-way") =>
         /\ out.report.correct = out.report.scenario_count
         /\ out.report.reasons = out.report.scenario_count
         /\ out.report.false_auto = 0 /\ out.report.allocation_on_review = 0
         /\ out.report.allocation_correct = out.report.scenario_count
         /\ out.report.cumulative_detected = out.report.cumulative_total
         /\ out.report.scenario_count >= 25
    /\ Reported("risk") =>
         /\ out.report.disposition_correct = out.report.scenario_count
         /\ out.report.false_positive = 0 /\ out.report.false_negative = 0
         /\ out.report.known_false_clear = 0 /\ out.report.clean_false_review = 0
         /\ out.report.incomplete_correct = out.report.incomplete_count

-----------------------------------------------------------------------------
(* Scores of an extraction evaluation *)

\* The order-preserving ways to pair truth lines with the lines that were read.
Alignments(truth, lines) ==
    {S \in SUBSET {<<i, j>> \in (DOMAIN truth) \X (DOMAIN lines) :
                     Scores!line_item_pair_score(truth[i], lines[j]) > 0} :
       \A p, q \in S : (p[1] < q[1] <=> p[2] < q[2]) /\ (p[1] = q[1] <=> p[2] = q[2])}

\* No order-preserving pairing of the lines ranks higher than the one that is
\* scored: the table never loses a better prefix.
AlignmentOptimal(truth, lines, pairs) ==
    /\ {<<pairs[k].truth, pairs[k].line>> : k \in DOMAIN pairs} \in Alignments(truth, lines)
    /\ \A S \in Alignments(truth, lines) :
         ~Scores!Below(Scores!RankOf(pairs),
              Scores!RankOf(SetToSeq({Scores!Pair(truth, lines, p[1], p[2]) : p \in S})))

\* Exact lines are a multiset, so their order gives no credit and takes none: the
\* count is the same read backwards and never less than the aligned exact lines.
ExactLinesOrderFree(truth, lines, pairs) ==
    LET exact == Scores!ExactLines(truth, lines)
    IN  /\ exact = Scores!ExactLines(truth, Reverse(lines))
        /\ exact = Scores!ExactLines(Reverse(truth), lines)
        /\ exact >= Len(SelectSeq(pairs, LAMBDA p : p.exact))

\* Every labelled value is found or missed and every value that was read is right
\* or spurious, in all and in the slices of a tag that every example carries.
ValuesAccounted(m, slices, predicted) ==
    \A f \in Scores!LINE_FIELDS :
        LET n == m.per_field[f]
        IN  /\ n.tp + n.fn = n.labeled /\ n.tp + n.fp = predicted[f]
            /\ n.tp = slices["layout=plain"].per_field[f].tp + slices["layout=grid"].per_field[f].tp
            /\ n.fp = slices["layout=plain"].per_field[f].fp + slices["layout=grid"].per_field[f].fp

\* The published scores are those of the best alignment and lose no value.
ScoringSound ==
    out.ran = "score" =>
        /\ \A k \in DOMAIN out.results :
             LET truth == out.results[k].truth.line_items
                 lines == Scores!Lines(out.results[k])
             IN  /\ AlignmentOptimal(truth, lines, out.pairs[k])
                 /\ ExactLinesOrderFree(truth, lines, out.pairs[k])
        /\ ValuesAccounted(out.metrics, out.slices,
             [f \in Scores!LINE_FIELDS |-> FoldLeft(LAMBDA n, r :
                n + Len(SelectSeq(Scores!Lines(r), LAMBDA l : l[f] # None)), 0, out.results)])

\* What the evaluations publish is so: the labels are reproduced and the scores
\* are those of the best alignment.
ReportsSound == LabelsReproduced /\ ScoringSound

-----------------------------------------------------------------------------
(* The live evaluation *)

\* A live evaluation never spends more than it was allowed to, whatever the
\* provider answers and wherever the process ends, and its report adds up.
LiveEvaluationSound == input.kind = "live" => Live!EvaluationSound
=============================================================================
