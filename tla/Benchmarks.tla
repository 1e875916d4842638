----------------------------- MODULE Benchmarks -----------------------------
(***************************************************************************)
(* The labelled scenario sets the repository evaluates its decision        *)
(* procedures on: matching/evaluation.py, matching/three_way_evaluation.py *)
(* and risk/evaluation.py, each with the report it computes.               *)
(*                                                                         *)
(* Quantities are in thousandths, prices in hundredths and amounts in      *)
(* their product, so that every literal of the scenarios is exact.         *)
(***************************************************************************)
EXTENDS Integers, FiniteSets, SequencesExt

CONSTANTS None, Unknown

Whole(n) == n * 1000            \* a quantity
Price(n) == n * 100
Amount(n) == n * 100000
Cents(n) == n * 1000

\* rapidfuzz: the words of the one description are among those of the other.
TokenSetRatio(a, b) ==
    IF a = b \/ (a = "blue widget premium"
                 /\ b \in {"blue widget premium pro", "blue widget premium plus"})
    THEN 100 ELSE 20
\* rapidfuzz: the numbers differ in one of sixteen characters.
NumberRatio(a, b) ==
    IF a = b THEN 100
    ELSE IF {a, b} = {"invoice202600001", "invoice202600002"} THEN 94 ELSE 20

TwoWay == INSTANCE MatchingEngine WITH
            AmountTol <- Cents(2), QtyTol <- 0, PriceTol <- 1, AllowPartial <- TRUE,
            Threshold <- 85, Margin <- 5, Blank <- "", Score <- TokenSetRatio
\* The three-way set is evaluated with a quantity tolerance of 0.01.
ThreeWay == INSTANCE MatchingEngine WITH
              AmountTol <- Cents(2), QtyTol <- 10, PriceTol <- 1, AllowPartial <- TRUE,
              Threshold <- 85, Margin <- 5, Blank <- "", Score <- TokenSetRatio
RiskOf == INSTANCE RiskEngine WITH
            RiskAmountTol <- 2, WindowDays <- 7, NumberThreshold <- 92,
            RouteIncomplete <- TRUE, Ratio <- NumberRatio

CountIf(s, Test(_)) == Len(SelectSeq(s, Test))
Times(n, x) == [i \in 1 .. n |-> x]

-----------------------------------------------------------------------------
(* Two-way matching *)

\* Punctuation is a space to normalize_description.
NormalDescription(d) == IF d = "industrial-filter" THEN "industrial filter" ELSE d

_line(desc, qty, price, total) ==
    [desc |-> NormalDescription(desc), qty |-> qty, price |-> price, total |-> total]
_invoice(lines, currency, subtotal, tax, total) ==
    [issues |-> FALSE, currency |-> currency, subtotal |-> subtotal, tax |-> tax,
     total |-> total, day |-> 15, lines |-> lines]
_po(lines) ==
    [currency |-> "INR",
     lines |-> [i \in DOMAIN lines |->
                  [key |-> i, desc |-> lines[i][1], qty |-> lines[i][2],
                   price |-> lines[i][3], total |-> None]]]

Labelled(inv, po, decision, reasons) ==
    [inv |-> inv, po |-> po, expected |-> decision, required |-> reasons]
Clean(lines, subtotal, po) ==
    Labelled(_invoice(lines, "INR", subtotal, 0, subtotal), _po(po), "MATCHED", {})
Wrong(lines, subtotal, po, reason) ==
    Labelled(_invoice(lines, "INR", subtotal, 0, subtotal), _po(po), "NEEDS_REVIEW", {reason})

Filter == <<"industrial filter", Whole(2), Price(500)>>
Bracket == <<"bracket", Whole(4), Price(50)>>
Part == <<"precision part", 1, Price(100)>>
Washer == <<"washer", Whole(1), 1>>
Service == <<"service", Whole(1), Price(10)>>
FilterLine(d) == _line(d, Whole(2), Price(500), Amount(1000))
BracketLine == _line("bracket", Whole(4), Price(50), Amount(200))
ServiceLine == _line("service", Whole(1), Price(10), Amount(10))

synthetic_matching_scenarios ==
    <<Clean(<<FilterLine("industrial filter"), BracketLine>>, Amount(1200), <<Filter, Bracket>>),
      Clean(<<BracketLine, FilterLine("industrial filter")>>, Amount(1200), <<Filter, Bracket>>),
      Clean(<<FilterLine("industrial-filter")>>, Amount(1000), <<Filter>>),
      Clean(<<_line("precision part", 1, Price(101), Price(101))>>, Price(101), <<Part>>),
      Clean(<<_line("free sample", Whole(1), 0, 0)>>, 0, <<<<"free sample", Whole(1), 0>>>>)>>
    \o [i \in 1 .. 3 |->
          LET price == Price(<<102, 110, 150>>[i])
          IN  Wrong(<<_line("precision part", 1, price, price)>>, price, <<Part>>,
                    "UNIT_PRICE_MISMATCH")]
    \o [i \in 1 .. 2 |->
          LET qty == Whole(<<2, 3>>[i])
          IN  Wrong(<<_line("washer", qty, 1, qty)>>, qty, <<Washer>>, "QUANTITY_MISMATCH")]
    \o [i \in 1 .. 2 |->
          Labelled(_invoice(<<ServiceLine>>, <<"USD", "EUR">>[i], Amount(10), 0, Amount(10)),
                   _po(<<Service>>), "NEEDS_REVIEW", {"CURRENCY_MISMATCH"})]
    \o Times(2, Wrong(<<_line("blue widget premium", Whole(1), Price(10), Amount(10))>>, Amount(10),
                      <<<<"blue widget premium pro", Whole(1), Price(10)>>,
                        <<"blue widget premium plus", Whole(1), Price(10)>>>>,
                      "DESCRIPTION_AMBIGUOUS"))
    \o <<Wrong(<<_line("service", Whole(2), Price(10), Amount(21))>>, Amount(21),
               <<<<"service", Whole(2), Price(10)>>>>, "INVOICE_LINE_ARITHMETIC_MISMATCH"),
         Labelled(_invoice(<<ServiceLine>>, "INR", Amount(10), Amount(2), Amount(13)),
                  _po(<<Service>>), "NEEDS_REVIEW", {"INVOICE_TOTAL_MISMATCH"}),
         Wrong(<<ServiceLine, _line("extra", Whole(1), Price(1), Amount(1))>>, Amount(11),
               <<Service>>, "EXTRA_INVOICE_LINE"),
         Wrong(<<ServiceLine>>, Amount(10), <<Service, <<"missing", Whole(1), Price(1)>>>>,
               "PO_LINE_UNMATCHED")>>

\* run_matching_evaluation: every scenario is decided, then the counts are made.
TwoWayOutcome(s) == [s |-> s, r |-> TwoWay!match_invoice(s.inv, s.po)]
run_matching_evaluation(done) ==
    LET review == SelectSeq(done, LAMBDA d : d.s.expected = "NEEDS_REVIEW")
    IN  [scenario_count |-> Len(done),
         decisions_correct |-> CountIf(done, LAMBDA d : d.r.decision = d.s.expected),
         matched |-> CountIf(done, LAMBDA d : d.r.decision = "MATCHED"),
         false_auto_match_count |-> CountIf(review, LAMBDA d : d.r.decision = "MATCHED"),
         review_scenarios |-> Len(review),
         reason_sets_correct |-> CountIf(review, LAMBDA d : d.s.required \subseteq d.r.reasons)]

-----------------------------------------------------------------------------
(* Three-way matching *)

Scenario(received, qty, expected, reason) ==
    [received |-> received, qty |-> qty, prior |-> 0, reversed |-> FALSE, after |-> FALSE,
     count |-> 1, expected |-> expected, reason |-> reason]
Passes(received, qty) == Scenario(received, qty, "MATCHED", None)
Stops(received, qty, reason) == Scenario(received, qty, "NEEDS_REVIEW", reason)
Ten == Whole(10)

scenarios ==
    Times(3, Passes(Ten, Ten))
    \o Times(3, Passes(Whole(6), Whole(6)))
    \o Times(3, [Passes(Ten, Ten) EXCEPT !.count = 2])
    \o Times(3, [Passes(Ten, Whole(4)) EXCEPT !.prior = Whole(6)])
    \o Times(2, Passes(Ten, Ten + 10))
    \o Times(2, Stops(Whole(8), Whole(9), "INVOICE_QUANTITY_EXCEEDS_RECEIVED"))
    \o Times(2, [Stops(Ten, Whole(5), "CUMULATIVE_QUANTITY_EXCEEDS_RECEIVED")
                   EXCEPT !.prior = Whole(6)])
    \o <<Stops(Whole(11), Ten, "RECEIVED_QUANTITY_EXCEEDS_ORDERED"),
         Stops(Whole(12), Ten, "RECEIVED_QUANTITY_EXCEEDS_ORDERED")>>
    \o Times(2, [Stops(Ten, Ten, "GOODS_RECEIPT_REVERSED") EXCEPT !.reversed = TRUE])
    \o Times(2, [Stops(Ten, Ten, "RECEIPT_AFTER_INVOICE") EXCEPT !.after = TRUE])
    \o Times(2, Stops(0, Ten, "NO_GOODS_RECEIPT"))

\* _inputs: one order line of ten parts, the invoice and the receipt context.
_inputs(s) ==
    LET total == s.qty * Price(5)
        active == IF s.received > 0 /\ ~s.reversed
                  THEN {[id |-> i, qty |-> s.received \div s.count,
                         day |-> IF s.after THEN 16 ELSE 14] : i \in 1 .. s.count}
                  ELSE {}
    IN  [po |-> _po(<<<<"synthetic part", Ten, Price(5)>>>>),
         inv |-> _invoice(<<_line("synthetic part", s.qty, Price(5), total)>>,
                          "INR", total, 0, total),
         context |-> <<[ordered |-> Ten, active |-> active, prior |-> s.prior,
                        reversed |-> IF s.reversed THEN {1} ELSE {}]>>]

ThreeWayOutcome(s, in) ==
    [s |-> s, r |-> ThreeWay!match_invoice_three_way(in.inv, in.po, in.context)]
run_evaluation(done) ==
    LET Matched(d) == d.r.result.decision = "MATCHED"
        Named(d) == d.s.reason = None \/ d.s.reason \in d.r.result.reasons
        over == SelectSeq(done, LAMBDA d : d.s.reason = "CUMULATIVE_QUANTITY_EXCEEDS_RECEIVED")
    IN  [scenario_count |-> Len(done),
         correct |-> CountIf(done, LAMBDA d : d.r.result.decision = d.s.expected),
         reasons |-> CountIf(done, Named),
         false_auto |-> CountIf(done, LAMBDA d : d.s.expected = "NEEDS_REVIEW" /\ Matched(d)),
         allocation_on_review |-> CountIf(done, LAMBDA d : ~Matched(d) /\ d.r.drafts # {}),
         allocation_correct |-> CountIf(done, LAMBDA d : (d.r.drafts # {}) = Matched(d)),
         matched |-> CountIf(done, Matched),
         cumulative_total |-> Len(over),
         cumulative_detected |-> CountIf(over, Named)]

-----------------------------------------------------------------------------
(* Duplicate risk *)

\* _feature: a snapshot with one role per scenario; days count from 1 September.
_feature(role) ==
    [vendor |-> "synthetic vendor", number |-> "invoice202600001", day |-> 1,
     currency |-> "INR", total |-> 10000, order |-> role, doc |-> role, run |-> role]
Current == _feature("current")
Prior == _feature("prior")

RiskCase(current, historical, disposition, signals) ==
    [current |-> current, historical |-> historical, expected |-> disposition,
     signals |-> signals]
Duplicate(current, signals) == RiskCase(current, {Prior}, "NEEDS_REVIEW", signals)
Clear(current) == RiskCase(current, {Prior}, "CLEAR", {})
Incomplete(current) ==
    RiskCase(current, {}, "NEEDS_REVIEW", {"DUPLICATE_CHECK_INCOMPLETE"})
Reused(current) == Duplicate(current, {"REUSED_VENDOR_INVOICE_NUMBER"})

synthetic_duplicate_risk_scenarios ==
    Times(5, Duplicate(Current, {"EXACT_BUSINESS_KEY_DUPLICATE"}))
    \o <<Reused([Current EXCEPT !.total = 15000]), Reused([Current EXCEPT !.currency = "USD"]),
         Reused([Current EXCEPT !.day = 31]), Reused([Current EXCEPT !.day = -30])>>
    \o Times(4, RiskCase([Current EXCEPT !.total = 20000, !.order = "shared"],
                         {[Prior EXCEPT !.order = "shared"]}, "NEEDS_REVIEW",
                         {"REUSED_VENDOR_INVOICE_NUMBER", "SAME_PO_INVOICE_REPLAY"}))
    \o [i \in 1 .. 4 |->
          Duplicate([Current EXCEPT !.number = "invoice202600002", !.total = 10002,
                                    !.day = 1 + <<0, 1, 6, 7>>[i]],
                    {"NEAR_DUPLICATE"})]
    \o Times(3, Clear([Current EXCEPT !.vendor = "other vendor"]))
    \o <<Incomplete([Current EXCEPT !.vendor = Unknown]),
         Incomplete([Current EXCEPT !.number = Unknown]),
         Incomplete([Current EXCEPT !.currency = Unknown, !.total = Unknown])>>
    \o [i \in 1 .. 2 |->
          Clear([Current EXCEPT !.number = <<"clean000000000", "clean000000001">>[i],
                                !.total = 30000 + 100 * (i - 1)])]

incomplete == "DUPLICATE_CHECK_INCOMPLETE"
RiskSummary(s, r) ==
    [s |-> s, disposition |-> r.disposition, codes |-> {x.code : x \in r.signals},
     actual |-> {x.code : x \in r.signals} \ {incomplete},
     expected |-> s.signals \ {incomplete}]
RiskOutcome(s) == RiskSummary(s, RiskOf!assess_duplicate_risk(s.current, s.historical))
run_duplicate_risk_evaluation(done) ==
    LET Sum(Size(_)) == FoldLeft(LAMBDA n, d : n + Size(d), 0, done)
        checked == SelectSeq(done, LAMBDA d : incomplete \in d.s.signals)
    IN  [scenario_count |-> Len(done),
         disposition_correct |-> CountIf(done, LAMBDA d : d.disposition = d.s.expected),
         true_positive |-> Sum(LAMBDA d : Cardinality(d.actual \cap d.expected)),
         false_positive |-> Sum(LAMBDA d : Cardinality(d.actual \ d.expected)),
         false_negative |-> Sum(LAMBDA d : Cardinality(d.expected \ d.actual)),
         known_false_clear |->
           CountIf(done, LAMBDA d : d.expected # {} /\ d.disposition = "CLEAR"),
         clean_false_review |->
           CountIf(done, LAMBDA d : d.s.signals = {} /\ d.disposition = "NEEDS_REVIEW"),
         incomplete_count |-> Len(checked),
         incomplete_correct |->
           CountIf(checked, LAMBDA d : d.disposition = d.s.expected /\ d.codes = d.s.signals)]
=============================================================================
