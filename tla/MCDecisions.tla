---------------------------- MODULE MCDecisions ----------------------------
(* Bounded inputs for Decisions.  Amounts are in cents; the tolerances are  *)
(* the defaults of matching-v3 and duplicate-risk-v1.                       *)
EXTENDS Decisions

\* Descriptions: two bolts that are hard to tell apart, and a nut.
MCScore(a, b) ==
    CASE a = b -> 100
      [] {a, b} = {"bolt m8", "bolt"} -> 100
      [] {a, b} = {"bolt m6", "bolt"} -> 92
      [] {a, b} = {"bolt m6", "bolt m8"} -> 86
      [] OTHER -> 20

Line(desc, qty, price, total) ==
    [desc |-> desc, qty |-> qty, price |-> price, total |-> total]

\* One line per description, and the ways a line's numbers can be off.
Items ==
    {Line(d, 2, 100, 200) : d \in {"bolt", "bolt m6", "bolt m8", "nut", "blank"}}
      \cup {Line("bolt", 2, 101, 202), Line("bolt", 2, 99, 198), Line("bolt", 2, 100, 203),
            Line("bolt", 1, 100, 100), Line("bolt", 0, 100, 0), Line("nut", 2, 0, 0),
            Line("bolt", None, 100, 200), Line("nut", -1, 100, -100), Line(None, 2, 100, 200)}

\* All invoices of up to two lines; of three lines where lines compete.
Rivals == {i \in Items : i.price \in {100, 101} /\ i.qty \in {2, None} /\ i.desc # None /\ i.total # 203}
ItemLists == UNION {[1 .. n -> Items] : n \in 0 .. 2} \cup [1 .. 3 -> Rivals]

Header(lines, issues, currency, off, tax, toff) ==
    LET subtotal == LinesTotal([lines |-> lines]) + off
    IN  [issues |-> issues, currency |-> currency, subtotal |-> subtotal, tax |-> tax,
         total |-> subtotal + toff + (IF tax = None THEN 0 ELSE tax), day |-> 2,
         lines |-> lines]

PLine(key, desc, qty, price, total) ==
    [key |-> key, desc |-> desc, qty |-> qty, price |-> price, total |-> total]
PurchaseOrder(lines) == [currency |-> "INR", lines |-> lines]

Orders ==
    {PurchaseOrder(<<PLine(1, "bolt", 2, 100, None)>>),
     PurchaseOrder(<<PLine(1, "bolt m8", 2, 100, 200), PLine(2, "bolt m6", 2, 100, 200)>>),
     PurchaseOrder(<<PLine(2, "bolt", 2, 100, 200), PLine(1, "nut", 2, 0, None)>>),
     PurchaseOrder(<<PLine(1, "nut", 2, 100, 200), PLine(2, "nut", 2, 100, 200)>>),
     PurchaseOrder(<<PLine(1, "bolt", 2, 100, 300)>>)}

\* Those invoices with a consistent header, and every header fault on one line.
Faults ==
    {Header(<<Line("bolt", 2, 100, 200)>>, issues, currency, off, tax, toff) :
       issues \in BOOLEAN, currency \in {"INR", "EUR", None}, off \in {0, 2, 3},
       tax \in {None, -5, 0, 10}, toff \in {-10, 0, 3}}
Plain == {Header(lines, FALSE, "INR", 0, 10, 0) : lines \in ItemLists}
MCMatchInput == {[inv |-> i, po |-> p] : i \in Plain \cup Faults, p \in Orders}

Receipt(id, qty, day) == [id |-> id, qty |-> qty, day |-> day]
Ctx(line, active, reversed, prior) ==
    [ordered |-> line.qty, active |-> active, reversed |-> reversed, prior |-> prior]

\* Every line received in full; in part; in full but claimed, reversed or late;
\* and more than was ordered.
MCContextOf(po) ==
    {[j \in DOMAIN po.lines |-> Ctx(po.lines[j], c[1], c[2], c[3])] :
       c \in {<<{Receipt(1, 2, 1)}, {}, 0>>, <<{Receipt(1, 1, 1)}, {}, 0>>,
              <<{Receipt(1, 1, 1), Receipt(2, 1, 2)}, {}, 1>>, <<{}, {}, 0>>,
              <<{Receipt(1, 2, 1)}, {3}, 0>>, <<{Receipt(1, 2, 3)}, {}, 0>>,
              <<{Receipt(1, 3, 1)}, {}, 0>>}}

\* Invoice numbers, two of which differ in one character.
MCRatio(a, b) == IF a = b THEN 100 ELSE IF {a, b} = {"a1001", "a1002"} THEN 95 ELSE 30

MCText(normal) == [normal |-> normal]
Snapshot(run, vendor, number, day, currency, total, order) ==
    Risk!build_feature_snapshot(run,
        [id |-> order, vendor |-> vendor],
        [number |-> number, day |-> day, currency |-> MCText(currency), total |-> total,
         doc |-> run])

\* Pairs of invoices that differ in any of the compared features.
First == Snapshot(1, MCText("acme"), MCText("a1001"), 10, "INR", 500, "o1")
Second ==
    {Snapshot(2, MCText(v), n, d, c, t, o) :
       v \in {"acme", "other", "EMPTY"},
       n \in {Unknown, MCText("a1001"), MCText("a1002"), MCText("b2000")},
       d \in {Unknown, 3, 10, 17, 18}, c \in {"INR", "EUR"},
       t \in {498, 500, 503}, o \in {"o1", "o2"}}
MCFeatures == {{First, g} : g \in Second}

\* Live evaluations: a corpus of up to three documents under several limits, and
\* each argument that stops one before it starts.
Doc(split, type, routed) ==
    [split |-> split, type |-> type, pages |-> 1, routed |-> routed, readable |-> TRUE]
Corpora ==
    {<<Doc("development", "pdf", TRUE), Doc("unseen", "png", TRUE), Doc("unseen", "pdf", TRUE)>>,
     <<Doc("development", "png", FALSE), Doc("development", "pdf", TRUE)>>}
Allowed(cases, limit) ==
    [kind |-> "live", cases |-> cases, limit |-> limit, allow_live |-> TRUE, fake |-> FALSE,
     local |-> "no", custom_text |-> FALSE, age |-> 7, max_documents |-> 3, max_pages |-> 3,
     allow_holdout |-> TRUE, ocr_ready |-> TRUE, output_exists |-> FALSE]
Usual == {Allowed(c, n) : c \in Corpora, n \in {17, 34, 50, 80}}
Bad(o) ==
    {[o EXCEPT !.limit = 16], [o EXCEPT !.allow_live = FALSE], [o EXCEPT !.age = 8],
     [o EXCEPT !.custom_text = TRUE], [o EXCEPT !.local = "native"], [o EXCEPT !.max_pages = 0],
     [o EXCEPT !.max_documents = 1], [o EXCEPT !.max_pages = 1], [o EXCEPT !.output_exists = TRUE],
     [o EXCEPT !.allow_holdout = FALSE], [o EXCEPT !.ocr_ready = FALSE],
     [o EXCEPT !.cases[2].readable = FALSE],
     [o EXCEPT !.fake = TRUE, !.local = "scan", !.allow_live = FALSE]}
MCLiveOptions == Usual \cup UNION {Bad(o) : o \in {u \in Usual : u.limit = 50}}
MCTokens == [context |-> 5, output |-> 2]
MCUnitPrice == [input |-> 1, output |-> 4]
Used(i, o, t) == [input |-> i, output |-> o, total |-> t]
MCUsages == {Used(1, 1, 2), Used(5, 2, 7), Used(9, 2, 11), Used(10, 1, 11), Used(3, 1, 5)}

\* Extraction evaluations: truth lines and extracted lines of which some agree
\* in full, some in part, and a second document that was or was not read.
ScoreLine(d, q, p, t) == [description |-> d, quantity |-> q, unit_price |-> p, line_total |-> t]
Printed(v) == <<v, "padded">>
Bolt == ScoreLine(<<"bolt", "plain">>, <<2, "plain">>, <<5, "plain">>, <<10, "plain">>)
BoltPadded == ScoreLine(Printed("bolt"), Printed(2), Printed(5), Printed(10))
BoltOnly == ScoreLine(<<"bolt", "plain">>, None, None, <<9, "plain">>)
Nut == ScoreLine(<<"nut", "plain">>, <<2, "plain">>, None, <<8, "plain">>)
Empty == ScoreLine(None, None, None, None)
Headed(number, lines) ==
    [f \in Scores!HEADER_FIELDS \cup {"line_items"} |->
       IF f = "line_items" THEN lines ELSE IF f = "invoice_number" THEN number ELSE None]
Sequences(S, n) == UNION {[1 .. k -> S] : k \in 0 .. n}
Example(truth, lines, error, layout) ==
    [truth |-> Headed(Printed("i1"), truth), invoice |-> Headed(<<"i1", "plain">>, lines),
     error |-> error, scanned |-> error # None, tags |-> {layout, "source=ocr"}]
Other == {Example(<<Nut>>, <<Bolt>>, e, "layout=grid") : e \in {None, "ocr_unavailable"}}
Evaluation(examples, split, allowed, ocr) ==
    [kind |-> "corpus", examples |-> examples, split |-> split, allow_holdout |-> allowed,
     ocr_available |-> ocr]
MCEvaluations ==
    {Evaluation(<<Example(t, l, None, "layout=plain"), o>>, "development", FALSE, TRUE) :
       t \in Sequences({Bolt, Nut, BoltOnly, Empty}, 2),
       l \in Sequences({BoltPadded, Nut, BoltOnly, Empty}, 3), o \in Other}
    \cup {Evaluation(<<Example(<<Nut>>, <<Nut>>, None, "layout=plain"), o>>, "holdout", h, r) :
            o \in Other, h \in BOOLEAN, r \in BOOLEAN}
=============================================================================
