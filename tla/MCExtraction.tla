---------------------------- MODULE MCExtraction ----------------------------
(* Bounded documents for Extraction.  A document is a sequence of printed   *)
(* rows; a row is a sequence of <<token, x, block>>.                        *)
EXTENDS Extraction

Digits == <<"0", "1", "2", "3", "4", "5", "6", "7", "8", "9">>
MCPlain == ToSet(Digits) \cup {"1,", "24", "200"}
MCHasDigit == MCPlain \cup {"A1", "B2", "d1", "d2"}
MCCurrencyMark == {"USD", "EUR", "$", "eur-sign"}
ValueOf(t) ==
    CASE t = "24" -> 24 [] t = "200" -> 200 [] OTHER -> SelectInSeq(Digits, LAMBDA d : d = t) - 1
Shift(t) == CASE t = "24" -> 100 [] t = "200" -> 1000 [] OTHER -> 10

\* Numbers printed next to each other are read as one; a leading currency is
\* skipped.  "1," is the start of a number that was printed as two words.
MCMoney(text) ==
    LET rest == IF text # <<>> /\ text[1] \in MCCurrencyMark THEN Tail(text) ELSE text
    IN  IF rest = <<"1,", "200">> THEN 1200
        ELSE IF rest # <<>> /\ ToSet(rest) \subseteq MCPlain \ {"1,"}
        THEN FoldLeft(LAMBDA n, t : Shift(t) * n + ValueOf(t), 0, rest) ELSE None

\* An identifier ends in its number and a date in its year.
MCNumberTail(t) ==
    IF t \in MCPlain THEN t
    ELSE CASE t = "A1" -> "1" [] t = "B2" -> "2" [] t \in {"d1", "d2"} -> "24" [] OTHER -> None

MCChars(text) == Len(text)
Single(S) == {<<t>> : t \in S}
MCAliases ==
    [description |-> Single({"description", "item"}), quantity |-> Single({"qty"}),
     unit_price |-> Single({"rate"}) \cup {<<"unit", "price">>},
     line_total |-> Single({"amount"}) \cup {<<"line", "total">>}]
MCStrongFooter == {<<"subtotal">>, <<"amount", "due">>, <<"grand", "total">>}
MCWeakFooter == Single({"tax"})
MCIgnoredStart == Single({"terms"})
MCProseEnding == {<<"thank", "you">>}

Word(t, page, row, k, y) ==
    [text |-> t[1], source |-> "TEXT", page |-> page, block |-> 10 * row + t[3], line |-> 0,
     num |-> k, x0 |-> t[2], x1 |-> t[2] + 40, y0 |-> y, y1 |-> y + 10]
\* at[i] is the page and the height of row i.
Printed(rows, at) ==
    FlattenSeq([i \in DOMAIN rows |->
        [k \in DOMAIN rows[i] |-> Word(rows[i][k], at[i][1], i, k, at[i][2])]])

\* Rows close together; with a wide gap before the third; the third row on a
\* new page; rows around the reach of the role guard, twelve times their height.
Even == <<<<0, 100>>, <<0, 115>>, <<0, 130>>, <<0, 145>>, <<0, 160>>>>
Wide == <<<<0, 100>>, <<0, 115>>, <<0, 165>>, <<0, 180>>, <<0, 230>>>>
Broken == <<<<0, 100>>, <<0, 115>>, <<1, 100>>, <<1, 115>>, <<1, 130>>>>
Tall == {<<<<0, 100>>, <<0, 200>>, <<0, 300>>>>, <<<<0, 100>>, <<0, 220>>, <<0, 341>>>>}

T(text, x) == <<text, x, 0>>
Lists(S, n) == [1 .. n -> S]

-----------------------------------------------------------------------------
(* Layout: words at two heights that differ by less or more than a line *)

MCLayouts ==
    {[i \in 1 .. 4 |-> [Word(T("bolt", 100 * i), 0, i, 1, ys[i]) EXCEPT !.y1 = ys[i] + h[i]]] :
       ys \in [1 .. 4 -> {100, 104, 109, 118}], h \in [1 .. 4 -> {10, 16}]}

-----------------------------------------------------------------------------
(* Tables *)

Header4 == <<T("description", 50), T("qty", 400), T("rate", 600), T("amount", 800)>>
Header3 == <<T("item", 50), T("unit", 500), T("price", 550), T("line", 780), T("total", 830)>>
Header2 == <<T("description", 50), T("amount", 800)>>
TableRows ==
    {Header4, Header2,
     <<T("bolt", 50), T("2", 400), T("3", 600), T("6", 800)>>,
     <<T("nut", 50), T("$", 760), T("3", 810)>>,
     <<T("cap", 50), T("1", 740), T("4", 800)>>, <<T("cap", 50), T("1,", 740), T("200", 800)>>,
     <<T("red", 50)>>, <<T("red", 50), T("blue", 600)>>, <<T("bolt", 50), T("2", 400)>>,
     <<T("subtotal", 50), T("9", 800)>>, <<T("tax", 50), T("9", 800)>>,
     <<T("tax", 50), T("bolt", 120), T("9", 800)>>, <<T("terms", 50)>>,
     <<T("thank", 50), T("you", 100)>>,
     <<T("total", 50), T("9", 800)>>}
MCTableDocs ==
    {Printed(<<h>> \o rows, at) :
       h \in {Header4, Header2}, rows \in Lists(TableRows, 3), at \in {Wide, Broken}}
      \cup {Printed(<<Header3>> \o rows, Even) : rows \in Lists(TableRows, 2)}

-----------------------------------------------------------------------------
(* Headers *)

GrandTotal(t) == <<T("grand", 660), T("total", 710), T(t, 770)>>
PayableRows ==
    {<<T("amount", 50), T("due", 100), T("7", 770)>>, <<T("amount", 50), T("due", 100)>>,
     <<T("total", 50), T("payable", 100), T("9", 770)>>,
     <<T("total", 50), T("4", 300), T("payable", 720), T("9", 770)>>}
GrossRowsPrinted ==
    {GrandTotal("9"), GrandTotal("8"), <<T("gross", 50), T("amount", 100), T("4", 300), T("9", 770)>>,
     <<T("net", 300), T("gross", 770)>>}
TotalRows ==
    PayableRows \cup GrossRowsPrinted \cup
    {<<T("total", 50), T("9", 770)>>, <<T("total", 50), T("4", 300), T("9", 770)>>,
     <<T("total", 50), T("4", 300), T("gross", 720), T("9", 770)>>,
     <<T("total", 50), T("9", 200), <<"reference", 600, 1>>, <<"5", 660, 1>>>>,
     <<T("9", 50), T("9", 770)>>, <<T("7", 50)>>}
InvoiceNo == <<T("invoice", 50), T("no", 100)>>
InvoiceDate == <<T("invoice", 50), T("date", 100), T("d1", 200)>>
OtherRows ==
    {<<T("subtotal", 50), T("4", 770)>>, <<T("sub", 50), T("total", 100), T("4", 770)>>,
     <<T("cgst", 50), T("2", 770)>>, <<T("total", 50), T("tax", 100), T("2", 770)>>,
     InvoiceNo, Append(InvoiceNo, T("A1", 200)), <<T("B2", 50)>>,
     InvoiceDate, InvoiceDate \o <<T("due", 300), T("date", 350), T("d2", 400)>>,
     <<T("currency", 50), T("USD", 200)>>, <<T("currency", 50)>>, <<T("EUR", 50)>>,
     <<T("total", 50), T("EUR", 700), T("3", 770)>>, <<T("total", 50), T("eur-sign", 720), T("3", 770)>>,
     <<T("total", 50), T("9", 200), T("|", 260), T("net", 770)>>,
     <<T("total", 50), T("1,", 720), T("200", 770)>>}
MCHeaderDocs ==
    {Printed(rows, at) : rows \in Lists(TotalRows, 3), at \in {Even, Broken}}
      \cup {Printed(rows, at) : rows \in Lists(PayableRows \cup GrossRowsPrinted, 3), at \in Tall}
      \cup {Printed(rows, Even) : rows \in Lists(TotalRows \cup OtherRows, 2)}

MCNumberLabel == {<<"invoice", "no">>}
MCDateLabel == {<<"invoice", "date">>}
MCExcludedDate == {<<"due", "date">>}
MCCurrencyLabel == Single({"currency"})
MCCurrencyContext == Single({"currency", "total", "subtotal", "tax", "cgst"}) \cup {<<"amount", "due">>}
MCGrossMention == {<<"gross">>, <<"grand", "total">>, <<"invoice", "total">>}
MCGrossLabel == {<<"gross", "amount">>, <<"gross", "total">>, <<"grand", "total">>, <<"invoice", "total">>}
MCIdent(text) == text
MCCode(t) == IF t \in {"USD", "EUR"} THEN t ELSE IF t = "eur-sign" THEN "EUR" ELSE None
MCDateOf(text) == IF Len(text) = 1 /\ text[1] \in {"d1", "d2"} THEN text[1] ELSE None
MCValidIdentifier(text) == Len(text) = 1 /\ text[1] \in {"A1", "B2"}

-----------------------------------------------------------------------------
(* Orders and receipts *)

MCPoAliases ==
    [line_number |-> Single({"#", "line"}), description |-> Single({"description", "item"}),
     quantity |-> Single({"qty"}), unit_price |-> Single({"price", "rate"}) \cup {<<"unit", "price">>},
     line_total |-> Single({"amount", "total"}) \cup {<<"line", "total">>}]
MCReceiptAliases ==
    [description |-> Single({"item"}), received_quantity |-> Single({"received"}),
     accepted_quantity |-> Single({"accepted", "qty"}), rejected_quantity |-> Single({"rejected"})]
MCPoLabel == {<<"po", "number">>, <<"purchase", "order">>}
MCLegacyPoLabel == MCPoLabel \cup Single({"po"})
MCReceiptLabel == {<<"receipt">>, <<"receipt", "number">>}
MCPoFooter == Single({"total", "subtotal"})
MCReceiptFooter == Single({"total", "signature"})
MCPoDateLabel == {<<"order", "date">>}
MCReceiptDateLabel == {<<"received", "date">>}
MCVendorLabel == Single({"vendor", "supplier"})
MCBuyerLabel == Single({"buyer"})
MCOtherLabel ==
    MCPoDateLabel \cup MCReceiptDateLabel \cup MCVendorLabel \cup MCBuyerLabel \cup Single({"total"})
MCOtherHeader == MCOtherLabel \cup Single({"description", "item", "line"})
MCIdentToken ==
    {"po", "number", "order", "date", "vendor", "receipt", "signature", "total", "description",
     "item", "qty", "rate", "amount", "received", "accepted", "rejected", "bolt", "nut", "cap",
     "red", "many"} \cup (MCHasDigit \ {"1,"})
MCJoinIdent(text) == IF Len(text) = 1 THEN text[1] ELSE None

OrderHeader == <<T("#", 50), T("description", 150), T("qty", 400), T("rate", 600), T("amount", 800)>>
OrderItem(no, name) ==
    <<T(no, 50), T(name, 150), T("2", 400), T("3", 600), T("6", 800)>>
OrderRows ==
    {OrderHeader, OrderItem("1", "bolt"), OrderItem("2", "nut"), Tail(OrderItem("2", "cap")),
     <<T("1", 50), T("bolt", 150), T("many", 400), T("6", 800)>>, <<T("red", 150)>>,
     <<T("total", 50), T("9", 800)>>, <<T("po", 50), T("number", 100), T("A1", 200)>>}
MCOrderDocs ==
    {Printed(<<OrderHeader>> \o rows, at) : rows \in Lists(OrderRows, 3), at \in {Even, Broken}}
      \cup {Printed(rows, Even) : rows \in Lists({<<T("po", 50), T("number", 100)>>,
              <<T("A1", 80)>>, <<T("vendor", 50)>>,
              <<T("order", 50), T("date", 100), T("d1", 200)>>}, 2)}

ReceiptTop == <<T("item", 50), T("received", 400), T("accepted", 600), T("rejected", 800)>>
ReceiptItem(name) == <<T(name, 50), T("3", 400), T("2", 600), T("1", 800)>>
MCReceiptDocs ==
    {Printed(<<ReceiptTop>> \o rows, at) :
       rows \in Lists({ReceiptTop, <<T("item", 50), T("qty", 500), T("rejected", 700)>>, ReceiptItem("bolt"),
                       <<T("nut", 50), T("3", 480), T("2", 540)>>, <<T("red", 50)>>, <<T("signature", 50)>>,
                       <<T("receipt", 50), T("number", 100), T("A1", 200)>>}, 3), at \in {Even, Broken}}

-----------------------------------------------------------------------------
(* Grounding and fusion *)

\* "bolt-nut" is one word of two parts; ":" has none; "lolt" is a misread "bolt".
MCParts(t) == IF t = "bolt-nut" THEN <<"bolt", "nut">> ELSE IF t = ":" THEN <<>> ELSE <<t>>
MCNormalValue(field, text) ==
    IF text = None THEN None
    ELSE IF field \in {"subtotal", "tax", "total", "quantity", "unit_price", "line_total"} THEN MCMoney(text)
    ELSE IF field = "invoice_date" THEN MCDateOf(text)
    ELSE IF field = "currency" THEN IF Len(text) = 1 THEN MCCode(text[1]) ELSE None
    ELSE IF text = <<>> THEN None ELSE text
MCSimilarity(a, b) ==
    LET alike(s, t) == s = t \/ {s, t} \in {{"bolt", "lolt"}, {"2", "3"}}
    IN  IF a = b THEN 100
        ELSE IF Len(a) = Len(b) /\ \A i \in DOMAIN a : alike(a[i], b[i]) THEN 95 ELSE 0
MCDigitRuns(parts) == SelectSeq(parts, LAMBDA p : p \in ToSet(Digits))

MCDigits == ToSet(Digits)
MCAmountLabel ==
    [subtotal |-> {<<"subtotal">>}, tax |-> {<<"tax">>}, total |-> {<<"total">>, <<"amount", "due">>, <<"grand", "total">>}]
MCColumnAlias ==
    [description |-> {"description", "item"}, ordered_quantity |-> {"qty"},
     unit_price |-> {"price", "rate"}, line_total |-> {"amount", "total"},
     received_quantity |-> {"received"}, accepted_quantity |-> {"accepted"},
     rejected_quantity |-> {"rejected"}]

Claim(raw, quote) == [raw |-> raw, page |-> 0, quote |-> quote]
Nothing == [raw |-> None, page |-> None, quote |-> None]
Doc(words, ocr) == [words |-> words, pages |-> 1, ocr |-> ocr]

QuoteTokens == {"bolt", "nut", "bolt-nut", "2", ":"}
PagesOfWords ==
    {Printed(<<[i \in 1 .. 3 |-> T(t[i], 100 * i)]>>, Even) : t \in Lists(QuoteTokens, 3)}
MCQuotes ==
    {[field |-> "description", cand |-> Claim(c[1], c[2]), doc |-> Doc(w, {})] :
       w \in PagesOfWords,
       c \in {<<<<"bolt">>, <<"bolt">>>>, <<<<"bolt">>, <<"bolt", "nut">>>>,
              <<<<"bolt-nut">>, <<"bolt-nut">>>>, <<<<"bolt", "nut">>, <<"bolt", "nut">>>>,
              <<<<"nut">>, <<"lolt", "nut">>>>, <<<<"bolt">>, <<":">>>>,
              <<<<"bolt">>, <<"2", "bolt">>>>}}
      \cup {[field |-> "line_total", cand |-> Claim(c[1], c[2]), doc |-> Doc(w, {})] :
              w \in PagesOfWords,
              c \in {<<<<"2">>, <<"bolt", "2">>>>, <<<<"2">>, <<"2", "2">>>>,
                     <<<<"3">>, <<"bolt", "3">>>>, <<<<"bolt">>, <<"bolt">>>>, <<None, <<"2">>>>}}

\* Invoices of two lines whose numbers drift between the columns and the rows.
InvoiceRows ==
    {<<T("bolt", 50), T("2", 400), T("3", 600), T("6", 800)>>,
     <<T("nut", 50), T("4", 400), T("5", 460)>>,
     <<T("cap", 50), T("7", 600), T("8", 800)>>, <<T("5", 800)>>}
RowTexts == {"bolt", "nut", "cap"}
TopRow == <<T("total", 50), T("9", 200)>>
\* The rows stand apart, or the last two touch.
Apart == <<<<0, 20>>, <<0, 100>>, <<0, 115>>, <<0, 130>>>>
Touching == <<<<0, 20>>, <<0, 100>>, <<0, 115>>, <<0, 125>>>>
InvoiceDoc(rows, at) == Doc(Printed(<<TopRow, Header4>> \o rows, at), {})
Whole(text) == IF text = None THEN Nothing ELSE Claim(text, text)
LineClaim(name, total) ==
    [description |-> Whole(name), quantity |-> Nothing, unit_price |-> Nothing,
     line_total |-> Whole(total)]
LineClaims ==
    {LineClaim(n, t) : n \in Single(RowTexts) \cup {None}, t \in Single({"5", "6", "8"}) \cup {None}}
\* Descriptions that reach into the next row, which may be no line of its own.
SpanningRows ==
    {<<T("bolt", 50), T("2", 400), T("3", 600)>>, <<T("red", 50), T("7", 650)>>,
     <<T("nut", 50), T("8", 800)>>, <<T("red", 50)>>}
SpanningClaims ==
    {LineClaim(n, t) : n \in {<<"bolt">>, <<"bolt", "2", "3", "red">>, <<"bolt", "2", "3", "nut">>, <<"nut">>},
                       t \in Single({"7", "8"}) \cup {None}}
InvoiceClaim(lines, total) ==
    [invoice_number |-> Nothing, invoice_date |-> Nothing, currency |-> Nothing,
     subtotal |-> Nothing, tax |-> Nothing, total |-> total, line_items |-> lines]
TotalClaims == {Claim(<<"9">>, <<"total", "9">>), Claim(<<"1">>, <<"1">>), Claim(<<"8">>, <<"8">>)}
Drifting == {InvoiceDoc(rows, Apart) : rows \in Lists(InvoiceRows, 2)}
Spanning == {InvoiceDoc(rows, at) : rows \in Lists(SpanningRows, 2), at \in {Apart, Touching}}
MCInvoiceAnswers ==
    [d \in Drifting |-> {InvoiceClaim(<<>>, total) : total \in TotalClaims}
                          \cup {InvoiceClaim(lines, Nothing) : lines \in Lists(LineClaims, 2)}]
      @@ [d \in Spanning |-> {InvoiceClaim(lines, Nothing) : lines \in Lists(SpanningClaims, 2)}]

\* Orders and receipts of two lines, with the model's lines in any order.
OrderLineClaim(description, qty, total) ==
    [line_number |-> Nothing, unit_price |-> Nothing, description |-> description,
     ordered_quantity |-> Whole(qty), line_total |-> Whole(total)]
OrderDescriptions == {Whole(<<"bolt">>), Whole(<<"nut">>), Claim(<<"bolt">>, <<"bolt", "2", "6", "cap">>)}
OrderClaim(lines, total) ==
    [f \in PoHeader \cup {"line_items"} |->
        IF f = "line_items" THEN lines ELSE IF f = "total" THEN total ELSE Nothing]
OrderCaseRows ==
    {<<T("bolt", 150), T("2", 400), T("6", 800)>>, <<T("nut", 150), T("4", 400), T("5", 460)>>,
     <<T("cap", 150), T("7", 600), T("8", 800)>>}
ReceiptLineClaim(name, qty) ==
    [description |-> Claim(<<name>>, <<name>>), received_quantity |-> Claim(<<qty>>, <<qty>>),
     accepted_quantity |-> Nothing, rejected_quantity |-> Nothing]
OrderCases ==
    {[doc |-> InvoiceDoc(rows, at), role |-> "PURCHASE_ORDER"] :
       rows \in Lists(OrderCaseRows, 2), at \in {Apart, Touching}}
ReceiptCases ==
    {[doc |-> Doc(Printed(<<ReceiptTop, a, ReceiptItem("cap")>>, Even), {0}), role |-> "GOODS_RECEIPT"] :
       a \in {<<T("bolt", 50), T("5", 600)>>, <<T("nut", 50), T("7", 400)>>}}
MCSupportingAnswers ==
    [c \in OrderCases |->
        {OrderClaim(lines, Claim(<<"9">>, <<"total", "9">>)) :
           lines \in Lists({OrderLineClaim(d, q, t) : d \in OrderDescriptions, q \in {<<"4">>, None},
                                                      t \in Single({"5", "6", "8"})}, 2)}]
      @@ [c \in ReceiptCases |->
            {[f \in ReceiptHeader \cup {"line_items"} |->
                IF f = "line_items" THEN <<ReceiptLineClaim(n, q)>> ELSE Nothing] :
               n \in {"bolt", "nut", "cap"}, q \in {"3", "5", "7"}}]

-----------------------------------------------------------------------------
(* Amounts *)

MCPrintedAmounts ==
    {[amount |-> [int |-> [i \in 1 .. n |-> i % 10], frac |-> [i \in 1 .. f |-> 5], negative |-> neg],
      group |-> c[1], point |-> c[2]] :
       n \in 1 .. 8, f \in 0 .. 3, neg \in BOOLEAN,
       c \in {<<"none", ".">>, <<"none", ",">>, <<",", ".">>, <<".", ",">>}}
=============================================================================
