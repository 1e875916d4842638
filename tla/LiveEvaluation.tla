--------------------------- MODULE LiveEvaluation ---------------------------
(***************************************************************************)
(* The guarded evaluation of hybrid extraction with a paid provider:       *)
(* evaluation/live_budget.py (the spend ledger around the provider) and    *)
(* run_hybrid_live_manifest of evaluation/hybrid_live.py.                  *)
(*                                                                         *)
(* `options` are the arguments and the corpus of one invocation, `run` is  *)
(* its process together with what the provider really bills.  A document   *)
(* of the corpus has a split, a content type, a number of pages, and       *)
(* whether it can be preprocessed and is routed to the provider.  Costs    *)
(* are in the smallest unit of the price list.                             *)
(***************************************************************************)
EXTENDS Integers, Sequences, FiniteSets, SequencesExt

CONSTANTS
    Tokens,              \* [context, output]: the model's bounds in tokens
    UnitPrice,           \* [input, output]: cost of a token
    ImageWeight,         \* image_token_multiplier_bound, in percent
    Usages               \* [input, output, total] a response may report

VARIABLES options, run

vars == <<options, run>>

-----------------------------------------------------------------------------
(* The spend ledger *)

LeastOf(a, b) == IF a <= b THEN a ELSE b
cost(input, output) == input * UnitPrice.input + output * UnitPrice.output
weighted_input(tokens) == (tokens * ImageWeight + 99) \div 100

InputBound == weighted_input(Tokens.context)
RequestBound == cost(InputBound, Tokens.output)

EmptyLedger ==
    [accounted |-> 0, known_cost |-> 0, calls |-> 0, known |-> 0, unknown |-> 0,
     tokens |-> 0, halted |-> FALSE]

MayReserve(l) == ~l.halted /\ l.accounted + RequestBound <= options.limit
Reserved(l) == [l EXCEPT !.accounted = @ + RequestBound, !.calls = @ + 1]

\* What _BoundedResponses saw of a response: whether its model and tier are the
\* expected ones, and its usage if it has one.
Accountable(seen) ==
    /\ seen.verified /\ seen.usage # {}
    /\ \A u \in seen.usage :
         /\ u.input <= InputBound /\ u.output <= Tokens.output
         /\ u.total = u.input + u.output

\* Mutant of Halted: the reservation of an unknown request is released.
HaltedReleasing(l) ==
    [l EXCEPT !.unknown = @ + 1, !.halted = TRUE, !.accounted = @ - RequestBound]

\* A timeout or invalid accounting may still be billed: the bound is kept.
Halted(l) == [l EXCEPT !.unknown = @ + 1, !.halted = TRUE]

ChargedBound(u) == cost(LeastOf(InputBound, weighted_input(u.input)), u.output)

settle(l, seen) ==
    IF ~Accountable(seen) THEN Halted(l)
    ELSE LET u == CHOOSE x \in seen.usage : TRUE
         IN  [l EXCEPT !.accounted = @ + ChargedBound(u) - RequestBound,
                       !.known_cost = @ + cost(u.input, u.output),
                       !.known = @ + 1,
                       !.tokens = @ + u.total]

-----------------------------------------------------------------------------
(* The arguments *)

Cases == options.cases
PageCount == FoldLeft(LAMBDA n, c : n + c.pages, 0, Cases)

\* verified_profile, SpendLedger.__init__ and BudgetedVisionProvider.__init__.
ProviderRefused ==
    \/ options.limit < RequestBound
    \/ ~options.fake /\ options.age \notin 0 .. 7

\* The early returns of run_hybrid_live_manifest, in this order; the local
\* entry point needs no authorisation.
Refused ==
    \/ ProviderRefused
    \/ options.local = "no" /\ ~options.allow_live
    \/ options.local # "no" /\ ~options.fake
    \/ options.max_documents <= 0 \/ options.max_pages <= 0
    \/ options.custom_text /\ ~options.fake
    \/ options.output_exists
    \/ (\E i \in DOMAIN Cases : Cases[i].split = "unseen") /\ ~options.allow_holdout
    \/ Len(Cases) > options.max_documents \/ PageCount > options.max_pages
    \/ /\ ~options.custom_text /\ ~options.ocr_ready
       /\ \E i \in DOMAIN Cases : Cases[i].type = "png"

Start ==
    /\ run.pc = "start"
    /\ run' = IF Refused THEN [run EXCEPT !.pc = "refused"]
              ELSE [run EXCEPT !.pc = "preprocess", !.i = 1]
    /\ UNCHANGED options

\* Text, OCR, deterministic extraction and rendering of one document.
Preprocess ==
    /\ run.pc = "preprocess" /\ run.i <= Len(Cases)
    /\ run' = IF Cases[run.i].readable THEN [run EXCEPT !.i = @ + 1]
              ELSE [run EXCEPT !.pc = "failed"]
    /\ UNCHANGED options

\* The output directory is created once the whole corpus is preprocessed; it may
\* have appeared since it was looked for.
MakeDirectory ==
    /\ run.pc = "preprocess" /\ run.i > Len(Cases)
    /\ \/ run' = [run EXCEPT !.pc = "documents", !.i = 1, !.output = TRUE]
       \/ run' = [run EXCEPT !.pc = "failed"]
    /\ UNCHANGED options

-----------------------------------------------------------------------------
(* The documents *)

\* SafetyCounts, as far as the provider is concerned.
NoCounts == [eligible |-> 0, requests |-> 0, successes |-> 0, failures |-> 0, refused |-> 0]
Eligible == [NoCounts EXCEPT !.eligible = 1]

Audited(r, audit, invoice) ==
    [r EXCEPT !.pc = "documents", !.i = @ + 1, !.audits = Append(@, audit),
              !.hybrids = Append(@, invoice)]

AtDocument == run.pc = "documents" /\ run.i <= Len(Cases)
Skip ==
    /\ AtDocument /\ ~Cases[run.i].routed
    /\ run' = Audited(run, NoCounts, "baseline")
    /\ UNCHANGED options

Refuse ==
    /\ AtDocument /\ Cases[run.i].routed /\ ~MayReserve(run.ledger)
    /\ run' = Audited(run, [Eligible EXCEPT !.refused = 1], "baseline")
    /\ UNCHANGED options

Reserve ==
    /\ AtDocument /\ Cases[run.i].routed /\ MayReserve(run.ledger)
    /\ run' = [run EXCEPT !.pc = "calling", !.ledger = Reserved(@)]
    /\ UNCHANGED options

\* The provider bills a request by the usage it reports, or anything up to the
\* bound of a request when its report is not accountable; a stand-in bills nothing.
Bills(seen) ==
    IF options.fake THEN {0}
    ELSE IF Accountable(seen) THEN {ChargedBound(u) : u \in seen.usage}
    ELSE {0, RequestBound}

Sightings ==
    [verified : BOOLEAN, usage : {{}} \cup {{u} : u \in Usages}]

\* The answer: fused when it parses, a provider failure when it does not.  An
\* unverified response is always a failure; settle runs in either case.
Answer ==
    /\ run.pc = "calling"
    /\ \E seen \in Sightings, ok \in BOOLEAN : \E bill \in Bills(seen) :
         /\ ok => seen.verified
         /\ LET settled == [run EXCEPT !.ledger = settle(@, seen), !.bill = @ + bill]
                audit == [Eligible EXCEPT !.requests = 1, !.successes = IF ok THEN 1 ELSE 0,
                                          !.failures = IF ok THEN 0 ELSE 1]
            IN  run' = Audited(settled, audit, IF ok THEN "fused" ELSE "baseline")
    /\ UNCHANGED options

\* The process ends inside a call, by an unexpected exception or from outside;
\* the request may have been billed.
Die ==
    /\ run.pc = "calling"
    /\ \E bill \in Bills([verified |-> FALSE, usage |-> {}]) :
         run' = [run EXCEPT !.pc = "failed", !.bill = @ + bill]
    /\ UNCHANGED options

-----------------------------------------------------------------------------
(* The report *)

_combine(audits) == FoldLeft(LAMBDA sum, a : [k \in DOMAIN sum |-> sum[k] + a[k]], NoCounts, audits)

summarize(indexes) ==
    LET chosen == SelectSeq([i \in DOMAIN Cases |-> i], LAMBDA i : i \in indexes)
    IN  [documents |-> Len(chosen),
         fused |-> Len(SelectSeq(chosen, LAMBDA i : run.hybrids[i] = "fused")),
         safety |-> _combine([k \in DOMAIN chosen |-> run.audits[chosen[k]]])]

\* The ledger's totals, or those of a local run, which bills nothing.
UsageCounts(l) ==
    IF options.local = "no"
    THEN [requests |-> l.calls, known |-> l.known, unknown |-> l.unknown,
          complete |-> l.unknown = 0, upper |-> l.accounted,
          estimate |-> IF l.unknown = 0 THEN {l.known_cost} ELSE {}]
    ELSE [requests |-> l.calls, known |-> l.calls, unknown |-> 0, complete |-> TRUE,
          upper |-> 0, estimate |-> {0}]

LiveReport ==
    [all |-> summarize(DOMAIN Cases),
     splits |-> [s \in {"development", "unseen"} |->
                   summarize({i \in DOMAIN Cases : Cases[i].split = s})],
     types |-> [t \in {"pdf", "png"} |-> summarize({i \in DOMAIN Cases : Cases[i].type = t})],
     usage |-> UsageCounts(run.ledger)]

WriteReport ==
    /\ run.pc = "documents" /\ run.i > Len(Cases)
    /\ run' = [pc |-> "reported", report |-> LiveReport, ledger |-> run.ledger,
               bill |-> run.bill, output |-> TRUE]
    /\ UNCHANGED options

NewRun ==
    [pc |-> "start", i |-> 1, ledger |-> EmptyLedger, bill |-> 0, output |-> FALSE,
     audits |-> <<>>, hybrids |-> <<>>]

-----------------------------------------------------------------------------
(* Properties *)

\* Whatever the provider reports or hides, and wherever the process ends, the
\* bill never exceeds what the ledger accounts for, nor that the limit; after one
\* request of unknown cost no other is made.
SpendBounded ==
    /\ run.bill <= run.ledger.accounted /\ run.ledger.accounted <= options.limit
    /\ run.ledger.unknown <= 1
    /\ run.ledger.unknown = 1 => run.ledger.halted

\* No request is made before the last document is preprocessed, with every
\* document within the limits, and a report directory claimed for this run.
SpendsLast ==
    run.ledger.calls > 0 =>
        /\ run.output /\ ~Refused
        /\ \A i \in DOMAIN Cases : Cases[i].readable

\* The report counts every document once in each breakdown, every eligible one as
\* answered, failed or refused, and every request as known or unknown; it gives
\* an estimate only when no usage is unknown.
ReportAddsUp ==
    run.pc = "reported" =>
        LET r == run.report
            s == r.all.safety
            Adds(f) ==
              /\ r.all.documents = MapThenSumSet(LAMBDA k : f[k].documents, DOMAIN f)
              /\ \A c \in DOMAIN NoCounts :
                   s[c] = MapThenSumSet(LAMBDA k : f[k].safety[c], DOMAIN f)
        IN  /\ r.all.documents = Len(Cases) /\ Adds(r.splits) /\ Adds(r.types)
            /\ s.eligible = Cardinality({i \in DOMAIN Cases : Cases[i].routed})
            /\ s.eligible = s.successes + s.failures + s.refused
            /\ s.requests = s.successes + s.failures
            /\ s.requests = r.usage.requests /\ s.successes = r.all.fused
            /\ r.usage.requests = r.usage.known + r.usage.unknown
            /\ r.usage.complete <=> r.usage.estimate # {}
            /\ \A e \in r.usage.estimate : e <= r.usage.upper
            /\ run.bill <= r.usage.upper

\* The evaluation never spends more than it was allowed to or reports more than
\* it did.
EvaluationSound == SpendBounded /\ SpendsLast /\ ReportAddsUp
=============================================================================
