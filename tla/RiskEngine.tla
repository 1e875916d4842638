----------------------------- MODULE RiskEngine -----------------------------
(***************************************************************************)
(* Duplicate risk: build_feature_snapshot and _candidate_records of        *)
(* risk/service.py, assess_duplicate_risk and _compare of risk/engine.py.  *)
(*                                                                         *)
(* A snapshot has the normalised business key of one match run (vendor,    *)
(* number, day, currency, total; None when unavailable) and the order, the *)
(* document and the run it belongs to.                                     *)
(***************************************************************************)
EXTENDS Integers, FiniteSets

CONSTANTS
    Unknown,             \* a feature that is not available
    Ratio(_, _),         \* similarity of two invoice numbers, in percent
    RiskAmountTol,       \* amount_absolute_tolerance
    WindowDays,          \* date_window_days
    NumberThreshold,     \* invoice_number_similarity_threshold, in percent
    RouteIncomplete      \* route_incomplete_to_review

Distance(a, b) == IF a >= b THEN a - b ELSE b - a

\* A text comes with its normal form: what normalize_vendor or
\* normalize_invoice_number (casefold, keep letters and digits) or str.upper
\* makes of it, possibly nothing.
Normal(text) == IF text = Unknown THEN Unknown ELSE text.normal
Clean(normal) == IF normal = "EMPTY" THEN Unknown ELSE normal

build_feature_snapshot(run, order, invoice) ==
    [vendor   |-> Clean(Normal(order.vendor)),
     number   |-> Clean(Normal(invoice.number)),
     day      |-> invoice.day,
     currency |-> Normal(invoice.currency),
     total    |-> invoice.total,
     order    |-> order.id,
     doc      |-> invoice.doc,
     run      |-> run]

missing_fields(f) ==
    {k \in {"vendor", "number", "day", "currency", "total"} : f[k] = Unknown}
Complete(f) == missing_fields(f) = {}

-----------------------------------------------------------------------------
(* _candidate_records: the query that narrows the history *)

\* Mutant of InWindow: the bounds of the window are left out.
InWindowOpen(a, b) == Distance(a, b) < WindowDays

InWindow(a, b) == Distance(a, b) <= WindowDays

\* NULL columns compare as unknown, that is, never as equal.
Same(a, b) == a # Unknown /\ b # Unknown /\ a = b

Plausible(cur, rec) ==
    \/ rec.order = cur.order
    \/ Same(cur.vendor, rec.vendor) /\ Same(cur.number, rec.number)
    \/ /\ Same(cur.vendor, rec.vendor) /\ Same(cur.currency, rec.currency)
       /\ Unknown \notin {cur.day, rec.day} /\ InWindow(cur.day, rec.day)

Others(cur, history) == {rec \in history : rec.run # cur.run /\ rec.doc # cur.doc}
candidate_records(cur, history) ==
    {rec \in Others(cur, history) : Plausible(cur, rec)}

-----------------------------------------------------------------------------
(* assess_duplicate_risk *)

Signal(code, run) == [code |-> code, run |-> run]

AmountClose(cur, ref) == Distance(cur.total, ref.total) <= RiskAmountTol
SameKey(cur, ref) == cur.vendor = ref.vendor /\ cur.number = ref.number
Exact(cur, ref) ==
    /\ SameKey(cur, ref) /\ cur.day = ref.day /\ cur.currency = ref.currency
    /\ AmountClose(cur, ref)

NearDuplicate(cur, ref) ==
    /\ ~Exact(cur, ref)
    /\ cur.vendor = ref.vendor /\ cur.currency = ref.currency
    /\ AmountClose(cur, ref)
    /\ Distance(cur.day, ref.day) <= WindowDays
    /\ Ratio(cur.number, ref.number) >= NumberThreshold

\* _compare: the signals that a complete reference raises.
Compare(cur, ref) ==
    {Signal(code, ref.run) : code \in
       {c \in {"EXACT_BUSINESS_KEY_DUPLICATE"} : Exact(cur, ref)}
         \cup {c \in {"REUSED_VENDOR_INVOICE_NUMBER"} :
                 SameKey(cur, ref) /\ ~Exact(cur, ref)}
         \cup {c \in {"SAME_PO_INVOICE_REPLAY"} :
                 cur.order = ref.order /\ cur.number = ref.number}
         \cup {c \in {"NEAR_DUPLICATE"} : NearDuplicate(cur, ref)}}

\* The signals, without repetition, and the disposition they add up to.
assess_duplicate_risk(cur, historical) ==
    LET signals ==
          IF ~Complete(cur) THEN {Signal("DUPLICATE_CHECK_INCOMPLETE", Unknown)}
          ELSE UNION {Compare(cur, ref) :
                        ref \in {r \in Others(cur, historical) : Complete(r)}}
        incomplete == ~Complete(cur)
        found == \E s \in signals : s.code # "DUPLICATE_CHECK_INCOMPLETE"
    IN  [signals |-> signals,
         disposition |-> IF found \/ (incomplete /\ RouteIncomplete) THEN "NEEDS_REVIEW"
                         ELSE IF incomplete THEN "NOT_ASSESSABLE" ELSE "CLEAR"]

\* DuplicateRiskService.ensure, apart from its rows: features, candidates and
\* the assessment.
Ensure(cur, history) == assess_duplicate_risk(cur, candidate_records(cur, history))
=============================================================================
