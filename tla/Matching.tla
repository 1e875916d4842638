------------------------------ MODULE Matching ------------------------------
(***************************************************************************)
(* MatchingService, GoodsReceiptService and DuplicateRiskService over one  *)
(* PostgreSQL database: match requests in both modes, goods receipts and   *)
(* their reversals, the reconciliation job, and extractions that succeed   *)
(* while all of that goes on.                                              *)
(*                                                                         *)
(* A three-way match and the receipt commands hold the purchase order's    *)
(* row lock (lock_purchase_order) until they commit.  A two-way match and  *)
(* the repair of a run only take the share lock that the foreign key of an *)
(* inserted row needs, from the insert to the commit.  Rows a transaction  *)
(* has inserted are invisible to others until the commit, and an insert    *)
(* that collides with one of them waits for it.                            *)
(***************************************************************************)
EXTENDS ThreeWayRules, Sequences

CONSTANTS
    Doc, Order, Session,
    Lines,           \* [Order -> set of purchase-order lines]
    Ordered,         \* [line -> ordered quantity]
    Extraction,      \* extraction runs
    Invoice,         \* [Extraction -> [doc, rank, sound, day, key, bill]]
    Delivery,        \* receipt commands [order, number, day, qty : [lines -> Nat]]
    Extracted,       \* the extraction runs that have succeeded at the start
    Legacy,          \* histories of match runs from before the risk layer
    Scale,           \* one unit of Numeric(24, 8), in the instance's units
    Free,            \* no session
    MaxRuns          \* bound on the number of match runs

ASSUME ScaleAssumption == Scale \in Nat \ {0}
ASSUME FreeAssumption == Free \notin Session
ASSUME ExtractedAssumption == Extracted \subseteq Extraction
\* An invoice passes the checks of validate_invoice_financials only if it has a
\* usable line; a line is what it bills and where.
ASSUME InvoiceAssumption ==
    \A x \in Extraction :
        /\ Invoice[x].rank \in Nat
        /\ Invoice[x].sound => Invoice[x].bill # {}
        /\ \A b \in Invoice[x].bill :
              b = [idx |-> b.idx, line |-> b.line, qty |-> b.qty] /\ b.qty \in Int

VARIABLES
    done,            \* the extraction runs that have SUCCEEDED
    receipts,        \* goods_receipts: [cmd, reversed]
    runs,            \* match_runs, in commit order
    allocs,          \* three_way_allocations
    features,        \* the runs that have a risk_feature_records row
    compared,        \* run -> the runs its assessment was compared with
    lock,            \* order -> the session that holds its row lock
    share,           \* order -> the sessions with a foreign-key share lock
    sess             \* the transactions in flight

vars == <<done, receipts, runs, allocs, features, compared, lock, share, sess>>

-----------------------------------------------------------------------------
(* Data *)

\* A Numeric(24, 8) column rounds what is stored in it, half up.
Stored(q) == ((2 * q + Scale) \div (2 * Scale)) * Scale

\* current_successful_extraction: the best-ranked extraction that succeeded.
Candidates(d) == {x \in done : Invoice[x].doc = d}
CurrentExtraction(d) ==
    CHOOSE x \in Candidates(d) :
        \A y \in Candidates(d) : Invoice[x].rank <= Invoice[y].rank

\* The invoice lines the engine assigns to lines of order o.
Assigned(x, o) == {b \in Invoice[x].bill : b.line \in Lines[o]}

OwnAllocs(d, o) == {a \in allocs : a.doc = d /\ a.order = o}
PriorAllocs(d, o) == {a \in allocs : a.doc # d /\ a.order = o}

\* ThreeWayContextBuilder.build.  A fingerprint is a hash of canonical JSON,
\* so it stands for what it is computed from: the replay fingerprint leaves
\* out the invoice's own allocations, the context fingerprint has them.
Replay(d, o) ==
    [receipts |-> {r \in receipts : r.cmd.order = o}, prior |-> PriorAllocs(d, o)]
Context(d, o) == [replay |-> Replay(d, o), own |-> OwnAllocs(d, o)]
TwoWayReplay == [receipts |-> {}, prior |-> {}]
TwoWayContext == [replay |-> TwoWayReplay, own |-> {}]

\* The context of one line, as the engine reads it.
ReceiptsOf(ctx, l) == {r \in ctx.replay.receipts : l \in DOMAIN r.cmd.qty}
LineContext(ctx, l) ==
    [ordered  |-> Ordered[l],
     active   |-> {[id |-> r.cmd.number, qty |-> Stored(r.cmd.qty[l]), day |-> r.cmd.day] :
                     r \in {r \in ReceiptsOf(ctx, l) : ~r.reversed}},
     reversed |-> {r.cmd.number : r \in {r \in ReceiptsOf(ctx, l) : r.reversed}},
     prior    |-> MapThenSumSet(LAMBDA a : a.qty,
                                {a \in ctx.replay.prior : a.line = l})]

\* The reason codes of the engine.  The checks that do not look at receipts
\* (prices, amounts, currency, arithmetic) are Invoice[x].sound here.
BaseFailures(x, o) ==
    Fails(~Invoice[x].sound, "INVOICE_CHECKS")
      \cup Fails(Invoice[x].bill # Assigned(x, o), "DESCRIPTION_BELOW_THRESHOLD")

ThreeWayFailures(x, o, ctx) ==
    LET active == \E l \in Lines[o] : LineContext(ctx, l).active # {}
    IN  BaseFailures(x, o) \cup
        UNION {ReceiptFailures(LineContext(ctx, b.line), Invoice[x].day, active)
                 \cup QuantityFailures(LineContext(ctx, b.line), b.qty) :
                 b \in Assigned(x, o)}

\* _reconcile_allocations: the proposed lines against the allocation rows that
\* the invoice already has.  Proposed quantities have not been rounded.
Rows(set) == {[idx |-> a.idx, line |-> a.line, qty |-> a.qty] : a \in set}
Conflict(x, o, own) == own # {} /\ Rows(Assigned(x, o)) # Rows(own)

\* Mutant of ThreeWayPlan: a second run of a matched invoice allocates again.
ThreeWayPlanAllocatesAgain(x, o, ctx) ==
    LET failed == ThreeWayFailures(x, o, ctx)
    IN  [decision |-> IF failed = {} THEN "MATCHED" ELSE "NEEDS_REVIEW",
         drafts   |-> IF failed = {} THEN Assigned(x, o) ELSE {}]

\* match_invoice_three_way followed by _reconcile_allocations.
ThreeWayPlan(x, o, ctx) ==
    LET failed == ThreeWayFailures(x, o, ctx)
        matched == failed = {} /\ ~Conflict(x, o, ctx.own)
    IN  [decision |-> IF matched THEN "MATCHED" ELSE "NEEDS_REVIEW",
         drafts   |-> IF matched /\ ctx.own = {} THEN Assigned(x, o) ELSE {}]

\* match_invoice: every order line is billed, in the ordered quantity.
TwoWayFailures(x, o) ==
    BaseFailures(x, o)
      \cup Fails({b.line : b \in Assigned(x, o)} # Lines[o], "PO_LINE_UNMATCHED")
      \cup Fails(\E b \in Assigned(x, o) : AbsDiff(b.qty, Ordered[b.line]) > QtyTol,
                 "QUANTITY_MISMATCH")

TwoWayPlan(x, o) ==
    [decision |-> IF TwoWayFailures(x, o) = {} THEN "MATCHED" ELSE "NEEDS_REVIEW",
     drafts   |-> {}]

NewRun(d, o, x, mode, ctx, decision) ==
    [doc |-> d, order |-> o, ext |-> x, mode |-> mode, ctx |-> ctx,
     decision |-> decision]

RunIds == 1 .. Len(runs)
SameKey(r, q) ==
    /\ r.doc = q.doc /\ r.order = q.order /\ r.ext = q.ext
    /\ r.mode = q.mode /\ r.ctx = q.ctx

\* The migration that adds the mode gives the runs it finds the mode TWO_WAY and
\* that mode's context, and their key is unique.
ASSUME LegacyAssumption ==
    \A h \in Legacy :
        /\ h \in Seq([doc : Doc, order : Order, ext : Extraction, mode : {"TWO_WAY"},
                      ctx : {TwoWayContext}, decision : {"MATCHED", "NEEDS_REVIEW"}])
        /\ \A i, j \in DOMAIN h : SameKey(h[i], h[j]) => i = j

\* The earlier runs, among those whose feature rows are in view, that the
\* comparison with extraction x of document d flags as duplicates.
Suspects(d, x, view) ==
    {i \in view : runs[i].doc # d /\ Invoice[runs[i].ext].key = Invoice[x].key}

-----------------------------------------------------------------------------
(* Transactions *)

NoRun == NewRun(Free, Free, Free, "NONE", TwoWayContext, "NONE")
IdleSession == [pc |-> "idle", new |-> NoRun, drafts |-> {}, cmp |-> {},
                todo |-> <<>>, claims |-> <<>>]

\* PostgreSQL row locks: FOR UPDATE excludes everyone else, the share locks
\* of foreign keys exclude FOR UPDATE.  Both last to the end of a transaction.
CanLock(s, o) == lock[o] = Free /\ share[o] \subseteq {s}

CanShare(s, o) == lock[o] \in {Free, s}

ReleaseLocks(s) ==
    /\ lock' = [o \in Order |-> IF lock[o] = s THEN Free ELSE lock[o]]
    /\ share' = [o \in Order |-> share[o] \ {s}]

Finish(s) == ReleaseLocks(s) /\ sess' = [sess EXCEPT ![s] = IdleSession]

RoomForRun ==
    Len(runs) + Cardinality({s \in Session : sess[s].pc \in {"fresh", "inserted"}})
        < MaxRuns

FreshSession(new, plan) ==
    [IdleSession EXCEPT !.pc = "fresh", !.new = new, !.drafts = plan.drafts]
RepairSession(todo) == [IdleSession EXCEPT !.pc = "repair", !.todo = todo]

\* MatchingService.match in mode TWO_WAY, up to the insert.
BeginTwoWay(s, d, o) ==
    /\ sess[s].pc = "idle" /\ Candidates(d) # {}
    /\ LET x == CurrentExtraction(d)
           plan == TwoWayPlan(x, o)
           new == NewRun(d, o, x, "TWO_WAY", TwoWayContext, plan.decision)
           existing == {i \in RunIds : SameKey(runs[i], new)}
       IN  /\ existing = {} => RoomForRun
           /\ sess' = [sess EXCEPT ![s] =
                      IF existing = {} THEN FreshSession(new, plan)
                      ELSE RepairSession(<<Max(existing)>>)]
    /\ UNCHANGED <<done, receipts, runs, allocs, features, compared, lock, share>>

\* Mutant of ReplayOf: only a run with the very same context is replayed.
ReplayOfSameContext(new) == {i \in RunIds : SameKey(runs[i], new)}

\* The earlier runs that stand for a three-way request: those of the same
\* extraction whose replay fingerprint is the present one.
ReplayOf(new) ==
    {i \in RunIds :
        /\ runs[i].doc = new.doc /\ runs[i].order = new.order
        /\ runs[i].ext = new.ext /\ runs[i].mode = new.mode
        /\ runs[i].ctx.replay = new.ctx.replay}

\* Mutant of LockOrder: the row lock is not taken.
LockOrderNot(s, o) == share[o] \subseteq Session /\ UNCHANGED lock

\* lock_purchase_order
LockOrder(s, o) == CanLock(s, o) /\ lock' = [lock EXCEPT ![o] = s]

\* MatchingService.match in mode THREE_WAY, up to the insert.
BeginThreeWay(s, d, o) ==
    /\ sess[s].pc = "idle" /\ Candidates(d) # {}
    /\ LockOrder(s, o)
    /\ LET x == CurrentExtraction(d)
           ctx == Context(d, o)
           plan == ThreeWayPlan(x, o, ctx)
           new == NewRun(d, o, x, "THREE_WAY", ctx, plan.decision)
       IN  /\ ReplayOf(new) = {} => RoomForRun
           /\ sess' = [sess EXCEPT ![s] =
                      IF ReplayOf(new) = {} THEN FreshSession(new, plan)
                      ELSE RepairSession(<<Max(ReplayOf(new))>>)]
    /\ UNCHANGED <<done, receipts, runs, allocs, features, compared, share>>

\* Another transaction has an uncommitted row with the same unique key.
KeyInFlight(s) ==
    \E t \in Session \ {s} : sess[t].pc = "inserted" /\ SameKey(sess[t].new, sess[s].new)
KeyTaken(s) == \E i \in RunIds : SameKey(runs[i], sess[s].new)

\* The CHECK constraint on three_way_allocations.allocated_quantity.
DraftsStorable(s) == \A b \in sess[s].drafts : Stored(b.qty) > 0

\* The flush of the run, its context and its allocations, and then
\* DuplicateRiskService.ensure: feature row, candidates, assessment, signals.
Insert(s) ==
    /\ sess[s].pc = "fresh"
    /\ CanShare(s, sess[s].new.order) /\ ~KeyInFlight(s) /\ ~KeyTaken(s)
    /\ DraftsStorable(s)
    /\ sess' = [sess EXCEPT ![s].pc = "inserted",
                 ![s].cmp = Suspects(sess[s].new.doc, sess[s].new.ext, features)]
    /\ share' = [share EXCEPT ![sess[s].new.order] = @ \cup {s}]
    /\ UNCHANGED <<done, receipts, runs, allocs, features, compared, lock>>

\* IntegrityError because a concurrent request committed the same run: roll
\* back, which gives up the row lock, and answer with that run.
InsertCollides(s) ==
    /\ sess[s].pc = "fresh"
    /\ ~KeyInFlight(s) /\ KeyTaken(s)
    /\ ReleaseLocks(s)
    /\ sess' = [sess EXCEPT ![s] =
                  RepairSession(<<Max({i \in RunIds : SameKey(runs[i], sess[s].new)})>>)]
    /\ UNCHANGED <<done, receipts, runs, allocs, features, compared>>

\* IntegrityError for any other reason is raised to the caller.
InsertRefused(s) ==
    /\ sess[s].pc = "fresh"
    /\ CanShare(s, sess[s].new.order) /\ ~KeyInFlight(s) /\ ~KeyTaken(s)
    /\ ~DraftsStorable(s)
    /\ Finish(s)
    /\ UNCHANGED <<done, receipts, runs, allocs, features, compared>>

Allocation(new, id, b) ==
    [doc |-> new.doc, order |-> new.order, ext |-> new.ext, run |-> id,
     idx |-> b.idx, line |-> b.line, qty |-> Stored(b.qty)]

\* Assessments become visible: entries of later win over those of earlier.
Merge(earlier, later) ==
    [i \in DOMAIN earlier \cup DOMAIN later |->
        IF i \in DOMAIN later THEN later[i] ELSE earlier[i]]

CommitRun(s) ==
    /\ sess[s].pc = "inserted"
    /\ LET new == sess[s].new
           id == Len(runs) + 1
       IN  /\ runs' = Append(runs, new)
           /\ allocs' = allocs \cup {Allocation(new, id, b) : b \in sess[s].drafts}
           /\ features' = features \cup {id}
           /\ compared' = Merge(compared, [i \in {id} |-> sess[s].cmp])
    /\ Finish(s)
    /\ UNCHANGED <<done, receipts>>

-----------------------------------------------------------------------------
(* Repair of runs that lack an assessment: _ensure_case_for_existing for the *)
(* run a request answers with, DuplicateRiskService.reconcile for all runs.  *)

\* Mutant of ReconcileStart: the runs come in no particular order.
ReconcileStartUnordered(s) ==
    /\ sess[s].pc = "idle" /\ runs # <<>>
    /\ \E todo \in {[i \in RunIds |-> i], [i \in RunIds |-> Len(runs) + 1 - i]} :
          sess' = [sess EXCEPT ![s] = RepairSession(todo)]
    /\ UNCHANGED <<done, receipts, runs, allocs, features, compared, lock, share>>

\* All runs are repaired in one transaction, the oldest first.
ReconcileStart(s) ==
    /\ sess[s].pc = "idle" /\ runs # <<>>
    /\ sess' = [sess EXCEPT ![s] = RepairSession([i \in RunIds |-> i])]
    /\ UNCHANGED <<done, receipts, runs, allocs, features, compared, lock, share>>

\* ensure reads: a run with an assessment is left alone.
RepairRead(s) ==
    /\ sess[s].pc = "repair" /\ sess[s].todo # <<>>
    /\ sess' = [sess EXCEPT ![s] =
                  IF Head(sess[s].todo) \in DOMAIN compared
                  THEN [@ EXCEPT !.todo = Tail(sess[s].todo)]
                  ELSE [@ EXCEPT !.pc = "flush"]]
    /\ UNCHANGED <<done, receipts, runs, allocs, features, compared, lock, share>>

ClaimInFlight(s, r) == \E t \in Session \ {s} : r \in DOMAIN sess[t].claims

\* The feature rows a repair sees: the committed ones and its own.
RepairView(s) == features \cup DOMAIN sess[s].claims

\* ensure inserts the feature row, reads candidates, inserts the assessment.
RepairFlush(s) ==
    /\ sess[s].pc = "flush"
    /\ LET r == Head(sess[s].todo)
           found == Suspects(runs[r].doc, runs[r].ext, RepairView(s))
       IN  /\ r \notin DOMAIN compared
           /\ ~ClaimInFlight(s, r) /\ CanShare(s, runs[r].order)
           /\ sess' = [sess EXCEPT ![s].pc = "repair", ![s].todo = Tail(@),
                        ![s].claims = Merge(@, [i \in {r} |-> found])]
           /\ share' = [share EXCEPT ![runs[r].order] = @ \cup {s}]
    /\ UNCHANGED <<done, receipts, runs, allocs, features, compared, lock>>

\* The insert fails because another repair of the run has committed: a match
\* request rolls back and goes on with the other's rows, reconcile (which
\* catches ValueError and TypeError only) loses its whole transaction.
RepairCollides(s) ==
    /\ sess[s].pc = "flush"
    /\ Head(sess[s].todo) \in DOMAIN compared
    /\ Finish(s)
    /\ UNCHANGED <<done, receipts, runs, allocs, features, compared>>

RepairCommit(s) ==
    /\ sess[s].pc = "repair" /\ sess[s].todo = <<>>
    /\ features' = features \cup DOMAIN sess[s].claims
    /\ compared' = Merge(compared, sess[s].claims)
    /\ Finish(s)
    /\ UNCHANGED <<done, receipts, runs, allocs>>

\* The process dies, or the client disconnects, before the commit.
Abort(s) ==
    /\ sess[s].pc # "idle"
    /\ Finish(s)
    /\ UNCHANGED <<done, receipts, runs, allocs, features, compared>>

-----------------------------------------------------------------------------
(* Goods receipts.  Each command holds the order's row lock from its first   *)
(* read to its commit, so it is one step.                                    *)

Unlocked(o) == lock[o] = Free /\ share[o] = {}

\* _find_by_business_key
KnownReceipt(c) == \E r \in receipts : r.cmd.order = c.order /\ r.cmd.number = c.number

\* GoodsReceiptService.create.  A known receipt number is a replay or, with
\* another request fingerprint, a conflict: nothing is written.
CreateReceipt(c) ==
    /\ Unlocked(c.order)
    /\ DOMAIN c.qty \subseteq Lines[c.order]
    /\ receipts' = IF KnownReceipt(c) THEN receipts
                   ELSE receipts \cup {[cmd |-> c, reversed |-> FALSE]}
    /\ UNCHANGED <<done, runs, allocs, features, compared, lock, share, sess>>

\* GoodsReceiptService.reverse: a receipt is reversed once, and as a whole.
ReverseReceipt(r) ==
    /\ Unlocked(r.cmd.order) /\ ~r.reversed
    /\ receipts' = (receipts \ {r}) \cup {[r EXCEPT !.reversed = TRUE]}
    /\ UNCHANGED <<done, runs, allocs, features, compared, lock, share, sess>>

\* A job finishes an extraction of some document.
ExtractionSucceeds(x) ==
    /\ x \notin done
    /\ done' = done \cup {x}
    /\ UNCHANGED <<receipts, runs, allocs, features, compared, lock, share, sess>>

-----------------------------------------------------------------------------
(* Specification *)

Init ==
    /\ done = Extracted /\ receipts = {} /\ runs \in Legacy /\ allocs = {}
    /\ features = {} /\ compared = <<>>
    /\ lock = [o \in Order |-> Free] /\ share = [o \in Order |-> {}]
    /\ sess = [s \in Session |-> IdleSession]

\* What a transaction does once it has begun.
Continue(s) ==
    \/ Insert(s) \/ InsertCollides(s) \/ InsertRefused(s) \/ CommitRun(s)
    \/ RepairRead(s) \/ RepairFlush(s) \/ RepairCollides(s) \/ RepairCommit(s)

Next ==
    \/ \E s \in Session, d \in Doc, o \in Order : BeginTwoWay(s, d, o) \/ BeginThreeWay(s, d, o)
    \/ \E s \in Session : ReconcileStart(s) \/ Continue(s) \/ Abort(s)
    \/ \E c \in Delivery : CreateReceipt(c)
    \/ \E r \in receipts : ReverseReceipt(r)
    \/ \E x \in Extraction : ExtractionSucceeds(x)

\* A transaction runs on until it waits for a lock, and PostgreSQL grants row
\* locks to waiting transactions in turn.
Fairness == \A s \in Session : SF_vars(Continue(s))
Spec == Init /\ [][Next]_vars /\ Fairness

-----------------------------------------------------------------------------
(* Properties *)

\* The same evidence is decided once: no two runs of one invoice extraction,
\* order and mode have the same receipts and allocations of other invoices,
\* however requests, receipts and retries interleave.
OneRunPerEvidence ==
    \A i, j \in RunIds :
        /\ runs[i].doc = runs[j].doc /\ runs[i].order = runs[j].order
        /\ runs[i].ext = runs[j].ext /\ runs[i].mode = runs[j].mode
        /\ runs[i].ctx.replay = runs[j].ctx.replay
        => i = j

\* A three-way run that says MATCHED has its goods reserved: the allocation
\* rows of its invoice and order are exactly the lines it matched, they all
\* come from one matched run, and no later run or reversal changes them.
MatchedIsReserved ==
    /\ \A i \in RunIds :
          runs[i].mode = "THREE_WAY" /\ runs[i].decision = "MATCHED" =>
            Rows(OwnAllocs(runs[i].doc, runs[i].order)) =
              {[b EXCEPT !.qty = Stored(@)] : b \in Assigned(runs[i].ext, runs[i].order)}
    /\ \A a, b \in allocs : a.doc = b.doc /\ a.order = b.order => a.run = b.run
    /\ \A a \in allocs : runs[a.run].mode = "THREE_WAY" /\ runs[a.run].decision = "MATCHED"

\* Two invoices with the same business key on one purchase order do not both
\* go unnoticed when one of them was matched three-way: the row lock orders
\* the two assessments, so one of them sees the other's feature row.
DuplicateNoticed ==
    \A i, j \in features :
        /\ runs[i].order = runs[j].order /\ runs[i].doc # runs[j].doc
        /\ Invoice[runs[i].ext].key = Invoice[runs[j].ext].key
        /\ "THREE_WAY" \in {runs[i].mode, runs[j].mode}
        => i \in compared[j] \/ j \in compared[i]

\* Transactions never wait for each other in a circle.  A reconciliation keeps
\* the rows and share locks of every run it has repaired while it waits for the
\* next one, which a match request or another reconciliation may be repairing;
\* still every transaction that has begun ends, with no help from a deadlock
\* detector, because all of them take the runs in the same order.
TransactionsEnd == \A s \in Session : sess[s].pc # "idle" ~> sess[s].pc = "idle"

-----------------------------------------------------------------------------
(* Matching implements the reservation ledger. *)

\* The quantity each order line has in receipts that were not reversed.
Stock == [l \in UNION {Lines[o] : o \in Order} |->
            MapThenSumSet(LAMBDA r : Stored(r.cmd.qty[l]),
                          {r \in receipts : ~r.reversed /\ l \in DOMAIN r.cmd.qty})]

\* Who holds how much: the allocations without the run that made them.
Claims == {[owner |-> <<a.doc, a.order>>, slot |-> a.idx, line |-> a.line, qty |-> a.qty] :
             a \in allocs}

Ledger == INSTANCE ReservationLedger WITH stock <- Stock, claims <- Claims

\* Receipts, reversals and matches only ever do what the ledger allows: an
\* invoice reserves once per order, and a reservation fits what is in stock
\* and not reserved by others.
ImplementsLedger == Ledger!Spec
=============================================================================
