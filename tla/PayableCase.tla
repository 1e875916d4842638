----------------------------- MODULE PayableCase -----------------------------
(***************************************************************************)
(* One payable case: concurrent attach, confirm and match requests of      *)
(* PayableCaseService, and the workers that extract its documents.         *)
(*                                                                         *)
(* A request's steps are its transactions and its reads outside the case's *)
(* row lock.  attach and match load the case, commit something else        *)
(* (ingest, the match run), and select the case again FOR UPDATE: the      *)
(* session returns the object it already holds, so the second look is at   *)
(* the first one's values (req[s].seen), and the UPDATE writes the columns *)
(* that differ from them.                                                  *)
(*                                                                         *)
(* A message stays in msgs until its task ends, and two workers may hold   *)
(* it: a replayed attach queues it again, and Redis redelivers what was    *)
(* not acknowledged.  The steps of an invoice's job are in ExtractionJob;  *)
(* here its last transaction is two: it looks up where the invoice is      *)
(* active, and then takes the lock of that case.                           *)
(*                                                                         *)
(* A client repeats an attach under the same idempotency key with the same *)
(* document and supersession, so these two stand for key and fingerprint.  *)
(* Requests that are refused change nothing and are not steps, except that *)
(* the session becomes free again.                                         *)
(***************************************************************************)
EXTENDS Naturals, FiniteSets, Sequences

CONSTANTS
    Invoice, Order, Receipt,   \* the documents an operator may attach, by role
    Teams,             \* who works on the case: the API requests that may be in
                       \* flight, the worker processes, and the invoices and
                       \* supporting documents at hand
    MaxVersion,        \* bound on the case's version and the requests in flight
    MaxAttachments     \* bound on the case's documents

Document == Invoice \cup Order \cup Receipt

ASSUME DocumentAssumption ==
    Invoice \cap Order = {} /\ Invoice \cap Receipt = {} /\ Order \cap Receipt = {}
ASSUME TeamAssumption ==
    \A t \in Teams : /\ t.invoices \subseteq Invoice /\ t.supporting \subseteq Order \cup Receipt
                     /\ IsFiniteSet(t.sessions)
ASSUME CaseBoundAssumption == MaxVersion \in Nat /\ MaxAttachments \in Nat

VARIABLES
    kase,              \* the payable_cases row: status and version
    atts,              \* case_documents by attachment_order
    jobs,              \* invoice jobs by document, with their extraction
    runs,              \* supporting extraction runs: status, is there an output
    confs,             \* the attachments with a CaseConfirmation
    ctxs,              \* the CaseMatchContexts
    msgs,              \* documents and attachments queued for a worker
    req,               \* the requests
    sup                \* what each worker has loaded

vars == <<kase, atts, jobs, runs, confs, ctxs, msgs, req, sup>>

\* The bound on a behaviour: more requests in flight make fewer versions.
Room == kase.version + 2 * Cardinality(DOMAIN req) <= MaxVersion

CaseStatus == {"DRAFT", "PROCESSING", "NEEDS_CONFIRMATION", "READY_TO_MATCH",
               "MATCHED", "NEEDS_REVIEW", "FAILED"}
Case == [status : CaseStatus, version : Nat]
Context == [invoice : Nat, order : Nat, receipts : SUBSET Nat]

None == "none"
NoRun == [status |-> None, output |-> FALSE]
NoContext == [invoice |-> 0, order |-> 0, receipts |-> {}]
NoCase == [status |-> "DRAFT", version |-> 0]
Free == [pc |-> "free", doc |-> None, supersedes |-> 0, att |-> 0, job |-> None,
         seen |-> NoCase, ctx |-> NoContext]
Resting == [pc |-> "free", doc |-> None, att |-> 0, active |-> FALSE, extracted |-> FALSE]

Att == DOMAIN atts
Slotted(doc) == doc \notin Receipt
HasSuccessor(a) == \E b \in Att : atts[b].supersedes = a
Active(a) == IF Slotted(atts[a].doc) THEN atts[a].slot ELSE ~HasSuccessor(a)
InSlot(docs) == {a \in Att : atts[a].doc \in docs /\ atts[a].slot}
RoleOf(doc) == CHOOSE role \in {Invoice, Order, Receipt} : doc \in role
SameRole(doc) == {a \in Att : atts[a].doc \in RoleOf(doc)}
Extracted(doc) == runs[doc].status = "SUCCEEDED"
Attached(doc) == \E a \in Att : atts[a].doc = doc

\* The UPDATE of a case loaded as old: the columns that differ, and no others.
Flush(old, status, version) ==
    [status  |-> IF status = old.status THEN kase.status ELSE status,
     version |-> IF version = old.version THEN kase.version ELSE version]

\* The same for a case read under its lock.
Moved(status) == Flush(kase, status, kase.version + 1)

-----------------------------------------------------------------------------
(* attach *)

\* POST /v1/invoices of an invoice: a job and its message, no case.
Upload(d) ==
    /\ d \in Invoice
    /\ jobs[d] = None
    /\ jobs' = [jobs EXCEPT ![d] = "QUEUED"]
    /\ msgs' = msgs \cup {d}
    /\ UNCHANGED <<kase, atts, runs, confs, ctxs, req, sup>>

\* No attachment under this key yet, the version is the one expected, and then
\* ingest(dispatch=False), after which the document's job exists.  What others
\* do between the two reads could as well be done after both.
AttachBegin(s, d, old) ==
    /\ req[s].pc = "free"
    /\ Len(atts) < MaxAttachments
    /\ Room
    /\ ~\E a \in Att : atts[a].doc = d /\ atts[a].supersedes = old
    /\ jobs' = [i \in DOMAIN jobs |-> IF i = d /\ jobs[i] = None THEN "QUEUED" ELSE jobs[i]]
    /\ req' = [req EXCEPT ![s] = [Free EXCEPT !.pc = "attach", !.doc = d,
                                              !.supersedes = old, !.seen = kase,
                                              !.job = IF d \in Invoice THEN jobs[d] ELSE None]]
    /\ UNCHANGED <<kase, atts, runs, confs, ctxs, msgs, sup>>

\* A replayed attach only queues the work again.
AttachReplay(a) ==
    /\ LET d == atts[a].doc
       IN  IF d \in Invoice
           THEN jobs[d] # "SUCCEEDED" /\ msgs' = msgs \cup {d}
           ELSE ~Extracted(d) /\ msgs' = msgs \cup {a}
    /\ UNCHANGED <<kase, atts, jobs, runs, confs, ctxs, req, sup>>

\* Mutant of MayAttach: the active document of the slot is not looked up.
MayAttachAnyway(d, old) ==
    /\ ~Attached(d)
    /\ old = 0 \/ (old \in Att /\ ~HasSuccessor(old))

\* The document is new in its role, and replaces exactly what is active.
MayAttach(d, old) ==
    /\ ~Attached(d)
    /\ IF Slotted(d)
       THEN IF InSlot(RoleOf(d)) = {} THEN old = 0 ELSE old \in InSlot(RoleOf(d))
       ELSE old = 0 \/ (old \in Att /\ atts[old].doc \in Receipt /\ ~HasSuccessor(old))

\* A new row; what it replaces loses its slot.
Superseding(d, old) ==
    Append([a \in Att |-> IF a = old THEN [atts[a] EXCEPT !.slot = FALSE] ELSE atts[a]],
           [doc |-> d, supersedes |-> old, slot |-> Slotted(d)])

\* The case as the locked select returns it: the object loaded before, or, if
\* a concurrent upload of the same bytes rolled the session back, the row.
Reloaded(s) == {req[s].seen, kase}

\* The locked part: the attachment, the superseded slot, the version, the
\* status; then enqueue, whose failure is swallowed.
AttachCommit(s) ==
    LET d == req[s].doc
        old == req[s].supersedes
        extracted == d \in Invoice /\ req[s].job = "SUCCEEDED"
    IN  /\ req[s].pc = "attach"
        /\ MayAttach(d, old)
        /\ \E seen \in Reloaded(s) :
              /\ seen.version = req[s].seen.version
              /\ kase' = Flush(seen, IF extracted THEN "NEEDS_CONFIRMATION" ELSE "PROCESSING",
                               seen.version + 1)
        /\ atts' = Superseding(d, old)
        /\ \E sent \in SUBSET {IF d \in Invoice THEN d ELSE Len(atts) + 1} :
              /\ extracted => sent = {}
              /\ msgs' = msgs \cup sent
        /\ req' = [req EXCEPT ![s] = Free]
        /\ UNCHANGED <<jobs, runs, confs, ctxs, sup>>

\* STALE_CASE_VERSION, ACTIVE_DOCUMENT_EXISTS, INVALID_SUPERSESSION or
\* DOCUMENT_ALREADY_ATTACHED
AttachRefused(s) ==
    /\ req[s].pc = "attach"
    /\ \/ ~MayAttach(req[s].doc, req[s].supersedes)
       \/ \E seen \in Reloaded(s) : seen.version # req[s].seen.version
    /\ req' = [req EXCEPT ![s] = Free]
    /\ UNCHANGED <<kase, atts, jobs, runs, confs, ctxs, msgs, sup>>

-----------------------------------------------------------------------------
(* confirm_purchase_order, confirm_receipt *)

\* The unlocked look-up: the active order, or a receipt without a successor.
ConfirmBegin(s, a) ==
    /\ req[s].pc = "free"
    /\ Room
    /\ atts[a].doc \notin Invoice
    /\ Active(a)
    /\ req' = [req EXCEPT ![s] = [Free EXCEPT !.pc = "confirm", !.att = a, !.seen = kase]]
    /\ UNCHANGED <<kase, atts, jobs, runs, confs, ctxs, msgs, sup>>

\* _status_after_confirmation: ready once every active support is confirmed.
StatusAfterConfirmation(a) ==
    LET support == {b \in Att : atts[b].doc \notin Invoice /\ Active(b)}
    IN  IF InSlot(Order) # {} /\ support \subseteq confs \cup {a}
        THEN "READY_TO_MATCH" ELSE "NEEDS_CONFIRMATION"

\* The extraction succeeded, the attachment has no confirmation (unique), and a
\* receipt's order is confirmed.
Confirmable(a) ==
    /\ Extracted(atts[a].doc)
    /\ a \notin confs
    /\ atts[a].doc \in Receipt => InSlot(Order) # {} /\ InSlot(Order) \subseteq confs

\* The CaseConfirmation and the canonical record of one attachment.
Confirmed(a) == confs \cup {a}

\* Under the lock, at the expected version.
ConfirmCommit(s) ==
    LET a == req[s].att
    IN  /\ req[s].pc = "confirm"
        /\ IF kase.version = req[s].seen.version /\ Confirmable(a)
           THEN /\ confs' = Confirmed(a)
                /\ kase' = Moved(StatusAfterConfirmation(a))
           ELSE UNCHANGED <<confs, kase>>
        /\ req' = [req EXCEPT ![s] = Free]
        /\ UNCHANGED <<atts, jobs, runs, ctxs, msgs, sup>>

-----------------------------------------------------------------------------
(* match *)

\* Mutant of Matchable: the order's confirmation is not required.
MatchableUnconfirmed ==
    \E i \in InSlot(Invoice) : jobs[atts[i].doc] = "SUCCEEDED"

\* An active, extracted invoice and an active, confirmed order.
Matchable ==
    /\ \E i \in InSlot(Invoice) : jobs[atts[i].doc] = "SUCCEEDED"
    /\ InSlot(Order) # {} /\ InSlot(Order) \subseteq confs

\* Under the lock, at the expected version: the context of the match, unless it
\* was matched before.  matching_service.match then commits and frees the lock.
MatchBegin(s) ==
    /\ req[s].pc = "free"
    /\ Room
    /\ Matchable
    /\ \E i \in InSlot(Invoice), o \in InSlot(Order) :
          LET ctx == [invoice |-> i, order |-> o,
                      receipts |-> {r \in confs : atts[r].doc \in Receipt /\ ~HasSuccessor(r)}]
          IN  /\ ctx \notin ctxs
              /\ req' = [req EXCEPT ![s] = [Free EXCEPT !.pc = "match", !.seen = kase,
                                                        !.ctx = ctx]]
    /\ UNCHANGED <<kase, atts, jobs, runs, confs, ctxs, msgs, sup>>

\* Mutant of MatchCommit: the context is not recorded.
MatchCommitBare(s) ==
    /\ req[s].pc = "match"
    /\ \E status \in {"MATCHED", "NEEDS_REVIEW"} :
          kase' = Flush(req[s].seen, status, req[s].seen.version + 1)
    /\ req' = [req EXCEPT ![s] = Free]
    /\ UNCHANGED <<atts, jobs, runs, confs, ctxs, msgs, sup>>

\* The second transaction; the fingerprint is unique, a duplicate is rolled back.
MatchCommit(s) ==
    /\ req[s].pc = "match"
    /\ IF req[s].ctx \in ctxs THEN UNCHANGED <<ctxs, kase>>
       ELSE /\ ctxs' = ctxs \cup {req[s].ctx}
            /\ \E status \in {"MATCHED", "NEEDS_REVIEW"}, seen \in Reloaded(s) :
                  kase' = Flush(seen, status, seen.version + 1)
    /\ req' = [req EXCEPT ![s] = Free]
    /\ UNCHANGED <<atts, jobs, runs, confs, msgs, sup>>

-----------------------------------------------------------------------------
(* The workers *)

\* A redelivery of a succeeded job does nothing.
InvoiceDone(d) ==
    /\ d \in msgs \cap Invoice
    /\ jobs[d] = "SUCCEEDED"
    /\ msgs' = msgs \ {d}
    /\ UNCHANGED <<kase, atts, jobs, runs, confs, ctxs, req, sup>>

\* The last transaction of run_job or record_failure: it has written the job,
\* whose row it keeps locked, and looks up where the invoice is active.
InvoiceLook(w, d) ==
    /\ d \in msgs \cap Invoice
    /\ jobs[d] # "SUCCEEDED"
    /\ sup[w].pc = "free"
    /\ ~\E v \in DOMAIN sup : sup[v].pc = "invoice" /\ sup[v].doc = d
    /\ sup' = [sup EXCEPT ![w] = [Resting EXCEPT
                  !.pc = "invoice", !.doc = d,
                  !.active = \E a \in InSlot(Invoice) : atts[a].doc = d]]
    /\ UNCHANGED <<kase, atts, jobs, runs, confs, ctxs, msgs, req>>

\* Then, under the lock of the case it found, if any, it moves the case, which
\* may have another active invoice by now, and commits.
InvoiceWork(w) ==
    /\ sup[w].pc = "invoice"
    /\ Room
    /\ msgs' = msgs \ {sup[w].doc}
    /\ \E outcome \in {"SUCCEEDED", "FAILED"} :
          /\ jobs' = [jobs EXCEPT ![sup[w].doc] = outcome]
          /\ kase' = IF ~sup[w].active THEN kase
                     ELSE IF outcome = "FAILED" /\ kase.status # "FAILED" THEN Moved("FAILED")
                     ELSE IF outcome = "SUCCEEDED" /\ kase.status = "PROCESSING"
                          THEN Moved("NEEDS_CONFIRMATION")
                     ELSE kase
    /\ sup' = [sup EXCEPT ![w] = Resting]
    /\ UNCHANGED <<atts, runs, confs, ctxs, req>>

\* process_supporting_document loads the attachment, its slot included, and
\* then the document's run.
SupportLoad(w, a) ==
    /\ a \in msgs \ Document
    /\ sup[w].pc = "free"
    /\ sup' = [sup EXCEPT ![w] = [Resting EXCEPT !.pc = "work", !.att = a,
                  !.active = atts[a].slot, !.extracted = Extracted(atts[a].doc)]]
    /\ UNCHANGED <<kase, atts, jobs, runs, confs, ctxs, msgs, req>>

\* _is_active: an order by the slot it was loaded with, a receipt by a query.
IsActive(w) ==
    IF Slotted(atts[sup[w].att].doc) THEN sup[w].active ELSE ~HasSuccessor(sup[w].att)

\* The row the worker's UPDATE finds.
Run(w) == runs[atts[sup[w].att].doc]

SupportDone(w, run, case) ==
    /\ Room
    /\ runs' = [runs EXCEPT ![atts[sup[w].att].doc] = run]
    /\ kase' = case
    /\ msgs' = msgs \ {sup[w].att}
    /\ sup' = [sup EXCEPT ![w] = Resting]
    /\ UNCHANGED <<atts, jobs, confs, ctxs, req>>

\* The extraction, or an earlier one of the document, succeeded: _record_success.
SupportSucceeds(w) ==
    /\ sup[w].pc = "work"
    /\ SupportDone(w, IF sup[w].extracted THEN Run(w)
                      ELSE [status |-> "SUCCEEDED", output |-> TRUE],
                   IF IsActive(w) /\ kase.status \in {"PROCESSING", "FAILED"}
                   THEN Moved("NEEDS_CONFIRMATION") ELSE kase)

\* A terminal extraction error, of a document loaded without a successful run.
\* Unreadable bytes, or no OCR on this worker: another delivery may succeed.
SupportFails(w) ==
    /\ sup[w].pc = "work"
    /\ ~sup[w].extracted
    /\ SupportDone(w, [Run(w) EXCEPT !.status = "FAILED"], Moved("FAILED"))

\* Retries exhausted: mark_operational_failure, whatever the run's status is.
SupportExhausted(w) ==
    /\ sup[w].pc = "work"
    /\ SupportDone(w, [status |-> "FAILED", output |-> FALSE],
                   IF IsActive(w) /\ kase.status # "FAILED" THEN Moved("FAILED") ELSE kase)

-----------------------------------------------------------------------------
\* A case just created; some bytes may have been extracted for another case.
Init ==
    /\ kase = [status |-> "DRAFT", version |-> 1]
    /\ atts = << >>
    /\ confs = {}
    /\ ctxs = {}
    /\ msgs = {}
    /\ \E t \in Teams :
          /\ jobs \in [t.invoices -> {None, "SUCCEEDED"}]
          /\ runs = [d \in t.supporting |-> NoRun]
          /\ req = [s \in t.sessions |-> Free]
          /\ sup = [w \in t.workers |-> Resting]

Request(s) ==
    \/ AttachCommit(s) \/ AttachRefused(s)
    \/ ConfirmCommit(s) \/ MatchCommit(s)

Work(w) == InvoiceWork(w) \/ SupportSucceeds(w) \/ SupportFails(w) \/ SupportExhausted(w)

\* The documents the team of this behaviour has at hand.
AtHand == DOMAIN jobs \cup DOMAIN runs

Next ==
    \/ \E d \in AtHand : Upload(d) \/ InvoiceDone(d)
    \/ \E a \in Att : AttachReplay(a)
    \/ \E s \in DOMAIN req :
          \/ Request(s)
          \/ \E d \in AtHand : \E old \in {0} \cup SameRole(d) : AttachBegin(s, d, old)
          \/ \E a \in Att : ConfirmBegin(s, a)
          \/ MatchBegin(s)
    \/ \E w \in DOMAIN sup :
          \/ Work(w)
          \/ \E d \in AtHand : InvoiceLook(w, d)
          \/ \E a \in Att : SupportLoad(w, a)

Spec == Init /\ [][Next]_vars

-----------------------------------------------------------------------------
(* Properties *)

\* Every variable keeps its type.
TypeOK ==
    /\ kase \in Case
    /\ atts \in Seq([doc : Document, supersedes : Nat, slot : BOOLEAN])
    /\ jobs \in [DOMAIN jobs -> {None, "QUEUED", "SUCCEEDED", "FAILED"}]
    /\ runs \in [DOMAIN runs -> [status : {None, "SUCCEEDED", "FAILED"}, output : BOOLEAN]]
    /\ confs \subseteq Att
    /\ \A c \in ctxs : c \in Context
    /\ msgs \subseteq Invoice \cup Att
    /\ \A s \in DOMAIN req : req[s].pc \in {"free", "attach", "confirm", "match"}
    /\ \A w \in DOMAIN sup : sup[w].pc \in {"free", "work", "invoice"}

\* Concurrent attaches and supersessions keep one active invoice and one active
\* order, which is the one nothing supersedes, and no document is replaced twice.
SlotExclusive ==
    /\ Cardinality(InSlot(Invoice)) <= 1 /\ Cardinality(InSlot(Order)) <= 1
    /\ \A a \in Att : Slotted(atts[a].doc) => (atts[a].slot <=> ~HasSuccessor(a))
    /\ \A a, b \in Att : atts[a].supersedes = atts[b].supersedes /\ atts[a].supersedes # 0
                         => a = b

\* A match only ever consumes confirmed records and an extracted invoice
\* ("Case matching consumes only confirmed records").
MatchUsesConfirmed ==
    \A c \in ctxs :
        /\ c.order \in confs /\ atts[c.order].doc \in Order
        /\ c.receipts \subseteq confs
        /\ jobs[atts[c.invoice].doc] = "SUCCEEDED"

\* A canonical receipt is created only for a canonical order of the same case.
ReceiptHasOrder ==
    (\E a \in confs : atts[a].doc \in Receipt) => \E a \in confs : atts[a].doc \in Order

\* Nothing unconfirmed becomes canonical: not through a match, and not through a
\* receipt that is confirmed ahead of its order.
ConfirmedFirst == MatchUsesConfirmed /\ ReceiptHasOrder

\* While one operator works on a case, a case shown as matched or under review
\* has been matched with exactly the documents that are active in it, however
\* late the workers' results for attached and superseded documents arrive.
MatchedIsCurrent ==
    kase.status \in {"MATCHED", "NEEDS_REVIEW"} /\ Cardinality(DOMAIN req) = 1 =>
        \E c \in ctxs :
            /\ InSlot(Invoice) = {c.invoice} /\ InSlot(Order) = {c.order}
            /\ c.receipts = {a \in Att : atts[a].doc \in Receipt /\ ~HasSuccessor(a)} \cap confs

\* Every change of the case gives it a new version: an attach whose case changed
\* while it uploaded is refused ("Case version changed during upload").
VersionAdvances == [][kase' # kase => kase'.version > kase.version]_vars
=============================================================================
