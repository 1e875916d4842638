# invoiceops in TLA+

invoiceops takes in invoices, orders and receipts, extracts their contents in the
background, matches them, and sends what does not match to a person. This directory
holds TLA+ models of it, the TLC runs that check them on small instances, and TLAPS
proofs of the results that matter most. `PROJECT.json` lists the components, the runs,
the source lines behind every definition, the findings, the hazards and the theorems.

1. [The system](#1-the-system)
2. [How the models are written](#2-how-the-models-are-written)
3. [Modules](#3-modules)
4. [Runs and what they show](#4-runs-and-what-they-show)
5. [Where code and documents disagree](#5-where-code-and-documents-disagree)
6. [Proofs](#6-proofs)
7. [What is only model-checked, and what is not modelled](#7-what-is-only-model-checked-and-what-is-not-modelled)

## 1. The system

The API (FastAPI) and the Celery workers share a PostgreSQL database, a Redis broker
and an S3 object store. A Next.js process serves the console, keeps its sessions in
Redis and forwards its requests to the API. Nothing else is shared: all coordination
goes through transactions at READ COMMITTED, row locks, unique indexes and version
columns; the API's key cache and the console's renewals are coordinated inside one
process.

| Component | State | What makes it hard | What must hold |
|---|---|---|---|
| Upload ingestion (`invoiceops/ingestion`) | object store, `documents`, `ingestion_jobs` | duplicate uploads racing; every external call can fail; crashes | one document per digest, its bytes present, one dispatch after the commit |
| Extraction job (`workers/extraction`, `invoiceops/jobs`, `extraction/service.py`) | job row, run row, event log, messages | at-least-once delivery, stale reads, crashes | an outcome is backed by a result and an event; a dispatched job settles |
| Job stream (`apps/api/main.py`, `job-timeline.tsx`) | generator position, connection, timeline | two reads per poll, lost connections | a gap-free prefix of the log that stops with the job |
| Payable case (`invoiceops/cases`, `supporting_service.py`) | case row and version, attachments, confirmations, match contexts | concurrent operators, transactions that span a commit, late workers | one active document per slot; only confirmed, current records are matched |
| Matching, receipts, duplicate risk (`invoiceops/matching`, `receipts`, `risk`) | match runs, allocations, receipts, features | shared quantities; locks of two strengths; inserts that collide before they commit | evidence is decided once, goods are reserved once, duplicates are noticed |
| Review (`invoiceops/review`) | case row, events, triggers | optimistic concurrency, hash chain, repairs | the history replays to the row; no lost update |
| Hybrid extraction (`extraction/hybrid`, `supporting_hybrid*`) | runs and stored model calls | paid requests under redelivery | requests are bounded, answers are kept |
| Extraction rules, grounding, fusion (`invoiceops/extraction`) | none | columns, page breaks, repeated headers, ties | what is reported is printed, in its place |
| Matching and risk engines | none | tolerances, rivals for a line, missing fields | MATCHED means what a reader takes it to mean |
| Evaluations (`invoiceops/evaluation`, `*/evaluation.py`) | the live run's spend ledger | alignment ties; a provider that bills and fails | labels are reproduced, spend stays under its limit |
| Console (`invoiceops/auth.py`, `web/src/lib`, the list endpoints) | key cache, Redis session, the list's rows | rotation, expiry, coalesced renewal, cursors over moving rows | keys follow the provider, tokens are not reused, pages are complete |

Interactions: ingestion commits a job and publishes its message; the worker moves the
job, writes the log that the stream reads, and moves the case the invoice is active in;
attach calls ingestion and publishes for the workers; match calls the matching service,
which runs the engines and opens review cases in its own transaction; the
reconciliations repair what older code left out; the console's lists show the review
cases that all of this opens.

## 2. How the models are written

**A step is what the database, the lock or the network makes atomic**: one committed
transaction, one unlocked read whose value is used later, one call to the object store,
the broker, the model provider or the identity provider, the code of the web process
between two awaits. Everything a handler does inside one transaction is one action,
except in `Matching` and `HybridExtraction`, where row locks are held over several steps,
and a transaction is split where another one can be made to wait for it.

**Sessions are modelled, not wished away.** SQLAlchemy sessions here keep loaded objects
after a commit (`expire_on_commit=False`), a `SELECT ... FOR UPDATE` of an object already
in the session does not refresh it, and an UPDATE writes only the columns that changed
since the object was loaded. `Flush` in `ExtractionJob` and `PayableCase` is that UPDATE;
`wk[w].seen` and `req[s].seen` are the loaded objects. A rollback expires them, which is
why `Reloaded` offers both values.

**Data is abstract.** Bytes and payloads are members of small sets. A printed word is a
token with a position; the labels of the regular expressions are phrases, sequences of
tokens that are looked for at the start of a line or inside it as the expression says; text
similarity is a function given by the instance. What a property depends on is computed: amounts and
quantities are integers in the smallest unit of the instance, `parse_money` works on
digits and separators, quantities are rounded as their column does, an event hash is the
record it is computed from, so that equal hashes mean equal events.

**Pure code is driven, not asserted.** `Decisions` and `Extraction` choose an input in the
initial state and run one procedure or pipeline stage per action; the properties compare
the results with what they should mean, which is defined apart from the code's algorithm.

**Bounds** are named constants in the guards: `MaxVersion`, `MaxAttachments`, `MaxSends`,
`MaxCrashes`, `MaxDrops`, `MaxRuns`, `MaxDeliveries`, `MaxDeaths`, `MaxFaults`,
`MaxClock` and the fields of a `Scene`. Runs say `CHECK_DEADLOCK FALSE` because the
modelled systems come to rest: all requests answered, the queue empty, or a bound reached.

Operators named as mutants ("Mutant of ...") are plausible mistakes in the definition
they precede; with one of them in its place the property it is meant for must fail. They
are not part of any specification.

## 3. Modules

### Stateful services

| Module | Models | State | Actions |
|---|---|---|---|
| `InvoiceIngestion` | uploads of the same bytes | `store`, `document`, `sent`, `up` | one per external call of `ingest` and per way it can fail, and `Crash` |
| `ExtractionJob` | one job, its run, log, case, messages and workers | `job`, `run`, `events`, `kase`, `queue`, `wk`, counters | the broker (`Send`, `Receive`, `Redeliver`, `Crash`, `Ack`), `run_job` and `process` transaction by transaction, and the exception handlers |
| `JobStream` | `ExtractionJob` with the SSE generator and the console's timeline | `srv`, `net`, `cl`, `drops` | `PollEvents`, `PollStatus`, `SendEvent`; `Connect`, `ReceiveEvent`, `StreamEnd`, `Drop`, `CheckStatus`, `CheckFails` |
| `PayableCase` | one case, its operators and workers | `kase`, `atts`, `jobs`, `runs`, `confs`, `ctxs`, `msgs`, `req`, `sup` | attach, confirm and match as two steps each (before and after they give up or gain the case's lock), replay, and the workers' last transactions, likewise in two steps (`InvoiceLook` and `InvoiceWork`, `SupportLoad` and its outcomes) |
| `Matching` | match requests in both modes, receipts and reversals, the repair of older runs, extractions that supersede others | `runs`, `allocs`, `receipts`, `features`, `compared`, `lock`, `share`, `sess` | `BeginTwoWay`, `BeginThreeWay`, `Insert`, `InsertCollides`, `InsertRefused`, `CommitRun`, the repair's steps, `Abort`, `CreateReceipt`, `ReverseReceipt`, `ExtractionSucceeds` |
| `ReservationLedger` | what three-way matching promises about goods | `stock`, `claims` | `Matching` implements it with stock from the receipts that stand and claims from the allocations |
| `ReviewCase` | one review case | `row`, `events`, `triggers`, `assessed`, requests `sess`, repairs `repair`, ghost `hist` (the row by version) | a request looks (`View`), loads (`Load`) and commits (`ApplyOk`, `ApplyRejected`) one of claim, release, comment, resolve; `EnsureRead`, `EnsureCommit`, `EnsureAborted` are creation and repair |
| `ReviewWorkflow` | what the review promises: every command one step | `case` | `ReviewCase` implements it with `case <- row` |
| `ReviewAudit` | `verify_audit` beside `ReviewCase` | `audit` | `VerifyReadCase`, `VerifyReadEvents` |
| `HybridExtraction` | both services that ask a vision model about a document | `run`, `call`, the call's row `lock`, `announced`, `requests`, `wk` | `Deliver`, `Die`, and the services' reads, transactions and provider requests |
| `KeyCache` | `OidcVerifier` and the provider's keys | `published`, `withdrawn`, `keys`, `expires`, `lock`, `api` | `Verify`, `Enter`, `Fetch`, `FetchFails`, `Store`; `Publish`, `Withdraw` |
| `WebSession` | sessions in Redis and `resolveSession` | `store`, `accepted`, `task`, `web`, ghosts `lost` and `reused` | `Load`, `Continue`; `Reload`, `Reconsider`, `Grant`, `Save` and their failures; `deleteSession` |
| `ReviewQueue` | `list_cases` and `list_invoices` read page by page | `rows`, `walk`, `clock` | `Open`, `Commit`, `Rollback`, `Handle`, `AddTrigger`; `Begin`, `NextPage` |
| `Console` | a request for a page through session, proxy, verifier, role and query | `tab`, `asks`, `role`, `scene` | composes the three modules above: `OpenList`, `RequestPage`, `Forward`, `Refuse`, `ServePage`, `Deny`, and what happens meanwhile |

### Pure code

| Module | Models |
|---|---|
| `ThreeWayRules`, `MatchingEngine` | financial validation, exact and similar pairing of lines, the checks and decisions of both modes; `ThreeWayRules` is shared with `Matching` |
| `RiskEngine` | feature snapshots, the candidate query, the comparison of two invoices |
| `Benchmarks` | the three labelled scenario sets and their reports |
| `Scoring` | alignment of extracted lines with the truth, counts and slices |
| `LiveEvaluation` | the spend ledger and the run that pays a provider, as a process that may die |
| `Decisions` | drives the five modules above |
| `Document`, `Amounts` | words, text lines, visual rows, evidence, candidates; reading a printed amount |
| `TableRules`, `HeaderRules`, `TotalGuards` | line items in both grammars, header fields, the two guards on the total, narrowed evidence |
| `SupportingRules` | purchase orders and goods receipts |
| `Grounding`, `Fusion`, `SupportingFusion` | binding a model's quotes to the page, when a model is asked, and merging its proposal |
| `Extraction` | drives the pipeline from words to merged results |

`MC*` modules hold the instances; the eight `*_proofs` modules hold the theorems, each about
the module it is named after (`ReviewCase_proofs` also about `ReviewAudit`,
`ExtractionJob_proofs` about `JobStream`, `Console_proofs` about `KeyCache` and
`WebSession`).

Some choices a reader may question:

- `ReviewCase`: the commit is one step because the UPDATE is conditional on id and version;
  the event is inserted in the same transaction, so a lost race leaves neither.
- `ExtractionJob`: messages are a bag of retry counts. `Redeliver` is Redis' visibility
  timeout, `Crash` is `reject_on_worker_lost`; a task that raises is acknowledged, which
  is Celery's default with late acknowledgement. Extraction succeeds or fails freely: a
  terminal error may be the host's (no OCR), not the document's.
- `ExtractionJob.Finish` writes only the status: the session has seen the error columns as
  empty, so they are not in its UPDATE.
- `PayableCase`: an attach is identified by its document and what it supersedes, which
  stand for key and fingerprint. Delivery notes behave as goods receipts. An operator
  names a superseded attachment of the same role; any other is refused without effect.
- `PayableCase`: `append_case_event` takes the case's row lock before the workers read the
  case, so their read and write of the case are one step (`Moved`). Where the document is
  attached they looked up before, without that lock (`InvoiceLook`, `SupportLoad`,
  `sup[w].active`): an attach that replaces it in between is not seen, and the late result of
  the replaced document moves the case. The job row that was written first keeps two last
  transactions of one job apart. `jobs` holds the job's status and stands for the invoice's
  extraction run as well, which succeeds before it; `ExtractionJob` has the two apart.
- `HybridExtraction`: an answer in `Unreadable` no longer validates when it is read back.
  The supporting service then keeps the deterministic baseline (`Replayed`); the invoice
  service has no handler there, and its attempt ends (`ReplayRaises`).
- `Matching`: a foreign key takes a share lock on the order, which a three-way match's
  `FOR UPDATE` waits for; rows that were inserted but not committed are in `sess`, and an
  insert that collides with one waits for its owner. `Abort` is any failure before the
  commit, a deadlock's victim included.
- `KeyCache`: `got` is what the provider served when it answered, stored later; `served`
  is a ghost that says whether the provider served a token's key all through its
  verification. `FetchTime` bounds a whole answer. `httpx.Client(timeout=5.0)`
  (`auth.py:51`) bounds each connect, read and write by itself, so that the bound in
  `KeysFollowProvider` is the provider's total delay, which a provider that answers drop by
  drop can stretch beyond five seconds.
- `WebSession`: one web process, as the compose file runs it. The map of renewals is in its
  memory, so the property would not hold of several processes without a shared lock.
- `ReviewQueue`: `opened_at` is taken before the commit, so a row can appear behind a
  cursor. `walk.steady` is the ghost set of rows the query selected all along.

## 4. Runs and what they show

| Run | Instance | Distinct states | Shows |
|---|---|---|---|
| `review_case` | 2 reviewers, 2 requests, 2 repairs, the audit, versions to 4 | 607 thousand | the history is one chain that replays to a well-formed row (`AuditIntact`); a case shows all its reasons (`TriggersComplete`); commands act only on what their caller saw, owners keep claims, resolutions are final (`CommandsSound`); the service implements the workflow (`WorkflowSpec`); an undisturbed audit accepts the history (`QuietAuditValid`) |
| `ingestion` | 4 uploads, ambiguous commits | 41 thousand | duplicates share one job and one message (`UploadsShareJob`); a document keeps its object (`DocumentHasObject`) |
| `job` | 2 workers, 1 retry, 3 messages, 1 crash, failing handlers | 1.3 million | outcome, run, log and case agree under overlapping attempts (`EventHistory`, `OutcomesBacked`, `CaseFollowsJob`), and nothing recorded is taken back (`RecordKept`) |
| `job_stream` | 2 unwatched workers, or 1 watched one; 1 retry, 2 messages, 1 crash, batches of 2, 1 drop | 946 thousand | the timeline is a gap-free prefix and stops on a durable outcome (`TimelineFaithful`, `TimelineStops`); a dispatched job settles (`EventuallySettled`) |
| `case` | 2 operators and a worker, or 1 operator and 2 workers, on an invoice and 2 orders; 1 of each with a receipt, or with 2 invoices and an order; 3 attachments, versions to 8 | 2.1 million | one document per slot (`SlotExclusive`); nothing unconfirmed is matched (`ConfirmedFirst`); for one operator, a matched case was matched with what is active in it (`MatchedIsCurrent`) |
| `matching` | 2 requests, 2 duplicate invoices, one with a superseding extraction, an order of 2 lines, 3 deliveries, up to 2 older runs to repair | 184 thousand | the same evidence is decided once (`OneRunPerEvidence`); a match has exactly its goods reserved (`MatchedIsReserved`); a duplicate is noticed (`DuplicateNoticed`); reservations follow the ledger (`ImplementsLedger`); transactions do not wait for each other in a circle, and end (`TransactionsEnd`) |
| `hybrid` | 2 attempts, 4 deliveries, 2 answers of which 1 is unreadable later, 1 retry, 2 deaths, both services | 65 thousand | requests are bounded (`SpendBound`); what is shown is a stored answer, or the baseline in place of an unreadable one (`OutputBacked`), and is kept (`ResultsKept`); attempts end and documents complete (`DeliveriesSettle`) |
| `decisions` | all invoices of up to 2 lines, 3 where lines compete, every header fault; 5 orders, 7 receipt contexts; pairs of features; the labelled sets; small corpora | 49 thousand | what a MATCHED means in either mode (`TwoWayExact`, `ThreeWayExact`); duplicates are found in either order of arrival (`RiskSound`); the labels are reproduced and alignments optimal (`ReportsSound`); spend is bounded and reported (`LiveEvaluationSound`) |
| `extraction` | families of small documents of up to 5 rows, with page breaks, repeated headers, wide gaps, touching rows, tall text and numbers split over words; quotes and proposals | 80 thousand | rows and amounts are read as printed (`PageReadAsPrinted`); line items come from table rows, each word once, and received quantities from their column (`LineItemsSound`); amounts follow the strongest label, and a payable total is given only as the one gross amount (`TotalsProven`); quotes are grounded exactly where the page spells them (`GroundedWhereQuoted`); fusion fills gaps beside the description it quotes, moves no number to another line and overrules nothing (`FusionSound`) |
| `console` | four scenes, see below | 317 thousand | the key cache follows the provider (`KeysFollowProvider`); no replaced refresh token is presented (`RotatedTokenRetired`); pages are complete and in order (`PagesComplete`); every request is answered (`RequestsAnswered`) |

**Why the bounds are enough.** Each race the code is exposed to involves two actors and one
row: two requests and a version, two deliveries and a job, a reader and a writer. Two of
each, and one retry, crash or drop more than is needed to overlap them, reach every such
overlap; versions and attachments run far enough for each request to happen after every
other. `MaxRetries` is 1 instead of 3: the code compares the count with the limit and
does nothing else with it, so one retry and the exhausted one are the two cases. Every
action fires in at least one passing run. In `matching` there are up to two older runs,
because two repairs can wait for each other only if each holds one: without the query's
`ORDER BY` they do, and `TransactionsEnd` fails. In `case`, operators start no request that
the version bound would not let them finish (`Room`). The two-invoice team is the one in
which a replaced invoice's result arrives late.

In `job_stream` the same behaviours are looked at twice: with both workers and nobody
watching, and with one worker and a viewer, since the viewer only reads what workers
commit. In `decisions`, tolerances are the shipped ones and amounts lie on both sides of
each of them. In `extraction`, coordinates are thousandths of a page, as the code's own
thresholds are, and rows lie within and beyond each threshold.

`console` has four scenes, because a renewal, a rotation and a moving queue are
independent and would only multiply. *renewal*: two tabs, two requests, two
signing keys, one failure of Redis or the provider, and a logout, around the end of a
token. *reading*: one tab, three cases, pages of one or two rows, cases opened, committed
late, claimed and resolved between pages. *filtering*: two cases under the filters that
join triggers. *operator*: a role that may read only one of the lists. `Review` steps
happen between requests only: all steps of a request but the query itself leave the queue
alone, so an earlier or a later moment makes no difference.

**Fairness.** Workers (`job_stream`, `hybrid`): weak fairness of each worker's own steps;
a process that runs, with a message to work on, goes on. Nothing forces an error, a crash,
a redelivery or the publication of a message. The generator polls for as long as it is
connected and the browser reconnects after every interruption; lost connections are
bounded. `matching` assumes strong fairness of each transaction's next step, because a
lock it waits for is free again and again: PostgreSQL queues waiters, so none is passed
over forever. `console` assumes weak fairness of each request's next step and of
the renewal. Waiting for the key cache's lock needs no more, because the scene's requests
are bounded: Python's lock does not promise an order among waiters, and under an endless
stream of other requests nothing is claimed.

`job_stream` excludes a failing failure handler (`HandlerMayFail`), which loses the job
(section 5).

## 5. Where code and documents disagree

Two runs end in a counterexample to what the repository says; `PROJECT.json` quotes the
lines.

- `case_version` (`VersionAdvances`): two attaches that start at one version both commit;
  the second comparison is with the object loaded before the upload. In consequence a
  version can repeat, and let a confirmation of a superseded receipt through.
- `line_lost` (`EveryLineAssigned`): the test for an existing check of an invoice line
  counts the passed schema check that every line has, so a line that loses the one-to-one
  assignment gets no failing check, and the invoice can be MATCHED without it.

Properties of the passing runs are worded around these states, which the models reach:

- `QuietAuditValid` needs its premise: `verify_audit` reads row and events in two
  statements, and a command that commits in between makes an untouched case look corrupted.
- `DocumentHasObject` needs its exception: a commit that takes effect but reports an error
  leads to the deletion of the stored document's object by its own upload.
- `RecordKept` is about the run and the log, not the job's status: a delivery that read the
  job before another one finished it writes `PROCESSING` over `SUCCEEDED`
  (`tasks.py:72`; `docs/implementation-guide.md:115`).
- `EventuallySettled` needs a failure handler that works: when `record_failure` raises,
  the retry is never scheduled and the message is acknowledged (`tasks.py:288`;
  `README.md:119`).
- `ResultsKept` covers an invoice's stored answer, not its run: the run's last UPDATE and
  `_mark_terminal_failure` have no status condition, so an overlapping delivery can
  replace a completed output or mark it failed (`hybrid/service.py:171`, `:339`). For a
  supporting document it needs a stored answer that still validates: otherwise a delivery
  that overlaps the one that stored it replaces the completed output by the baseline
  (`supporting_hybrid_service.py:139`).
- `DuplicateNoticed` needs one three-way match on the same order: two two-way matches, or
  duplicates on two orders, may both be clear.
- `MatchedIsReserved` speaks of stored quantities: the column rounds, and a matched line
  of quantity zero is refused by a CHECK of the allocation (`InsertRefused`).
- `PagesComplete` allows a case to be listed once for each trigger a filter joins, unless
  the filter names one match reason.
- `LineItemsSound` lets an added line's total be a number printed in several words: the
  two-column grammar reads `1,` and `200` as 1200, because only words that are amounts by
  themselves are counted (`line_coverage_candidate.py:115`). `docs/invoice-line-coverage.md:171`
  says that the grammar "conservatively rejects numeric values split across multiple tokens".
- `FusionSound` asks for rows that overlap or touch, and speaks of the line's own row only
  where the quoted description stays on one row. `_same_row` accepts two rows that merely
  touch, and a description quoted over two rows can bring in a number of the second one.
  `docs/supporting-vlm.md:31` says that "candidate line fields must share a visual row".
- `TotalsProven` lets a header amount be the digits that end a token: `_MONEY_FRAGMENT`
  starts at any digit, so that a label without an amount takes a number from the end of the
  next line, the year of a date or the tail of an identifier included.
- `TimelineFaithful` allows a short timeline: the stream may end without its terminal
  event, because the generator reads events and status separately. The console recovers by
  asking for the status.

Also reachable, and stated by no property: a duplicate delivery that exhausts its retries
erases the output of a supporting run that succeeded and was confirmed
(`supporting_service.py:154`; `README.md:74`); an invoice whose job succeeds while it is
being attached leaves its case in `PROCESSING`; the late result of a replaced invoice moves
the case that has a newer one (`tasks.py:136`); a damaged stored answer makes every later
attempt at an invoice's uncompleted run raise (`hybrid/service.py:105`); the superseded
order reader (`extract_purchase_order_v1`) pairs line numbers with lines by their count; a
reconciliation that collides with a match is rolled back as a whole and has to be repeated.

## 6. Proofs

All theorems hold for every value of the constants under the named assumptions of the
modules: any number of reviewers, requests, uploads, workers, operators, documents, orders,
threads, retries, deaths, crashes and lost connections. Each proof follows one scheme: an
inductive invariant, one lemma per action or group of actions that shows it is kept, and
the properties as its consequences.

The assumptions say that bounds are naturals and sets of different things are disjoint, or
one part of the other (an unreadable answer is an answer),
and six of them say something about the data: a case has finitely many operator sessions
(`TeamAssumption`); an invoice that passes `validate_invoice_financials` has a usable line,
and its billed quantities are integers in the stored unit (`InvoiceAssumption`); runs that
are older than the duplicate-risk tables are two-way, one per key (`LegacyAssumption`, what
migration `0009` finds); the extractions that have succeeded at the start are extractions
(`ExtractedAssumption`); tables are finite and ids ordered (`CaseAssumption`); a page has
room for a row (the routes' `ge=1`) and a case is opened with each reason of its match once,
as `_trigger_snapshot` does (`SceneAssumption`). TLC evaluates all of them in the runs.

**`ReviewCase_proofs`.** `TypeCorrect` is `[]TypeOK`. `AuditSound` (`AuditIntact`) and
`VersionsSound` come from the inductive invariant `IInv`, their conjunction with `TypeOK`.
`VersionsIdentifyStates` is what makes it inductive: a request holds a row it loaded at
some version; when the version of the row is still that one at commit time, the loaded row
is the current one, so the transition computed from it extends the history. From the same
invariant follow the action properties `NoLostUpdate`, `ResolutionFinal`, `OwnershipKept`
and together `CommandsKeptSound` (`CommandsSound`), and `ImplementsWorkflow`
(`WorkflowSpec`): with `case <- row`, every step of the service is a step of
`ReviewWorkflow` or a stutter. `TriggersShown` (`TriggersComplete`) says that
an open case has every trigger of its opening event, of its match and of a committed risk
assessment, however creation and repairs race.

`HealthyAuditPasses` (`QuietAuditValid`): an audit of a case that did not change between
the audit's two reads reports it valid. `verify_audit` replays the events with a recursive
function, so the proof has to know what such a function computes for every history. It is
built from finite approximations (`ReplayGrows`, `ReplayExists`), shown to be unique
(`ReplayUnique`), and agrees with the ghost history of rows at every version
(`ReconstructsHistory`); each of these takes the least version at which it would fail.

**`InvoiceIngestion_proofs`.** `UploadsDeduplicate` proves `UploadsShareJob`, also with
ambiguous commits. The strengthening records where an upload can be when its object is
present and when the document is its own. `DocumentsKeepObjects` proves
`DocumentHasObject`: an upload removes only its own object, and the owner of the document
is past the point where it would, unless its commit was ambiguous.

**`ExtractionJob_proofs`.** `OutcomeBacked` proves `OutcomesBacked`, and `JobRecordKept`
proves `RecordKept`. The strengthening `WorkerKnows` says what a worker's position implies:
about to finish, the run has succeeded; about to write a job it loaded, what it loaded was
not `SUCCEEDED`, so that a column left out of its UPDATE cannot be the one that says so.
`ResultStable` is used inside the induction: what a worker knows of a successful run stays
true while others work.

`EventsOrdered` (`EventHistory`) adds the shape of the log to the invariant (`LogShape`):
no event twice, the upload's first, and the two completion events only together and in
order; what keeps it is that a worker that is extracting or later has its start in the log
(`Started`). `CaseFollows` (`CaseFollowsJob`) follows from that shape and the monotone
status of the run. `TimelineSound` (`TimelineFaithful`) is about the composition with the
stream: the invariant says that the position of the generator, what is on the connection
and what the timeline shows are consecutive intervals of the log, that merging the next
event into a prefix gives the longer prefix (`MergedNext`), and that a generator that saw
a final status had its outcome in the log.

**`PayableCase_proofs`.** Three theorems from one invariant, `Shape /\ Slots /\ Consumed /\
Alone`, and `JobsHeld`, which says that the job a worker is about to commit is open and in no
other worker's hands. `SlotsStayExclusive` (`SlotExclusive`): a slot is held exactly by the attachment
nothing supersedes, which an attach keeps although it validated before its document was
stored and committed. `MatchesConfirmed` (`ConfirmedFirst`): `Consumed` extends the
property to the match a request has computed and not yet recorded. `MatchedStaysCurrent`
(`MatchedIsCurrent`): `Alone` says that a lone operator who is matching has the current
documents in hand, and one who is attaching has seen the case's status; the workers' late
writes change neither.

**`Matching_proofs`.** `EvidenceDecidedOnce` (`OneRunPerEvidence`), `MatchedStaysReserved`
(`MatchedIsReserved`) and `DuplicatesNoticed` (`DuplicateNoticed`) come from the invariant
`Stores /\ LockTable /\ Sessions /\ Goal`, and none of them can be proved without the
others' share. `Stores` ties allocations and feature rows to their runs. `LockTable` says
that an order's row lock excludes every other share lock on it. `Sessions` says what a
transaction in flight is going to commit: its evidence is undecided and stays so, because
a three-way run holds the order and a two-way insert that collides waits (`Apart`); what it
reserves is what its invoice bills (`Planned`); and its comparisons include every duplicate
that is visible or becomes visible before its commit (`Written`, `Claim`), because the other
transaction would have to hold the same order. `ReservationsKept` is the action property
behind the ledger: a step that adds allocations adds them for one invoice and order that
had none, and none is ever withdrawn.

**`HybridExtraction_proofs`.** `HybridOutputBacked` (`OutputBacked`), `HybridResultsKept`
(`ResultsKept`) and `SpendBounded` (`SpendBound`). The invariant has three parts.
`AttemptsKnow` says what an attempt's position tells of the call's row: between locking and
finishing it holds the lock, what it decided on is the row itself, and an outcome it is
about to store is settled. `RunBacked` ties a completed run to what the call stands for
(`Shown`: the stored answer, or the baseline if it no longer validates). `Spent` accounts
for the requests: as long as the call is open and nobody is about to store an outcome,
every request belongs to an attempt that died. That settles the supporting documents. An
invoice's attempts retry, and the bound is a product; `Budget` proves it by counting:
`Owed` is the set of pairs of an attempt and a try it has left, a request takes a pair
away, a delivery pays for as many as it adds, and requests plus pairs stay within the
deliveries times the tries.

**`ReviewQueue_proofs`.** The lemmas about the paged lists. A query's answer is chosen from
the enumerations of the rows it finds, so a proof about it first needs one that is in order
(`ListingExists`: take away an oldest row of a smallest set that has none) and that every
such enumeration is complete, sorted and free of repetition where it has to be
(`QueryResult`). The invariant `QueueInv` says of each walk that what it listed is sorted,
can still be seen and is not past the cursor, and that each row that was selected all along
is listed or past the cursor. A page keeps it because the rows it adds are past the old
cursor and not past the new one; writers keep it because a row that can be seen never
changes its `opened_at` and never disappears, and because a row that is committed late,
below a cursor, was not selected when the walk began.

**`Console_proofs`.** `KeyCacheFollows` (`KeysFollowProvider`) for any lifetime of the
cache and any bound on the provider's delay. The properties speak of calls that have
ended; the invariant says what the cache, an answer on its way and a call in progress know
of the provider: a key that was withdrawn since an answer left was withdrawn no earlier
than that (`Answer`), so what is stored from it expires within the bound (`Cached`), and a
key that was served all along is in the second answer (`Knows`).
`WebTokenRetired` (`RotatedTokenRetired`). Unless a replacement was lost, Redis holds the
accepted refresh token except while the one renewal is about to save a newer one, and the
renewal never holds an older one: it is alone in the map, and it reads the session after it
began.
These two are about the parts by themselves. `ConsoleSound` states both of the whole
console: each of its steps is a step of the key cache and of the sessions, or leaves them
alone (`ConsoleKeyStep`, `ConsoleWebStep`), with the types a token needs (`WebTypes`).
`ListsStayComplete` (`PagesComplete`) follows from `QueueInv`, which every step of the
console keeps (`ConsoleQueueStep`), a refused page and a repeated request included.

## 7. What is only model-checked, and what is not modelled

Only model-checked:

- liveness (`EventuallySettled`, `TimelineStops`, `DeliveriesSettle`, `TransactionsEnd`,
  `RequestsAnswered`): fairness and `ENABLED` are out of the prover's reach;
- `ImplementsLedger`: stock and claims are sums over sets of rows, and the library's
  theorems about such sums take an operator as a parameter, which the provers cannot
  instantiate. `ReservationsKept` is the part of it that is not about quantities;
- `Decisions` and `Extraction` (the engines, evaluations, extraction rules, grounding and
  fusion): folds over sequences, and recursive operators, which no module with a theorem
  can reach.

Not modelled:

- PDF, OCR, S3, HTTP clients of the providers, JWT signatures and claims: libraries and
  services. Their results and failures are inputs of the models.
- The login round trip of the console (a session exists in the initial state), development
  identities and sessions, and the proxy's answer when the API cannot be reached.
- The case's event log and stream, and the console's confirmation drafts, idempotency keys
  and case timeline. The stream repeats the job stream's generator over another table.
- Routes that add status codes and serialisation to the modelled services; rendering.
- Offline audits and challenge sets over private or generated corpora, which read files and
  write a report, and the audit of a live run's fusions against labels.
- Logging, metrics, tracing, health probes, migrations, scripts and deployment: they change
  none of the state the properties are about.
- Two hazards visible in the models but contradicted by no document: a succeeded job that
  keeps the error code of an overlapping attempt, and a case that stays `FAILED` although
  its invoice, dispatched again, succeeded.
