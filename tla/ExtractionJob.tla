---------------------------- MODULE ExtractionJob ----------------------------
(***************************************************************************)
(* One ingestion job, the Celery workers that process it, its extraction   *)
(* run, its durable events and the payable case its invoice is attached    *)
(* to.                                                                     *)
(*                                                                         *)
(* A step of a worker is one committed transaction or one unlocked read.   *)
(* Messages are delivered at least once: a worker's death and the broker's *)
(* visibility timeout put a message back, and the dispatchers may publish  *)
(* another for a job that is not yet finished.  The ORM writes only the    *)
(* columns that differ from what the session loaded (Flush), so two        *)
(* workers with different snapshots can mix their writes.                  *)
(***************************************************************************)
EXTENDS Integers, Bags, SequencesExt

CONSTANTS
    Worker,            \* the worker processes
    MaxRetries,        \* MAX_RETRIES
    MaxSends,          \* bound: messages published or redelivered by timeout
    MaxCrashes,        \* bound: worker deaths
    HandlerMayFail     \* may record_failure itself raise (a database outage)?

ASSUME RetryAssumption == MaxRetries \in Nat
ASSUME BoundAssumption == MaxSends \in Nat /\ MaxCrashes \in Nat
ASSUME HandlerAssumption == HandlerMayFail \in BOOLEAN

VARIABLES
    job,               \* the ingestion_jobs row: status and error_code
    run,               \* status of the extraction_runs row, "NONE" before it exists
    events,            \* the job_events keys, by sequence number
    kase,              \* the payable case: status, version and its event keys
    queue,             \* the broker: a bag of messages, each its retry count
    wk,                \* per worker: pc, message, loaded job, error to record
    sends,
    crashes

vars == <<job, run, events, kase, queue, wk, sends, crashes>>

JobStatus == {"QUEUED", "PROCESSING", "SUCCEEDED", "FAILED"}
RunStatus == {"NONE", "PROCESSING", "SUCCEEDED", "FAILED"}
CaseStatus == {"NONE", "PROCESSING", "NEEDS_CONFIRMATION", "FAILED"}
ErrorCode == {"NONE", "extraction_error", "processing_failed"}
Terminal == {"SUCCEEDED", "FAILED"}
EventKey == {"upload.accepted", "document.validated", "extraction.started",
             "extraction.completed", "processing.completed", "processing.failed"}
Uploaded == <<"upload.accepted", "document.validated">>

\* The statements of process_document up to its exception handlers.
TryBlock == {"load", "begin", "find", "create", "mark", "refresh", "extract",
             "save", "runfail", "finish"}
Handler == {"failread", "failwrite"}
PC == {"idle", "retry", "ack"} \cup TryBlock \cup Handler

NoJob == [status |-> "NONE", error |-> "NONE"]
Idle == [pc |-> "idle", retries |-> 0, seen |-> NoJob, code |-> "NONE"]

At(w, pc) == wk[w].pc = pc
Goto(w, pc) == wk' = [wk EXCEPT ![w].pc = pc]

-----------------------------------------------------------------------------
(* The database *)

\* The UPDATE of a job loaded as old and now holding new: changed columns only.
Flush(old, new) ==
    [status |-> IF new.status = old.status THEN job.status ELSE new.status,
     error  |-> IF new.error = old.error THEN job.error ELSE new.error]

\* Mutants of Logged: no lookup by event key; an upsert that moves the event.
LoggedTwice(log, key) == Append(log, key)
LoggedLast(log, key) == Append(SelectSeq(log, LAMBDA k : k # key), key)

\* append_job_event: under the job's row lock, once per key, next sequence number.
Logged(log, key) == IF Contains(log, key) THEN log ELSE Append(log, key)

\* Mutant of CaseMoved: the case's own status is not consulted.
CaseMovedAlways(from, to, key) ==
    IF kase.status = "NONE" THEN kase
    ELSE [status |-> to, version |-> kase.version + 1, events |-> kase.events \cup {key}]

\* Under the case's row lock: its event once, and its status if it is in from.
CaseMoved(from, to, key) ==
    IF kase.status = "NONE" THEN kase
    ELSE [status  |-> IF kase.status \in from THEN to ELSE kase.status,
          version |-> IF kase.status \in from THEN kase.version + 1 ELSE kase.version,
          events  |-> kase.events \cup {key}]

-----------------------------------------------------------------------------
(* The broker *)

\* dispatcher.enqueue after an upload, an attach or a replayed attach.
Send ==
    /\ sends < MaxSends
    /\ job.status # "SUCCEEDED"
    /\ sends' = sends + 1
    /\ queue' = queue (+) SetToBag({0})
    /\ UNCHANGED <<job, run, events, kase, wk, crashes>>

\* The visibility timeout redelivers a message its worker still holds.
Redeliver(w) ==
    /\ sends < MaxSends
    /\ ~At(w, "idle")
    /\ sends' = sends + 1
    /\ queue' = queue (+) SetToBag({wk[w].retries})
    /\ UNCHANGED <<job, run, events, kase, wk, crashes>>

Receive(w) ==
    /\ At(w, "idle")
    /\ \E r \in BagToSet(queue) :
          /\ queue' = queue (-) SetToBag({r})
          /\ wk' = [wk EXCEPT ![w] = [Idle EXCEPT !.pc = "load", !.retries = r]]
    /\ UNCHANGED <<job, run, events, kase, sends, crashes>>

\* reject_on_worker_lost: the message of a dead worker goes back.
Crash(w) ==
    /\ crashes < MaxCrashes
    /\ ~At(w, "idle")
    /\ crashes' = crashes + 1
    /\ queue' = queue (+) SetToBag({wk[w].retries})
    /\ wk' = [wk EXCEPT ![w] = Idle]
    /\ UNCHANGED <<job, run, events, kase, sends>>

\* acks_late: the message is gone once the task has returned or raised.
Ack(w) ==
    /\ At(w, "ack")
    /\ wk' = [wk EXCEPT ![w] = Idle]
    /\ UNCHANGED <<job, run, events, kase, queue, sends, crashes>>

-----------------------------------------------------------------------------
(* run_job *)

LoadJob(w) ==
    /\ At(w, "load")
    /\ wk' = [wk EXCEPT ![w].seen = job,
                        ![w].pc = IF job.status = "SUCCEEDED" THEN "ack" ELSE "begin"]
    /\ UNCHANGED <<job, run, events, kase, queue, sends, crashes>>

\* PROCESSING, no error, extraction.started; commit.
Begin(w) ==
    /\ At(w, "begin")
    /\ job' = Flush(wk[w].seen, [status |-> "PROCESSING", error |-> "NONE"])
    /\ events' = Logged(events, "extraction.started")
    /\ Goto(w, "find")
    /\ UNCHANGED <<run, kase, queue, sends, crashes>>

\* _find_run and the two status tests of process.
FindRun(w) ==
    /\ At(w, "find")
    /\ Goto(w, CASE run = "NONE" -> "create"
                 [] run = "SUCCEEDED" -> "finish"
                 [] run = "PROCESSING" -> "extract"
                 [] run = "FAILED" -> "mark")
    /\ UNCHANGED <<job, run, events, kase, queue, sends, crashes>>

\* INSERT; the unique key sends the loser back to _find_run.
CreateRun(w) ==
    /\ At(w, "create")
    /\ IF run = "NONE"
       THEN run' = "PROCESSING" /\ Goto(w, "extract")
       ELSE UNCHANGED run /\ Goto(w, "find")
    /\ UNCHANGED <<job, events, kase, queue, sends, crashes>>

\* Mutant of RunOpen: the UPDATE has no status condition.
RunOpenAlways == run # "NONE"

\* WHERE status != SUCCEEDED
RunOpen == run # "SUCCEEDED"

MarkProcessing(w) ==
    /\ At(w, "mark")
    /\ run' = IF RunOpen THEN "PROCESSING" ELSE run
    /\ Goto(w, "refresh")
    /\ UNCHANGED <<job, events, kase, queue, sends, crashes>>

RefreshRun(w) ==
    /\ At(w, "refresh")
    /\ Goto(w, IF run = "SUCCEEDED" THEN "finish" ELSE "extract")
    /\ UNCHANGED <<job, run, events, kase, queue, sends, crashes>>

\* Download, text extraction and validation: a result or a terminal error.
Extract(w) ==
    /\ At(w, "extract")
    /\ \E next \in {"save", "runfail"} : Goto(w, next)
    /\ UNCHANGED <<job, run, events, kase, queue, sends, crashes>>

Save(w) ==
    /\ At(w, "save")
    /\ run' = "SUCCEEDED"
    /\ Goto(w, "finish")
    /\ UNCHANGED <<job, events, kase, queue, sends, crashes>>

\* _mark_terminal_failure, then the exception reaches _process_document.
RunFail(w) ==
    /\ At(w, "runfail")
    /\ run' = IF RunOpen THEN "FAILED" ELSE run
    /\ wk' = [wk EXCEPT ![w].pc = "failread", ![w].code = "extraction_error"]
    /\ UNCHANGED <<job, events, kase, queue, sends, crashes>>

\* The error columns were loaded as NULL or cleared by Begin: not written here.
Finish(w) ==
    /\ At(w, "finish")
    /\ job' = [job EXCEPT !.status = "SUCCEEDED"]
    /\ events' = Logged(Logged(events, "extraction.completed"), "processing.completed")
    /\ kase' = CaseMoved({"PROCESSING"}, "NEEDS_CONFIRMATION", "completed")
    /\ Goto(w, "ack")
    /\ UNCHANGED <<run, queue, sends, crashes>>

-----------------------------------------------------------------------------
(* The exception handlers of _process_document *)

\* terminal = retry_count >= MAX_RETRIES
Exhausted(r) == r >= MaxRetries

\* Any other exception of the try block; the open transaction is rolled back.
OperationalError(w) ==
    /\ wk[w].pc \in TryBlock
    /\ wk' = [wk EXCEPT ![w].pc = "failread",
                        ![w].code = IF Exhausted(wk[w].retries)
                                    THEN "processing_failed" ELSE "NONE"]
    /\ UNCHANGED <<job, run, events, kase, queue, sends, crashes>>

\* What follows record_failure: raise, or self.retry.
AfterFailure(w) == IF wk[w].code = "NONE" THEN "retry" ELSE "ack"

\* record_failure's unlocked read, in a session of its own.
FailRead(w) ==
    /\ At(w, "failread")
    /\ wk' = [wk EXCEPT ![w].seen = job,
                        ![w].pc = IF job.status = "SUCCEEDED" THEN AfterFailure(w)
                                  ELSE "failwrite"]
    /\ UNCHANGED <<job, run, events, kase, queue, sends, crashes>>

FailureLogged(code) ==
    IF code = "NONE" THEN events ELSE Logged(events, "processing.failed")

FailWrite(w) ==
    LET code == wk[w].code
    IN  /\ At(w, "failwrite")
        /\ job' = Flush(wk[w].seen,
                        [status |-> IF code = "NONE" THEN "QUEUED" ELSE "FAILED",
                         error |-> code])
        /\ events' = FailureLogged(code)
        /\ kase' = IF code = "NONE" THEN kase
                   ELSE CaseMoved(CaseStatus \ {"FAILED"}, "FAILED", "failed")
        /\ Goto(w, AfterFailure(w))
        /\ UNCHANGED <<run, queue, sends, crashes>>

\* record_failure raises: the task fails, and a failed task is acknowledged.
HandlerFails(w) ==
    /\ HandlerMayFail
    /\ wk[w].pc \in Handler
    /\ Goto(w, "ack")
    /\ UNCHANGED <<job, run, events, kase, queue, sends, crashes>>

\* Mutant of RetryMessage: the task re-raises without scheduling a retry.
RetryNothing(r) == EmptyBag

RetryMessage(r) == SetToBag({r + 1})

\* self.retry publishes the next attempt; this message is acknowledged after it.
Retry(w) ==
    /\ At(w, "retry")
    /\ queue' = queue (+) RetryMessage(wk[w].retries)
    /\ Goto(w, "ack")
    /\ UNCHANGED <<job, run, events, kase, sends, crashes>>

-----------------------------------------------------------------------------
Step(w) ==
    \/ Receive(w) \/ LoadJob(w) \/ Begin(w)
    \/ FindRun(w) \/ CreateRun(w) \/ MarkProcessing(w) \/ RefreshRun(w)
    \/ Extract(w) \/ Save(w) \/ RunFail(w) \/ Finish(w)
    \/ FailRead(w) \/ FailWrite(w) \/ Retry(w) \/ Ack(w)

\* After IngestionService.ingest and, perhaps, an attach have committed.
\* A job that was just accepted.
Accepted ==
    /\ job = [status |-> "QUEUED", error |-> "NONE"]
    /\ run = "NONE"
    /\ events = Uploaded
    /\ kase \in [status : {"NONE", "PROCESSING"}, version : {1}, events : {{}}]
    /\ queue = EmptyBag
    /\ sends = 0
    /\ crashes = 0

Init == Accepted /\ wk = [w \in Worker |-> Idle]

Works(w) == Step(w) \/ OperationalError(w) \/ HandlerFails(w) \/ Redeliver(w) \/ Crash(w)

Next == Send \/ \E w \in Worker : Works(w)

Spec == Init /\ [][Next]_vars

-----------------------------------------------------------------------------
(* Properties *)

\* Redelivered, retried and concurrent attempts write each event once: the log
\* keeps the upload's events first, and a completion follows a start.
EventHistory ==
    /\ IsInjective(events)
    /\ IsPrefix(Uploaded, events)
    /\ \A i \in DOMAIN events :
          events[i] = "processing.completed" =>
              /\ events[i - 1] = "extraction.completed"
              /\ \E j \in 1..(i - 2) : events[j] = "extraction.started"

\* A job reported as succeeded has a usable result and a completion event,
\* however many attempts overlapped (run_job, ExtractionService.process).
SucceededIsBacked ==
    job.status = "SUCCEEDED" =>
        run = "SUCCEEDED" /\ Contains(events, "processing.completed")

\* A job reported as failed has a durable failure event (record_failure).
FailedIsExplained == job.status = "FAILED" => Contains(events, "processing.failed")

\* A reported outcome, good or bad, is backed by what was committed for it.
OutcomesBacked == SucceededIsBacked /\ FailedIsExplained

\* The case is offered for confirmation only when the invoice was extracted,
\* and marked failed only when a failure was recorded; it moves once or twice.
CaseFollowsJob ==
    /\ kase.status = "NEEDS_CONFIRMATION" => run = "SUCCEEDED" /\ kase.version = 2
    /\ kase.status = "FAILED" => Contains(events, "processing.failed")
    /\ kase.version <= 3

\* A successful extraction is never downgraded by an attempt that overlaps it
\* (the conditions of _mark_processing and _mark_terminal_failure).
ResultStable == [][run = "SUCCEEDED" => run' = "SUCCEEDED"]_vars

\* The durable event log only grows at its end (append_job_event), which is
\* what makes Last-Event-ID resumption correct.
HistoryAppendOnly == [][IsPrefix(events, events')]_vars

\* Overlapping attempts neither take back a result nor rewrite the event log.
RecordKept == ResultStable /\ HistoryAppendOnly
=============================================================================
