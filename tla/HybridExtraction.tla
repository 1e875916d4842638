-------------------------- MODULE HybridExtraction --------------------------
(***************************************************************************)
(* The two services that ask a vision model about one document after its   *)
(* deterministic baseline succeeded: HybridExtractionService for invoices  *)
(* and HybridSupportingExtractionService for supporting documents.         *)
(*                                                                         *)
(* Both keep a run and one model call per request fingerprint, and both    *)
(* are driven by at-least-once deliveries that may overlap.  They differ   *)
(* in how they guard the call: the supporting service holds the call's row *)
(* lock through the provider request, the invoice service relies on        *)
(* conditional updates.  A step is one committed transaction, one read or  *)
(* one provider request.                                                   *)
(***************************************************************************)
EXTENDS Integers

CONSTANTS
    Worker,            \* the workers that hold a delivery of the document
    Candidate,         \* the parsed answers the provider may return
    Unreadable,        \* those whose stored form no longer validates when replayed
    Baseline,          \* the deterministic output
    None,
    VlmMaxRetries,     \* settings.vlm_max_retries, of the invoice provider
    MaxDeliveries,     \* bound: deliveries of the document
    MaxDeaths          \* bound: attempts that end in an exception or a crash

ASSUME BaselineAssumption == Baseline \notin Candidate /\ None \notin Candidate \cup {Baseline}
ASSUME UnreadableAssumption == Unreadable \subseteq Candidate
ASSUME WorkerAssumption == None \notin Worker
ASSUME BoundAssumption == VlmMaxRetries \in Nat /\ MaxDeliveries \in Nat /\ MaxDeaths \in Nat

VARIABLES
    service,           \* which of the two services this document belongs to
    routed,            \* does route_extraction / route_supporting ask for the model?
    run,               \* the hybrid run's row: status, output
    call,              \* the model call's row: status, candidate
    lock,              \* the worker that holds the call's row lock, or None
    announced,         \* is the completion event in the case's log?
    requests,          \* provider requests sent so far
    wk,                \* per worker: pc, loaded run status, loaded call, result
    deliveries,
    deaths

vars == <<service, routed, run, call, lock, announced, requests, wk, deliveries, deaths>>

Status == {"NONE", "PROCESSING", "SUCCEEDED", "FAILED", "SKIPPED"}
NoRun == [status |-> "NONE", output |-> None]
NoCall == [status |-> "NONE", candidate |-> None]
NewCall == [status |-> "PROCESSING", candidate |-> None]
PC == {"idle", "find", "create", "mark", "text", "runfail", "again", "call",
       "callcreate", "lock", "decide", "provider", "finish", "save"}

\* seen: the run's status as loaded; call: the call as loaded; tries: failed
\* requests of this attempt; end: the call's new row; out: the run's new output.
Idle == [pc |-> "idle", seen |-> "NONE", call |-> NoCall, tries |-> 0,
         end |-> NoCall, out |-> None]

Supporting == service = "supporting"
At(w, pc) == wk[w].pc = pc
Goto(w, pc) == wk' = [wk EXCEPT ![w].pc = pc]

-----------------------------------------------------------------------------
(* Deliveries *)

\* The baseline service has returned its successful run to this attempt.
Deliver(w) ==
    /\ At(w, "idle")
    /\ deliveries < MaxDeliveries
    /\ deliveries' = deliveries + 1
    /\ Goto(w, "find")
    /\ UNCHANGED <<service, routed, run, call, lock, announced, requests, deaths>>

\* A commit, a rollback or the death of the connection releases the row lock.
Released(w) == IF lock = w THEN None ELSE lock

\* A crash, or an exception the service does not handle.
Die(w) ==
    /\ ~At(w, "idle")
    /\ deaths < MaxDeaths
    /\ deaths' = deaths + 1
    /\ wk' = [wk EXCEPT ![w] = Idle]
    /\ lock' = IF lock = w THEN None ELSE lock
    /\ UNCHANGED <<service, routed, run, call, announced, requests, deliveries>>

Return(w) == wk' = [wk EXCEPT ![w] = Idle]

-----------------------------------------------------------------------------
(* The run *)

\* _find_run.  The invoice service goes on according to the status it loaded;
\* the supporting one only returns a completed run, and keeps what it loaded.
AfterFind(status) ==
    IF Supporting \/ status \notin {"NONE", "FAILED"} THEN "text"
    ELSE IF status = "NONE" THEN "create" ELSE "mark"
FindRun(w) ==
    /\ At(w, "find")
    /\ IF run.status = "SUCCEEDED" THEN Return(w)
       ELSE wk' = [wk EXCEPT ![w].seen = run.status,
                             ![w].pc = AfterFind(run.status)]
    /\ UNCHANGED <<service, routed, run, call, lock, announced, requests, deliveries, deaths>>

\* The supporting service's _get_or_create_run: an object already loaded is not
\* refreshed by the second query.
FindRunAgain(w) ==
    /\ At(w, "again")
    /\ IF wk[w].seen = "NONE" /\ run.status = "SUCCEEDED" THEN Return(w)
       ELSE Goto(w, IF run.status = "NONE" THEN "create" ELSE "call")
    /\ UNCHANGED <<service, routed, run, call, lock, announced, requests, deliveries, deaths>>

\* INSERT; the loser rolls back, forgets what it loaded and reads the winner's.
CreateRun(w) ==
    /\ At(w, "create")
    /\ IF run.status = "NONE"
       THEN /\ run' = [status |-> "PROCESSING", output |-> None]
            /\ Goto(w, IF Supporting THEN "call" ELSE "text")
       ELSE /\ Goto(w, IF Supporting THEN "again" ELSE "find")
            /\ UNCHANGED run
    /\ UNCHANGED <<service, routed, call, lock, announced, requests, deliveries, deaths>>

\* _mark_processing: WHERE status != SUCCEEDED; process does not look at the
\* refreshed status afterwards.
MarkProcessing(w) ==
    /\ At(w, "mark")
    /\ run' = IF run.status = "SUCCEEDED" THEN run
              ELSE [status |-> "PROCESSING", output |-> None]
    /\ Goto(w, "text")
    /\ UNCHANGED <<service, routed, call, lock, announced, requests, deliveries, deaths>>

\* Download, text extraction and routing.  An extraction error ends the attempt:
\* the invoice service records it, the supporting one only raises.
ReadText(w) ==
    /\ At(w, "text")
    /\ IF Supporting /\ ~routed THEN Return(w)
       ELSE Goto(w, IF Supporting THEN "again" ELSE "call")
    /\ UNCHANGED <<service, routed, run, call, lock, announced, requests, deliveries, deaths>>

TextFails(w) ==
    /\ At(w, "text")
    /\ ~Supporting
    /\ deaths < MaxDeaths
    /\ deaths' = deaths + 1
    /\ Goto(w, "runfail")
    /\ UNCHANGED <<service, routed, run, call, lock, announced, requests, deliveries>>

\* _mark_terminal_failure: whatever the run's status is by now; output_json stays.
MarkTerminalFailure(w) ==
    /\ At(w, "runfail")
    /\ run' = [run EXCEPT !.status = "FAILED"]
    /\ Return(w)
    /\ UNCHANGED <<service, routed, call, lock, announced, requests, deliveries, deaths>>

-----------------------------------------------------------------------------
(* The model call *)

\* _get_or_create_call: the row of this fingerprint, as loaded now.
FindCall(w) ==
    /\ At(w, "call")
    /\ wk' = [wk EXCEPT ![w].call = call,
                        ![w].pc = IF call.status = "NONE" THEN "callcreate"
                                  ELSE IF Supporting THEN "lock" ELSE "decide"]
    /\ UNCHANGED <<service, routed, run, call, lock, announced, requests, deliveries, deaths>>

CreateCall(w) ==
    /\ At(w, "callcreate")
    /\ IF call.status = "NONE"
       THEN /\ call' = NewCall
            /\ wk' = [wk EXCEPT ![w].call = NewCall,
                                ![w].pc = IF Supporting THEN "lock" ELSE "decide"]
       ELSE /\ Goto(w, "call")
            /\ UNCHANGED call
    /\ UNCHANGED <<service, routed, run, lock, announced, requests, deliveries, deaths>>

\* Mutant of LockedView: the query does not refresh the loaded call.
LockedViewStale(w) == wk[w].call

\* populate_existing: what the lock's holder sees is the row itself.
LockedView(w) == call

\* SELECT ... FOR UPDATE on the call.
LockCall(w) ==
    /\ At(w, "lock")
    /\ lock = None
    /\ lock' = w
    /\ wk' = [wk EXCEPT ![w].call = LockedView(w), ![w].pc = "decide"]
    /\ UNCHANGED <<service, routed, run, call, announced, requests, deliveries, deaths>>

\* A stored answer that model_validate refuses.
Damaged(c) == c.status = "SUCCEEDED" /\ c.candidate \in Unreadable

\* Mutant of Replayed: the stored answer is not fused again.
ReplayedNot(c) == Baseline

\* The output a settled call stands for, without asking the provider; a damaged
\* replay never replaces the deterministic baseline.
Replayed(c) == IF c.status = "SUCCEEDED" /\ ~Damaged(c) THEN c.candidate ELSE Baseline

\* Not routed: SKIPPED.  Settled: replay it.  Otherwise render and ask.
Decide(w) ==
    LET c == wk[w].call
    IN  /\ At(w, "decide")
        /\ Supporting \/ ~routed \/ ~Damaged(c)
        /\ wk' = [wk EXCEPT
             ![w].out = Replayed(c),
             ![w].end = [status |-> "SKIPPED", candidate |-> None],
             ![w].pc = CASE ~routed -> "finish"
                         [] routed /\ c.status \in {"SUCCEEDED", "FAILED"} -> "save"
                         [] OTHER -> "provider"]
        /\ UNCHANGED <<service, routed, run, call, lock, announced, requests, deliveries, deaths>>

\* The invoice service does not catch the refusal: the attempt ends.
ReplayRaises(w) ==
    /\ At(w, "decide")
    /\ ~Supporting /\ routed /\ Damaged(wk[w].call)
    /\ Return(w)
    /\ UNCHANGED <<service, routed, run, call, lock, announced, requests, deliveries, deaths>>

-----------------------------------------------------------------------------
(* The provider *)

\* Mutant of AfterAnswer: the run is completed first, the answer never stored.
AfterAnswerUnsaved(c) == "save"

AfterAnswer(c) == "finish"

\* Mutant of AfterFailure: the provider's error escapes process.
AfterFailureRaises(w) == "idle"

AfterFailure(w) == "finish"

Answer(w, c) ==
    wk' = [wk EXCEPT ![w].out = c, ![w].end = [status |-> "SUCCEEDED", candidate |-> c],
                     ![w].pc = AfterAnswer(c)]

Fail(w) ==
    wk' = [wk EXCEPT ![w].out = Baseline, ![w].end = [status |-> "FAILED", candidate |-> None],
                     ![w].pc = AfterFailure(w)]

\* Only the invoice provider retries, and only transient errors.
Retries == IF Supporting THEN 0 ELSE VlmMaxRetries

\* One responses.parse: a parsed answer, a refusal or malformed answer, or a
\* transient error that is retried until the retries are exhausted.
Request(w) ==
    /\ At(w, "provider")
    /\ requests' = requests + 1
    /\ \/ \E c \in Candidate : Answer(w, c)
       \/ Fail(w)
       \/ wk[w].tries < Retries /\ wk' = [wk EXCEPT ![w].tries = @ + 1]
    /\ UNCHANGED <<service, routed, run, call, lock, announced, deliveries, deaths>>

\* PageRenderer.render fails before anything is sent.
RenderFails(w) ==
    /\ At(w, "provider")
    /\ wk[w].tries = 0
    /\ Fail(w)
    /\ UNCHANGED <<service, routed, run, call, lock, announced, requests, deliveries, deaths>>

-----------------------------------------------------------------------------
(* Completion *)

\* WHERE status != SUCCEEDED in the invoice service; the supporting one holds
\* the row lock instead.
CallOpen == Supporting \/ call.status # "SUCCEEDED"

\* _finish_call: the outcome, committed.
FinishCall(w) ==
    /\ At(w, "finish")
    /\ call' = IF CallOpen THEN wk[w].end ELSE call
    /\ lock' = Released(w)
    /\ Goto(w, "save")
    /\ UNCHANGED <<service, routed, run, announced, requests, deliveries, deaths>>

\* The run succeeds with this attempt's output, whatever it holds by now; the
\* supporting service tells the case, once.
SaveRun(w) ==
    /\ At(w, "save")
    /\ run' = [status |-> "SUCCEEDED", output |-> wk[w].out]
    /\ announced' = (announced \/ Supporting)
    /\ lock' = Released(w)
    /\ Return(w)
    /\ UNCHANGED <<service, routed, call, requests, deliveries, deaths>>

-----------------------------------------------------------------------------
Step(w) ==
    \/ FindRun(w) \/ FindRunAgain(w) \/ CreateRun(w) \/ MarkProcessing(w)
    \/ ReadText(w) \/ MarkTerminalFailure(w)
    \/ FindCall(w) \/ CreateCall(w) \/ LockCall(w) \/ Decide(w)
    \/ ReplayRaises(w)
    \/ Request(w) \/ RenderFails(w) \/ FinishCall(w) \/ SaveRun(w)

Init ==
    /\ service \in {"invoice", "supporting"}
    /\ routed \in BOOLEAN
    /\ run = NoRun
    /\ call = NoCall
    /\ lock = None
    /\ announced = FALSE
    /\ requests = 0
    /\ wk = [w \in Worker |-> Idle]
    /\ deliveries = 0
    /\ deaths = 0

Next == \E w \in Worker : Deliver(w) \/ Die(w) \/ TextFails(w) \/ Step(w)

Spec == Init /\ [][Next]_vars

\* A running attempt keeps running; nothing forces a delivery, an error or a death.
FairSpec == Spec /\ \A w \in Worker : WF_vars(Step(w))

-----------------------------------------------------------------------------
(* Properties *)

\* What current_successful_extraction and current_supporting_extraction offer:
\* a successful hybrid run before the baseline.
Current == IF run.status = "SUCCEEDED" THEN run.output ELSE Baseline

Call == [status : Status, candidate : Candidate \cup {None}]

\* What a settled call may be shown as: its answer when it came in, and what a
\* replay makes of it, which differ only when the answer is damaged.
Shown(c) == {IF c.status = "SUCCEEDED" THEN c.candidate ELSE Baseline, Replayed(c)}

\* Every variable keeps its type.
TypeOK ==
    /\ service \in {"invoice", "supporting"}
    /\ routed \in BOOLEAN
    /\ run \in [status : Status, output : Candidate \cup {Baseline, None}]
    /\ call \in Call
    /\ lock \in Worker \cup {None}
    /\ announced \in BOOLEAN
    /\ requests \in Nat
    /\ wk \in [Worker -> [pc : PC, seen : Status, call : Call, tries : 0..VlmMaxRetries,
                          end : Call, out : Candidate \cup {Baseline, None}]]
    /\ deliveries \in 0..MaxDeliveries
    /\ deaths \in 0..MaxDeaths

\* Overlapping and repeated deliveries spend at most one request on a supporting
\* document, plus one for every attempt that died ("A concurrent delivery waits,
\* then observes the committed outcome instead of spending on a second call");
\* an invoice's requests are bounded by the retries of each delivery.
SpendBound ==
    requests <= IF Supporting THEN 1 + deaths ELSE deliveries * (1 + VlmMaxRetries)

\* A completed run whose output came from the model has its answer in a
\* successful call; a supporting run's output is the stored answer itself, or the
\* baseline when that answer is damaged, and its completion is in the case's log
\* (_finish_call commits before the run).
OutputBacked ==
    /\ Current \in Candidate => call.status = "SUCCEEDED"
    /\ Supporting /\ run.status = "SUCCEEDED" =>
          announced /\ run.output \in Shown(call)

\* A stored answer is never lost or replaced, whichever overlapping attempt
\* reports last ("Successful attempts are reused by fingerprint").
AnswerKept == [][call.status = "SUCCEEDED" => call' = call]_vars

\* What readers are offered for a supporting document never changes once its
\* hybrid run is complete, as long as the stored answer validates ("Historical
\* and confirmed runs remain immutable").
SupportingOutputKept ==
    [][Supporting /\ run.status = "SUCCEEDED" /\ ~Damaged(call) => Current' = Current]_vars

\* What was paid for or shown is kept: no attempt replaces a stored answer or
\* the completed output of a supporting document.
ResultsKept == AnswerKept /\ SupportingOutputKept

\* The model is an option, never an obstacle: when no attempt dies, a delivered
\* document that was routed, and any invoice, completes whatever the provider
\* does ("Provider/render/schema failure completes 0.5.0 with the usable
\* deterministic invoice").
Completes ==
    <>[](deliveries = 0 \/ deaths > 0 \/ (Supporting /\ ~routed)
         \/ run.status = "SUCCEEDED")

\* Every attempt ends: nobody waits forever for the call's row lock.
AttemptsEnd == \A w \in Worker : ~At(w, "idle") ~> At(w, "idle")

\* Deliveries settle: each attempt ends and the document completes.
DeliveriesSettle == Completes /\ AttemptsEnd
=============================================================================
