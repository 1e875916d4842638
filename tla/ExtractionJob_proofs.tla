------------------------ MODULE ExtractionJob_proofs ------------------------
(***************************************************************************)
(* Proofs about ExtractionJob, for any number of workers, retries,         *)
(* duplicate messages and crashes, with or without database outages, and   *)
(* about JobStream, for any number of lost connections.                    *)
(***************************************************************************)
EXTENDS JobStream, FiniteSetTheorems, TLAPS

-----------------------------------------------------------------------------
(* The event log *)

Grows(s, t) == Len(s) <= Len(t) /\ \A i \in 1..Len(s) : t[i] = s[i]

\* Logged keeps the log, adds the key, and keeps every key unique.
LEMMA LoggedFacts ==
    ASSUME NEW log \in Seq(EventKey), NEW key \in EventKey
    PROVE  /\ Logged(log, key) \in Seq(EventKey)
           /\ Grows(log, Logged(log, key))
           /\ Contains(Logged(log, key), key)
           /\ IsInjective(log) => IsInjective(Logged(log, key))
<1>1. CASE Contains(log, key)
    BY <1>1 DEF Logged, Grows
<1>2. CASE ~Contains(log, key)
    <2>1. /\ Logged(log, key) = Append(log, key)
          /\ Len(Append(log, key)) = Len(log) + 1
          /\ DOMAIN Append(log, key) = 1..(Len(log) + 1)
          /\ Append(log, key)[Len(log) + 1] = key
          /\ \A i \in 1..Len(log) : Append(log, key)[i] = log[i] /\ log[i] # key
        BY <1>2 DEF Logged, Contains
    <2>2. Logged(log, key) \in Seq(EventKey)
        BY <2>1
    <2>3. Contains(Append(log, key), key)
        BY <2>1 DEF Contains
    <2>4. IsInjective(log) => IsInjective(Append(log, key))
        BY <2>1 DEF IsInjective
    <2> QED BY <2>1, <2>2, <2>3, <2>4 DEF Grows
<1> QED BY Zenon, <1>1, <1>2

\* A log that grew still contains what it contained, and is an extension.
LEMMA GrowsFacts ==
    ASSUME NEW s \in Seq(EventKey), NEW t \in Seq(EventKey), Grows(s, t)
    PROVE  /\ \A k : Contains(s, k) => Contains(t, k)
           /\ IsPrefix(s, t)
<1>1. \A k : Contains(s, k) => Contains(t, k)
    BY DEF Grows, Contains
<1>2. SubSeq(s, 1, Len(s)) = SubSeq(t, 1, Len(s))
    BY DEF Grows
<1> QED BY <1>1, <1>2 DEF IsPrefix, Grows

LEMMA GrowsTransitive ==
    ASSUME NEW s \in Seq(EventKey), NEW t \in Seq(EventKey), NEW u \in Seq(EventKey),
           Grows(s, t), Grows(t, u)
    PROVE  Grows(s, u)
BY SMTT(30) DEF Grows

-----------------------------------------------------------------------------
(* The workers' state *)

JobRow == [status : JobStatus, error : ErrorCode]
\* A worker that is not of the crew of JobStream is off.
WorkerState == [pc : PC \cup {"off"}, retries : Int,
                seen : JobRow \cup {NoJob}, code : ErrorCode]

\* The updates of a worker's state that the actions are made of.
LEMMA Updates ==
    ASSUME NEW w \in Worker, NEW f \in [Worker -> WorkerState],
           NEW p \in PC, NEW s \in JobRow \cup {NoJob}, NEW c \in ErrorCode
    PROVE  /\ [f EXCEPT ![w].pc = p] \in [Worker -> WorkerState]
           /\ [f EXCEPT ![w].seen = s, ![w].pc = p] \in [Worker -> WorkerState]
           /\ [f EXCEPT ![w].pc = p, ![w].code = c] \in [Worker -> WorkerState]
BY ZenonT(60) DEF WorkerState

\* Worker w moved to next; the other workers did not move.
Moved(w, next) ==
    /\ wk' \in [Worker -> WorkerState]
    /\ wk'[w].pc = next
    /\ \A v \in Worker : v # w => wk'[v] = wk[v]

LEMMA GotoMoves ==
    ASSUME wk \in [Worker -> WorkerState], NEW w \in Worker, NEW p \in PC, Goto(w, p)
    PROVE  Moved(w, p)
<1>1. wk' = [wk EXCEPT ![w].pc = p]
    BY DEF Goto
<1>2. wk' \in [Worker -> WorkerState]
    <2>1. "NONE" \in ErrorCode /\ NoJob \in JobRow \cup {NoJob}
        BY DEF ErrorCode
    <2> QED BY <1>1, <2>1, Updates, Zenon
<1> QED BY <1>1, <1>2 DEF Moved, WorkerState

\* Where each pc leads is a pc.
LEMMA PCs ==
    /\ TryBlock \subseteq PC
    /\ {"idle", "load", "begin", "find", "create", "mark", "refresh", "extract", "save",
        "runfail", "finish", "failread", "failwrite", "retry", "ack"} \subseteq PC
    /\ "NONE" \in ErrorCode /\ "extraction_error" \in ErrorCode
    /\ "processing_failed" \in ErrorCode
    /\ Idle \in WorkerState
BY DEF PC, TryBlock, Handler, ErrorCode, Idle, WorkerState

-----------------------------------------------------------------------------
(* The inductive invariant *)

\* The types the argument needs.
Types ==
    /\ job \in JobRow
    /\ run \in RunStatus
    /\ events \in Seq(EventKey)
    /\ DOMAIN queue \subseteq Int
    /\ wk \in [Worker -> WorkerState]

\* A worker that reached the end of run_job found or saved a result.
WorkerKnows ==
    \A w \in Worker : At(w, "finish") => run = "SUCCEEDED"

IInv == Types /\ WorkerKnows /\ SucceededIsBacked /\ FailedIsExplained

\* What a step may do to the row, the run and the log: the cases of Next.
LEMMA Steps ==
    ASSUME Types, [Next]_vars
    PROVE  \/ UNCHANGED <<job, run, events>> /\ \E w \in Worker : Receive(w)
           \/ UNCHANGED <<job, run, events, wk>>
           \/ \E w \in Worker : Crash(w) \/ Ack(w) \/ LoadJob(w) \/ FindRun(w)
                                \/ RefreshRun(w) \/ Extract(w) \/ OperationalError(w)
                                \/ FailRead(w) \/ HandlerFails(w) \/ Retry(w)
           \/ \E w \in Worker : CreateRun(w) \/ MarkProcessing(w) \/ Save(w) \/ RunFail(w)
           \/ \E w \in Worker : Begin(w) \/ Finish(w) \/ FailWrite(w)
BY Zenon DEF Next, Works, Step, Send, Redeliver, Receive, vars

LEMMA InitIInv == Init => IInv
<1> SUFFICES ASSUME Init PROVE IInv
    OBVIOUS
<1>1. job \in JobRow /\ run \in RunStatus
    BY DEF Init, Accepted, JobRow, JobStatus, ErrorCode, RunStatus
<1>2. events \in Seq(EventKey)
    BY DEF Init, Accepted, EventKey, Uploaded
<1>3. DOMAIN queue \subseteq Int
    BY DEF Init, Accepted, EmptyBag, SetToBag
<1>4. wk \in [Worker -> WorkerState]
    BY PCs DEF Init, Accepted
<1> QED BY Zenon, <1>1, <1>2, <1>3, <1>4 DEF Init, Accepted, IInv, Types, WorkerKnows, At, Idle,
           SucceededIsBacked, FailedIsExplained

\* Flush writes a job status and an error code, of new or of the row.
LEMMA FlushFacts ==
    ASSUME Types, NEW old, NEW new \in JobRow
    PROVE  /\ Flush(old, new) \in JobRow
           /\ Flush(old, new).status \in {new.status, job.status}
<1>1. job.status \in JobStatus /\ job.error \in ErrorCode
      /\ new.status \in JobStatus /\ new.error \in ErrorCode
    BY DEF Types, JobRow
<1> QED BY <1>1 DEF Flush, JobRow

\* The broker's operations keep retry counts integers.
LEMMA QueueTypes ==
    ASSUME NEW q, DOMAIN q \subseteq Int, NEW r \in Int
    PROVE  /\ DOMAIN (q (+) SetToBag({r})) \subseteq Int
           /\ DOMAIN (q (-) SetToBag({r})) \subseteq Int
<1>1. DOMAIN (q (+) SetToBag({r})) = DOMAIN q \cup {r}
    BY DEF (+), SetToBag
<1>2. DOMAIN (q (-) SetToBag({r})) \subseteq DOMAIN q
    BY DEF (-), SetToBag
<1> QED BY <1>1, <1>2

\* Reads, the broker's steps and crashes change only the worker and the queue.
LEMMA QuietMoves ==
    ASSUME Types, NEW w \in Worker,
           Receive(w) \/ Crash(w) \/ Ack(w) \/ LoadJob(w) \/ FindRun(w) \/ RefreshRun(w)
           \/ Extract(w) \/ OperationalError(w) \/ FailRead(w) \/ HandlerFails(w) \/ Retry(w)
    PROVE  \E next \in PC : Moved(w, next) /\ (next = "finish" => run = "SUCCEEDED")
<1>0. wk \in [Worker -> WorkerState] /\ job \in JobRow \cup {NoJob} /\ run \in RunStatus
    BY DEF Types
<1>1. CASE Receive(w)
    <2>1. PICK r \in BagToSet(queue) :
              wk' = [wk EXCEPT ![w] = [Idle EXCEPT !.pc = "load", !.retries = r]]
        BY <1>1, Zenon DEF Receive
    <2>2. r \in Int
        BY DEF Types, BagToSet
    <2>3. /\ [Idle EXCEPT !.pc = "load", !.retries = r] \in WorkerState
          /\ [Idle EXCEPT !.pc = "load", !.retries = r].pc = "load"
        BY <2>2, PCs, Zenon DEF Idle, WorkerState
    <2> QED BY Zenon, <1>0, <2>1, <2>3, PCs DEF Moved
<1>2. CASE Crash(w) \/ Ack(w)
    <2>1. wk' = [wk EXCEPT ![w] = Idle]
        BY <1>2 DEF Crash, Ack
    <2>2. Moved(w, "idle")
        BY Zenon, <1>0, <2>1, PCs DEF Moved, Idle
    <2> QED BY Zenon, <2>2, PCs
<1>3. CASE LoadJob(w) \/ FailRead(w)
    <2>1. PICK p \in {"begin", "ack", "retry", "failwrite"} :
              wk' = [wk EXCEPT ![w].seen = job, ![w].pc = p]
        BY <1>3 DEF LoadJob, FailRead, AfterFailure
    <2>2. wk' \in [Worker -> WorkerState]
        BY <1>0, <2>1, Updates, PCs, Zenon
    <2>3. Moved(w, p)
        BY Zenon, <1>0, <2>1, <2>2 DEF Moved, WorkerState
    <2> QED BY Zenon, <2>3, PCs
<1>4. CASE FindRun(w)
    <2>1. PICK p \in {"create", "finish", "extract", "mark"} :
              Goto(w, p) /\ (p = "finish" => run = "SUCCEEDED")
        BY <1>4, <1>0 DEF FindRun, RunStatus
    <2> QED BY Zenon, <1>0, <2>1, GotoMoves, PCs
<1>5. CASE RefreshRun(w)
    <2>1. PICK p \in {"finish", "extract"} : Goto(w, p) /\ (p = "finish" => run = "SUCCEEDED")
        BY <1>5 DEF RefreshRun
    <2> QED BY Zenon, <1>0, <2>1, GotoMoves, PCs
<1>6. CASE Extract(w) \/ HandlerFails(w) \/ Retry(w)
    <2>1. PICK p \in {"save", "runfail", "ack"} : Goto(w, p)
        BY Zenon, <1>6 DEF Extract, HandlerFails, Retry
    <2> QED BY Zenon, <1>0, <2>1, GotoMoves, PCs
<1>7. CASE OperationalError(w)
    <2>1. PICK c \in {"processing_failed", "NONE"} :
              wk' = [wk EXCEPT ![w].pc = "failread", ![w].code = c]
        BY <1>7, Zenon DEF OperationalError
    <2>2. wk' \in [Worker -> WorkerState]
        BY <1>0, <2>1, Updates, PCs, Zenon
    <2>3. Moved(w, "failread")
        BY Zenon, <1>0, <2>1, <2>2 DEF Moved, WorkerState
    <2> QED BY Zenon, <2>3, PCs
<1> QED BY SMTT(30), <1>1, <1>2, <1>3, <1>4, <1>5, <1>6, <1>7

\* The queue stays a bag of retry counts.
LEMMA QueueStep ==
    ASSUME Types, [Next]_vars
    PROVE  DOMAIN queue' \subseteq Int
<1>0. DOMAIN queue \subseteq Int /\ \A w \in Worker : wk[w].retries \in Int
    BY DEF Types, WorkerState
<1>1. CASE Send
    BY <1>0, <1>1, QueueTypes DEF Send
<1>2. ASSUME NEW w \in Worker, Redeliver(w) \/ Crash(w) PROVE DOMAIN queue' \subseteq Int
    BY Zenon, <1>0, <1>2, QueueTypes DEF Redeliver, Crash
<1>3. ASSUME NEW w \in Worker, Receive(w) PROVE DOMAIN queue' \subseteq Int
    <2>1. PICK r \in BagToSet(queue) : queue' = queue (-) SetToBag({r})
        BY Zenon, <1>3 DEF Receive
    <2>2. r \in Int
        BY Zenon, <1>0 DEF BagToSet
    <2> QED BY Zenon, <1>0, <2>1, <2>2, QueueTypes
<1>4. ASSUME NEW w \in Worker, Retry(w) PROVE DOMAIN queue' \subseteq Int
    <2>1. wk[w].retries + 1 \in Int /\ queue' = queue (+) SetToBag({wk[w].retries + 1})
        BY <1>0, <1>4 DEF Retry, RetryMessage
    <2> QED BY Zenon, <1>0, <2>1, QueueTypes
<1>5. CASE UNCHANGED queue
    BY Zenon, <1>0, <1>5
<1> QED BY <1>1, <1>2, <1>3, <1>4, <1>5, Zenon DEF Next, Works, Step, vars, Ack, LoadJob, Begin, FindRun,
           CreateRun, MarkProcessing, RefreshRun, Extract, Save, RunFail, Finish,
           OperationalError, FailRead, FailWrite, HandlerFails

LEMMA QuietStep ==
    ASSUME IInv, [Next]_vars, NEW w \in Worker,
           Receive(w) \/ Crash(w) \/ Ack(w) \/ LoadJob(w) \/ FindRun(w) \/ RefreshRun(w)
           \/ Extract(w) \/ OperationalError(w) \/ FailRead(w) \/ HandlerFails(w) \/ Retry(w)
    PROVE  IInv' /\ UNCHANGED <<run, events>>
<1>1. UNCHANGED <<job, run, events>>
    BY Zenon DEF Receive, Crash, Ack, LoadJob, FindRun, RefreshRun, Extract, OperationalError,
           FailRead, HandlerFails, Retry
<1>2. PICK next \in PC : Moved(w, next) /\ (next = "finish" => run = "SUCCEEDED")
    BY Zenon, QuietMoves DEF IInv
<1>3. Types'
    BY Zenon, <1>1, <1>2, QueueStep DEF IInv, Types, Moved
<1>4. WorkerKnows'
    BY Zenon, <1>1, <1>2 DEF IInv, WorkerKnows, At, Moved
<1> QED BY Zenon, <1>1, <1>3, <1>4 DEF IInv, SucceededIsBacked, FailedIsExplained

\* The run's own transactions never leave SUCCEEDED.
LEMMA RunStep ==
    ASSUME IInv, [Next]_vars, NEW w \in Worker,
           CreateRun(w) \/ MarkProcessing(w) \/ Save(w) \/ RunFail(w)
    PROVE  IInv' /\ (run = "SUCCEEDED" => run' = "SUCCEEDED") /\ events' = events
<1>0. wk \in [Worker -> WorkerState] /\ run \in RunStatus
    BY DEF IInv, Types
<1>1. /\ UNCHANGED <<job, events>>
      /\ run' \in RunStatus
      /\ run = "SUCCEEDED" => run' = "SUCCEEDED"
    BY <1>0 DEF CreateRun, MarkProcessing, Save, RunFail, RunOpen, RunStatus
<1>2. \E next \in PC : Moved(w, next) /\ (next = "finish" => run' = "SUCCEEDED")
    <2>1. CASE RunFail(w)
        <3>1. wk' = [wk EXCEPT ![w].pc = "failread", ![w].code = "extraction_error"]
            BY Zenon, <2>1 DEF RunFail
        <3>2. wk' \in [Worker -> WorkerState]
            BY <1>0, <3>1, Updates, PCs, NoJob \in JobRow \cup {NoJob}, Zenon
        <3>3. Moved(w, "failread")
            BY Zenon, <1>0, <3>1, <3>2 DEF Moved, WorkerState
        <3> QED BY Zenon, <3>3, PCs
    <2>2. CASE CreateRun(w) \/ MarkProcessing(w) \/ Save(w)
        <3>1. PICK p \in {"extract", "find", "refresh", "finish"} :
                  Goto(w, p) /\ (p = "finish" => run' = "SUCCEEDED")
            BY Zenon, <2>2 DEF CreateRun, MarkProcessing, Save
        <3> QED BY Zenon, <1>0, <3>1, GotoMoves, PCs
    <2> QED BY Zenon, <2>1, <2>2
<1>3. Types'
    BY Zenon, <1>1, <1>2, QueueStep DEF IInv, Types, Moved
<1>4. WorkerKnows'
    BY Zenon, <1>1, <1>2 DEF IInv, WorkerKnows, At, Moved
<1> QED BY Zenon, <1>1, <1>3, <1>4 DEF IInv, SucceededIsBacked, FailedIsExplained

\* The transactions that write the job's row and its log.
LEMMA JobStep ==
    ASSUME IInv, [Next]_vars, NEW w \in Worker, Begin(w) \/ Finish(w) \/ FailWrite(w)
    PROVE  IInv' /\ run' = run /\ Grows(events, events')
<1> USE DEF IInv
<1>w. ASSUME NEW next \in PC, Goto(w, next), next # "finish", run' = run,
             job' \in JobRow, events' \in Seq(EventKey)
      PROVE  Types' /\ WorkerKnows'
    <2>1. Moved(w, next)
        BY Zenon, <1>w, GotoMoves DEF Types
    <2> QED BY Zenon, <1>w, <2>1, QueueStep DEF Types, WorkerKnows, At, Moved
<1>k. ASSUME NEW t \in Seq(EventKey), Grows(events, t)
      PROVE  \A k : Contains(events, k) => Contains(t, k)
    BY Zenon, <1>k, GrowsFacts DEF Types
<1>0. Grows(events, events)
    BY DEF Grows
<1>1. CASE Begin(w)
    <2>1. /\ events' \in Seq(EventKey) /\ Grows(events, events')
        BY Zenon, <1>1, LoggedFacts DEF Begin, Types, EventKey
    <2>2. /\ job' \in JobRow
          /\ job'.status \in {"PROCESSING", job.status}
        <3>1. [status |-> "PROCESSING", error |-> "NONE"] \in JobRow
            BY DEF JobRow, JobStatus, ErrorCode
        <3> QED BY Zenon, <1>1, <3>1, FlushFacts DEF Begin
    <2>3. run' = run /\ Types' /\ WorkerKnows'
        <3>1. "find" \in PC /\ Goto(w, "find") /\ run' = run
            BY Zenon, <1>1, PCs DEF Begin
        <3> QED BY Zenon, <1>w, <2>1, <2>2, <3>1
    <2>4. SucceededIsBacked' /\ FailedIsExplained'
        BY Zenon, <1>k, <2>1, <2>2, <2>3 DEF SucceededIsBacked, FailedIsExplained
    <2> QED BY Zenon, <2>1, <2>3, <2>4
<1>2. CASE Finish(w)
    <2> DEFINE l == Logged(events, "extraction.completed")
    <2>1. l \in Seq(EventKey) /\ Grows(events, l)
        BY Zenon, LoggedFacts DEF Types, EventKey
    <2>2. /\ events' = Logged(l, "processing.completed")
          /\ job' = [job EXCEPT !.status = "SUCCEEDED"]
          /\ run' = run /\ Goto(w, "ack") /\ run = "SUCCEEDED"
        BY Zenon, <1>2 DEF Finish, WorkerKnows
    <2> HIDE DEF l
    <2>3. /\ events' \in Seq(EventKey) /\ Grows(l, events')
          /\ Contains(events', "processing.completed")
        BY Zenon, <2>1, <2>2, LoggedFacts DEF EventKey
    <2>4. Grows(events, events')
        BY Zenon, <2>1, <2>3, GrowsTransitive DEF Types
    <2>5. Types' /\ WorkerKnows'
        <3>1. job' \in JobRow
            BY <2>2 DEF Types, JobRow, JobStatus
        <3> QED BY Zenon, <1>w, <2>2, <2>3, <3>1, PCs
    <2>6. SucceededIsBacked' /\ FailedIsExplained'
        BY Zenon, <2>2, <2>3 DEF SucceededIsBacked, FailedIsExplained, Types, JobRow
    <2> QED BY Zenon, <2>2, <2>4, <2>5, <2>6
<1>3. CASE FailWrite(w)
    <2> DEFINE code == wk[w].code
               new == [status |-> IF code = "NONE" THEN "QUEUED" ELSE "FAILED",
                       error |-> code]
    <2>0. code \in ErrorCode
        BY Zenon DEF Types, WorkerState
    <2>1. /\ events' \in Seq(EventKey) /\ Grows(events, events')
          /\ code # "NONE" => Contains(events', "processing.failed")
        BY Zenon, <1>3, <1>0, LoggedFacts DEF FailWrite, FailureLogged, Types, EventKey
    <2>2. new \in JobRow /\ new.status = IF code = "NONE" THEN "QUEUED" ELSE "FAILED"
        BY Zenon, <2>0 DEF JobRow, JobStatus
    <2>3. job' = Flush(wk[w].seen, new) /\ run' = run /\ Goto(w, AfterFailure(w))
        BY Zenon, <1>3 DEF FailWrite
    <2> HIDE DEF new, code
    <2>4. /\ job' \in JobRow
          /\ job'.status \in {"QUEUED", "FAILED", job.status}
          /\ code = "NONE" => job'.status \in {"QUEUED", job.status}
        BY Zenon, <2>2, <2>3, FlushFacts
    <2>5. Types' /\ WorkerKnows'
        <3>1. AfterFailure(w) \in PC /\ AfterFailure(w) # "finish"
            BY Zenon, PCs DEF AfterFailure
        <3> QED BY Zenon, <1>w, <2>1, <2>3, <2>4, <3>1
    <2>6. SucceededIsBacked' /\ FailedIsExplained'
        BY Zenon, <1>k, <2>1, <2>3, <2>4 DEF SucceededIsBacked, FailedIsExplained
    <2> QED BY Zenon, <2>1, <2>3, <2>5, <2>6
<1> QED BY Zenon, <1>1, <1>2, <1>3

\* Every step preserves the invariant, the result and the log.
LEMMA StepIInv ==
    ASSUME IInv, [Next]_vars
    PROVE  /\ IInv'
           /\ run = "SUCCEEDED" => run' = "SUCCEEDED"
           /\ Grows(events, events')
<1>1. Types /\ Grows(events, events)
    BY DEF IInv, Grows
<1>2. CASE UNCHANGED <<job, run, events, wk>>
    BY Zenon, <1>1, <1>2, QueueStep DEF IInv, Types, WorkerKnows, At, SucceededIsBacked,
       FailedIsExplained
<1> QED BY Zenon, <1>1, <1>2, Steps, QuietStep, RunStep, JobStep

-----------------------------------------------------------------------------
\* A status reported by the API is backed: a success by a stored result and its
\* event, a failure by its event, in every interleaving of attempts.
THEOREM OutcomeBacked == Spec => []OutcomesBacked
<1>1. IInv /\ [Next]_vars => IInv'
    BY Zenon, StepIInv
<1>2. IInv => OutcomesBacked
    BY DEF IInv, OutcomesBacked
<1> QED BY <1>1, <1>2, InitIInv, PTL DEF Spec

\* A stored result survives every later or overlapping attempt.
THEOREM ResultKept == Spec => ResultStable
<1>1. IInv /\ [Next]_vars => IInv' /\ [run = "SUCCEEDED" => run' = "SUCCEEDED"]_vars
    BY StepIInv
<1> QED BY <1>1, InitIInv, PTL DEF Spec, ResultStable

\* The event log only grows at its end.
THEOREM LogAppendOnly == Spec => HistoryAppendOnly
<1>1. IInv /\ [Next]_vars => IInv' /\ [IsPrefix(events, events')]_vars
    <2> SUFFICES ASSUME IInv, [Next]_vars PROVE IInv' /\ IsPrefix(events, events')
        OBVIOUS
    <2>1. IInv' /\ Grows(events, events')
        BY StepIInv
    <2>2. events \in Seq(EventKey) /\ events' \in Seq(EventKey)
        BY <2>1 DEF IInv, Types
    <2> QED BY Zenon, <2>1, <2>2, GrowsFacts
<1> QED BY <1>1, InitIInv, PTL DEF Spec, HistoryAppendOnly

\* Neither a result nor an event is ever taken back.
THEOREM JobRecordKept == Spec => RecordKept
BY Zenon, ResultKept, LogAppendOnly DEF RecordKept

-----------------------------------------------------------------------------
(* The order of the event log *)

\* The inductive form of EventHistory: the two completion events come together,
\* because only the transaction of Finish writes them.
LogShape(log) ==
    /\ IsInjective(log)
    /\ Grows(Uploaded, log)
    /\ Contains(log, "extraction.completed") <=> Contains(log, "processing.completed")
    /\ \A i \in DOMAIN log :
          log[i] = "processing.completed" =>
              /\ log[i - 1] = "extraction.completed"
              /\ \E j \in 1..(i - 2) : log[j] = "extraction.started"

\* Any key but the completion events keeps the shape.
LEMMA ShapeKept ==
    ASSUME NEW log \in Seq(EventKey), LogShape(log), NEW key \in EventKey,
           key \notin {"extraction.completed", "processing.completed"}
    PROVE  LogShape(Logged(log, key))
<1>1. CASE Contains(log, key)
    BY Zenon, <1>1 DEF Logged
<1>2. CASE ~Contains(log, key)
    <2> DEFINE t == Append(log, key)
    <2>1. /\ Logged(log, key) = t /\ t \in Seq(EventKey)
          /\ Len(t) = Len(log) + 1 /\ DOMAIN t = 1..(Len(log) + 1)
          /\ t[Len(log) + 1] = key /\ DOMAIN log = 1..Len(log) /\ Len(log) \in Nat
          /\ \A i \in 1..Len(log) : t[i] = log[i]
        BY <1>2 DEF Logged
    <2>2. IsInjective(t) /\ Grows(log, t)
        BY Zenon, <2>1, LoggedFacts DEF LogShape
    <2> HIDE DEF t
    <2>3. Grows(Uploaded, t)
        BY <2>2 DEF LogShape, Grows, Uploaded
    <2>4. \A k : k # key => (Contains(t, k) <=> Contains(log, k))
        BY <2>1 DEF Contains
    <2>5. ASSUME NEW i \in DOMAIN t, t[i] = "processing.completed"
          PROVE  /\ t[i - 1] = "extraction.completed"
                 /\ \E j \in 1..(i - 2) : t[j] = "extraction.started"
        <3>1. i \in 1..Len(log) /\ log[i] = "processing.completed"
            BY SMTT(30), <2>1, <2>5
        <3>2. /\ log[i - 1] = "extraction.completed"
              /\ \E j \in 1..(i - 2) : log[j] = "extraction.started"
            BY Zenon, <2>1, <3>1 DEF LogShape
        <3> QED BY SMTT(30), <2>1, <3>1, <3>2
    <2> QED BY Zenon, <2>1, <2>2, <2>3, <2>4, <2>5 DEF LogShape
<1> QED BY Zenon, <1>1, <1>2

\* Completing a started extraction keeps the shape.
LEMMA ShapeCompleted ==
    ASSUME NEW log \in Seq(EventKey), LogShape(log), Contains(log, "extraction.started")
    PROVE  LogShape(Logged(Logged(log, "extraction.completed"), "processing.completed"))
<1> DEFINE ec == "extraction.completed"
           pc == "processing.completed"
<1>0. ec \in EventKey /\ pc \in EventKey
    BY DEF EventKey
<1>1. CASE Contains(log, ec)
    <2>1. Logged(log, ec) = log /\ Logged(log, pc) = log
        BY Zenon, <1>1 DEF Logged, LogShape
    <2> QED BY <2>1
<1>2. CASE ~Contains(log, ec)
    <2> DEFINE s == Append(log, ec)
               t == Append(s, pc)
    <2>1. /\ Logged(log, ec) = s /\ s \in Seq(EventKey)
          /\ Len(s) = Len(log) + 1 /\ Len(log) \in Nat
          /\ DOMAIN s = 1..(Len(log) + 1) /\ DOMAIN log = 1..Len(log)
          /\ s[Len(log) + 1] = ec
          /\ \A i \in 1..Len(log) : s[i] = log[i]
        BY <1>0, <1>2 DEF Logged
    <2>2. IsInjective(s)
        BY Zenon, <1>0, <2>1, LoggedFacts DEF LogShape
    <2>3. ~Contains(log, pc)
        BY Zenon, <1>2 DEF LogShape
    <2>4. ~Contains(s, pc)
        BY SMTT(30), <2>1, <2>3 DEF Contains
    <2> HIDE DEF s
    <2>5. /\ Logged(s, pc) = t /\ t \in Seq(EventKey)
          /\ Len(t) = Len(log) + 2 /\ DOMAIN t = 1..(Len(log) + 2)
          /\ t[Len(log) + 2] = pc /\ t[Len(log) + 1] = ec
          /\ \A i \in 1..Len(log) : t[i] = log[i]
        BY SMTT(30), <1>0, <2>1, <2>4 DEF Logged
    <2>6. IsInjective(t)
        BY ZenonT(60), <1>0, <2>1, <2>2, <2>5, LoggedFacts
    <2> HIDE DEF t
    <2>7. Grows(Uploaded, t)
        BY SMTT(30), <2>5, <2>1 DEF LogShape, Grows, Uploaded
    <2>8. Contains(t, ec) /\ Contains(t, pc)
        BY SMTT(30), <2>1, <2>5 DEF Contains
    <2>9. ASSUME NEW i \in DOMAIN t, t[i] = pc
          PROVE  /\ t[i - 1] = ec
                 /\ \E j \in 1..(i - 2) : t[j] = "extraction.started"
        <3>1. i = Len(log) + 2
            BY SMTT(30), <2>1, <2>3, <2>5, <2>9 DEF Contains
        <3>2. PICK j \in 1..Len(log) : log[j] = "extraction.started"
            BY Zenon DEF Contains
        <3> QED BY SMTT(30), <2>1, <2>5, <3>1, <3>2
    <2> QED BY Zenon, <2>1, <2>5, <2>6, <2>7, <2>8, <2>9 DEF LogShape
<1> QED BY Zenon, <1>1, <1>2

\* The statements after the commit of extraction.started.
Past == {"find", "create", "mark", "refresh", "extract", "save", "runfail", "finish"}

\* A worker among them finds that event in the log.
Started ==
    \A w \in Worker : wk[w].pc \in Past => Contains(events, "extraction.started")

\* Only Begin brings a worker among them.
LEMMA PastMoves ==
    ASSUME Types, NEW w \in Worker, Works(w), ~Begin(w)
    PROVE  /\ wk'[w].pc \in Past => wk[w].pc \in Past
           /\ \A v \in Worker : v # w => wk'[v] = wk[v]
<1>0. wk \in [Worker -> WorkerState]
    BY DEF Types
<1>1. CASE Receive(w)
    <2>1. PICK r : wk' = [wk EXCEPT ![w] = [Idle EXCEPT !.pc = "load", !.retries = r]]
        BY Zenon, <1>1 DEF Receive
    <2>2. [Idle EXCEPT !.pc = "load", !.retries = r].pc = "load"
        BY DEF Idle
    <2> QED BY Zenon, <1>0, <2>1, <2>2 DEF Past
<1>2. CASE Crash(w) \/ Ack(w)
    <2>1. wk' = [wk EXCEPT ![w] = Idle] /\ Idle.pc = "idle"
        BY <1>2 DEF Crash, Ack, Idle
    <2> QED BY Zenon, <1>0, <2>1 DEF Past
<1>3. CASE LoadJob(w) \/ FailRead(w)
    <2>1. PICK p \in {"begin", "ack", "retry", "failwrite"} :
              wk' = [wk EXCEPT ![w].seen = job, ![w].pc = p]
        BY <1>3 DEF LoadJob, FailRead, AfterFailure
    <2> QED BY Zenon, <1>0, <2>1 DEF Past, WorkerState
<1>4. CASE OperationalError(w) \/ RunFail(w)
    <2>1. PICK c : wk' = [wk EXCEPT ![w].pc = "failread", ![w].code = c]
        BY Zenon, <1>4 DEF OperationalError, RunFail
    <2> QED BY Zenon, <1>0, <2>1 DEF Past, WorkerState
<1>5. CASE Finish(w) \/ FailWrite(w) \/ HandlerFails(w) \/ Retry(w)
    <2>1. PICK p \in {"ack", "retry"} : wk' = [wk EXCEPT ![w].pc = p]
        BY <1>5 DEF Finish, FailWrite, HandlerFails, Retry, Goto, AfterFailure
    <2> QED BY Zenon, <1>0, <2>1 DEF Past, WorkerState
<1>6. CASE FindRun(w) \/ CreateRun(w) \/ MarkProcessing(w) \/ RefreshRun(w)
           \/ Extract(w) \/ Save(w)
    <2>1. /\ wk[w].pc \in Past
          /\ \E p : wk' = [wk EXCEPT ![w].pc = p]
        BY Zenon, <1>6 DEF FindRun, CreateRun, MarkProcessing, RefreshRun, Extract, Save,
           Goto, At, Past
    <2> QED BY Zenon, <1>0, <2>1
<1>7. CASE Redeliver(w)
    BY <1>7 DEF Redeliver
<1> QED BY SMTT(30), <1>1, <1>2, <1>3, <1>4, <1>5, <1>6, <1>7 DEF Works, Step

\* Every step keeps the log in shape.
LEMMA ShapeStep ==
    ASSUME IInv, LogShape(events), Started, [Next]_vars
    PROVE  LogShape(events') /\ Started'
<1>0. Types /\ events \in Seq(EventKey) /\ events' \in Seq(EventKey)
    BY StepIInv DEF IInv, Types
<1>1. \A k : Contains(events, k) => Contains(events', k)
    BY Zenon, <1>0, StepIInv, GrowsFacts
<1>2. ASSUME NEW w \in Worker, Begin(w) PROVE LogShape(events') /\ Started'
    <2>1. events' = Logged(events, "extraction.started")
        BY <1>2 DEF Begin
    <2>2. "extraction.started" \in EventKey
        BY DEF EventKey
    <2> QED BY Zenon, <1>0, <2>1, <2>2, ShapeKept, LoggedFacts DEF Started
<1>3. ASSUME NEW w \in Worker, Works(w), ~Begin(w) PROVE LogShape(events') /\ Started'
    <2>1. /\ wk'[w].pc \in Past => wk[w].pc \in Past
          /\ \A v \in Worker : v # w => wk'[v] = wk[v]
        BY Zenon, <1>0, <1>3, PastMoves
    <2>2. Started'
        BY Zenon, <1>1, <2>1 DEF Started
    <2>3. CASE Finish(w)
        <3>1. Contains(events, "extraction.started")
            BY <2>3 DEF Finish, At, Started, Past
        <3> QED BY Zenon, <1>0, <2>2, <2>3, <3>1, ShapeCompleted DEF Finish
    <2>4. CASE FailWrite(w)
        <3>1. events' = events \/ events' = Logged(events, "processing.failed")
            BY Zenon, <2>4 DEF FailWrite, FailureLogged
        <3>2. "processing.failed" \in EventKey
            BY DEF EventKey
        <3> QED BY Zenon, <1>0, <2>2, <3>1, <3>2, ShapeKept
    <2>5. events' = events \/ Finish(w) \/ FailWrite(w)
        BY Zenon, <1>3 DEF Works, Step, Receive, LoadJob, FindRun, CreateRun, MarkProcessing,
           RefreshRun, Extract, Save, RunFail, FailRead, Retry, Ack, OperationalError,
           HandlerFails, Redeliver, Crash
    <2> QED BY Zenon, <2>2, <2>3, <2>4, <2>5
<1>4. CASE Send \/ UNCHANGED vars
    BY Zenon, <1>4 DEF Send, vars, Started
<1> QED BY Zenon, <1>2, <1>3, <1>4 DEF Next

LEMMA ShapeInit == Init => LogShape(events) /\ Started
<1> SUFFICES ASSUME Init PROVE LogShape(events) /\ Started
    OBVIOUS
<1>1. events = Uploaded /\ Len(Uploaded) = 2 /\ DOMAIN Uploaded = 1..2
      /\ Uploaded[1] = "upload.accepted" /\ Uploaded[2] = "document.validated"
    BY DEF Init, Accepted, Uploaded
<1>2. \A i \in 1..2 : i = 1 \/ i = 2
    OBVIOUS
<1>3. LogShape(Uploaded)
    BY <1>1, <1>2 DEF LogShape, IsInjective, Grows, Contains
<1> QED BY Zenon, <1>1, <1>3 DEF Init, Idle, Past, Started

\* Every interleaving of attempts writes each event once, after the upload's
\* events, and a completion only behind its start.
THEOREM EventsOrdered == Spec => []EventHistory
<1>1. IInv /\ LogShape(events) /\ Started /\ [Next]_vars
        => IInv' /\ LogShape(events)' /\ Started'
    BY Zenon, StepIInv, ShapeStep
<1>2. IInv /\ LogShape(events) => EventHistory
    <2> SUFFICES ASSUME IInv, LogShape(events) PROVE EventHistory
        OBVIOUS
    <2>1. Uploaded \in Seq(EventKey) /\ events \in Seq(EventKey)
        BY DEF Uploaded, EventKey, IInv, Types
    <2>2. IsPrefix(Uploaded, events)
        BY Zenon, <2>1, GrowsFacts DEF LogShape
    <2> QED BY <2>2 DEF LogShape, EventHistory
<1> QED BY <1>1, <1>2, InitIInv, ShapeInit, PTL DEF Spec

-----------------------------------------------------------------------------
(* The payable case *)

\* The inductive form of CaseFollowsJob: the version counts the moves, of which
\* there are at most two.
CaseInv ==
    /\ kase.status \in CaseStatus
    /\ kase.status \in {"NONE", "PROCESSING"} => kase.version = 1
    /\ kase.status = "NEEDS_CONFIRMATION" => run = "SUCCEEDED" /\ kase.version = 2
    /\ kase.status = "FAILED" =>
          kase.version \in {2, 3} /\ Contains(events, "processing.failed")

LEMMA CaseStep ==
    ASSUME IInv, CaseInv, [Next]_vars
    PROVE  CaseInv'
<1>0. Types /\ events \in Seq(EventKey) /\ events' \in Seq(EventKey)
      /\ (run = "SUCCEEDED" => run' = "SUCCEEDED")
    BY StepIInv DEF IInv, Types
<1>1. \A k : Contains(events, k) => Contains(events', k)
    BY Zenon, <1>0, StepIInv, GrowsFacts
<1>2. CASE kase' = kase
    BY Zenon, <1>0, <1>1, <1>2 DEF CaseInv
<1>3. ASSUME NEW w \in Worker, Finish(w) PROVE CaseInv'
    <2>1. run = "SUCCEEDED" /\ kase' = CaseMoved({"PROCESSING"}, "NEEDS_CONFIRMATION", "completed")
        BY <1>3 DEF Finish, IInv, WorkerKnows
    <2> QED BY SMTT(30), <1>0, <1>1, <2>1 DEF CaseInv, CaseMoved, CaseStatus
<1>4. ASSUME NEW w \in Worker, FailWrite(w) PROVE CaseInv'
    <2>1. CASE wk[w].code = "NONE"
        BY Zenon, <1>2, <1>4, <2>1 DEF FailWrite
    <2>2. CASE wk[w].code # "NONE"
        <3>1. /\ events' = Logged(events, "processing.failed")
              /\ kase' = CaseMoved(CaseStatus \ {"FAILED"}, "FAILED", "failed")
            BY Zenon, <1>4, <2>2 DEF FailWrite, FailureLogged
        <3>2. Contains(events', "processing.failed")
            BY Zenon, <1>0, <3>1, LoggedFacts DEF EventKey
        <3> QED BY SMTT(30), <1>0, <3>1, <3>2 DEF CaseInv, CaseMoved, CaseStatus
    <2> QED BY Zenon, <2>1, <2>2
<1>5. kase' = kase \/ \E w \in Worker : Finish(w) \/ FailWrite(w)
    BY Zenon DEF Next, Works, Step, Send, Receive, LoadJob, Begin, FindRun, CreateRun,
       MarkProcessing, RefreshRun, Extract, Save, RunFail, FailRead, Retry, Ack,
       OperationalError, HandlerFails, Redeliver, Crash, vars
<1> QED BY Zenon, <1>2, <1>3, <1>4, <1>5

\* The case is offered for confirmation only for an extracted invoice, fails
\* only with a recorded failure, and moves at most twice.
THEOREM CaseFollows == Spec => []CaseFollowsJob
<1>1. Init => CaseInv
    BY DEF Init, Accepted, CaseInv, CaseStatus
<1>2. IInv /\ CaseInv /\ [Next]_vars => IInv' /\ CaseInv'
    BY Zenon, StepIInv, CaseStep
<1>3. CaseInv => CaseFollowsJob
    BY DEF CaseInv, CaseFollowsJob, CaseStatus
<1> QED BY <1>1, <1>2, <1>3, InitIInv, PTL DEF Spec

-----------------------------------------------------------------------------
(* The live timeline of JobStream *)

\* The steps of JobStream are steps of the job or leave it alone.
LEMMA StreamStep ==
    ASSUME IInv, [StreamNext]_allVars
    PROVE  [Next]_vars /\ IInv' /\ Grows(events, events')
<1>1. [Next]_vars
    BY Zenon DEF StreamNext, Next, Server, PollEvents, PollStatus, SendEvent, Client, Connect,
       ReceiveEvent, StreamEnd, CheckStatus, Drop, CheckFails, allVars
<1> QED BY Zenon, <1>1, StepIInv

LEMMA StreamInitIInv == StreamInit => IInv
<1> SUFFICES ASSUME StreamInit PROVE IInv
    OBVIOUS
<1>1. job \in JobRow /\ run \in RunStatus
    BY DEF StreamInit, Accepted, JobRow, JobStatus, ErrorCode, RunStatus
<1>2. events \in Seq(EventKey)
    BY DEF StreamInit, Accepted, EventKey, Uploaded
<1>3. DOMAIN queue \subseteq Int
    BY DEF StreamInit, Accepted, EmptyBag, SetToBag
<1>4. wk \in [Worker -> WorkerState] /\ \A w \in Worker : wk[w].pc \in {"idle", "off"}
    <2>1. /\ [Idle EXCEPT !.pc = "off"] \in WorkerState
          /\ [Idle EXCEPT !.pc = "off"].pc = "off" /\ Idle.pc = "idle"
        BY Zenon, PCs DEF Idle, WorkerState
    <2> QED BY ZenonT(60), <2>1, PCs DEF StreamInit
<1> QED BY Zenon, <1>1, <1>2, <1>3, <1>4 DEF StreamInit, Accepted, IInv, Types, WorkerKnows, At,
           SucceededIsBacked, FailedIsExplained

\* Consecutive sequence numbers after `last`.
Follows(s, last) == s \in Seq(Nat) /\ \A i \in 1..Len(s) : s[i] = last + i

\* What is in flight continues what the client has and ends where the generator
\* is; what the generator has read continues that; a terminal flag is the last
\* event's; and no generator runs for a client that is not reading.
StreamInv ==
    /\ cl \in [pc : {"absent", "connect", "reading", "check", "complete", "fallback"},
               last : Nat, terminal : BOOLEAN, timeline : Seq(Nat)]
    /\ srv \in [pc : {"closed", "poll", "status", "send", "ended"},
                sequence : Nat, batch : Seq(Nat)]
    /\ TimelineIsPrefix
    /\ cl.last <= Len(events)
    /\ IF cl.pc = "reading"
       THEN /\ Follows(net, cl.last)
            /\ Len(net) = srv.sequence - cl.last
            /\ srv.sequence <= Len(events)
            /\ srv.pc \in {"status", "send"} =>
                  /\ Follows(srv.batch, srv.sequence)
                  /\ srv.sequence + Len(srv.batch) <= Len(events)
            /\ srv.pc = "send" => srv.batch # << >>
            /\ cl.terminal => cl.last > 0 /\ events[cl.last] \in TerminalEventTypes
       ELSE srv.pc = "closed"
    /\ cl.pc = "complete" => cl.last > 0 /\ events[cl.last] \in TerminalEventTypes
    /\ FallbackHasOutcome

\* Sequences of consecutive numbers: the operations of generator and client.
LEMMA FollowsFacts ==
    ASSUME NEW s, NEW last \in Nat, Follows(s, last)
    PROVE  /\ Len(s) \in Nat
           /\ Follows(Append(s, last + Len(s) + 1), last)
           /\ Len(Append(s, last + Len(s) + 1)) = Len(s) + 1
           /\ s # << >> => /\ Head(s) = last + 1 /\ Tail(s) \in Seq(Nat)
                           /\ Follows(Tail(s), last + 1)
                           /\ Len(Tail(s)) = Len(s) - 1 /\ Len(s) > 0
<1>1. s \in Seq(Nat) /\ Len(s) \in Nat /\ \A i \in 1..Len(s) : s[i] = last + i
    BY DEF Follows
<1>2. Append(s, last + Len(s) + 1) \in Seq(Nat)
    BY <1>1
<1>3. Follows(Append(s, last + Len(s) + 1), last)
    BY SMTT(30), <1>1, <1>2 DEF Follows
<1>4. ASSUME s # << >>
      PROVE  /\ Head(s) = last + 1 /\ Tail(s) \in Seq(Nat)
             /\ Len(Tail(s)) = Len(s) - 1 /\ Len(s) > 0
             /\ \A i \in 1..Len(Tail(s)) : Tail(s)[i] = last + 1 + i
    <2>1. Len(s) > 0
        BY SMTT(30), <1>1, <1>4
    <2>2. Tail(s) \in Seq(Nat) /\ Len(Tail(s)) = Len(s) - 1
        BY SMTT(30), <1>1, <1>4, <2>1
    <2>3. \A i \in 1..Len(Tail(s)) : Tail(s)[i] = s[i + 1] /\ i + 1 \in 1..Len(s)
        BY SMTT(30), <1>1, <1>4, <2>1, <2>2
    <2> QED BY SMTT(30), <1>1, <1>4, <2>1, <2>2, <2>3
<1> QED BY SMTT(30), <1>1, <1>3, <1>4 DEF Follows

LEMMA FollowsHead ==
    ASSUME NEW s, NEW last \in Nat, Follows(s, last), s # << >>
    PROVE  /\ Head(s) = last + 1 /\ Follows(Tail(s), last + 1)
           /\ Len(Tail(s)) = Len(s) - 1 /\ Len(s) > 0 /\ Len(s) \in Nat
BY FollowsFacts

LEMMA FollowsInterval ==
    ASSUME NEW n \in Nat, NEW last \in Nat
    PROVE  /\ Follows([i \in 1..n |-> last + i], last)
           /\ Len([i \in 1..n |-> last + i]) = n
<1> DEFINE s == [i \in 1..n |-> last + i]
<1>1. s \in Seq(Nat) /\ Len(s) = n
    OBVIOUS
<1>2. \A i \in 1..n : s[i] = last + i
    OBVIOUS
<1> HIDE DEF s
<1>3. Follows(s, last) /\ Len(s) = n
    BY Zenon, <1>1, <1>2 DEF Follows
<1> QED BY <1>3 DEF s

\* The sorted sequence of 1..n is the identity on it.
LEMMA AscendingInterval ==
    ASSUME NEW n \in Nat
    PROVE  Ascending(1..n) = [i \in 1..n |-> i]
<1>1. Cardinality(1..n) = n
    BY FS_Interval
<1>2. ASSUME NEW k \in 1..n PROVE Cardinality({m \in 1..n : m < k}) = k - 1
    <2>1. {m \in 1..n : m < k} = 1..(k - 1)
        OBVIOUS
    <2>2. k - 1 \in Int /\ Cardinality(1..(k - 1)) = IF 1 > k - 1 THEN 0 ELSE k - 1 - 1 + 1
        BY FS_Interval
    <2>3. (IF 1 > k - 1 THEN 0 ELSE k - 1 - 1 + 1) = k - 1
        OBVIOUS
    <2> QED BY Zenon, <2>1, <2>2, <2>3
<1>3. ASSUME NEW i \in 1..n
      PROVE  (CHOOSE k \in 1..n : Cardinality({m \in 1..n : m < k}) = i - 1) = i
    <2>1. \A k \in 1..n : Cardinality({m \in 1..n : m < k}) = i - 1 <=> k = i
        BY <1>2
    <2> QED BY <2>1
<1> QED BY Zenon, <1>1, <1>3 DEF Ascending

\* mergeJobEvent of the next event extends the timeline by it.
LEMMA MergedNext ==
    ASSUME NEW n \in Nat
    PROVE  Merged([i \in 1..n |-> i], n + 1) = [i \in 1..(n + 1) |-> i]
<1> DEFINE t == [i \in 1..n |-> i]
<1>1. t \in Seq(Nat) /\ Len(t) = n
    OBVIOUS
<1>2. ~Contains(t, n + 1)
    BY <1>1 DEF Contains
<1>3. Range(t) = 1..n
    <2>1. DOMAIN t = 1..n /\ \A i \in 1..n : t[i] = i
        OBVIOUS
    <2> HIDE DEF t
    <2> QED BY Zenon, <2>1 DEF Range
<1>4. (1..n) \cup {n + 1} = 1..(n + 1)
    OBVIOUS
<1>5. Merged(t, n + 1) = Ascending(Range(t) \cup {n + 1})
    BY Zenon, <1>2 DEF Merged
<1>6. n + 1 \in Nat
    OBVIOUS
<1> QED BY Zenon, <1>3, <1>4, <1>5, <1>6, AscendingInterval

ClientPC == {"absent", "connect", "reading", "check", "complete", "fallback"}
ServerPC == {"closed", "poll", "status", "send", "ended"}

\* The job's own steps: the log grows, so what was read of it is still there.
LEMMA JobKeepsStream ==
    ASSUME IInv, IInv', StreamInv, Grows(events, events'), UNCHANGED streamVars
    PROVE  StreamInv'
<1>1. /\ cl' = cl /\ srv' = srv /\ net' = net
      /\ events \in Seq(EventKey) /\ events' \in Seq(EventKey)
    BY DEF streamVars, IInv, Types
<1>2. Len(events) \in Nat /\ Len(events') \in Nat /\ Len(events) <= Len(events')
    BY <1>1 DEF Grows
<1>3. \A i \in 1..Len(events) : events'[i] = events[i]
    BY Zenon DEF Grows
<1>4. \A k : Contains(events, k) => Contains(events', k)
    BY Zenon, <1>1, GrowsFacts
<1>5. /\ cl.last \in Nat /\ cl.last <= Len(events) /\ srv.sequence \in Nat
      /\ srv.batch \in Seq(Nat)
    BY DEF StreamInv
<1>6. cl.last > 0 => events'[cl.last] = events[cl.last]
    BY SMTT(30), <1>2, <1>3, <1>5
<1>7. FallbackHasOutcome'
    BY Zenon, <1>1, <1>4 DEF StreamInv, FallbackHasOutcome
<1>8. cl.last <= Len(events')
    BY <1>2, <1>5
<1>9. srv.sequence <= Len(events) => srv.sequence <= Len(events')
    BY SMTT(30), <1>2, <1>5
<1>10. srv.sequence + Len(srv.batch) <= Len(events)
          => srv.sequence + Len(srv.batch) <= Len(events')
    BY SMTT(30), <1>2, <1>5
<1> QED BY Zenon, <1>1, <1>6, <1>7, <1>8, <1>9, <1>10
        DEF StreamInv, TimelineIsPrefix, Follows, TerminalEventTypes

\* The generator's steps: only a reading client has one.
LEMMA ServerKeepsStream ==
    ASSUME IInv, StreamInv, Server
    PROVE  StreamInv'
<1> DEFINE m == Len(events)
<1>0. /\ cl' = cl /\ events' = events /\ srv.pc # "closed" /\ cl.pc = "reading"
      /\ srv \in [pc : ServerPC, sequence : Nat, batch : Seq(Nat)]
      /\ m \in Nat /\ cl.last \in Nat /\ srv.sequence \in Nat
    BY DEF Server, PollEvents, PollStatus, SendEvent, StreamInv, vars, IInv, Types, ServerPC
<1>1. /\ Follows(net, cl.last) /\ Len(net) = srv.sequence - cl.last
      /\ srv.sequence <= m
      /\ srv.pc \in {"status", "send"} =>
            Follows(srv.batch, srv.sequence) /\ srv.sequence + Len(srv.batch) <= m
      /\ srv.pc = "send" => srv.batch # << >>
    BY Zenon, <1>0 DEF StreamInv
<1>2. ASSUME srv' \in [pc : ServerPC, sequence : Nat, batch : Seq(Nat)],
             Follows(net', cl.last), Len(net') = srv'.sequence - cl.last,
             srv'.sequence <= m,
             srv'.pc \in {"status", "send"} =>
                Follows(srv'.batch, srv'.sequence) /\ srv'.sequence + Len(srv'.batch) <= m,
             srv'.pc = "send" => srv'.batch # << >>
      PROVE  StreamInv'
    BY Zenon, <1>0, <1>2 DEF StreamInv, TimelineIsPrefix, FallbackHasOutcome, TerminalEventTypes,
       ServerPC
<1>3. CASE PollEvents
    <2> DEFINE b == NewEvents(srv.sequence)
    <2>1. b \in Seq(Nat) /\ Follows(b, srv.sequence) /\ srv.sequence + Len(b) <= m
        <3> DEFINE last == IF srv.sequence + BatchSize < m THEN srv.sequence + BatchSize ELSE m
        <3>1. BatchSize \in Nat
            BY Zenon, StreamAssumption
        <3>2. last \in Nat /\ last - srv.sequence \in Nat /\ last <= m
            BY SMTT(30), <1>0, <1>1, <3>1
        <3>3. b = [i \in 1..(last - srv.sequence) |-> srv.sequence + i]
            BY Zenon DEF NewEvents
        <3> HIDE DEF last, b
        <3>4. Follows(b, srv.sequence) /\ Len(b) = last - srv.sequence
            BY Zenon, <1>0, <3>2, <3>3, FollowsInterval
        <3> QED BY SMTT(30), <1>0, <3>2, <3>4 DEF Follows
    <2>2. net' = net /\ srv' = [srv EXCEPT !.pc = "status", !.batch = b]
        BY <1>3 DEF PollEvents
    <2> HIDE DEF b
    <2>3. srv' = [pc |-> "status", sequence |-> srv.sequence, batch |-> b]
        BY Zenon, <1>0, <2>2
    <2> QED BY SMTT(30), <1>0, <1>1, <1>2, <2>1, <2>2, <2>3 DEF ServerPC
<1>4. CASE PollStatus
    <2>1. PICK p \in {"send", "ended", "poll"} :
              /\ net' = net /\ srv' = [srv EXCEPT !.pc = p] /\ srv.pc = "status"
              /\ p = "send" => srv.batch # << >>
        BY <1>4 DEF PollStatus
    <2>2. srv' = [pc |-> p, sequence |-> srv.sequence, batch |-> srv.batch]
        BY Zenon, <1>0, <2>1
    <2> QED BY Zenon, <1>0, <1>1, <1>2, <2>1, <2>2 DEF ServerPC
<1>5. CASE SendEvent
    <2>1. /\ Head(srv.batch) = srv.sequence + 1 /\ Tail(srv.batch) \in Seq(Nat)
          /\ Follows(Tail(srv.batch), srv.sequence + 1)
          /\ Len(Tail(srv.batch)) = Len(srv.batch) - 1 /\ Len(srv.batch) > 0
          /\ Len(srv.batch) \in Nat /\ srv.sequence + Len(srv.batch) <= m
        BY Zenon, <1>0, <1>1, <1>5, FollowsFacts DEF SendEvent
    <2>2. PICK p \in {"ended", "poll", "send"} :
              /\ srv' = [srv EXCEPT !.sequence = Head(srv.batch),
                                    !.batch = Tail(srv.batch), !.pc = p]
              /\ p = "send" => Tail(srv.batch) # << >>
              /\ net' = Append(net, Head(srv.batch))
        BY Zenon, <1>5 DEF SendEvent
    <2>3. srv' = [pc |-> p, sequence |-> srv.sequence + 1, batch |-> Tail(srv.batch)]
        BY Zenon, <1>0, <2>1, <2>2
    <2>4. net' = Append(net, cl.last + Len(net) + 1) /\ Len(net) \in Nat
        <3>1. Len(net) \in Nat
            BY Zenon, <1>0, <1>1, FollowsFacts
        <3>2. srv.sequence + 1 = cl.last + Len(net) + 1
            BY <1>0, <1>1, <3>1
        <3> QED BY Zenon, <2>1, <2>2, <3>1, <3>2
    <2>5. Follows(net', cl.last) /\ Len(net') = (srv.sequence + 1) - cl.last
        <3>1. /\ Follows(Append(net, cl.last + Len(net) + 1), cl.last)
              /\ Len(Append(net, cl.last + Len(net) + 1)) = Len(net) + 1
            BY ZenonT(60), <1>0, <1>1, FollowsFacts
        <3> QED BY SMTT(30), <1>0, <1>1, <2>4, <3>1
    <2>6. /\ srv' \in [pc : ServerPC, sequence : Nat, batch : Seq(Nat)]
          /\ srv'.pc = p /\ srv'.sequence = srv.sequence + 1
          /\ srv'.batch = Tail(srv.batch)
        BY SMTT(30), <1>0, <2>1, <2>3 DEF ServerPC
    <2>7. /\ srv.sequence + 1 <= m
          /\ srv.sequence + 1 + Len(Tail(srv.batch)) <= m
        BY SMTT(30), <1>0, <2>1
    <2>8. /\ Follows(net', cl.last) /\ Len(net') = srv'.sequence - cl.last
          /\ srv'.sequence <= m
          /\ Follows(srv'.batch, srv'.sequence) /\ srv'.sequence + Len(srv'.batch) <= m
          /\ srv'.pc = "send" => srv'.batch # << >>
        <3>1. Follows(net', cl.last) /\ Len(net') = srv'.sequence - cl.last
            BY Zenon, <2>5, <2>6
        <3>2. srv'.sequence <= m /\ srv'.sequence + Len(srv'.batch) <= m
            BY Zenon, <2>6, <2>7
        <3>3. Follows(srv'.batch, srv'.sequence)
            BY Zenon, <2>1, <2>6
        <3>4. srv'.pc = "send" => srv'.batch # << >>
            BY Zenon, <2>2, <2>6
        <3> QED BY Zenon, <3>1, <3>2, <3>3, <3>4
    <2> QED BY Zenon, <1>2, <2>6, <2>8
<1> QED BY Zenon, <1>3, <1>4, <1>5 DEF Server

\* The client's steps, a lost connection and a failed status request.
LEMMA ClientKeepsStream ==
    ASSUME IInv, StreamInv, Client \/ Drop \/ CheckFails
    PROVE  StreamInv'
<1>a. Len(events) \in Nat /\ cl.last \in Nat
    BY DEF IInv, Types, StreamInv
<1>0. /\ events' = events /\ job' = job /\ events \in Seq(EventKey) /\ Len(events) \in Nat
      /\ cl \in [pc : ClientPC, last : Nat, terminal : BOOLEAN, timeline : Seq(Nat)]
      /\ srv \in [pc : ServerPC, sequence : Nat, batch : Seq(Nat)]
      /\ cl.last \in Nat /\ cl.last <= Len(events) /\ TimelineIsPrefix
    <2>1. events' = events /\ job' = job
        BY Zenon DEF Client, Connect, ReceiveEvent, StreamEnd, CheckStatus, Drop, CheckFails, vars
    <2> QED BY Zenon, <1>a, <2>1 DEF IInv, Types, StreamInv, ClientPC, ServerPC
<1>1. Closed \in [pc : ServerPC, sequence : Nat, batch : Seq(Nat)] /\ Closed.pc = "closed"
    BY DEF Closed, ServerPC
\* A client that stops reading, with the same timeline.
<1>2. ASSUME NEW p \in ClientPC \ {"reading"}, cl' = [cl EXCEPT !.pc = p],
             srv' \in [pc : ServerPC, sequence : Nat, batch : Seq(Nat)], srv'.pc = "closed",
             p = "complete" => cl.last > 0 /\ events[cl.last] \in TerminalEventTypes,
             p = "fallback" => \E k \in Outcome : Contains(events, k)
      PROVE  StreamInv'
    <2>1. /\ cl' = [pc |-> p, last |-> cl.last, terminal |-> cl.terminal,
                    timeline |-> cl.timeline]
          /\ cl' \in [pc : ClientPC, last : Nat, terminal : BOOLEAN, timeline : Seq(Nat)]
        BY Zenon, <1>0, <1>2
    <2>2. cl'.pc = p /\ cl'.last = cl.last /\ cl'.timeline = cl.timeline
        BY Zenon, <2>1
    <2>3. TimelineIsPrefix' /\ FallbackHasOutcome'
        BY Zenon, <1>0, <1>2, <2>2 DEF TimelineIsPrefix, FallbackHasOutcome
    <2>4. p # "reading"
        BY Zenon, <1>2
    <2> QED BY Zenon, <1>0, <1>2, <2>1, <2>2, <2>3, <2>4 DEF StreamInv, TerminalEventTypes,
               ServerPC, ClientPC
<1>3. CASE Connect
    <2>1. /\ srv' = [Closed EXCEPT !.pc = "poll", !.sequence = cl.last] /\ net' = << >>
          /\ cl' = [cl EXCEPT !.pc = "reading", !.terminal = FALSE]
        BY Zenon, <1>3 DEF Connect, LastEventId
    <2>2. srv' = [pc |-> "poll", sequence |-> cl.last, batch |-> << >>]
        BY Zenon, <2>1 DEF Closed
    <2>3. /\ srv' \in [pc : ServerPC, sequence : Nat, batch : Seq(Nat)]
          /\ srv'.pc = "poll" /\ srv'.sequence = cl.last
        BY SMTT(30), <1>0, <2>2 DEF ServerPC
    <2>4. /\ cl' = [pc |-> "reading", last |-> cl.last, terminal |-> FALSE,
                    timeline |-> cl.timeline]
          /\ cl' \in [pc : ClientPC, last : Nat, terminal : BOOLEAN, timeline : Seq(Nat)]
        BY Zenon, <1>0, <2>1 DEF ClientPC
    <2>5. cl'.pc = "reading" /\ cl'.last = cl.last /\ cl'.timeline = cl.timeline /\ ~cl'.terminal
        BY Zenon, <2>4
    <2>6. Follows(net', cl.last) /\ Len(net') = cl.last - cl.last
        BY SMTT(30), <1>0, <2>1 DEF Follows
    <2>7. TimelineIsPrefix' /\ FallbackHasOutcome'
        BY Zenon, <1>0, <2>5 DEF TimelineIsPrefix, FallbackHasOutcome
    <2> QED BY ZenonT(60), <1>0, <2>3, <2>4, <2>5, <2>6, <2>7 DEF StreamInv, ServerPC, ClientPC
<1>4. CASE ReceiveEvent
    <2>1. /\ cl.pc = "reading" /\ net # << >> /\ net' = Tail(net) /\ srv' = srv
          /\ Follows(net, cl.last) /\ Len(net) = srv.sequence - cl.last
        BY Zenon, <1>4 DEF ReceiveEvent, StreamInv
    <2>2. /\ Head(net) = cl.last + 1 /\ Follows(net', cl.last + 1)
          /\ Len(net') = Len(net) - 1 /\ Len(net) > 0 /\ Len(net) \in Nat
        <3>1. /\ Head(net) = cl.last + 1 /\ Follows(Tail(net), cl.last + 1)
              /\ Len(Tail(net)) = Len(net) - 1 /\ Len(net) > 0 /\ Len(net) \in Nat
            BY Zenon, <1>a, <2>1, FollowsHead
        <3> QED BY Zenon, <2>1, <3>1
    <2>3. Head(net) > cl.last
        BY SMTT(30), <1>0, <2>2
    <2>4. Merged(cl.timeline, Head(net)) = [i \in 1..(cl.last + 1) |-> i]
        BY Zenon, <1>0, <2>2, MergedNext DEF TimelineIsPrefix
    <2>5. cl' = [cl EXCEPT !.terminal = events[cl.last + 1] \in TerminalEventTypes,
                           !.last = cl.last + 1,
                           !.timeline = [i \in 1..(cl.last + 1) |-> i]]
        BY Zenon, <1>4, <2>2, <2>3, <2>4 DEF ReceiveEvent
    <2>6. cl' = [pc |-> "reading", last |-> cl.last + 1,
                 terminal |-> events[cl.last + 1] \in TerminalEventTypes,
                 timeline |-> [i \in 1..(cl.last + 1) |-> i]]
        BY ZenonT(60), <1>0, <2>1, <2>5
    <2>7. /\ cl'.pc = "reading" /\ cl'.last = cl.last + 1
          /\ cl'.timeline = [i \in 1..(cl.last + 1) |-> i]
          /\ cl'.terminal => events[cl.last + 1] \in TerminalEventTypes
        BY Zenon, <2>6
    <2>8. cl.last + 1 \in Nat /\ cl.last + 1 > 0 /\ [i \in 1..(cl.last + 1) |-> i] \in Seq(Nat)
        BY <1>0
    <2>9. cl' \in [pc : ClientPC, last : Nat, terminal : BOOLEAN, timeline : Seq(Nat)]
        <3>1. "reading" \in ClientPC /\ (events[cl.last + 1] \in TerminalEventTypes) \in BOOLEAN
            BY SMTT(30) DEF ClientPC
        <3> QED BY ZenonT(60), <2>6, <2>8, <3>1
    <2>10. /\ srv.sequence \in Nat /\ srv.sequence <= Len(events)
           /\ srv.pc \in {"status", "send"} =>
                  /\ Follows(srv.batch, srv.sequence)
                  /\ srv.sequence + Len(srv.batch) <= Len(events)
           /\ srv.pc = "send" => srv.batch # << >>
        BY Zenon, <1>0, <2>1 DEF StreamInv
    <2>11. Len(net') = srv.sequence - (cl.last + 1) /\ cl.last + 1 <= Len(events)
        BY SMTT(30), <1>0, <2>1, <2>2, <2>10
    <2>12. TimelineIsPrefix' /\ FallbackHasOutcome'
        BY Zenon, <2>7 DEF TimelineIsPrefix, FallbackHasOutcome
    <2> QED BY Zenon, <1>0, <2>1, <2>2, <2>7, <2>8, <2>9, <2>10, <2>11, <2>12
            DEF StreamInv, ServerPC, ClientPC, TerminalEventTypes
<1>5. CASE StreamEnd
    <2>1. PICK p \in {"complete", "check"} :
              /\ cl' = [cl EXCEPT !.pc = p] /\ srv' = Closed
              /\ p = "complete" => cl.terminal
        BY Zenon, <1>5 DEF StreamEnd
    <2>2. cl.terminal => cl.last > 0 /\ events[cl.last] \in TerminalEventTypes
        BY Zenon, <1>5 DEF StreamEnd, StreamInv
    <2>3. p \in ClientPC \ {"reading"} /\ p # "fallback"
        BY DEF ClientPC
    <2> QED BY Zenon, <1>1, <1>2, <2>1, <2>2, <2>3
<1>6. CASE Drop
    <2>1. cl' = [cl EXCEPT !.pc = "check"] /\ srv' = Closed
        BY Zenon, <1>6 DEF Drop
    <2>2. "check" \in ClientPC \ {"reading"} /\ "check" # "fallback" /\ "check" # "complete"
        BY DEF ClientPC
    <2> QED BY Zenon, <1>1, <1>2, <2>1, <2>2
<1>7. CASE CheckStatus \/ CheckFails
    <2>1. PICK p \in {"fallback", "connect"} :
              /\ cl' = [cl EXCEPT !.pc = p] /\ srv' = srv /\ cl.pc = "check"
              /\ p = "fallback" => job.status \in Terminal
        BY <1>7 DEF CheckStatus, CheckFails, EndsTimeline
    <2>2. srv.pc = "closed"
        BY Zenon, <2>1 DEF StreamInv
    <2>3. job.status \in Terminal => \E k \in Outcome : Contains(events, k)
        BY DEF IInv, SucceededIsBacked, FailedIsExplained, Terminal, Outcome
    <2>4. p \in ClientPC \ {"reading"} /\ p # "complete"
        BY DEF ClientPC
    <2> QED BY Zenon, <1>0, <1>2, <2>1, <2>2, <2>3, <2>4
<1> QED BY ZenonT(60), <1>3, <1>4, <1>5, <1>6, <1>7 DEF Client

\* Across batches, lost connections and resumptions, whatever the workers do
\* meanwhile, the timeline is a prefix of the log and stops on an outcome.
THEOREM TimelineSound == StreamSpec => []TimelineFaithful
<1>1. StreamInit => IInv /\ StreamInv
    <2> SUFFICES ASSUME StreamInit PROVE StreamInv
        BY StreamInitIInv
    <2>1. PICK p \in {"connect", "absent"} : cl = Visitor(p)
        BY DEF StreamInit
    <2>2. /\ cl = [pc |-> p, last |-> 0, terminal |-> FALSE, timeline |-> << >>]
          /\ srv = [pc |-> "closed", sequence |-> 0, batch |-> << >>]
        BY Zenon, <2>1 DEF StreamInit, Visitor, Closed
    <2>3. << >> \in Seq(Nat) /\ << >> = [i \in 1..0 |-> i] /\ 0 \in Nat /\ 0 <= Len(events)
        BY DEF StreamInit, Accepted, Uploaded
    <2>4. cl.pc = p /\ cl.last = 0 /\ cl.timeline = << >> /\ srv.pc = "closed"
        BY Zenon, <2>2
    <2>5. p \notin {"reading", "complete", "fallback"}
        OBVIOUS
    <2>6. cl \in [pc : {"absent", "connect", "reading", "check", "complete", "fallback"},
                  last : Nat, terminal : BOOLEAN, timeline : Seq(Nat)]
        BY Zenon, <2>2, <2>3
    <2>7. srv \in [pc : {"closed", "poll", "status", "send", "ended"},
                   sequence : Nat, batch : Seq(Nat)]
        BY Zenon, <2>2, <2>3
    <2> QED BY Zenon, <2>3, <2>4, <2>5, <2>6, <2>7 DEF StreamInv, TimelineIsPrefix,
               FallbackHasOutcome
<1>2. IInv /\ StreamInv /\ [StreamNext]_allVars => IInv' /\ StreamInv'
    <2> SUFFICES ASSUME IInv, StreamInv, [StreamNext]_allVars PROVE IInv' /\ StreamInv'
        OBVIOUS
    <2>1. IInv' /\ Grows(events, events')
        BY StreamStep
    <2>2. CASE UNCHANGED streamVars
        BY Zenon, <2>1, <2>2, JobKeepsStream
    <2> QED BY Zenon, <2>1, <2>2, ServerKeepsStream, ClientKeepsStream DEF StreamNext, allVars
<1>3. StreamInv => TimelineFaithful
    BY DEF StreamInv, TimelineFaithful, CompleteShowsOutcome, TerminalEventTypes, Outcome
<1> QED BY <1>1, <1>2, <1>3, PTL DEF StreamSpec
=============================================================================
