------------------------------ MODULE JobStream ------------------------------
(***************************************************************************)
(* The live timeline of a job: the SSE generator of stream_job_events and  *)
(* the console's JobTimeline, over the job of ExtractionJob.               *)
(*                                                                         *)
(* The generator reads the new events and then, in a second statement, the *)
(* job's status, while workers keep committing.  The connection may drop   *)
(* with events in flight; the client then asks for the job's status and    *)
(* either stops or reconnects with Last-Event-ID.                          *)
(***************************************************************************)
EXTENDS ExtractionJob

CONSTANTS
    BatchSize,         \* sse_batch_size
    MaxDrops,          \* bound: lost connections and failed status requests
    Crew               \* bound: the workers that run while somebody watches

ASSUME StreamAssumption ==
    BatchSize \in Nat \ {0} /\ MaxDrops \in Nat /\ Crew \subseteq Worker

VARIABLES
    srv,               \* the generator: pc, sequence, events read
    net,               \* sequence numbers in flight to the client
    cl,                \* the client: pc, last sequence, terminal flag, timeline
    drops

streamVars == <<srv, net, cl, drops>>
allVars == <<vars, streamVars>>

Closed == [pc |-> "closed", sequence |-> 0, batch |-> << >>]
Stopped == {"complete", "fallback"}
Visitor(pc) == [pc |-> pc, last |-> 0, terminal |-> FALSE, timeline |-> << >>]

-----------------------------------------------------------------------------
(* The generator *)

\* Mutant of TerminalEventTypes: extraction.completed is taken for the end.
TerminalTooEarly == {"extraction.completed", "processing.completed", "processing.failed"}

TerminalEventTypes == {"processing.completed", "processing.failed"}

\* list_job_events: in order, after the sequence number, at most a batch.
NewEvents(sequence) ==
    LET last == IF sequence + BatchSize < Len(events) THEN sequence + BatchSize
                ELSE Len(events)
    IN  [i \in 1..(last - sequence) |-> sequence + i]

PollEvents ==
    /\ srv.pc = "poll"
    /\ srv' = [srv EXCEPT !.pc = "status", !.batch = NewEvents(srv.sequence)]
    /\ UNCHANGED <<vars, net, cl, drops>>

PollStatus ==
    /\ srv.pc = "status"
    /\ srv' = [srv EXCEPT !.pc = IF srv.batch # << >> THEN "send"
                                 ELSE IF job.status \in Terminal THEN "ended"
                                 ELSE "poll"]
    /\ UNCHANGED <<vars, net, cl, drops>>

\* One yield: a terminal event ends the stream, the last of a batch polls again.
SendEvent ==
    /\ srv.pc = "send"
    /\ net' = Append(net, Head(srv.batch))
    /\ srv' = [srv EXCEPT !.sequence = Head(srv.batch),
                          !.batch = Tail(srv.batch),
                          !.pc = IF events[Head(srv.batch)] \in TerminalEventTypes THEN "ended"
                                 ELSE IF Tail(srv.batch) = << >> THEN "poll"
                                 ELSE "send"]
    /\ UNCHANGED <<vars, cl, drops>>

-----------------------------------------------------------------------------
(* The client *)

\* Mutant of LastEventId: one past the last event received.
LastEventIdPlusOne == cl.last + 1

LastEventId == cl.last

\* consumeJobEvents: a new generator starts after the last event received.
Connect ==
    /\ cl.pc = "connect"
    /\ srv' = [Closed EXCEPT !.pc = "poll", !.sequence = LastEventId]
    /\ net' = << >>
    /\ cl' = [cl EXCEPT !.pc = "reading", !.terminal = FALSE]
    /\ UNCHANGED <<vars, drops>>

\* The numbers of S in increasing order: place i has i - 1 numbers below it.
Ascending(S) ==
    [i \in 1..Cardinality(S) |->
        CHOOSE n \in S : Cardinality({m \in S : m < n}) = i - 1]

\* mergeJobEvent: by sequence number, without duplicates, sorted.
Merged(timeline, sequence) ==
    IF Contains(timeline, sequence) THEN timeline
    ELSE Ascending(Range(timeline) \cup {sequence})

ReceiveEvent ==
    /\ cl.pc = "reading"
    /\ net # << >>
    /\ net' = Tail(net)
    /\ cl' = [cl EXCEPT !.terminal = events[Head(net)] \in TerminalEventTypes,
                        !.last = IF Head(net) > cl.last THEN Head(net) ELSE cl.last,
                        !.timeline = Merged(cl.timeline, Head(net))]
    /\ UNCHANGED <<vars, srv, drops>>

\* The body ended: done after a terminal event, otherwise ask for the status.
StreamEnd ==
    /\ cl.pc = "reading"
    /\ net = << >>
    /\ srv.pc = "ended"
    /\ srv' = Closed
    /\ cl' = [cl EXCEPT !.pc = IF cl.terminal THEN "complete" ELSE "check"]
    /\ UNCHANGED <<vars, net, drops>>

\* The connection breaks: what was in flight is lost, whatever was received.
Drop ==
    /\ drops < MaxDrops
    /\ cl.pc = "reading"
    /\ drops' = drops + 1
    /\ srv' = Closed
    /\ net' = << >>
    /\ cl' = [cl EXCEPT !.pc = "check"]
    /\ UNCHANGED vars

\* Mutant of EndsTimeline: only a success ends the timeline.
EndsTimelineOnSuccess(status) == status = "SUCCEEDED"

EndsTimeline(status) == status \in Terminal

\* GET /v1/jobs/{job_id}
CheckStatus ==
    /\ cl.pc = "check"
    /\ cl' = [cl EXCEPT !.pc = IF EndsTimeline(job.status) THEN "fallback" ELSE "connect"]
    /\ UNCHANGED <<vars, srv, net, drops>>

CheckFails ==
    /\ drops < MaxDrops
    /\ cl.pc = "check"
    /\ drops' = drops + 1
    /\ cl' = [cl EXCEPT !.pc = "connect"]
    /\ UNCHANGED <<vars, srv, net>>

-----------------------------------------------------------------------------
Server == PollEvents \/ PollStatus \/ SendEvent
Client == Connect \/ ReceiveEvent \/ StreamEnd \/ CheckStatus

\* Somebody watches what the crew does, or nobody watches and all workers run.
StreamInit ==
    /\ Accepted
    /\ \/ /\ cl = Visitor("connect")
          /\ wk = [w \in Worker |-> IF w \in Crew THEN Idle ELSE [Idle EXCEPT !.pc = "off"]]
       \/ /\ cl = Visitor("absent")
          /\ wk = [w \in Worker |-> Idle]
    /\ srv = Closed
    /\ net = << >>
    /\ drops = 0

StreamNext ==
    \/ /\ Send \/ \E w \in Worker : ~At(w, "off") /\ Works(w)
       /\ UNCHANGED streamVars
    \/ Server \/ Client
    \/ Drop \/ CheckFails

StreamSpec == StreamInit /\ [][StreamNext]_allVars

\* Workers, the generator's poll loop and the browser all keep running; nothing
\* forces a message, an error, a crash or a lost connection.
StreamFairSpec ==
    /\ StreamSpec
    /\ \A w \in Worker : WF_allVars(Step(w) /\ UNCHANGED streamVars)
    /\ WF_allVars(Server)
    /\ WF_allVars(Client)

-----------------------------------------------------------------------------
(* Properties *)

\* The two events that state a job's outcome.
Outcome == {"processing.completed", "processing.failed"}

\* The timeline is a prefix of the durable log, without a gap, a repetition or
\* a disorder, across batches, lost connections and resumptions.
TimelineIsPrefix == cl.timeline = [i \in 1..cl.last |-> i]

\* A timeline shown as complete ends with the outcome of an attempt: neither
\* the generator nor the client stops on a batch boundary or a stage event.
CompleteShowsOutcome == cl.pc = "complete" => events[cl.last] \in Outcome

\* A timeline that stops on the status alone, possibly without the last events,
\* stops for a job whose outcome is in the durable log, for a later visit.
FallbackHasOutcome == cl.pc = "fallback" => \E k \in Outcome : Contains(events, k)

\* What is shown is a prefix of the log, and however the timeline stops, the
\* outcome of an attempt is durable by then.
TimelineFaithful == TimelineIsPrefix /\ CompleteShowsOutcome /\ FallbackHasOutcome

\* A dispatched job settles in a terminal state for good, under weak fairness
\* of the workers ("bounded exponential retry, and a terminal failed state").
EventuallySettled == <>[](sends = 0 \/ job.status \in Terminal)

\* The timeline of a dispatched job stops, if anybody watches it, under weak
\* fairness of the worker, the generator and the browser.
TimelineStops == <>[](sends = 0 \/ cl.pc \in Stopped \cup {"absent"})
=============================================================================
