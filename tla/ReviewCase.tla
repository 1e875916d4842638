----------------------------- MODULE ReviewCase -----------------------------
(***************************************************************************)
(* One review case of invoiceops/review: the materialised row, its hash-   *)
(* chained event history, its trigger rows, the requests that change it    *)
(* and the repair jobs that open it.                                       *)
(*                                                                         *)
(* A request is three steps: the reviewer looks at the case (and so learns *)
(* the expected_version that is sent), the handler loads the row and       *)
(* computes a transition from it, and _apply commits that transition.      *)
(* Requests of any number of sessions interleave between those steps; the  *)
(* commit is one PostgreSQL transaction and therefore one step.  A repair  *)
(* (ReviewService.reconcile, DuplicateRiskService.reconcile) reads first   *)
(* and commits later.                                                      *)
(***************************************************************************)
EXTENDS Integers

CONSTANTS
    Reviewer,        \* the actor ids of the authenticated reviewers
    SystemActor,     \* SYSTEM_ACTOR_ID, the actor of CASE_OPENED
    NoReviewer,      \* NULL in assigned_reviewer_id
    Session,         \* concurrent requests
    Repairer,        \* concurrent repair jobs
    Resolution,      \* the values of ReviewResolution
    MatchCodes,      \* reason codes of the match run (empty: decision MATCHED)
    RiskCodes,       \* signal codes of its assessment (empty: disposition CLEAR)
    MaxVersion       \* bound on the version column

ASSUME ActorAssumption ==
    /\ SystemActor \notin Reviewer
    /\ NoReviewer \notin Reviewer \cup {SystemActor}
ASSUME ResolutionAssumption == "NONE" \notin Resolution
ASSUME VersionAssumption == MaxVersion \in Nat

VARIABLES
    row,             \* the review_cases row (AbsentRow before it is inserted)
    events,          \* review_events: sequence number -> event
    triggers,        \* review_case_triggers: the set of logical keys
    assessed,        \* is the risk_assessments row of the match run present
    sess,            \* the requests in flight
    repair,          \* the repair jobs in flight
    hist             \* every committed version of the row, by version number

vars == <<row, events, triggers, assessed, sess, repair, hist>>

-----------------------------------------------------------------------------
(* Data *)

\* Text a reviewer sends, and what str.strip makes of it.
Text == {" ", "x", " x "}
Strip(text) == IF text = " " THEN "EMPTY" ELSE "x"

Status == {"NONE", "OPEN", "CLAIMED", "RESOLVED"}
EventType == {"CASE_OPENED", "CASE_CLAIMED", "CASE_RELEASED",
              "COMMENT_ADDED", "CASE_RESOLVED"}
Actor == Reviewer \cup {SystemActor}
Trigger == MatchCodes \cup RiskCodes

Row == [status     : Status,
        assignee   : Reviewer \cup {NoReviewer},
        resolution : Resolution \cup {"NONE"},
        reason     : Text \cup {"EMPTY", "NONE"},
        version    : Nat]

AbsentRow == [status |-> "NONE", assignee |-> NoReviewer,
              resolution |-> "NONE", reason |-> "NONE", version |-> 0]

OpenedRow == [AbsentRow EXCEPT !.status = "OPEN", !.version = 1]

\* The JSON payload of an event: the fields that reconstruction reads.
Payload == [resolution : Resolution \cup {"NONE"},
            reason     : Text \cup {"EMPTY", "NONE"},
            triggers   : SUBSET Trigger]

Note(text) == [resolution |-> "NONE", reason |-> text, triggers |-> {}]

\* The dataclass Transition of review/state.py, with the acting reviewer.
Transition == [type : EventType, actor : Actor, status : Status,
               assignee : Reviewer \cup {NoReviewer},
               resolution : Resolution \cup {"NONE"},
               reason : Text \cup {"EMPTY", "NONE"}, payload : Payload]

\* event_hash: SHA-256 of the canonical JSON, an injective function of the
\* fields it covers.  The first event has no previous hash.
GenesisHash == <<>>
EventHash(seq, type, actor, payload, prev) == <<seq, type, actor, payload, prev>>

Event(seq, type, actor, payload, prev) ==
    [type |-> type, actor |-> actor, payload |-> payload, prev |-> prev,
     hash |-> EventHash(seq, type, actor, payload, prev)]

\* INSERT of an event row under the unique constraint on its sequence number.
Insert(evs, seq, e) ==
    [n \in DOMAIN evs \cup {seq} |-> IF n = seq THEN e ELSE evs[n]]

-----------------------------------------------------------------------------
(* The transitions of review/state.py *)

claim(a) ==
    [type |-> "CASE_CLAIMED", actor |-> a, status |-> "CLAIMED", assignee |-> a,
     resolution |-> "NONE", reason |-> "NONE", payload |-> Note("NONE")]

\* Mutant of comment: commenting takes the case over.
CommentTakesOver(st, a, text) ==
    [type |-> "COMMENT_ADDED", actor |-> a, status |-> st.status,
     assignee |-> a, resolution |-> st.resolution,
     reason |-> st.reason, payload |-> Note(text)]


release(a, text) ==
    [type |-> "CASE_RELEASED", actor |-> a, status |-> "OPEN",
     assignee |-> NoReviewer, resolution |-> "NONE", reason |-> "NONE",
     payload |-> Note(text)]

comment(st, a, text) ==
    [type |-> "COMMENT_ADDED", actor |-> a, status |-> st.status,
     assignee |-> st.assignee, resolution |-> st.resolution,
     reason |-> st.reason, payload |-> Note(text)]

resolve(a, res, text) ==
    [type |-> "CASE_RESOLVED", actor |-> a, status |-> "RESOLVED",
     assignee |-> a, resolution |-> res, reason |-> Strip(text),
     payload |-> [resolution |-> res, reason |-> Strip(text), triggers |-> {}]]

\* _require_assigned_claim
AssignedClaim(st, a) == st.status = "CLAIMED" /\ st.assignee = a

\* comment refuses a resolved case only.
Commentable(st) == st.status \in {"OPEN", "CLAIMED"}

-----------------------------------------------------------------------------
(* Requests *)

NoTransition == comment(AbsentRow, SystemActor, "x")

IdleSession == [pc |-> "idle", seen |-> AbsentRow, base |-> AbsentRow,
                tr |-> NoTransition]

\* GET /v1/review-cases/{id}: the reviewer sees the row, version included.
View(s) ==
    /\ sess[s].pc = "idle"
    /\ row.version > 0
    /\ sess' = [sess EXCEPT ![s].pc = "viewing", ![s].seen = row]
    /\ UNCHANGED <<row, events, triggers, assessed, repair, hist>>

\* Mutant of ExpectedVersion: the version the client sends is not compared.
AnyExpectedVersion(s) == sess[s].seen.version > 0


\* validate_expected_version: the version the reviewer saw is the loaded one.
ExpectedVersion(s) == sess[s].seen.version = row.version

\* The handler loads the case and computes transition t from what it loaded.
Load(s, t) ==
    /\ sess[s].pc = "viewing"
    /\ ExpectedVersion(s)
    /\ sess' = [sess EXCEPT ![s].pc = "loaded", ![s].base = row, ![s].tr = t]
    /\ UNCHANGED <<row, events, triggers, assessed, repair, hist>>

Claim(s, a) == row.status = "OPEN" /\ Load(s, claim(a))

\* The command schemas refuse blank text and strip the rest.
Nonblank(text) == Strip(text) # "EMPTY"

Release(s, a, text) ==
    /\ Nonblank(text)
    /\ AssignedClaim(row, a)
    /\ Load(s, release(a, Strip(text)))

Comment(s, a, text) ==
    /\ Nonblank(text)
    /\ Commentable(row)
    /\ Load(s, comment(row, a, Strip(text)))

Resolve(s, a, res, text) ==
    /\ AssignedClaim(row, a)
    /\ Nonblank(text)
    /\ Load(s, resolve(a, res, text))

\* Mutant of Written: ownership is taken from the row as it is at the commit.
WrittenKeepsAssignee(s) ==
    LET t == sess[s].tr
    IN  [status |-> t.status,
         assignee |-> IF t.assignee = NoReviewer THEN row.assignee ELSE t.assignee,
         resolution |-> t.resolution, reason |-> t.reason,
         version |-> sess[s].base.version + 1]


\* The row that _apply writes for session s.
Written(s) ==
    LET t == sess[s].tr
    IN  [status |-> t.status, assignee |-> t.assignee,
         resolution |-> t.resolution, reason |-> t.reason,
         version |-> sess[s].base.version + 1]

\* _apply succeeds: UPDATE ... WHERE version = expected changes one row, the
\* previous event exists, and the new sequence number is not taken.
CanApply(s) ==
    /\ row.version = sess[s].base.version
    /\ row.version \in DOMAIN events
    /\ row.version + 1 \notin DOMAIN events

\* The hash the new event is chained to.
PreviousHash(s) == events[sess[s].base.version].hash

ApplyOk(s) ==
    /\ sess[s].pc = "loaded"
    /\ CanApply(s)
    /\ row.version < MaxVersion
    /\ row' = Written(s)
    /\ LET seq == sess[s].base.version + 1
           t == sess[s].tr
       IN  /\ events' = Insert(events, seq,
                          Event(seq, t.type, t.actor, t.payload, PreviousHash(s)))
           /\ hist' = Insert(hist, seq, Written(s))
    /\ sess' = [sess EXCEPT ![s] = IdleSession]
    /\ UNCHANGED <<triggers, assessed, repair>>

\* STALE_VERSION, a rejected command, or the process dying before the commit:
\* the transaction is rolled back and the request is over.
ApplyRejected(s) ==
    /\ sess[s].pc # "idle"
    /\ sess' = [sess EXCEPT ![s] = IdleSession]
    /\ UNCHANGED <<row, events, triggers, assessed, repair, hist>>

-----------------------------------------------------------------------------
(* ensure_review_case, called by the two repair jobs *)

IdleRepair == [pc |-> "idle", risk |-> FALSE, assesses |-> FALSE,
               found |-> FALSE, missing |-> {}]

\* Mutant of TriggerSnapshot: risk signals are recorded only for matched runs.
TriggerSnapshotOneKind(withRisk) ==
    IF MatchCodes # {} THEN MatchCodes ELSE IF withRisk THEN RiskCodes ELSE {}


\* _trigger_snapshot
TriggerSnapshot(withRisk) == MatchCodes \cup (IF withRisk THEN RiskCodes ELSE {})

\* The reads of ensure_review_case, for a run whose assessment is `risk`.
EnsureRead(r, risk, assesses) ==
    /\ repair[r].pc = "idle"
    /\ TriggerSnapshot(risk) # {}                      \* requires_review
    /\ repair' = [repair EXCEPT ![r] =
          [pc |-> "read", risk |-> risk, assesses |-> assesses,
           found |-> row.version > 0, missing |-> TriggerSnapshot(risk) \ triggers]]
    /\ UNCHANGED <<row, events, triggers, assessed, sess, hist>>

\* ReviewService.reconcile takes NEEDS_REVIEW runs and whatever assessment is there.
ReviewReconcile(r) == MatchCodes # {} /\ EnsureRead(r, assessed, FALSE)

\* DuplicateRiskService.reconcile inserts the assessment if there is none.
RiskReconcile(r) == EnsureRead(r, TRUE, ~assessed)

\* No unique constraint refuses the transaction of repair job r.
Unconflicted(r) ==
    /\ repair[r].assesses => ~assessed
    /\ ~repair[r].found => row.version = 0
    /\ repair[r].missing \cap triggers = {}

EnsureCommit(r) ==
    LET snapshot == TriggerSnapshot(repair[r].risk)
        opening == Event(1, "CASE_OPENED", SystemActor,
                         [resolution |-> "NONE", reason |-> "NONE",
                          triggers |-> snapshot], GenesisHash)
    IN  /\ repair[r].pc = "read"
        /\ Unconflicted(r)
        /\ assessed' = (assessed \/ repair[r].assesses)
        /\ triggers' = triggers \cup repair[r].missing
        /\ IF repair[r].found
           THEN UNCHANGED <<row, events, hist>>
           ELSE /\ row' = OpenedRow
                /\ events' = Insert(events, 1, opening)
                /\ hist' = Insert(hist, 1, OpenedRow)
        /\ repair' = [repair EXCEPT ![r] = IdleRepair]
        /\ UNCHANGED sess

\* IntegrityError out of the job, or a crash before the commit.
EnsureAborted(r) ==
    /\ repair[r].pc = "read"
    /\ repair' = [repair EXCEPT ![r] = IdleRepair]
    /\ UNCHANGED <<row, events, triggers, assessed, sess, hist>>

-----------------------------------------------------------------------------
Init ==
    /\ row = AbsentRow
    /\ events = [n \in {} |-> 0]
    /\ triggers = {}
    /\ assessed = FALSE
    /\ sess = [s \in Session |-> IdleSession]
    /\ repair = [r \in Repairer |-> IdleRepair]
    /\ hist = [n \in {0} |-> AbsentRow]

Request(s) ==
    \/ View(s)
    \/ \E a \in Reviewer : Claim(s, a)
    \/ \E a \in Reviewer, text \in Text : Release(s, a, text)
    \/ \E a \in Reviewer, text \in Text : Comment(s, a, text)
    \/ \E a \in Reviewer, res \in Resolution, text \in Text : Resolve(s, a, res, text)
    \/ ApplyOk(s)
    \/ ApplyRejected(s)

Repair(r) ==
    \/ ReviewReconcile(r)
    \/ RiskReconcile(r)
    \/ EnsureCommit(r)
    \/ EnsureAborted(r)

Next == \/ \E s \in Session : Request(s)
        \/ \E r \in Repairer : Repair(r)

Spec == Init /\ [][Next]_vars

-----------------------------------------------------------------------------
(* What verify_audit makes of an event (review/audit.py, _reconstruct_event) *)

ValidEvent(st, e) ==
    CASE e.type = "CASE_OPENED" -> st.version = 0 /\ e.actor = SystemActor
      [] e.type = "CASE_CLAIMED" -> st.status = "OPEN"
      [] e.type = "COMMENT_ADDED" -> Commentable(st)
      [] OTHER -> AssignedClaim(st, e.actor)

ApplyEvent(st, e) ==
    CASE e.type \in {"CASE_OPENED", "CASE_RELEASED"} ->
            [OpenedRow EXCEPT !.version = st.version + 1]
      [] e.type = "CASE_CLAIMED" ->
            [st EXCEPT !.status = "CLAIMED", !.assignee = e.actor,
                       !.resolution = "NONE", !.reason = "NONE",
                       !.version = st.version + 1]
      [] e.type = "COMMENT_ADDED" -> [st EXCEPT !.version = st.version + 1]
      [] OTHER -> [status |-> "RESOLVED", assignee |-> e.actor,
                   resolution |-> e.payload.resolution,
                   reason |-> e.payload.reason, version |-> st.version + 1]

-----------------------------------------------------------------------------
(* Properties *)

RequestState == [pc : {"idle", "viewing", "loaded"},
                 seen : Row, base : Row, tr : Transition]

RepairState == [pc : {"idle", "read"}, risk : BOOLEAN, assesses : BOOLEAN,
                found : BOOLEAN, missing : SUBSET Trigger]

\* Every variable stays in its type: in particular the sequence numbers of
\* review_events are 1..version with no gap, whatever requests interleave.
TypeOK ==
    /\ row \in Row
    /\ DOMAIN events = 1..row.version
    /\ \A n \in 1..row.version : /\ events[n].type \in EventType
                                 /\ events[n].actor \in Actor
                                 /\ events[n].payload \in Payload
    /\ triggers \in SUBSET Trigger
    /\ assessed \in BOOLEAN
    /\ sess \in [Session -> RequestState]
    /\ repair \in [Repairer -> RepairState]
    /\ hist \in [0..row.version -> Row]

\* The event history alone rebuilds the case: replaying it from nothing never
\* meets an invalid transition and ends in the materialised row, field by field
\* (what docs/review.md promises of the history, and verify_audit compares).
AuditReplays ==
    /\ hist[0] = AbsentRow
    /\ hist[row.version] = row
    /\ \A n \in 1..row.version : /\ ValidEvent(hist[n - 1], events[n])
                                 /\ hist[n] = ApplyEvent(hist[n - 1], events[n])

\* Each event's hash covers its own fields and the hash of the event before it,
\* so the history has one order (event_hash, previous_hash in _apply).
ChainLinked ==
    \A n \in 1..row.version :
        LET e == events[n]
        IN  /\ e.prev = (IF n = 1 THEN GenesisHash ELSE events[n - 1].hash)
            /\ e.hash = EventHash(n, e.type, e.actor, e.payload, e.prev)

\* The row always satisfies ck_review_case_state_shape: what each status says
\* of the assignee, the resolution and a non-blank reason.
StateShape ==
    CASE row.status \in {"NONE", "OPEN"} ->
            row.assignee = NoReviewer /\ row.resolution = "NONE" /\ row.reason = "NONE"
      [] row.status = "CLAIMED" ->
            row.assignee \in Reviewer /\ row.resolution = "NONE" /\ row.reason = "NONE"
      [] OTHER ->
            row.assignee \in Reviewer /\ row.resolution \in Resolution /\ row.reason = "x"

\* Transition t is one that review/state.py computes for state st.
Legal(st, t) ==
    \E a \in Reviewer :
        \/ st.status = "OPEN" /\ t = claim(a)
        \/ AssignedClaim(st, a) /\ t = release(a, "x")
        \/ Commentable(st) /\ t = comment(st, a, "x")
        \/ AssignedClaim(st, a) /\ \E res \in Resolution : t = resolve(a, res, "x")

\* A version number identifies the contents of the row: whatever a request has
\* in hand is either older than the row or equal to it (so comparing versions
\* in validate_expected_version and in the UPDATE compares states), and what a
\* handler is about to commit is legal for the state its author saw.
VersionsIdentifyStates ==
    \A s \in Session :
        /\ sess[s].pc # "idle" =>
              /\ sess[s].seen.version \in 1..row.version
              /\ sess[s].seen.version = row.version => sess[s].seen = row
        /\ sess[s].pc = "loaded" =>
              /\ sess[s].base = sess[s].seen
              /\ Legal(sess[s].base, sess[s].tr)

\* An open case shows the reviewer every reason it is there: the trigger rows
\* contain the triggers recorded in the opening event, the match's reasons,
\* and the risk signals as soon as the assessment is committed.
TriggersComplete ==
    row.version > 0 =>
        /\ events[1].payload.triggers \subseteq triggers
        /\ MatchCodes \subseteq triggers
        /\ assessed => RiskCodes \subseteq triggers

\* A decision takes effect only on the state its author was looking at: no
\* change made between the reviewer's GET and the commit is overwritten.
AppliedToWhatWasSeen ==
    [][\A s \in Session : ApplyOk(s) => sess[s].seen = row]_vars

\* Once claimed, a case leaves its reviewer's hands only by that reviewer's
\* own release or resolution, though others may comment meanwhile.
OnlyOwnerEndsClaim ==
    [][ (row.status = "CLAIMED" /\ (row'.status # "CLAIMED"
                                     \/ row'.assignee # row.assignee))
        => events'[row'.version].actor = row.assignee ]_vars

\* A resolved case is never changed, not even by a request that loaded it
\* before the resolution was committed.
ResolvedIsFinal ==
    [][ row.status = "RESOLVED" => UNCHANGED <<row, events>> ]_vars

\* Committed history is append-only: no step rewrites or removes an event.
HistoryAppendOnly ==
    [][ \A n \in DOMAIN events : n \in DOMAIN events' /\ events'[n] = events[n] ]_vars

\* The history is the case: it replays to the row, in one order fixed by the
\* hashes, and the row has the shape its status demands.
AuditIntact == AuditReplays /\ ChainLinked /\ StateShape

\* A committed command was decided on the row it changes, only the owner ends a
\* claim, a resolution is final, and no command touches the events before it.
CommandsSound ==
    AppliedToWhatWasSeen /\ OnlyOwnerEndsClaim /\ ResolvedIsFinal /\ HistoryAppendOnly

\* The service implements the atomic workflow of ReviewWorkflow: its commits
\* are exactly the workflow's commands, each on the state it was decided on.
Workflow == INSTANCE ReviewWorkflow WITH case <- row
WorkflowSpec == Workflow!Spec
=============================================================================
