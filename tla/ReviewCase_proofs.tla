------------------------- MODULE ReviewCase_proofs --------------------------
(***************************************************************************)
(* Proofs about ReviewCase, for any set of reviewers, requests and repair  *)
(* jobs and any version bound, and about the audit of such a case.         *)
(***************************************************************************)
EXTENDS ReviewAudit, FiniteSetTheorems, WellFoundedInduction, TLAPS

USE ActorAssumption, ResolutionAssumption, VersionAssumption

\* Every transition of review/state.py computed from a row is a Transition.
LEMMA LegalIsTransition ==
    ASSUME NEW st \in Row, NEW t, Legal(st, t)
    PROVE  t \in Transition
<1> USE DEF Transition, Payload, Note, Row, EventType, Actor, Status, Text
<1> PICK a \in Reviewer :
        \/ st.status = "OPEN" /\ t = claim(a)
        \/ AssignedClaim(st, a) /\ t = release(a, "x")
        \/ Commentable(st) /\ t = comment(st, a, "x")
        \/ AssignedClaim(st, a) /\ \E res \in Resolution : t = resolve(a, res, "x")
    BY Zenon DEF Legal
<1>1. CASE t = claim(a)
    BY Zenon, <1>1 DEF claim
<1>2. CASE t = release(a, "x")
    BY Zenon, <1>2 DEF release
<1>3. CASE t = comment(st, a, "x")
    BY Zenon, <1>3 DEF comment
<1>4. CASE \E res \in Resolution : t = resolve(a, res, "x")
    <2> PICK res \in Resolution : t = resolve(a, res, "x")
        BY Zenon, <1>4
    <2> QED BY Zenon DEF resolve, Strip
<1> QED BY Zenon, <1>1, <1>2, <1>3, <1>4

\* A step is one of eight kinds; what a request hands to Load is legal for the
\* row that was loaded.
LEMMA StepCases ==
    ASSUME row \in Row, assessed \in BOOLEAN, [Next]_vars
    PROVE  \/ \E s \in Session : View(s)
           \/ \E s \in Session, t \in Transition : Legal(row, t) /\ Load(s, t)
           \/ \E s \in Session : ApplyOk(s)
           \/ \E s \in Session : ApplyRejected(s)
           \/ \E r \in Repairer, risk, assesses \in BOOLEAN : EnsureRead(r, risk, assesses)
           \/ \E r \in Repairer : EnsureCommit(r)
           \/ \E r \in Repairer : EnsureAborted(r)
           \/ UNCHANGED vars
<1>1. ASSUME NEW s \in Session, NEW t, Legal(row, t), Load(s, t)
      PROVE  \E u \in Transition : Legal(row, u) /\ Load(s, u)
    BY <1>1, LegalIsTransition
<1>2. ASSUME NEW s \in Session, NEW a \in Reviewer, Claim(s, a)
      PROVE  \E t \in Transition : Legal(row, t) /\ Load(s, t)
    <2>1. Legal(row, claim(a))
        BY <1>2 DEF Claim, Legal
    <2> QED BY <1>1, <1>2, <2>1 DEF Claim
<1>3. ASSUME NEW s \in Session, NEW a \in Reviewer, NEW text \in Text,
             Release(s, a, text)
      PROVE  \E t \in Transition : Legal(row, t) /\ Load(s, t)
    <2>1. Legal(row, release(a, Strip(text)))
        BY Zenon, <1>3 DEF Release, Legal, Nonblank, Strip
    <2> QED BY <1>1, <1>3, <2>1 DEF Release
<1>4. ASSUME NEW s \in Session, NEW a \in Reviewer, NEW text \in Text,
             Comment(s, a, text)
      PROVE  \E t \in Transition : Legal(row, t) /\ Load(s, t)
    <2>1. Legal(row, comment(row, a, Strip(text)))
        BY Zenon, <1>4 DEF Comment, Legal, Nonblank, Strip
    <2> QED BY <1>1, <1>4, <2>1 DEF Comment
<1>5. ASSUME NEW s \in Session, NEW a \in Reviewer, NEW text \in Text,
             NEW res \in Resolution, Resolve(s, a, res, text)
      PROVE  \E t \in Transition : Legal(row, t) /\ Load(s, t)
    <2>1. resolve(a, res, text) = resolve(a, res, "x")
        BY Zenon, <1>5 DEF Resolve, resolve, Nonblank, Strip
    <2>2. Legal(row, resolve(a, res, text))
        BY <1>5, <2>1 DEF Resolve, Legal
    <2> QED BY <1>1, <1>5, <2>2 DEF Resolve
<1>6. ASSUME NEW s \in Session, Request(s)
      PROVE  \/ View(s) \/ ApplyOk(s) \/ ApplyRejected(s)
             \/ \E t \in Transition : Legal(row, t) /\ Load(s, t)
    BY <1>2, <1>3, <1>4, <1>5, <1>6 DEF Request
<1>7. ASSUME NEW r \in Repairer, Repair(r)
      PROVE  \/ EnsureCommit(r) \/ EnsureAborted(r)
             \/ \E risk, assesses \in BOOLEAN : EnsureRead(r, risk, assesses)
    BY Zenon, <1>7 DEF Repair, ReviewReconcile, RiskReconcile
<1> QED BY <1>6, <1>7 DEF Next

\* The event of a legal transition is valid for the state it was computed from,
\* and replaying it gives the row that _apply writes.
LEMMA EventMatchesRow ==
    ASSUME NEW st \in Row, NEW t, Legal(st, t), NEW e,
           e.type = t.type, e.actor = t.actor, e.payload = t.payload
    PROVE  /\ ValidEvent(st, e)
           /\ ApplyEvent(st, e) =
                 [status |-> t.status, assignee |-> t.assignee,
                  resolution |-> t.resolution, reason |-> t.reason,
                  version |-> st.version + 1]
<1> PICK a \in Reviewer :
        \/ st.status = "OPEN" /\ t = claim(a)
        \/ AssignedClaim(st, a) /\ t = release(a, "x")
        \/ Commentable(st) /\ t = comment(st, a, "x")
        \/ AssignedClaim(st, a) /\ \E res \in Resolution : t = resolve(a, res, "x")
    BY DEF Legal
<1> USE DEF Row
<1>1. CASE st.status = "OPEN" /\ t = claim(a)
    BY Zenon, <1>1 DEF claim, ValidEvent, ApplyEvent
<1>2. CASE AssignedClaim(st, a) /\ t = release(a, "x")
    BY Zenon, <1>2 DEF release, ValidEvent, ApplyEvent, OpenedRow, AbsentRow
<1>3. CASE Commentable(st) /\ t = comment(st, a, "x")
    <2>1. e.type = "COMMENT_ADDED"
        BY <1>3 DEF comment
    <2>2. ApplyEvent(st, e) = [st EXCEPT !.version = st.version + 1]
        BY <2>1 DEF ApplyEvent
    <2>3. ValidEvent(st, e)
        BY <1>3, <2>1 DEF ValidEvent
    <2> QED BY <1>3, <2>2, <2>3 DEF comment
<1>4. CASE AssignedClaim(st, a) /\ \E res \in Resolution : t = resolve(a, res, "x")
    <2> PICK res \in Resolution : t = resolve(a, res, "x")
        BY <1>4
    <2>1. e.type = "CASE_RESOLVED" /\ e.actor = a
        BY DEF resolve
    <2>2. ValidEvent(st, e)
        BY <1>4, <2>1 DEF ValidEvent
    <2>3. ApplyEvent(st, e) = [status |-> "RESOLVED", assignee |-> a,
                               resolution |-> e.payload.resolution,
                               reason |-> e.payload.reason,
                               version |-> st.version + 1]
        BY <2>1 DEF ApplyEvent
    <2>4. /\ t.status = "RESOLVED" /\ t.assignee = a
          /\ t.resolution = res /\ t.reason = Strip("x")
        BY DEF resolve
    <2>5. e.payload = [resolution |-> res, reason |-> Strip("x"), triggers |-> {}]
        BY DEF resolve
    <2>6. e.payload.resolution = res /\ e.payload.reason = Strip("x")
        BY <2>5
    <2> QED BY <2>2, <2>3, <2>4, <2>6
<1> QED BY <1>1, <1>2, <1>3, <1>4

-----------------------------------------------------------------------------
(* Type correctness *)

\* The types of rows, idle records and the opening event.
LEMMA Constants ==
    /\ AbsentRow \in Row /\ OpenedRow \in Row
    /\ NoTransition \in Transition
    /\ IdleSession \in RequestState
    /\ IdleRepair \in RepairState
<1>1. AbsentRow \in Row /\ OpenedRow \in Row
    BY Zenon DEF AbsentRow, OpenedRow, Row, Status
<1>2. NoTransition \in Transition
    BY Zenon, <1>1 DEF AbsentRow, Row, Status, NoTransition, comment, Note, Payload,
                Transition, EventType, Actor, Text
<1>3. IdleSession \in RequestState /\ IdleRepair \in RepairState
    BY <1>1, <1>2 DEF IdleSession, RequestState, IdleRepair, RepairState
<1> QED BY <1>1, <1>2, <1>3

\* The initial state is well typed, and steps keep it so.
LEMMA TypeInit == Init => TypeOK
<1> SUFFICES ASSUME Init PROVE TypeOK
    OBVIOUS
<1>1. row.version = 0 /\ 1..0 = {} /\ 0..0 = {0}
    BY DEF Init, AbsentRow
<1>2. DOMAIN events = {}
    BY DEF Init
<1> QED BY Zenon, <1>1, <1>2, Constants DEF Init, TypeOK

\* Every step keeps the state well typed, one case per kind of step.
LEMMA TypeStep == TypeOK /\ [Next]_vars => TypeOK'
<1> SUFFICES ASSUME TypeOK, [Next]_vars PROVE TypeOK'
    OBVIOUS
<1> USE Constants
<1>1. ASSUME NEW s \in Session, View(s) PROVE TypeOK'
    <2>1. sess' \in [Session -> RequestState]
        BY Zenon, <1>1 DEF View, TypeOK, RequestState
    <2> QED BY <1>1, <2>1 DEF View, TypeOK
<1>2. ASSUME NEW s \in Session, NEW t \in Transition, Load(s, t) PROVE TypeOK'
    <2>1. sess' \in [Session -> RequestState]
        BY ZenonT(60), <1>2 DEF Load, TypeOK, RequestState
    <2> QED BY <1>2, <2>1 DEF Load, TypeOK
<1>3. ASSUME NEW s \in Session, ApplyOk(s) PROVE TypeOK'
    <2> DEFINE seq == row.version + 1
    <2>1. sess[s].base.version = row.version /\ sess[s].tr \in Transition
        BY <1>3 DEF ApplyOk, CanApply, TypeOK, RequestState
    <2>2. Written(s) \in Row /\ Written(s).version = seq /\ row.version \in Nat
        <3>1. row \in Row /\ row.version \in Nat
            BY DEF TypeOK, Row
        <3>2. /\ sess[s].tr.status \in Status
              /\ sess[s].tr.assignee \in Reviewer \cup {NoReviewer}
              /\ sess[s].tr.resolution \in Resolution \cup {"NONE"}
              /\ sess[s].tr.reason \in Text \cup {"EMPTY", "NONE"}
            BY <2>1 DEF Transition
        <3>3. Written(s) \in Row
            BY <2>1, <3>1, <3>2 DEF Written, Row
        <3>4. Written(s).version = seq
            BY <2>1 DEF Written
        <3> QED BY <3>1, <3>3, <3>4
    <2>3. row' = Written(s) /\ row'.version = seq
        BY <1>3, <2>2 DEF ApplyOk
    <2>4. 1..seq = (1..row.version) \cup {seq} /\ 0..seq = (0..row.version) \cup {seq}
        BY <2>2
    <2>5. hist' \in [0..row'.version -> Row]
        BY Zenon, <1>3, <2>1, <2>2, <2>3, <2>4 DEF ApplyOk, Insert, TypeOK
    <2>6. /\ DOMAIN events' = 1..row'.version
          /\ \A n \in 1..row'.version : /\ events'[n].type \in EventType
                                        /\ events'[n].actor \in Actor
                                        /\ events'[n].payload \in Payload
        BY <1>3, <2>1, <2>3, <2>4 DEF ApplyOk, Insert, Event, Transition, TypeOK
    <2>7. sess' \in [Session -> RequestState]
        BY <1>3 DEF ApplyOk, TypeOK
    <2> QED BY Zenon, <1>3, <2>2, <2>3, <2>5, <2>6, <2>7 DEF ApplyOk, TypeOK
<1>4. ASSUME NEW s \in Session, ApplyRejected(s) PROVE TypeOK'
    BY <1>4 DEF ApplyRejected, TypeOK
<1>5. ASSUME NEW r \in Repairer, NEW risk \in BOOLEAN, NEW assesses \in BOOLEAN,
             EnsureRead(r, risk, assesses) PROVE TypeOK'
    BY <1>5 DEF EnsureRead, TypeOK, RepairState, TriggerSnapshot, Trigger
<1>6. ASSUME NEW r \in Repairer, EnsureCommit(r) PROVE TypeOK'
    <2>1. /\ triggers' \in SUBSET Trigger /\ assessed' \in BOOLEAN
          /\ sess' = sess
          /\ repair' \in [Repairer -> RepairState]
        BY <1>6 DEF EnsureCommit, RepairState, TypeOK
    <2>2. CASE repair[r].found
        BY <1>6, <2>1, <2>2 DEF EnsureCommit, TypeOK
    <2>3. CASE ~repair[r].found
        <3>1. row.version = 0 /\ row' = OpenedRow /\ row'.version = 1
            BY Zenon, <1>6, <2>3 DEF EnsureCommit, Unconflicted, OpenedRow, AbsentRow
        <3>2. 1..0 \cup {1} = 1..1 /\ (0..0) \cup {1} = 0..1 /\ 1..1 = {1}
            OBVIOUS
        <3>3. hist' \in [0..row'.version -> Row]
            BY <1>6, <2>3, <3>1, <3>2 DEF EnsureCommit, Insert, TypeOK
        <3>4. PICK e : /\ events' = Insert(events, 1, e)
                       /\ e.type = "CASE_OPENED" /\ e.actor = SystemActor
                       /\ e.payload = [resolution |-> "NONE", reason |-> "NONE",
                                       triggers |-> TriggerSnapshot(repair[r].risk)]
            BY <1>6, <2>3 DEF EnsureCommit, Event
        <3>5. DOMAIN events' = {1} /\ events'[1] = e
            BY <3>1, <3>2, <3>4 DEF Insert, TypeOK
        <3>6. e.type \in EventType /\ e.actor \in Actor /\ e.payload \in Payload
            BY <3>4 DEF EventType, Actor, Payload, TriggerSnapshot, Trigger
        <3> QED BY <2>1, <3>1, <3>2, <3>3, <3>5, <3>6 DEF TypeOK
    <2> QED BY <2>2, <2>3
<1>7. ASSUME NEW r \in Repairer, EnsureAborted(r) PROVE TypeOK'
    BY <1>7 DEF EnsureAborted, TypeOK
<1>8. CASE UNCHANGED vars
    BY <1>8 DEF vars, TypeOK
<1>9. row \in Row /\ assessed \in BOOLEAN
    BY DEF TypeOK
<1> QED BY <1>1, <1>2, <1>3, <1>4, <1>5, <1>6, <1>7, <1>8, <1>9, StepCases

\* Every reachable state is well typed; the event numbers have no gap.
THEOREM TypeCorrect == Spec => []TypeOK
BY TypeInit, TypeStep, PTL DEF Spec

-----------------------------------------------------------------------------
(* The inductive invariant *)

IInv == /\ TypeOK
        /\ AuditReplays
        /\ ChainLinked
        /\ StateShape
        /\ VersionsIdentifyStates

\* Steps that leave the row, the events and the history alone, and give no
\* request anything newer than the row, preserve the invariant.
LEMMA QuietStep ==
    ASSUME IInv, TypeOK', UNCHANGED <<row, events, hist>>,
           VersionsIdentifyStates'
    PROVE  IInv'
BY Zenon DEF IInv, AuditReplays, ChainLinked, StateShape

\* _apply: the commit of a loaded request.
LEMMA ApplyPreserves ==
    ASSUME IInv, TypeOK', NEW s \in Session, ApplyOk(s)
    PROVE  /\ IInv'
           /\ sess[s].seen = row /\ sess[s].base = row
           /\ Legal(row, sess[s].tr)
           /\ row' = Written(s) /\ row'.version = row.version + 1
           /\ events'[row'.version].actor = sess[s].tr.actor
<1> DEFINE v == row.version
           t == sess[s].tr
           e == Event(v + 1, t.type, t.actor, t.payload, events[v].hash)
<1>1. /\ sess[s].base = row /\ sess[s].seen = row /\ Legal(row, t)
      /\ v \in Nat /\ row \in Row /\ v \in DOMAIN events /\ v + 1 \notin DOMAIN events
    <2>1. row \in Row /\ v \in Nat
        BY DEF IInv, TypeOK, Row
    <2>2. sess[s].pc = "loaded" /\ sess[s].base.version = v
        BY DEF ApplyOk, CanApply
    <2>3. v \in DOMAIN events /\ v + 1 \notin DOMAIN events
        BY DEF ApplyOk, CanApply
    <2>4. /\ sess[s].base = sess[s].seen /\ Legal(sess[s].base, t)
          /\ sess[s].seen.version = v => sess[s].seen = row
        BY <2>2 DEF IInv, VersionsIdentifyStates
    <2> QED BY <2>1, <2>2, <2>3, <2>4
<1>2. /\ row' = [status |-> t.status, assignee |-> t.assignee,
                 resolution |-> t.resolution, reason |-> t.reason, version |-> v + 1]
      /\ row' = Written(s)
      /\ events' = Insert(events, v + 1, e)
      /\ hist' = Insert(hist, v + 1, row')
      /\ sess' = [sess EXCEPT ![s] = IdleSession]
    <2>1. sess[s].base.version = v
        BY <1>1
    <2>2. Written(s) = [status |-> t.status, assignee |-> t.assignee,
                        resolution |-> t.resolution, reason |-> t.reason,
                        version |-> v + 1]
        BY <2>1 DEF Written
    <2> HIDE DEF t
    <2>3. /\ row' = Written(s)
          /\ hist' = Insert(hist, v + 1, Written(s))
          /\ sess' = [sess EXCEPT ![s] = IdleSession]
        BY <2>1 DEF ApplyOk
    <2>4. events' = Insert(events, v + 1, e)
        BY Zenon, <2>1 DEF ApplyOk, PreviousHash, t
    <2> QED BY <2>2, <2>3, <2>4 DEF t
<1>3. /\ e.type = t.type /\ e.actor = t.actor /\ e.payload = t.payload
      /\ e.prev = events[v].hash
      /\ e.hash = EventHash(v + 1, e.type, e.actor, e.payload, e.prev)
    BY Zenon DEF Event
<1>4. row'.version = v + 1 /\ v >= 1
    <2>1. DOMAIN events = 1..v
        BY DEF IInv, TypeOK
    <2>2. v >= 1
        BY SMTT(30), <1>1, <2>1
    <2> QED BY SMTT(30), <1>2, <2>2
<1> HIDE DEF e
<1>5. /\ \A n \in 1..v : events'[n] = events[n] /\ hist'[n] = hist[n]
      /\ hist'[0] = hist[0]
      /\ events'[v + 1] = e /\ hist'[v + 1] = row'
    <2>1. DOMAIN events = 1..v /\ DOMAIN hist = 0..v
        BY DEF IInv, TypeOK
    <2>2. \A n \in 1..v : n \in 0..v /\ n # v + 1
        BY <1>1
    <2>3. 0 \in 0..v /\ 0 # v + 1
        BY <1>1
    <2> QED BY Zenon, <1>2, <2>1, <2>2, <2>3 DEF Insert
<1>6. /\ ValidEvent(row, e) /\ row' = ApplyEvent(row, e)
    BY <1>1, <1>2, <1>3, EventMatchesRow
<1>7. AuditReplays'
    <2>1. /\ hist[0] = AbsentRow /\ hist[v] = row
          /\ \A n \in 1..v : ValidEvent(hist[n - 1], events[n])
                             /\ hist[n] = ApplyEvent(hist[n - 1], events[n])
        BY DEF IInv, AuditReplays
    <2>2. hist'[0] = AbsentRow /\ hist'[row'.version] = row'
        BY <1>4, <1>5, <2>1
    <2>3. ASSUME NEW n \in 1..(v + 1)
          PROVE  /\ ValidEvent(hist'[n - 1], events'[n])
                 /\ hist'[n] = ApplyEvent(hist'[n - 1], events'[n])
        <3>1. CASE n = v + 1
            <4>1. hist'[n - 1] = row /\ events'[n] = e /\ hist'[n] = row'
                BY <1>1, <1>4, <1>5, <2>1, <3>1
            <4> QED BY <1>6, <4>1
        <3>2. CASE n \in 1..v
            <4>1. hist'[n - 1] = hist[n - 1] /\ events'[n] = events[n] /\ hist'[n] = hist[n]
                BY <1>1, <1>5, <3>2
            <4> QED BY <2>1, <3>2, <4>1
        <3> QED BY <1>1, <3>1, <3>2
    <2> QED BY Zenon, <1>4, <2>2, <2>3 DEF AuditReplays, ValidEvent, ApplyEvent,
            AssignedClaim, Commentable, OpenedRow, AbsentRow
<1>8. ChainLinked'
    <2>1. ASSUME NEW n \in 1..(v + 1)
          PROVE  /\ events'[n].prev = (IF n = 1 THEN GenesisHash ELSE events'[n - 1].hash)
                 /\ events'[n].hash = EventHash(n, events'[n].type, events'[n].actor,
                                              events'[n].payload, events'[n].prev)
        <3>1. CASE n = v + 1
            <4>1. events'[n] = e /\ events'[n - 1] = events[v] /\ n # 1
                BY <1>1, <1>4, <1>5, <3>1
            <4> QED BY <1>3, <3>1, <4>1
        <3>2. CASE n \in 1..v
            <4>1. events'[n] = events[n] /\ (n # 1 => events'[n - 1] = events[n - 1])
                BY <1>1, <1>5, <3>2
            <4> QED BY <3>2, <4>1 DEF IInv, ChainLinked
        <3> QED BY <1>1, <3>1, <3>2
    <2> QED BY <1>4, <2>1 DEF ChainLinked, EventHash, GenesisHash
<1>9. StateShape'
    <2> PICK a \in Reviewer :
            \/ row.status = "OPEN" /\ t = claim(a)
            \/ AssignedClaim(row, a) /\ t = release(a, "x")
            \/ Commentable(row) /\ t = comment(row, a, "x")
            \/ AssignedClaim(row, a) /\ \E res \in Resolution : t = resolve(a, res, "x")
        BY <1>1 DEF Legal
    <2>1. CASE t = claim(a)
        BY <1>2, <2>1 DEF claim, StateShape
    <2>2. CASE t = release(a, "x")
        BY <1>2, <2>2 DEF release, StateShape
    <2>3. CASE Commentable(row) /\ t = comment(row, a, "x")
        BY <1>2, <2>3 DEF IInv, comment, Commentable, StateShape
    <2>4. CASE \E res \in Resolution : t = resolve(a, res, "x")
        BY <1>2, <2>4 DEF resolve, Strip, StateShape
    <2> QED BY <2>1, <2>2, <2>3, <2>4
<1>10. VersionsIdentifyStates'
    <2> SUFFICES ASSUME NEW q \in Session
                 PROVE  /\ sess'[q].pc # "idle" =>
                             /\ sess'[q].seen.version \in 1..row'.version
                             /\ sess'[q].seen.version = row'.version => sess'[q].seen = row'
                        /\ sess'[q].pc = "loaded" =>
                             /\ sess'[q].base = sess'[q].seen
                             /\ Legal(sess'[q].base, sess'[q].tr)
        BY ZenonT(60) DEF VersionsIdentifyStates, Legal, claim, release, comment, resolve,
               AssignedClaim, Commentable, Note, Strip
    <2>1. CASE q = s
        BY <1>2, <2>1 DEF IdleSession, IInv, TypeOK
    <2>2. CASE q # s
        <3>1. sess'[q] = sess[q]
            BY <1>2, <2>2 DEF IInv, TypeOK
        <3> QED BY SMTT(30), <1>1, <1>4, <3>1 DEF IInv, VersionsIdentifyStates
    <2> QED BY <2>1, <2>2
<1> QED BY Zenon, <1>1, <1>2, <1>3, <1>4, <1>5, <1>7, <1>8, <1>9, <1>10 DEF IInv

\* ensure_review_case: the commit of a repair job.
LEMMA EnsurePreserves ==
    ASSUME IInv, TypeOK', NEW r \in Repairer, EnsureCommit(r)
    PROVE  /\ IInv'
           /\ \/ UNCHANGED <<row, events>>
              \/ row = AbsentRow /\ row' = OpenedRow
<1>1. CASE repair[r].found
    <2>1. UNCHANGED <<row, events, hist, sess>>
        BY Zenon, <1>1 DEF EnsureCommit
    <2>2. VersionsIdentifyStates
        BY Zenon DEF IInv
    <2>3. VersionsIdentifyStates'
        BY Zenon, <2>1, <2>2 DEF VersionsIdentifyStates
    <2> QED BY Zenon, <2>1, <2>3, QuietStep
<1>2. CASE ~repair[r].found
    <2> DEFINE e == Event(1, "CASE_OPENED", SystemActor,
                          [resolution |-> "NONE", reason |-> "NONE",
                           triggers |-> TriggerSnapshot(repair[r].risk)], GenesisHash)
    <2>1. /\ row.version = 0 /\ row' = OpenedRow /\ sess' = sess
          /\ events' = Insert(events, 1, e) /\ hist' = Insert(hist, 1, OpenedRow)
        BY Zenon, <1>2 DEF EnsureCommit, Unconflicted
    <2>2. row = AbsentRow /\ hist[0] = AbsentRow
        BY <2>1 DEF IInv, AuditReplays
    <2>3. OpenedRow.version = 1 /\ row'.version = 1
        BY <2>1 DEF OpenedRow, AbsentRow
    <2>4. /\ e.type = "CASE_OPENED" /\ e.actor = SystemActor /\ e.prev = GenesisHash
          /\ e.hash = EventHash(1, e.type, e.actor, e.payload, e.prev)
        BY DEF Event
    <2> HIDE DEF e
    <2>5. events'[1] = e /\ hist'[1] = OpenedRow /\ hist'[0] = AbsentRow
        BY <2>1, <2>2 DEF Insert, IInv, TypeOK
    <2>6. ValidEvent(AbsentRow, e) /\ ApplyEvent(AbsentRow, e) = OpenedRow
        <3>1. AbsentRow.version = 0
            BY DEF AbsentRow
        <3>2. ValidEvent(AbsentRow, e)
            BY <2>4, <3>1 DEF ValidEvent
        <3>3. ApplyEvent(AbsentRow, e) = [OpenedRow EXCEPT !.version = 1]
            BY <2>4, <3>1 DEF ApplyEvent
        <3>4. [OpenedRow EXCEPT !.version = 1] = OpenedRow
            BY <2>3, Constants DEF Row
        <3> QED BY <3>2, <3>3, <3>4
    <2>7. AuditReplays'
        <3>1. \A n \in 1..1 : n = 1 /\ n - 1 = 0
            OBVIOUS
        <3>2. \A n \in 1..1 : /\ ValidEvent(hist'[n - 1], events'[n])
                              /\ hist'[n] = ApplyEvent(hist'[n - 1], events'[n])
            BY <2>5, <2>6, <3>1
        <3> QED BY ZenonT(60), <2>1, <2>3, <2>5, <3>2 DEF AuditReplays, ValidEvent, ApplyEvent,
                AssignedClaim, Commentable, OpenedRow, AbsentRow
    <2>8. ChainLinked'
        <3>1. \A n \in 1..1 : n = 1
            OBVIOUS
        <3> QED BY <2>3, <2>4, <2>5, <3>1 DEF ChainLinked, EventHash, GenesisHash
    <2>9. StateShape'
        BY <2>1 DEF StateShape, OpenedRow, AbsentRow
    <2>10. VersionsIdentifyStates'
        <3>1. \A q \in Session : sess[q].pc = "idle"
            BY <2>1 DEF IInv, VersionsIdentifyStates, TypeOK, RequestState
        <3> QED BY Zenon, <2>1, <3>1 DEF VersionsIdentifyStates
    <2> QED BY Zenon, <2>1, <2>2, <2>7, <2>8, <2>9, <2>10 DEF IInv
<1> QED BY SMTT(30), <1>1, <1>2

\* The invariant holds before the case is opened.
LEMMA InitIInv == Init => IInv
<1> SUFFICES ASSUME Init PROVE IInv
    OBVIOUS
<1>1. row.version = 0 /\ 1..0 = {} /\ hist[0] = AbsentRow
    BY DEF Init, AbsentRow
<1>2. TypeOK
    BY TypeInit
<1>3. VersionsIdentifyStates
    BY DEF Init, IdleSession, VersionsIdentifyStates
<1>4. StateShape
    BY DEF Init, StateShape, AbsentRow
<1>5. AuditReplays /\ ChainLinked
    BY Zenon, <1>1 DEF Init, AuditReplays, ChainLinked
<1> QED BY <1>2, <1>3, <1>4, <1>5 DEF IInv

\* Every step preserves the invariant, one case per kind of step.
LEMMA StepIInv == IInv /\ [Next]_vars => IInv'
<1> SUFFICES ASSUME IInv, [Next]_vars PROVE IInv'
    OBVIOUS
<1>1. TypeOK' /\ row \in Row /\ assessed \in BOOLEAN
    BY TypeStep DEF IInv, TypeOK
<1>2. ASSUME NEW s \in Session, View(s) PROVE IInv'
    <2>1. /\ UNCHANGED <<row, events, hist>>
          /\ \A q \in Session : q # s => sess'[q] = sess[q]
          /\ sess'[s].pc = "viewing" /\ sess'[s].seen = row
        BY <1>2 DEF View, IInv, TypeOK, RequestState
    <2>2. row.version \in 1..row.version
        BY <1>1, <1>2 DEF View, Row
    <2>3. VersionsIdentifyStates'
        BY Zenon, <2>1, <2>2 DEF IInv, VersionsIdentifyStates
    <2> QED BY <1>1, <2>1, <2>3, QuietStep
<1>3. ASSUME NEW s \in Session, NEW t \in Transition, Legal(row, t), Load(s, t)
      PROVE  IInv'
    <2>1. /\ UNCHANGED <<row, events, hist>>
          /\ \A q \in Session : q # s => sess'[q] = sess[q]
          /\ sess'[s].pc = "loaded" /\ sess'[s].seen = sess[s].seen
          /\ sess'[s].base = row /\ sess'[s].tr = t
        BY <1>3 DEF Load, IInv, TypeOK, RequestState
    <2>2. sess[s].seen = row /\ row.version \in 1..row.version
        BY <1>3 DEF Load, ExpectedVersion, IInv, VersionsIdentifyStates
    <2>3. VersionsIdentifyStates'
        BY <1>3, <2>1, <2>2 DEF IInv, VersionsIdentifyStates
    <2> QED BY <1>1, <2>1, <2>3, QuietStep
<1>4. ASSUME NEW s \in Session, ApplyRejected(s) PROVE IInv'
    <2>1. /\ UNCHANGED <<row, events, hist>>
          /\ \A q \in Session : q # s => sess'[q] = sess[q]
          /\ sess'[s].pc = "idle"
        BY Zenon, <1>4 DEF ApplyRejected, IdleSession, IInv, TypeOK
    <2>2. VersionsIdentifyStates'
        BY Zenon, <2>1 DEF IInv, VersionsIdentifyStates
    <2> QED BY <1>1, <2>1, <2>2, QuietStep
<1>5. ASSUME UNCHANGED <<row, events, hist, sess>> PROVE IInv'
    BY <1>1, <1>5, QuietStep DEF IInv, VersionsIdentifyStates
<1>6. ASSUME NEW r \in Repairer, NEW risk \in BOOLEAN, NEW assesses \in BOOLEAN,
             EnsureRead(r, risk, assesses)
      PROVE  IInv'
    BY <1>5, <1>6 DEF EnsureRead
<1>7. ASSUME NEW r \in Repairer, EnsureAborted(r) PROVE IInv'
    BY <1>5, <1>7 DEF EnsureAborted
<1>8. CASE UNCHANGED vars
    BY Zenon, <1>5, <1>8 DEF vars
<1> QED BY <1>1, <1>2, <1>3, <1>4, <1>6, <1>7, <1>8, StepCases, ApplyPreserves,
           EnsurePreserves

\* What a step can do to the row: nothing, open it, or commit one legal
\* transition t to exactly the row t was computed from.
LEMMA RowSteps ==
    ASSUME IInv, [Next]_vars
    PROVE  \/ UNCHANGED <<row, events>>
           \/ row = AbsentRow /\ row' = OpenedRow
           \/ \E t \in Transition :
                 /\ Legal(row, t)
                 /\ row' = [status |-> t.status, assignee |-> t.assignee,
                            resolution |-> t.resolution, reason |-> t.reason,
                            version |-> row.version + 1]
                 /\ events'[row'.version].actor = t.actor
<1>1. TypeOK' /\ row \in Row /\ assessed \in BOOLEAN
    BY TypeStep DEF IInv, TypeOK
<1>2. ASSUME NEW s \in Session, ApplyOk(s)
      PROVE  \E t \in Transition :
                 /\ Legal(row, t)
                 /\ row' = [status |-> t.status, assignee |-> t.assignee,
                            resolution |-> t.resolution, reason |-> t.reason,
                            version |-> row.version + 1]
                 /\ events'[row'.version].actor = t.actor
    <2>1. /\ Legal(row, sess[s].tr) /\ row' = Written(s) /\ sess[s].base = row
          /\ events'[row'.version].actor = sess[s].tr.actor
        BY <1>1, <1>2, ApplyPreserves
    <2>2. sess[s].tr \in Transition
        BY <1>1, <2>1, LegalIsTransition
    <2> QED BY Zenon, <2>1, <2>2 DEF Written
<1>3. ASSUME NEW s \in Session, View(s) PROVE UNCHANGED <<row, events>>
    BY <1>3 DEF View
<1>4. ASSUME NEW s \in Session, NEW t \in Transition, Load(s, t)
      PROVE UNCHANGED <<row, events>>
    BY <1>4 DEF Load
<1>5. ASSUME NEW s \in Session, ApplyRejected(s) PROVE UNCHANGED <<row, events>>
    BY <1>5 DEF ApplyRejected
<1>6. ASSUME NEW r \in Repairer, NEW risk \in BOOLEAN, NEW assesses \in BOOLEAN,
             EnsureRead(r, risk, assesses)
      PROVE  UNCHANGED <<row, events>>
    BY <1>6 DEF EnsureRead
<1>7. ASSUME NEW r \in Repairer, EnsureAborted(r) PROVE UNCHANGED <<row, events>>
    BY Zenon, <1>7 DEF EnsureAborted
<1>8. CASE UNCHANGED vars
    BY <1>8 DEF vars
<1> QED BY Zenon, <1>1, <1>2, <1>3, <1>4, <1>5, <1>6, <1>7, <1>8, StepCases, EnsurePreserves

-----------------------------------------------------------------------------
(* The theorems *)

\* Replaying the event history always rebuilds the row, its hash chain is
\* intact, and the row has the shape its status demands.
THEOREM AuditSound == Spec => []AuditIntact
<1>1. IInv => AuditIntact
    BY DEF IInv, AuditIntact
<1> QED BY <1>1, InitIInv, StepIInv, PTL DEF Spec

\* Comparing version numbers compares states, for every request in flight.
THEOREM VersionsSound == Spec => []VersionsIdentifyStates
<1>1. IInv => VersionsIdentifyStates
    BY DEF IInv
<1> QED BY <1>1, InitIInv, StepIInv, PTL DEF Spec

\* A committed decision was taken on the state that it replaces.
THEOREM NoLostUpdate == Spec => AppliedToWhatWasSeen
<1>1. IInv /\ [Next]_vars => [\A s \in Session : ApplyOk(s) => sess[s].seen = row]_vars
    BY DEF IInv, ApplyOk, CanApply, VersionsIdentifyStates
<1> QED BY <1>1, InitIInv, StepIInv, PTL DEF Spec, AppliedToWhatWasSeen

\* A resolved case never changes again.
THEOREM ResolutionFinal == Spec => ResolvedIsFinal
<1>1. ASSUME IInv, [Next]_vars, row.status = "RESOLVED"
      PROVE  UNCHANGED <<row, events>>
    <2>1. row # AbsentRow
        BY <1>1 DEF AbsentRow
    <2>2. \A t \in Transition : ~Legal(row, t)
        BY <1>1 DEF Legal, AssignedClaim, Commentable
    <2> QED BY <1>1, <2>1, <2>2, RowSteps
<1>2. IInv /\ [Next]_vars => [row.status = "RESOLVED" => UNCHANGED <<row, events>>]_vars
    BY <1>1
<1> QED BY <1>2, InitIInv, StepIInv, PTL DEF Spec, ResolvedIsFinal

\* Only the reviewer who holds a case releases or resolves it.
THEOREM OwnershipKept == Spec => OnlyOwnerEndsClaim
<1> DEFINE Ends == row.status = "CLAIMED" /\ (row'.status # "CLAIMED"
                                               \/ row'.assignee # row.assignee)
           ByOwner == events'[row'.version].actor = row.assignee
<1>1. ASSUME IInv, [Next]_vars, Ends PROVE ByOwner
    <2>1. row # AbsentRow /\ ~UNCHANGED <<row, events>>
        BY <1>1 DEF AbsentRow
    <2>2. PICK t \in Transition :
                 /\ Legal(row, t)
                 /\ row' = [status |-> t.status, assignee |-> t.assignee,
                            resolution |-> t.resolution, reason |-> t.reason,
                            version |-> row.version + 1]
                 /\ events'[row'.version].actor = t.actor
        BY Zenon, <1>1, <2>1, RowSteps
    <2>3. PICK a \in Reviewer :
            \/ row.status = "OPEN" /\ t = claim(a)
            \/ AssignedClaim(row, a) /\ t = release(a, "x")
            \/ Commentable(row) /\ t = comment(row, a, "x")
            \/ AssignedClaim(row, a) /\ \E res \in Resolution : t = resolve(a, res, "x")
        BY Zenon, <2>2 DEF Legal
    <2>4. CASE AssignedClaim(row, a) /\ t.actor = a
        BY Zenon, <2>2, <2>4 DEF AssignedClaim
    <2>5. CASE t = comment(row, a, "x")
        BY <1>1, <2>2, <2>5 DEF comment
    <2> QED BY <1>1, <2>3, <2>4, <2>5 DEF release, resolve
<1>2. IInv /\ [Next]_vars => [Ends => ByOwner]_vars
    BY <1>1
<1> QED BY <1>2, InitIInv, StepIInv, PTL DEF Spec, OnlyOwnerEndsClaim

\* Committed events stay as they are: both inserts use the next free number.
THEOREM EventsKept == Spec => HistoryAppendOnly
<1> DEFINE Kept == \A n \in DOMAIN events : n \in DOMAIN events' /\ events'[n] = events[n]
<1>1. ASSUME IInv, [Next]_vars PROVE Kept
    <2>1. TypeOK' /\ row \in Row /\ assessed \in BOOLEAN
        BY Zenon, <1>1, TypeStep DEF IInv, TypeOK
    <2>2. DOMAIN events = 1..row.version /\ row.version \in Nat
        BY Zenon, <1>1, <2>1 DEF IInv, TypeOK, Row
    <2>3. ASSUME NEW s \in Session, ApplyOk(s) PROVE Kept
        <3>1. sess[s].base = row
            BY <1>1, <2>1, <2>3, ApplyPreserves
        <3> QED BY <2>2, <2>3, <3>1 DEF ApplyOk, Insert
    <2>4. ASSUME NEW r \in Repairer, EnsureCommit(r) PROVE Kept
        <3>1. UNCHANGED events \/ row = AbsentRow
            BY Zenon, <1>1, <2>1, <2>4, EnsurePreserves
        <3>2. CASE row = AbsentRow
            BY <2>2, <3>2 DEF AbsentRow
        <3> QED BY <3>1, <3>2
    <2>5. CASE UNCHANGED events
        BY <2>5
    <2>6. \/ UNCHANGED events
          \/ \E s \in Session : ApplyOk(s)
          \/ \E r \in Repairer : EnsureCommit(r)
        BY Zenon, <1>1, <2>1, StepCases DEF View, Load, ApplyRejected, EnsureRead, EnsureAborted, vars
    <2> QED BY Zenon, <2>3, <2>4, <2>5, <2>6
<1>2. IInv /\ [Next]_vars => [Kept]_vars
    BY <1>1
<1> QED BY <1>2, InitIInv, StepIInv, PTL DEF Spec, HistoryAppendOnly

\* Every committed command is decided on the row it changes, by someone entitled
\* to it, before the resolution, and leaves the earlier events alone.
THEOREM CommandsKeptSound == Spec => CommandsSound
BY NoLostUpdate, ResolutionFinal, OwnershipKept, EventsKept DEF CommandsSound

\* The service implements the atomic review workflow.
THEOREM ImplementsWorkflow == Spec => WorkflowSpec
<1>1. Init => Workflow!Init
    BY Zenon DEF Init, Workflow!Init, AbsentRow, Workflow!Absent
<1>2. ASSUME IInv, [Next]_vars PROVE [Workflow!Next]_row
    <2> USE DEF Workflow!Next
    <2>1. CASE UNCHANGED <<row, events>>
        BY <2>1
    <2>2. CASE row = AbsentRow /\ row' = OpenedRow
        BY ZenonT(60), <2>2 DEF Workflow!Open, Workflow!Absent, Workflow!OpenAt, AbsentRow, OpenedRow
    <2>3. ASSUME NEW t \in Transition, Legal(row, t),
                 row' = [status |-> t.status, assignee |-> t.assignee,
                         resolution |-> t.resolution, reason |-> t.reason,
                         version |-> row.version + 1]
          PROVE  Workflow!Next
        <3>1. row \in Row /\ StateShape
            BY Zenon, <1>2 DEF IInv, TypeOK
        <3> PICK a \in Reviewer :
                \/ row.status = "OPEN" /\ t = claim(a)
                \/ AssignedClaim(row, a) /\ t = release(a, "x")
                \/ Commentable(row) /\ t = comment(row, a, "x")
                \/ AssignedClaim(row, a) /\ \E res \in Resolution : t = resolve(a, res, "x")
            BY <2>3 DEF Legal
        <3>2. CASE row.status = "OPEN" /\ t = claim(a)
            <4>1. Workflow!Claim(a)
                <5>1. /\ t.status = "CLAIMED" /\ t.assignee = a
                      /\ t.resolution = "NONE" /\ t.reason = "NONE"
                    BY <3>2 DEF claim
                <5> QED BY Zenon, <2>3, <3>2, <5>1 DEF Workflow!Claim
            <4> QED BY Zenon, <4>1
        <3>3. CASE AssignedClaim(row, a) /\ t = release(a, "x")
            <4>1. Workflow!Release(a)
                <5>1. /\ t.status = "OPEN" /\ t.assignee = NoReviewer
                      /\ t.resolution = "NONE" /\ t.reason = "NONE"
                    BY Zenon, <3>3 DEF release
                <5>2. row' = Workflow!OpenAt(row.version + 1)
                    BY <2>3, <5>1 DEF Workflow!OpenAt
                <5> QED BY Zenon, <3>3, <5>2 DEF AssignedClaim, Workflow!Release, Workflow!HeldBy
            <4> QED BY Zenon, <4>1
        <3>4. CASE Commentable(row) /\ t = comment(row, a, "x")
            <4>1. Workflow!Comment
                <5>1. /\ t.status = row.status /\ t.assignee = row.assignee
                      /\ t.resolution = row.resolution /\ t.reason = row.reason
                    BY <3>4 DEF comment
                <5>2. row' = [row EXCEPT !.version = row.version + 1]
                    BY <2>3, <3>1, <5>1 DEF Row
                <5> QED BY Zenon, <3>4, <5>2 DEF Commentable, Workflow!Comment
            <4> QED BY <4>1
        <3>5. CASE AssignedClaim(row, a) /\ \E res \in Resolution : t = resolve(a, res, "x")
            <4>1. PICK res \in Resolution : t = resolve(a, res, "x")
                BY Zenon, <3>5
            <4>2. Workflow!Resolve(a, res)
                BY <2>3, <3>5, <4>1 DEF resolve, Strip, AssignedClaim, Workflow!Resolve,
                   Workflow!HeldBy
            <4> QED BY <4>2
        <3> QED BY <3>2, <3>3, <3>4, <3>5
    <2> QED BY <1>2, <2>1, <2>2, <2>3, RowSteps
<1>3. IInv /\ [Next]_vars => [Workflow!Next]_row
    BY <1>2
<1> QED BY <1>1, <1>3, InitIInv, StepIInv, PTL DEF Spec, WorkflowSpec, Workflow!Spec

-----------------------------------------------------------------------------
(* The triggers of an open case *)

\* What a repair job in flight knows: the triggers it is going to add are all
\* that the table lacks of its snapshot, an assessment it inserts is in that
\* snapshot, a case it found is there.  And nothing is assessed before the case
\* is open: DuplicateRiskService.reconcile commits the two together.
TriggersKnown ==
    /\ row.version = 0 => ~assessed
    /\ \A r \in Repairer : repair[r].pc = "read" =>
          /\ TriggerSnapshot(repair[r].risk) \ triggers \subseteq repair[r].missing
          /\ repair[r].assesses => repair[r].risk
          /\ repair[r].found => row.version # 0

\* Requests leave everything the triggers depend on alone, except that _apply
\* adds an event after the first and raises the version.
LEMMA RequestsKeepTriggers ==
    ASSUME IInv, TypeOK', NEW s \in Session, Request(s)
    PROVE  /\ UNCHANGED <<triggers, assessed, repair>>
           /\ row'.version > 0 => row.version > 0 /\ events'[1] = events[1]
           /\ row.version # 0 => row'.version # 0
<1>1. row.version \in Nat /\ row'.version \in Nat
    BY Zenon DEF IInv, TypeOK, Row
<1>2. CASE ApplyOk(s)
    <2>1. /\ sess[s].base = row /\ row.version \in DOMAIN events
          /\ row'.version = row.version + 1
        BY Zenon, <1>2, ApplyPreserves DEF ApplyOk, CanApply
    <2>2. row.version \in 1..row.version
        BY Zenon, <2>1 DEF IInv, TypeOK
    <2>3. 1 \in DOMAIN events /\ 1 # row.version + 1
        <3>1. 1 \in 1..row.version /\ 1 # row.version + 1
            BY <1>1, <2>2
        <3> QED BY Zenon, <3>1 DEF IInv, TypeOK
    <2>4. PICK e : events' = Insert(events, row.version + 1, e)
        BY <1>2, <2>1 DEF ApplyOk
    <2>5. events'[1] = events[1]
        BY Zenon, <2>3, <2>4 DEF Insert
    <2> QED BY <1>1, <1>2, <2>1, <2>2, <2>5 DEF ApplyOk
<1>3. CASE ~ApplyOk(s)
    BY <1>3 DEF Request, View, Claim, Release, Comment, Resolve, Load, ApplyRejected
<1> QED BY Zenon, <1>2, <1>3

\* A repair job's read tells it the truth.
LEMMA ReadKnowsTriggers ==
    ASSUME TypeOK, TypeOK', TriggersKnown, TriggersComplete, NEW r \in Repairer,
           NEW risk \in BOOLEAN, NEW assesses \in BOOLEAN, assesses => risk,
           EnsureRead(r, risk, assesses)
    PROVE  TriggersKnown' /\ TriggersComplete'
<1> DEFINE new == [pc |-> "read", risk |-> risk, assesses |-> assesses,
                   found |-> row.version > 0,
                   missing |-> TriggerSnapshot(risk) \ triggers]
<1>1. /\ repair' = [repair EXCEPT ![r] = new]
      /\ UNCHANGED <<row, events, triggers, assessed>>
    BY DEF EnsureRead
<1>2. /\ new.risk = risk /\ new.assesses = assesses
      /\ new.missing = TriggerSnapshot(risk) \ triggers
      /\ new.found = (row.version > 0)
    BY Zenon
<1>3. row.version > 0 => row.version # 0
    BY DEF TypeOK, Row
<1> HIDE DEF new
<1>4. \A q \in Repairer : repair'[q] = IF q = r THEN new ELSE repair[q]
    BY <1>1 DEF TypeOK
<1>5. ASSUME NEW q \in Repairer, repair'[q].pc = "read"
      PROVE  /\ TriggerSnapshot(repair'[q].risk) \ triggers \subseteq repair'[q].missing
             /\ repair'[q].assesses => repair'[q].risk
             /\ repair'[q].found => row.version # 0
    <2>1. CASE q = r
        BY Zenon, <1>2, <1>3, <1>4, <2>1
    <2>2. CASE q # r
        BY Zenon, <1>4, <1>5, <2>2 DEF TriggersKnown
    <2> QED BY Zenon, <2>1, <2>2
<1>6. TriggersKnown'
    BY Zenon, <1>1, <1>5 DEF TriggersKnown, TriggerSnapshot
<1> QED BY Zenon, <1>1, <1>6 DEF TriggersComplete

\* A repair job's commit completes the triggers.
LEMMA CommitCompletesTriggers ==
    ASSUME TypeOK, TypeOK', TriggersKnown, TriggersComplete, NEW r \in Repairer,
           EnsureCommit(r)
    PROVE  TriggersKnown' /\ TriggersComplete'
<1> DEFINE snapshot == TriggerSnapshot(repair[r].risk)
<1>1. /\ repair[r].pc = "read"
      /\ triggers' = triggers \cup repair[r].missing
      /\ repair' = [repair EXCEPT ![r] = IdleRepair]
      /\ assessed' = (assessed \/ repair[r].assesses)
    BY Zenon DEF EnsureCommit
<1>2. snapshot \subseteq triggers' /\ triggers \subseteq triggers'
    BY <1>1 DEF TriggersKnown
<1>3. MatchCodes \subseteq snapshot /\ (repair[r].risk => RiskCodes \subseteq snapshot)
    BY Zenon DEF TriggerSnapshot
<1>4. row'.version # 0 /\ (row.version # 0 => row' = row /\ events' = events)
    <2>1. CASE repair[r].found
        BY Zenon, <1>1, <2>1 DEF EnsureCommit, TriggersKnown
    <2>2. CASE ~repair[r].found
        <3>1. row.version = 0 /\ row' = OpenedRow
            BY Zenon, <2>2 DEF EnsureCommit, Unconflicted
        <3> QED BY <3>1 DEF OpenedRow, AbsentRow
    <2> QED BY Zenon, <2>1, <2>2
<1>5. events'[1].payload.triggers \subseteq triggers'
    <2>1. CASE repair[r].found
        <3>1. row.version # 0 /\ events' = events
            BY Zenon, <1>1, <1>4, <2>1 DEF TriggersKnown
        <3>2. row.version > 0
            BY <3>1 DEF TypeOK, Row
        <3> QED BY Zenon, <1>2, <3>1, <3>2 DEF TriggersComplete
    <2>2. CASE ~repair[r].found
        <3> DEFINE e == Event(1, "CASE_OPENED", SystemActor,
                              [resolution |-> "NONE", reason |-> "NONE",
                               triggers |-> snapshot], GenesisHash)
        <3>1. events' = Insert(events, 1, e)
            BY Zenon, <2>2 DEF EnsureCommit
        <3>2. e.payload.triggers = snapshot
            BY Zenon DEF Event
        <3> HIDE DEF e
        <3>3. events'[1] = e
            BY <3>1 DEF Insert
        <3> QED BY Zenon, <1>2, <3>2, <3>3
    <2> QED BY Zenon, <2>1, <2>2
<1>6. assessed' => RiskCodes \subseteq triggers'
    <2>1. CASE assessed
        <3>1. row.version # 0
            BY Zenon, <2>1 DEF TriggersKnown
        <3>2. row.version > 0
            BY <3>1 DEF TypeOK, Row
        <3> QED BY Zenon, <1>2, <2>1, <3>2 DEF TriggersComplete
    <2>2. CASE repair[r].assesses
        BY Zenon, <1>1, <1>2, <1>3, <2>2 DEF TriggersKnown
    <2> QED BY Zenon, <1>1, <2>1, <2>2
<1>7. TriggersKnown'
    <2>1. \A q \in Repairer : repair'[q] = IF q = r THEN IdleRepair ELSE repair[q]
        BY <1>1 DEF TypeOK
    <2>2. IdleRepair.pc # "read"
        BY DEF IdleRepair
    <2>3. ASSUME NEW q \in Repairer, repair'[q].pc = "read"
          PROVE  /\ TriggerSnapshot(repair'[q].risk) \ triggers' \subseteq repair'[q].missing
                 /\ repair'[q].assesses => repair'[q].risk
        BY Zenon, <1>2, <2>1, <2>2, <2>3 DEF TriggersKnown
    <2> QED BY Zenon, <1>4, <2>3 DEF TriggersKnown, TriggerSnapshot
<1> QED BY Zenon, <1>2, <1>3, <1>5, <1>6, <1>7 DEF TriggersComplete

\* Every step keeps the triggers complete.
LEMMA TriggersStep ==
    ASSUME IInv, TypeOK', TriggersKnown, TriggersComplete, [Next]_vars
    PROVE  TriggersKnown' /\ TriggersComplete'
<1>0. TypeOK
    BY DEF IInv
<1>1. ASSUME NEW s \in Session, Request(s) PROVE TriggersKnown' /\ TriggersComplete'
    <2>1. /\ UNCHANGED <<triggers, assessed, repair>>
          /\ row'.version > 0 => row.version > 0 /\ events'[1] = events[1]
          /\ row.version # 0 => row'.version # 0
        BY <1>1, RequestsKeepTriggers
    <2> QED BY Zenon, <2>1 DEF TriggersKnown, TriggersComplete, TriggerSnapshot
<1>2. ASSUME NEW r \in Repairer, Repair(r) PROVE TriggersKnown' /\ TriggersComplete'
    <2>1. CASE ReviewReconcile(r)
        BY Zenon, <1>0, <2>1, ReadKnowsTriggers DEF ReviewReconcile, TypeOK
    <2>2. CASE RiskReconcile(r)
        BY Zenon, <1>0, <2>2, ReadKnowsTriggers DEF RiskReconcile
    <2>3. CASE EnsureCommit(r)
        BY <1>0, <2>3, CommitCompletesTriggers
    <2>4. CASE EnsureAborted(r)
        <3>1. \A q \in Repairer : repair'[q] = IF q = r THEN IdleRepair ELSE repair[q]
            BY <1>0, <2>4 DEF EnsureAborted, TypeOK
        <3>2. IdleRepair.pc # "read"
            BY DEF IdleRepair
        <3> QED BY Zenon, <2>4, <3>1, <3>2 DEF EnsureAborted, TriggersKnown,
                   TriggersComplete, TriggerSnapshot
    <2> QED BY Zenon, <1>2, <2>1, <2>2, <2>3, <2>4 DEF Repair
<1>3. CASE UNCHANGED vars
    BY Zenon, <1>3 DEF vars, TriggersKnown, TriggersComplete, TriggerSnapshot
<1> QED BY <1>1, <1>2, <1>3 DEF Next

\* An open case shows every reason it is there.
THEOREM TriggersShown == Spec => []TriggersComplete
<1>1. Init => TriggersKnown /\ TriggersComplete
    BY DEF Init, AbsentRow, IdleRepair, TriggersKnown, TriggersComplete
<1>2. IInv /\ IInv' /\ TriggersKnown /\ TriggersComplete /\ [Next]_vars
        => TriggersKnown' /\ TriggersComplete'
    BY TriggersStep DEF IInv
<1> QED BY <1>1, <1>2, InitIInv, StepIInv, PTL DEF Spec

-----------------------------------------------------------------------------
(* The audit *)

\* A set of natural numbers that is not empty has a least element.
LEMMA Least ==
    ASSUME NEW T \in SUBSET Nat, T # {}
    PROVE  \E x \in T : \A y \in T : x <= y
<1>1. PICK x \in T : \A y \in T : ~(<<y, x>> \in OpToRel(<, Nat))
    BY WFMin, NatLessThanWellFounded, Zenon
<1>2. ASSUME NEW y \in T PROVE x <= y
    <2>1. x \in Nat /\ y \in Nat
        OBVIOUS
    <2>2. y < x => <<y, x>> \in OpToRel(<, Nat)
        BY <2>1 DEF OpToRel
    <2>3. ~(y < x)
        BY Zenon, <1>1, <2>2
    <2> QED BY <2>1, <2>3
<1> QED BY <1>2

\* The replay of the first k events of evs.
IsReplay(evs, k, g) ==
    g = [i \in 0..k |-> IF i = 0 THEN AbsentRow ELSE Reconstruct(g[i - 1], evs[i])]

\* The states of a replay, one by one.
Steps(evs, k, g) ==
    /\ DOMAIN g = 0..k /\ g[0] = AbsentRow
    /\ \A i \in 1..k : g[i] = Reconstruct(g[i - 1], evs[i])

\* A replay has these states.
LEMMA ReplayAt ==
    ASSUME NEW evs, NEW k \in Nat, NEW g, IsReplay(evs, k, g)
    PROVE  Steps(evs, k, g)
<1>1. g = [i \in 0..k |-> IF i = 0 THEN AbsentRow ELSE Reconstruct(g[i - 1], evs[i])]
    BY Zenon DEF IsReplay
<1>2. \A i \in 0..k : g[i] = IF i = 0 THEN AbsentRow ELSE Reconstruct(g[i - 1], evs[i])
    BY Zenon, <1>1
<1>3. 0 \in 0..k /\ \A i \in 1..k : i \in 0..k /\ i # 0
    OBVIOUS
<1> QED BY Zenon, <1>1, <1>2, <1>3 DEF Steps

\* A replay can be carried on by one event.
LEMMA ReplayGrows ==
    ASSUME NEW evs, NEW k \in Nat, NEW g, IsReplay(evs, k, g)
    PROVE  \E h : IsReplay(evs, k + 1, h)
<1> DEFINE h == [i \in 0..(k + 1) |->
                   IF i <= k THEN g[i] ELSE Reconstruct(g[k], evs[k + 1])]
<1>1. /\ DOMAIN g = 0..k /\ g[0] = AbsentRow
      /\ \A i \in 1..k : g[i] = Reconstruct(g[i - 1], evs[i])
    BY ZenonT(60), ReplayAt DEF Steps
<1>2. \A i \in 0..k : h[i] = g[i]
    OBVIOUS
<1>3. h[k + 1] = Reconstruct(g[k], evs[k + 1])
    OBVIOUS
<1>4. DOMAIN h = 0..(k + 1) /\ h = [i \in 0..(k + 1) |-> h[i]]
    BY Zenon
<1> HIDE DEF h
<1>5. ASSUME NEW i \in 0..(k + 1)
      PROVE  h[i] = IF i = 0 THEN AbsentRow ELSE Reconstruct(h[i - 1], evs[i])
    <2>1. CASE i = 0
        <3>1. h[0] = g[0]
            BY <1>2
        <3> QED BY Zenon, <2>1, <3>1, <1>1
    <2>2. CASE i \in 1..k
        <3>1. i # 0 /\ h[i] = g[i] /\ h[i - 1] = g[i - 1]
            BY <2>2, <1>2
        <3> QED BY Zenon, <2>2, <3>1, <1>1
    <2>3. CASE i = k + 1
        <3>1. i # 0 /\ i - 1 = k /\ h[k] = g[k]
            BY <2>3, <1>2
        <3> QED BY Zenon, <2>3, <3>1, <1>3
    <2> QED BY <2>1, <2>2, <2>3
<1>6. IsReplay(evs, k + 1, h)
    BY Zenon, <1>4, <1>5 DEF IsReplay
<1> QED BY Zenon, <1>6

\* Every number of events can be replayed.
LEMMA ReplayExists ==
    ASSUME NEW evs
    PROVE  \A k \in Nat : \E g : IsReplay(evs, k, g)
<1> DEFINE T == {k \in Nat : ~ \E g : IsReplay(evs, k, g)}
<1> SUFFICES ASSUME T # {} PROVE FALSE
    BY Zenon
<1>1. PICK k \in T : \A j \in T : k <= j
    BY Zenon, Least
<1>2. k # 0
    <2>1. PICK g : g = [i \in 0..0 |-> AbsentRow]
        BY Zenon
    <2>2. \A i \in 0..0 : i = 0
        OBVIOUS
    <2>3. IsReplay(evs, 0, g)
        BY Zenon, <2>1, <2>2 DEF IsReplay
    <2> QED BY Zenon, <2>3
<1>3. PICK j \in Nat : k = j + 1
    <2>1. k - 1 \in Nat /\ k = (k - 1) + 1
        BY <1>2
    <2> QED BY Zenon, <2>1
<1>4. j \notin T
    BY <1>1, <1>3
<1>5. PICK g : IsReplay(evs, j, g)
    BY Zenon, <1>4
<1> QED BY Zenon, <1>3, <1>5, ReplayGrows

\* Two replays agree as far as both go.
LEMMA ReplayUnique ==
    ASSUME NEW evs, NEW k \in Nat, NEW m \in Nat, k <= m,
           NEW g, IsReplay(evs, k, g), NEW h, IsReplay(evs, m, h)
    PROVE  \A i \in 0..k : g[i] = h[i]
<1> DEFINE T == {i \in 0..k : g[i] # h[i]}
<1> SUFFICES ASSUME T # {} PROVE FALSE
    BY Zenon
<1>0. T \in SUBSET Nat
    OBVIOUS
<1>1. PICK i \in T : \A j \in T : i <= j
    BY Zenon, <1>0, Least
<1>2. /\ g[0] = AbsentRow /\ \A n \in 1..k : g[n] = Reconstruct(g[n - 1], evs[n])
      /\ h[0] = AbsentRow /\ \A n \in 1..m : h[n] = Reconstruct(h[n - 1], evs[n])
    <2>1. Steps(evs, k, g)
        BY Zenon, ReplayAt
    <2>2. Steps(evs, m, h)
        BY Zenon, ReplayAt
    <2> QED BY Zenon, <2>1, <2>2 DEF Steps
<1>3. i # 0
    BY Zenon, <1>2
<1>4. i \in 1..k /\ i \in 1..m /\ i - 1 \in 0..k /\ ~(i <= i - 1)
    BY <1>3
<1>5. i - 1 \notin T
    BY Zenon, <1>1, <1>4
<1>6. g[i - 1] = h[i - 1]
    BY Zenon, <1>4, <1>5
<1> QED BY Zenon, <1>2, <1>4, <1>6

\* The loop of verify_audit computes what it says: each state from the one
\* before it.
LEMMA ReconstructedAt ==
    ASSUME NEW evs
    PROVE  LET r == Reconstructed(evs)
           IN  /\ r[0] = AbsentRow
               /\ \A n \in Nat \ {0} : r[n] = Reconstruct(r[n - 1], evs[n])
<1> DEFINE upTo(n) == CHOOSE g : IsReplay(evs, n, g)
           F == [n \in Nat |-> upTo(n)[n]]
           Eq(f) == f = [n \in Nat |-> IF n = 0 THEN AbsentRow ELSE Reconstruct(f[n - 1], evs[n])]
<1>1. \A n \in Nat : IsReplay(evs, n, upTo(n))
    BY Zenon, ReplayExists
<1>2. \A n \in Nat : F[n] = upTo(n)[n]
    BY Zenon
<1>3. F = [n \in Nat |-> upTo(n)[n]]
    BY Zenon
<1> HIDE DEF upTo, F
<1>4. ASSUME NEW n \in Nat
      PROVE  F[n] = IF n = 0 THEN AbsentRow ELSE Reconstruct(F[n - 1], evs[n])
    <2>1. CASE n = 0
        <3>1. PICK g : g = upTo(n)
            BY Zenon
        <3>2. IsReplay(evs, n, g)
            BY Zenon, <1>1, <3>1
        <3>3. g[0] = AbsentRow
            BY Zenon, <3>2, ReplayAt DEF Steps
        <3> QED BY Zenon, <2>1, <3>1, <3>3, <1>2
    <2>2. CASE n # 0
        <3>1. PICK m \in Nat : m = n - 1 /\ m <= n /\ m \in 0..m /\ n \in 1..n
            BY <2>2
        <3>2. PICK g : g = upTo(n)
            BY Zenon
        <3>3. PICK h : h = upTo(m)
            BY Zenon
        <3>4. IsReplay(evs, n, g) /\ IsReplay(evs, m, h)
            BY Zenon, <1>1, <3>2, <3>3
        <3>5. \A i \in 1..n : g[i] = Reconstruct(g[i - 1], evs[i])
            <4>1. Steps(evs, n, g)
                BY ZenonT(60), <3>4, ReplayAt
            <4> QED BY Zenon, <4>1 DEF Steps
        <3>6. \A i \in 0..m : h[i] = g[i]
            BY SMTT(30), <3>1, <3>4, ReplayUnique
        <3>7. F[n] = g[n] /\ F[m] = h[m]
            BY Zenon, <1>2, <3>2, <3>3
        <3>8. F[n] = Reconstruct(F[n - 1], evs[n])
            BY Zenon, <3>1, <3>5, <3>6, <3>7
        <3> QED BY Zenon, <2>2, <3>8
    <2> QED BY <2>1, <2>2
<1>5. Eq(F)
    BY Zenon, <1>2, <1>3, <1>4
<1>6. Eq(Reconstructed(evs))
    BY Zenon, <1>5 DEF Reconstructed
<1>7. PICK r : r = Reconstructed(evs)
    BY Zenon
<1>8. \A n \in Nat : r[n] = IF n = 0 THEN AbsentRow ELSE Reconstruct(r[n - 1], evs[n])
    BY Zenon, <1>6, <1>7
<1>9. 0 \in Nat /\ \A n \in Nat \ {0} : n # 0
    OBVIOUS
<1> QED BY Zenon, <1>7, <1>8, <1>9

\* What verify_audit reconstructs is the history of the case.
LEMMA ReconstructsHistory ==
    ASSUME TypeOK, AuditReplays
    PROVE  \A n \in 0..row.version : Reconstructed(events)[n] = hist[n]
<1> DEFINE T == {n \in 0..row.version : Reconstructed(events)[n] # hist[n]}
<1> SUFFICES ASSUME T # {} PROVE FALSE
    BY Zenon
<1>0. row.version \in Nat
    BY DEF TypeOK, Row
<1>1. T \in SUBSET Nat
    BY <1>0
<1>2. PICK n \in T : \A j \in T : n <= j
    BY Zenon, <1>1, Least
<1>3. PICK evs : evs = events
    BY Zenon
<1>4. /\ Reconstructed(evs)[0] = AbsentRow
      /\ \A m \in Nat \ {0} : Reconstructed(evs)[m] = Reconstruct(Reconstructed(evs)[m - 1], evs[m])
    BY Zenon, ReconstructedAt
<1>5. n # 0
    BY Zenon, <1>3, <1>4 DEF AuditReplays
<1>6. n \in 1..row.version /\ n \in Nat \ {0} /\ n - 1 \in 0..row.version /\ ~(n <= n - 1)
    BY <1>0, <1>5
<1>7. n - 1 \notin T
    BY Zenon, <1>2, <1>6
<1>8. Reconstructed(evs)[n - 1] = hist[n - 1]
    BY Zenon, <1>3, <1>6, <1>7
<1>9. ValidEvent(hist[n - 1], events[n]) /\ hist[n] = ApplyEvent(hist[n - 1], events[n])
    BY Zenon, <1>6 DEF AuditReplays
<1>10. Reconstruct(hist[n - 1], evs[n]) = hist[n]
    BY Zenon, <1>3, <1>9 DEF Reconstruct
<1>11. Reconstructed(evs)[n] = hist[n]
    BY Zenon, <1>4, <1>6, <1>8, <1>10
<1> QED BY Zenon, <1>3, <1>11

\* Row and events of one moment pass verify_audit.
LEMMA AuditAccepts ==
    ASSUME IInv
    PROVE  AuditValid(row, events)
<1>1. TypeOK /\ AuditReplays /\ ChainLinked
    BY DEF IInv
<1>2. row.version \in Nat /\ DOMAIN events = 1..row.version
    BY <1>1 DEF TypeOK, Row
<1>3. Cardinality(DOMAIN events) = row.version
    <2>1. PICK v : v = row.version
        BY Zenon
    <2>2. v \in Nat /\ Cardinality(1..v) = IF 1 > v THEN 0 ELSE v - 1 + 1
        BY <1>2, <2>1, FS_Interval
    <2>3. Cardinality(1..v) = v
        BY <2>2
    <2> QED BY Zenon, <1>2, <2>1, <2>3
<1>4. \A n \in 0..row.version : Reconstructed(events)[n] = hist[n]
    BY Zenon, <1>1, ReconstructsHistory
<1>5. ASSUME NEW n \in 1..row.version PROVE EventChecks(events, n)
    <2>1. n - 1 \in 0..row.version
        BY <1>2
    <2>2. ValidEvent(Reconstructed(events)[n - 1], events[n])
        BY Zenon, <2>1, <1>1, <1>4 DEF AuditReplays
    <2> QED BY Zenon, <2>2, <1>1 DEF ChainLinked, EventChecks
<1>6. Reconstructed(events)[row.version] = row
    <2>1. row.version \in 0..row.version
        BY <1>2
    <2> QED BY Zenon, <2>1, <1>1, <1>4 DEF AuditReplays
<1> QED BY Zenon, <1>2, <1>3, <1>5, <1>6 DEF AuditValid

\* verify_audit accepts every history it reads together with its row, for any
\* reviewers and repairs at work: it is the commits between its two statements,
\* and nothing else, that can make it report a healthy case.
THEOREM HealthyAuditPasses == AuditSpec => QuietAuditValid
<1>1. AuditInit => IInv
    BY InitIInv DEF AuditInit
<1>2. IInv /\ [AuditNext]_<<vars, audit>> => IInv'
    BY StepIInv DEF AuditNext, VerifyReadCase, VerifyReadEvents
<1>3. IInv => (VerifyReadEvents /\ audit = row => AuditValid(audit, events))
    BY Zenon, AuditAccepts
<1> QED BY <1>1, <1>2, <1>3, PTL DEF AuditSpec, QuietAuditValid
=============================================================================
