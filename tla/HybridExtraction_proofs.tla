----------------------- MODULE HybridExtraction_proofs -----------------------
(***************************************************************************)
(* Proofs about HybridExtraction, for any number of overlapping deliveries *)
(* of an invoice or a supporting document, any provider answers, retries   *)
(* and deaths.                                                             *)
(***************************************************************************)
EXTENDS HybridExtraction, FiniteSetTheorems, TLAPS

Output == Candidate \cup {Baseline, None}
Attempt == [pc : PC, seen : Status, call : Call, tries : 0..VlmMaxRetries,
            end : Call, out : Output]

-----------------------------------------------------------------------------
(* Updates of an attempt *)

\* Worker w's attempt moved to p with this loaded call, outcome and output; the
\* other attempts did not change.
Becomes(w, p, c, e, o) ==
    /\ wk' \in [Worker -> Attempt]
    /\ wk'[w].pc = p /\ wk'[w].call = c /\ wk'[w].end = e /\ wk'[w].out = o
    /\ \A v \in Worker : v # w => wk'[v] = wk[v]

\* The updates that the actions are made of keep attempts attempts.
LEMMA Updates ==
    ASSUME NEW f \in [Worker -> Attempt], NEW w \in Worker, NEW p \in PC, NEW s \in Status,
           NEW c \in Call, NEW e \in Call, NEW o \in Output
    PROVE  /\ [f EXCEPT ![w].pc = p] \in [Worker -> Attempt]
           /\ [f EXCEPT ![w].seen = s, ![w].pc = p] \in [Worker -> Attempt]
           /\ [f EXCEPT ![w].call = c, ![w].pc = p] \in [Worker -> Attempt]
           /\ [f EXCEPT ![w].out = o, ![w].end = e, ![w].pc = p] \in [Worker -> Attempt]
BY ZenonT(60) DEF Attempt

LEMMA Counts ==
    ASSUME NEW f \in [Worker -> Attempt], NEW w \in Worker, NEW t \in 0..VlmMaxRetries
    PROVE  [f EXCEPT ![w].tries = t] \in [Worker -> Attempt]
BY Zenon DEF Attempt

LEMMA Types ==
    /\ \A x \in {"idle", "find", "create", "mark", "text", "runfail", "again", "call",
                 "callcreate", "lock", "decide", "provider", "finish", "save"} : x \in PC
    /\ NoCall \in Call /\ NewCall \in Call /\ None \in Output /\ Baseline \in Output
    /\ 0 \in 0..VlmMaxRetries /\ "NONE" \in Status
    /\ \A st \in Status : [status |-> st, candidate |-> None] \in Call
    /\ \A c \in Candidate : c \in Output /\ [status |-> "SUCCEEDED", candidate |-> c] \in Call
BY BoundAssumption DEF PC, NoCall, NewCall, Call, Output, Status

LEMMA IdleType == Idle \in Attempt
BY Types, Zenon DEF Idle, Attempt

LEMMA GoesTo ==
    ASSUME wk \in [Worker -> Attempt], NEW w \in Worker, NEW p \in PC,
           wk' = [wk EXCEPT ![w].pc = p]
    PROVE  Becomes(w, p, wk[w].call, wk[w].end, wk[w].out)
<1>1. wk' \in [Worker -> Attempt]
    BY ZenonT(60), Updates, Types
<1> QED BY <1>1 DEF Becomes, Attempt

LEMMA Finds ==
    ASSUME wk \in [Worker -> Attempt], NEW w \in Worker, NEW p \in PC, NEW s \in Status,
           wk' = [wk EXCEPT ![w].seen = s, ![w].pc = p]
    PROVE  Becomes(w, p, wk[w].call, wk[w].end, wk[w].out)
<1>1. wk' \in [Worker -> Attempt]
    BY ZenonT(60), Updates, Types
<1> QED BY <1>1 DEF Becomes, Attempt

LEMMA Loads ==
    ASSUME wk \in [Worker -> Attempt], NEW w \in Worker, NEW p \in PC, NEW c \in Call,
           wk' = [wk EXCEPT ![w].call = c, ![w].pc = p]
    PROVE  Becomes(w, p, c, wk[w].end, wk[w].out)
<1>1. wk' \in [Worker -> Attempt]
    BY ZenonT(60), Updates, Types
<1> QED BY <1>1 DEF Becomes, Attempt

LEMMA Outcomes ==
    ASSUME wk \in [Worker -> Attempt], NEW w \in Worker, NEW p \in PC, NEW e \in Call,
           NEW o \in Output, wk' = [wk EXCEPT ![w].out = o, ![w].end = e, ![w].pc = p]
    PROVE  Becomes(w, p, wk[w].call, e, o)
<1>1. wk' \in [Worker -> Attempt]
    BY ZenonT(60), Updates, Types
<1> QED BY <1>1 DEF Becomes, Attempt

LEMMA Returns ==
    ASSUME wk \in [Worker -> Attempt], NEW w \in Worker, wk' = [wk EXCEPT ![w] = Idle]
    PROVE  Becomes(w, "idle", NoCall, NoCall, None)
BY IdleType DEF Becomes, Idle

-----------------------------------------------------------------------------
(* The inductive invariant *)

Settled(c) == c.status \in {"SUCCEEDED", "FAILED"}
Locked == {"decide", "provider", "finish"}
AfterRouting == {"again", "create", "call", "callcreate", "lock", "save"} \cup Locked

\* What an attempt at p, with this loaded call, outcome and output, knows of the
\* call's row.  The supporting service decides, asks and finishes under the lock.
Knows(w, p, c, e, o) ==
    /\ c.status = "SUCCEEDED" => call.status = "SUCCEEDED"
    /\ p = "finish" /\ o \in Candidate => e.status = "SUCCEEDED" \/ call.status = "SUCCEEDED"
    /\ p = "save" /\ o \in Candidate => call.status = "SUCCEEDED"
    /\ Supporting =>
         /\ p \notin {"mark", "runfail"}
         /\ p \in AfterRouting => routed
         /\ p \in {"lock"} \cup Locked => call.status # "NONE"
         /\ p \in Locked => lock = w
         /\ p = "decide" => c = call
         /\ p \in {"provider", "finish"} => ~Settled(call)
         /\ p = "finish" => Settled(e) /\ o \in Shown(e)
         /\ p = "save" => Settled(call) /\ o \in Shown(call)

AttemptsKnow == \A w \in Worker : Knows(w, wk[w].pc, wk[w].call, wk[w].end, wk[w].out)

\* A completed run is backed by the call.
RunBacked ==
    /\ run.status = "SUCCEEDED" /\ run.output \in Candidate => call.status = "SUCCEEDED"
    /\ Supporting /\ run.status = "SUCCEEDED" =>
         announced /\ Settled(call) /\ run.output \in Shown(call)

\* A supporting request is accounted for by its outcome or by a death.
Spent ==
    Supporting =>
        /\ requests <= 1 + deaths
        /\ ~Settled(call) /\ (\A w \in Worker : wk[w].pc # "finish") => requests <= deaths

IInv == TypeOK /\ AttemptsKnow /\ RunBacked /\ Spent

LEMMA InitIInv == Init => IInv
<1> SUFFICES ASSUME Init PROVE IInv
    OBVIOUS
<1>1. wk \in [Worker -> Attempt]
    BY IdleType DEF Init
<1>2. TypeOK
    <2>1. run \in [status : Status, output : Candidate \cup {Baseline, None}]
        BY DEF Init, NoRun, Status
    <2>2. 0 \in Nat /\ 0 \in 0..MaxDeliveries /\ 0 \in 0..MaxDeaths
        BY BoundAssumption
    <2> QED BY <1>1, <2>1, <2>2, Types, Zenon DEF Init, TypeOK, Attempt, Output
<1>3. \A w \in Worker : /\ wk[w].pc = "idle" /\ wk[w].call = NoCall
                        /\ wk[w].end = NoCall /\ wk[w].out = None
    BY Zenon DEF Init, Idle
<1>4. AttemptsKnow
    <2>1. NoCall.status = "NONE"
        BY DEF NoCall
    <2>2. \A w \in Worker : Knows(w, "idle", NoCall, NoCall, None)
        BY <2>1 DEF Knows, AfterRouting, Locked
    <2> QED BY Zenon, <1>3, <2>2 DEF AttemptsKnow
<1>5. RunBacked /\ Spent
    BY <1>2 DEF Init, RunBacked, Spent, NoRun, TypeOK
<1> QED BY <1>2, <1>4, <1>5 DEF IInv

-----------------------------------------------------------------------------
(* Steps that change attempts only *)

\* More deaths allow more requests.
LEMMA DeathsAllow ==
    ASSUME NEW r \in Nat, NEW d \in Nat, NEW e \in Nat, d <= e, r <= 1 + d
    PROVE  r <= 1 + e /\ (r <= d \/ d # e => r <= e)
OBVIOUS

\* Only the attempt of w and the counters of deliveries and deaths change.
LEMMA QuietStep ==
    ASSUME IInv, NEW w \in Worker, NEW p \in PC, NEW c, NEW e, NEW o, Becomes(w, p, c, e, o),
           UNCHANGED <<service, routed, run, call, announced, requests>>,
           lock' = lock \/ (lock = w /\ lock' = None),
           p \in {"lock"} \cup Locked => lock' = lock,
           wk[w].pc \in Locked /\ lock' # lock => p \notin Locked,
           deliveries' \in 0..MaxDeliveries, deaths' \in 0..MaxDeaths, deaths <= deaths',
           Knows(w, p, c, e, o),
           wk[w].pc = "finish" => p = "finish" \/ deaths < deaths'
    PROVE  IInv'
<1> USE DEF IInv
<1>1. TypeOK'
    BY DEF TypeOK, Becomes, Attempt, Output
<1>2. AttemptsKnow'
    <2> SUFFICES ASSUME NEW v \in Worker
                 PROVE  Knows(v, wk[v].pc, wk[v].call, wk[v].end, wk[v].out)'
        BY DEF AttemptsKnow
    <2>1. CASE v = w
        BY Zenon, <2>1, WorkerAssumption
           DEF Becomes, Knows, Settled, Shown, Replayed, Damaged, Supporting
    <2>2. CASE v # w
        BY <2>2, WorkerAssumption
           DEF Becomes, AttemptsKnow, Knows, Settled, Shown, Replayed, Damaged, Supporting
    <2> QED BY <2>1, <2>2
<1>3. RunBacked'
    BY DEF RunBacked, Settled, Shown, Replayed, Damaged, Supporting
<1>4. Spent'
    <2>1. requests \in Nat /\ deaths \in Nat /\ deaths' \in Nat
        BY BoundAssumption DEF TypeOK
    <2>2. (\A v \in Worker : wk'[v].pc # "finish") /\ deaths' = deaths
            => \A v \in Worker : wk[v].pc # "finish"
        BY DEF Becomes
    <2>3. Supporting' => Supporting /\ (Settled(call)' <=> Settled(call)) /\ requests' = requests
        BY Zenon DEF Supporting, Settled
    <2>4. Supporting => requests <= 1 + deaths
        BY Zenon DEF Spent
    <2>5. Supporting /\ ~Settled(call) /\ (\A v \in Worker : wk'[v].pc # "finish")
            => requests <= deaths \/ deaths # deaths'
        BY Zenon, <2>2 DEF Spent
    <2>6. Supporting' => requests' <= 1 + deaths'
        BY Zenon, <2>1, <2>3, <2>4, DeathsAllow
    <2>7. Supporting' /\ ~Settled(call)' /\ (\A v \in Worker : wk'[v].pc # "finish")
            => requests' <= deaths'
        BY Zenon, <2>1, <2>3, <2>4, <2>5, DeathsAllow
    <2> QED BY Zenon, <2>6, <2>7 DEF Spent
<1> QED BY <1>1, <1>2, <1>3, <1>4

LEMMA StateTypes ==
    ASSUME IInv, NEW w \in Worker
    PROVE  /\ wk \in [Worker -> Attempt] /\ wk[w] \in Attempt
           /\ wk[w].pc \in PC /\ wk[w].call \in Call /\ wk[w].end \in Call /\ wk[w].out \in Output
           /\ call \in Call /\ run.status \in Status
           /\ Knows(w, wk[w].pc, wk[w].call, wk[w].end, wk[w].out)
BY DEF IInv, TypeOK, Attempt, Output, AttemptsKnow

\* A delivery, a death, or a read that moves the attempt on.
LEMMA ReadStep ==
    ASSUME IInv, NEW w \in Worker,
           Deliver(w) \/ Die(w) \/ FindRun(w) \/ FindRunAgain(w) \/ ReadText(w) \/ TextFails(w)
    PROVE  IInv'
<1> USE StateTypes, Types
<1> DEFINE a == wk[w]
<1>0. /\ deliveries \in 0..MaxDeliveries /\ deaths \in 0..MaxDeaths
      /\ MaxDeliveries \in Nat /\ MaxDeaths \in Nat
    BY BoundAssumption DEF IInv, TypeOK
<1>1. Knows(w, "idle", NoCall, NoCall, None)
    BY DEF Knows, AfterRouting, Locked, NoCall
<1>2. ASSUME NEW p \in PC, p \notin Locked \cup {"save", "lock"},
             Supporting => p \notin {"mark", "runfail"} /\ (p \in AfterRouting => routed)
      PROVE  Knows(w, p, a.call, a.end, a.out)
    BY <1>2 DEF Knows, Locked
<1>3. CASE Deliver(w)
    <2>1. Becomes(w, "find", a.call, a.end, a.out) /\ Knows(w, "find", a.call, a.end, a.out)
        BY Zenon, <1>3, <1>2, GoesTo DEF Deliver, Goto, Locked, AfterRouting
    <2>2. /\ deliveries' \in 0..MaxDeliveries /\ deaths' = deaths /\ lock' = lock /\ a.pc = "idle"
          /\ UNCHANGED <<service, routed, run, call, announced, requests>>
        BY <1>0, <1>3 DEF Deliver, At
    <2> QED BY <1>0, <2>1, <2>2, QuietStep DEF Locked
<1>4. CASE Die(w)
    <2>1. Becomes(w, "idle", NoCall, NoCall, None)
        BY Zenon, <1>4, Returns DEF Die
    <2>2. /\ deaths' \in 0..MaxDeaths /\ deaths < deaths' /\ deaths <= deaths'
          /\ deliveries' = deliveries /\ (lock' = lock \/ (lock = w /\ lock' = None))
          /\ UNCHANGED <<service, routed, run, call, announced, requests>>
        BY <1>0, <1>4 DEF Die
    <2> QED BY <1>0, <1>1, <2>1, <2>2, QuietStep DEF Locked
<1>5. CASE FindRun(w)
    <2>0. /\ a.pc = "find" /\ run.status \in Status
          /\ UNCHANGED <<service, routed, run, call, lock, announced, requests, deliveries, deaths>>
        BY <1>5 DEF FindRun, At
    <2>1. CASE run.status = "SUCCEEDED"
        <3>1. Becomes(w, "idle", NoCall, NoCall, None)
            BY <1>5, <2>1, Returns DEF FindRun, Return
        <3> QED BY <1>0, <1>1, <2>0, <3>1, QuietStep DEF Locked
    <2>2. CASE run.status # "SUCCEEDED"
        <3> DEFINE p == AfterFind(run.status)
        <3>1. p \in {"text", "create", "mark"} /\ (Supporting => p = "text")
            BY DEF AfterFind
        <3>2. wk' = [wk EXCEPT ![w].seen = run.status, ![w].pc = p]
            BY <1>5, <2>2 DEF FindRun
        <3> HIDE DEF p
        <3>3. Becomes(w, p, a.call, a.end, a.out) /\ Knows(w, p, a.call, a.end, a.out)
            BY Zenon, <1>2, <2>0, <3>1, <3>2, Finds DEF Locked, AfterRouting
        <3> QED BY <1>0, <2>0, <3>1, <3>3, QuietStep DEF Locked
    <2> QED BY <2>1, <2>2
<1>6. CASE FindRunAgain(w) \/ ReadText(w) \/ TextFails(w)
    <2>0. /\ a.pc \in {"again", "text"} /\ (Supporting /\ a.pc = "again" => routed)
          /\ UNCHANGED <<service, routed, run, call, lock, announced, requests, deliveries>>
          /\ deaths' \in 0..MaxDeaths /\ deaths <= deaths'
        BY <1>0, <1>6 DEF FindRunAgain, ReadText, TextFails, At, Knows, AfterRouting
    <2>1. CASE wk' = [wk EXCEPT ![w] = Idle]
        BY ZenonT(60), <1>0, <1>1, <2>0, <2>1, Returns, QuietStep DEF Locked
    <2>2. CASE \E p \in {"create", "call", "again", "runfail"} :
                 Goto(w, p) /\ (Supporting => p # "runfail" /\ routed)
        <3>1. PICK p \in {"create", "call", "again", "runfail"} :
                 Goto(w, p) /\ (Supporting => p # "runfail" /\ routed)
            BY <2>2
        <3>2. Becomes(w, p, a.call, a.end, a.out) /\ Knows(w, p, a.call, a.end, a.out)
            BY Zenon, <1>2, <3>1, GoesTo DEF Locked, Goto
        <3> QED BY Zenon, <1>0, <2>0, <3>2, QuietStep DEF Locked
    <2> QED BY Zenon, <1>6, <2>0, <2>1, <2>2 DEF FindRunAgain, ReadText, TextFails, Return, At
<1> QED BY <1>3, <1>4, <1>5, <1>6
\* The call is loaded, decided about, or fails before a request.
LEMMA DecideStep ==
    ASSUME IInv, NEW w \in Worker, FindCall(w) \/ Decide(w) \/ ReplayRaises(w) \/ RenderFails(w)
    PROVE  IInv'
<1> USE StateTypes, Types
<1> DEFINE a == wk[w]
<1>0. deliveries \in 0..MaxDeliveries /\ deaths \in 0..MaxDeaths /\ deaths \in Nat
    BY BoundAssumption DEF IInv, TypeOK
<1>1. UNCHANGED <<service, routed, run, call, lock, announced, requests, deliveries, deaths>>
    BY DEF FindCall, Decide, ReplayRaises, RenderFails
<1>2. CASE FindCall(w)
    <2> DEFINE p == IF call.status = "NONE" THEN "callcreate"
                    ELSE IF Supporting THEN "lock" ELSE "decide"
    <2>1. a.pc = "call" /\ p \in {"callcreate", "lock", "decide"}
        BY <1>2 DEF FindCall, At
    <2>2. Becomes(w, p, call, a.end, a.out)
        BY ZenonT(60), <1>2, <2>1, Loads DEF FindCall
    <2>3. Knows(w, p, call, a.end, a.out)
        BY <2>1 DEF Knows, AfterRouting, Locked
    <2> HIDE DEF p
    <2> QED BY <1>0, <1>1, <2>1, <2>2, <2>3, QuietStep DEF Locked
<1>3. CASE Decide(w)
    <2> DEFINE p == CASE ~routed -> "finish"
                      [] routed /\ a.call.status \in {"SUCCEEDED", "FAILED"} -> "save"
                      [] OTHER -> "provider"
               e == [status |-> "SKIPPED", candidate |-> None]
               o == Replayed(a.call)
    <2>1. a.pc = "decide" /\ p \in {"finish", "save", "provider"}
        BY <1>3 DEF Decide, At
    <2>2. e \in Call /\ o \in Output /\ (o \in Candidate => a.call.status = "SUCCEEDED")
        BY BaselineAssumption DEF Shown, Replayed, Damaged, Call, Output, Status
    <2>3. Becomes(w, p, a.call, e, o)
        BY Zenon, <1>3, <2>1, <2>2, Outcomes DEF Decide
    <2>4. Knows(w, p, a.call, e, o)
        BY <2>1, <2>2 DEF Knows, AfterRouting, Locked, Settled, Shown
    <2> HIDE DEF p, e, o
    <2> QED BY <1>0, <1>1, <2>1, <2>3, <2>4, QuietStep DEF Locked
<1>4. CASE RenderFails(w)
    <2> DEFINE e == [status |-> "FAILED", candidate |-> None]
    <2>1. a.pc = "provider" /\ e \in Call /\ e.status = "FAILED"
        BY <1>4 DEF RenderFails, At, Status
    <2>2. Becomes(w, "finish", a.call, e, Baseline)
        BY ZenonT(60), <1>4, <2>1, Outcomes DEF RenderFails, Fail, AfterFailure
    <2>3. Knows(w, "finish", a.call, e, Baseline)
        BY Zenon, <2>1, BaselineAssumption
           DEF Knows, AfterRouting, Locked, Settled, Shown, Replayed, Damaged
    <2> HIDE DEF e
    <2> QED BY <1>0, <1>1, <2>1, <2>2, <2>3, QuietStep DEF Locked
<1>5. CASE ReplayRaises(w)
    <2>1. a.pc = "decide" /\ Becomes(w, "idle", NoCall, NoCall, None)
        BY Zenon, <1>5, Returns DEF ReplayRaises, At, Return
    <2>2. Knows(w, "idle", NoCall, NoCall, None)
        BY DEF Knows, AfterRouting, Locked, NoCall
    <2> QED BY <1>0, <1>1, <2>1, <2>2, QuietStep DEF Locked
<1> QED BY <1>2, <1>3, <1>4, <1>5

-----------------------------------------------------------------------------
(* Steps that change a row, the lock or the number of requests *)

\* The other attempts know what they knew when the call and the lock allow it.
LEMMA OthersKnow ==
    ASSUME IInv, NEW w \in Worker, NEW v \in Worker, v # w, wk'[v] = wk[v],
           UNCHANGED <<service, routed>>,
           call' = call \/ (/\ call.status # "SUCCEEDED"
                            /\ call'.status # "NONE"
                            /\ Supporting => ~Settled(call) /\ wk[v].pc \notin Locked)
                        \/ (call.status # "SUCCEEDED" /\ ~Supporting),
           Supporting => lock' = lock \/ (lock \in {w, None})
    PROVE  Knows(v, wk[v].pc, wk[v].call, wk[v].end, wk[v].out)'
BY Zenon, StateTypes, WorkerAssumption
   DEF Knows, Settled, Shown, Replayed, Damaged, Supporting, Locked, AfterRouting

LEMMA LockStep ==
    ASSUME IInv, NEW w \in Worker, LockCall(w)
    PROVE  IInv'
<1> USE StateTypes, Types
<1> DEFINE a == wk[w]
<1>1. /\ a.pc = "lock" /\ lock = None /\ lock' = w
      /\ UNCHANGED <<service, routed, run, call, announced, requests, deliveries, deaths>>
    BY DEF LockCall, At
<1>2. Becomes(w, "decide", call, a.end, a.out)
    BY ZenonT(60), Loads DEF LockCall, LockedView
<1>3. TypeOK'
    BY <1>1, <1>2 DEF IInv, TypeOK, Becomes, Attempt, Output
<1>4. Knows(w, wk[w].pc, wk[w].call, wk[w].end, wk[w].out)'
    BY <1>1, <1>2
       DEF Becomes, Knows, AfterRouting, Locked, Settled, Shown, Replayed, Damaged, Supporting
<1>5. AttemptsKnow'
    BY Zenon, <1>1, <1>2, <1>4, OthersKnow DEF AttemptsKnow, Becomes
<1>6. RunBacked' /\ Spent'
    BY Zenon, <1>1, <1>2
       DEF IInv, RunBacked, Spent, Settled, Shown, Replayed, Damaged, Supporting, Becomes
<1> QED BY <1>3, <1>5, <1>6 DEF IInv
\* A step that writes the run's row, and no more than releases the lock.
LEMMA RunStep ==
    ASSUME IInv, NEW w \in Worker, NEW p \in PC, NEW c, NEW e, NEW o, Becomes(w, p, c, e, o),
           UNCHANGED <<service, routed, call, requests, deliveries, deaths>>,
           lock' = lock \/ (lock = w /\ lock' = None),
           p \notin {"lock"} \cup Locked, wk[w].pc # "finish",
           run' \in [status : Status, output : Output], announced' \in BOOLEAN,
           Knows(w, p, c, e, o), RunBacked'
    PROVE  IInv'
<1> USE StateTypes, Types
<1>1. TypeOK'
    BY Zenon DEF IInv, TypeOK, Becomes, Attempt, Output
<1>2. Knows(w, wk[w].pc, wk[w].call, wk[w].end, wk[w].out)'
    BY Zenon DEF Becomes, Knows, Settled, Shown, Replayed, Damaged, Supporting, Locked, AfterRouting
<1>3. AttemptsKnow'
    BY Zenon, <1>2, OthersKnow DEF AttemptsKnow, Becomes
<1>4. (\A v \in Worker : wk'[v].pc # "finish") => \A v \in Worker : wk[v].pc # "finish"
    BY Zenon DEF Becomes
<1>5. Spent'
    BY Zenon, <1>4 DEF IInv, Spent, Settled, Supporting
<1> QED BY Zenon, <1>1, <1>3, <1>5 DEF IInv

LEMMA RunSteps ==
    ASSUME IInv, NEW w \in Worker,
           CreateRun(w) \/ MarkProcessing(w) \/ MarkTerminalFailure(w) \/ SaveRun(w)
    PROVE  IInv'
<1> USE StateTypes, Types
<1> DEFINE a == wk[w]
<1>0. run \in [status : Status, output : Output] /\ announced \in BOOLEAN
    BY DEF IInv, TypeOK, Output
<1>1. CASE CreateRun(w)
    <2>1. PICK p \in {"call", "text", "again", "find"} : wk' = [wk EXCEPT ![w].pc = p]
        BY <1>1 DEF CreateRun, Goto
    <2>2. Becomes(w, p, a.call, a.end, a.out)
        BY Zenon, <2>1, GoesTo
    <2>3. Knows(w, p, a.call, a.end, a.out)
        BY Zenon, <1>1, <2>1 DEF CreateRun, At, Knows, AfterRouting, Locked
    <2>4. a.pc = "create" /\ run' \in [status : Status, output : Output]
        BY <1>0, <1>1 DEF CreateRun, At, Status
    <2>5. RunBacked'
        BY <1>1 DEF CreateRun, IInv, RunBacked, Settled, Shown, Replayed, Damaged, Supporting
    <2>6. UNCHANGED <<service, routed, call, lock, announced, requests, deliveries, deaths>>
        BY Zenon, <1>1 DEF CreateRun
    <2> QED BY Zenon, <1>0, <2>1, <2>2, <2>3, <2>4, <2>5, <2>6, RunStep DEF Locked
<1>2. CASE MarkProcessing(w)
    <2>1. Becomes(w, "text", a.call, a.end, a.out)
        BY ZenonT(60), <1>2, GoesTo DEF MarkProcessing, Goto
    <2>2. a.pc = "mark" /\ run' \in [status : Status, output : Output]
        BY Zenon, <1>0, <1>2 DEF MarkProcessing, At, Status
    <2>3. Knows(w, "text", a.call, a.end, a.out)
        BY Zenon, <2>2 DEF Knows, AfterRouting, Locked
    <2>4. UNCHANGED <<service, routed, call, lock, announced, requests, deliveries, deaths>>
        BY Zenon, <1>2 DEF MarkProcessing
    <2>5. RunBacked'
        BY Zenon, <1>2
           DEF MarkProcessing, IInv, RunBacked, Settled, Shown, Replayed, Damaged, Supporting
    <2> QED BY <1>0, <2>1, <2>2, <2>3, <2>4, <2>5, RunStep DEF Locked
<1>3. CASE MarkTerminalFailure(w)
    <2>1. Becomes(w, "idle", NoCall, NoCall, None)
        BY Zenon, <1>3, Returns DEF MarkTerminalFailure, Return
    <2>2. a.pc = "runfail" /\ run' \in [status : Status, output : Output] /\ run'.status = "FAILED"
        BY Zenon, <1>0, <1>3 DEF MarkTerminalFailure, At, Status
    <2>3. Knows(w, "idle", NoCall, NoCall, None)
        BY DEF Knows, AfterRouting, Locked, NoCall
    <2>4. UNCHANGED <<service, routed, call, lock, announced, requests, deliveries, deaths>>
        BY Zenon, <1>3 DEF MarkTerminalFailure
    <2>5. RunBacked'
        BY Zenon, <2>2 DEF RunBacked
    <2> QED BY <1>0, <2>1, <2>2, <2>3, <2>4, <2>5, RunStep DEF Locked
<1>4. CASE SaveRun(w)
    <2>1. Becomes(w, "idle", NoCall, NoCall, None)
        BY ZenonT(60), <1>4, Returns DEF SaveRun, Return
    <2>2. /\ a.pc = "save" /\ run' = [status |-> "SUCCEEDED", output |-> a.out]
          /\ announced' = (announced \/ Supporting)
          /\ UNCHANGED <<service, routed, call, requests, deliveries, deaths>>
          /\ lock' = lock \/ (lock = w /\ lock' = None)
        BY Zenon, <1>4 DEF SaveRun, At, Released
    <2>3. Knows(w, "idle", NoCall, NoCall, None)
        BY DEF Knows, AfterRouting, Locked, NoCall
    <2>4. run' \in [status : Status, output : Output] /\ announced' \in BOOLEAN
        BY Zenon, <1>0, <2>2 DEF Status
    <2>5. RunBacked'
        BY ZenonT(60), <2>2 DEF RunBacked, Knows, Settled, Shown, Replayed, Damaged, Supporting
    <2> QED BY <2>1, <2>2, <2>3, <2>4, <2>5, RunStep DEF Locked
<1> QED BY Zenon, <1>1, <1>2, <1>3, <1>4
\* A step that writes the call's row.
LEMMA CallStep ==
    ASSUME IInv, NEW w \in Worker, NEW p \in PC, NEW c, NEW e, NEW o, Becomes(w, p, c, e, o),
           UNCHANGED <<service, routed, run, announced, requests, deliveries, deaths>>,
           call' \in Call, call.status # "SUCCEEDED",
           \/ ~Supporting
           \/ /\ ~Settled(call) /\ call'.status # "NONE"
              /\ \A v \in Worker : v # w => wk[v].pc \notin Locked
              /\ lock' = lock \/ lock = w
              /\ wk[w].pc = "finish" => Settled(call'),
           lock' \in Worker \cup {None},
           Knows(w, wk[w].pc, wk[w].call, wk[w].end, wk[w].out)'
    PROVE  IInv'
<1> USE StateTypes, Types
<1>1. TypeOK'
    BY Zenon DEF IInv, TypeOK, Becomes, Attempt, Output
<1>2. AttemptsKnow'
    BY Zenon, OthersKnow DEF AttemptsKnow, Becomes
<1>3. RunBacked'
    BY Zenon DEF IInv, RunBacked, Settled, Supporting
<1>4. wk[w].pc # "finish" /\ (\A v \in Worker : wk'[v].pc # "finish")
        => \A v \in Worker : wk[v].pc # "finish"
    BY Zenon DEF Becomes
<1>5. Spent'
    BY Zenon, <1>4 DEF IInv, Spent, Settled, Supporting
<1> QED BY Zenon, <1>1, <1>2, <1>3, <1>5 DEF IInv

LEMMA CreateCallStep ==
    ASSUME IInv, NEW w \in Worker, CreateCall(w)
    PROVE  IInv'
<1> USE StateTypes, Types
<1> DEFINE a == wk[w]
<1>0. deliveries \in 0..MaxDeliveries /\ deaths \in 0..MaxDeaths /\ deaths \in Nat
    BY BoundAssumption DEF IInv, TypeOK
<1>1. /\ a.pc = "callcreate"
      /\ UNCHANGED <<service, routed, run, lock, announced, requests, deliveries, deaths>>
    BY Zenon DEF CreateCall, At
<1>2. CASE call.status # "NONE"
    <2>1. call' = call /\ Becomes(w, "call", a.call, a.end, a.out)
        BY Zenon, <1>2, GoesTo DEF CreateCall, Goto
    <2>2. Knows(w, "call", a.call, a.end, a.out)
        BY Zenon, <1>1 DEF Knows, AfterRouting, Locked
    <2> QED BY <1>0, <1>1, <2>1, <2>2, QuietStep DEF Locked
<1>3. CASE call.status = "NONE"
    <2> DEFINE p == IF Supporting THEN "lock" ELSE "decide"
    <2>1. call' = NewCall /\ NewCall.status = "PROCESSING" /\ p \in {"lock", "decide"}
        BY <1>3 DEF CreateCall, NewCall
    <2>2. Becomes(w, p, NewCall, a.end, a.out)
        BY Zenon, <1>3, <2>1, Loads DEF CreateCall
    <2>3. Knows(w, wk[w].pc, wk[w].call, wk[w].end, wk[w].out)'
        BY Zenon, <1>1, <2>1, <2>2 DEF Becomes, Knows, AfterRouting, Locked, Supporting
    <2>4. ~Supporting \/ /\ ~Settled(call) /\ call'.status # "NONE"
                         /\ \A v \in Worker : v # w => wk[v].pc \notin Locked
        BY Zenon, <1>3, <2>1 DEF Settled, Knows
    <2>5. lock' \in Worker \cup {None}
        BY Zenon, <1>1 DEF IInv, TypeOK
    <2> HIDE DEF p
    <2> QED BY <1>1, <1>3, <2>1, <2>2, <2>3, <2>4, <2>5, CallStep
<1> QED BY Zenon, <1>2, <1>3

LEMMA FinishCallStep ==
    ASSUME IInv, NEW w \in Worker, FinishCall(w)
    PROVE  IInv'
<1> USE StateTypes, Types
<1> DEFINE a == wk[w]
<1>0. deliveries \in 0..MaxDeliveries /\ deaths \in 0..MaxDeaths /\ deaths \in Nat
      /\ lock \in Worker \cup {None}
    BY SMTT(30), BoundAssumption DEF IInv, TypeOK
<1>1. /\ a.pc = "finish" /\ call' = (IF CallOpen THEN a.end ELSE call)
      /\ lock' = Released(w)
      /\ UNCHANGED <<service, routed, run, announced, requests, deliveries, deaths>>
    BY DEF FinishCall, At
<1>2. Becomes(w, "save", a.call, a.end, a.out)
    BY ZenonT(60), GoesTo DEF FinishCall, Goto
<1>3. lock' \in Worker \cup {None}
    BY Zenon, <1>0, <1>1 DEF Released
<1>4. call.status = "SUCCEEDED" => ~Supporting /\ call' = call
    BY Zenon, <1>1 DEF Knows, Settled, CallOpen
<1>5. call.status # "SUCCEEDED" => call' = a.end
    BY Zenon, <1>1 DEF CallOpen
<1>6. Supporting => Settled(a.end) /\ a.out \in Shown(a.end) /\ ~Settled(call) /\ lock = w /\ routed
    BY Zenon, <1>1 DEF Knows, Locked, AfterRouting
<1>7. a.call.status # "SUCCEEDED" \/ call.status = "SUCCEEDED"
    BY Zenon DEF Knows
<1>8. a.out \in Candidate => a.end.status = "SUCCEEDED" \/ call.status = "SUCCEEDED"
    BY Zenon, <1>1 DEF Knows
<1>9. Knows(w, wk[w].pc, wk[w].call, wk[w].end, wk[w].out)'
    BY Zenon, <1>1, <1>2, <1>4, <1>5, <1>6, <1>7, <1>8
       DEF Becomes, Knows, AfterRouting, Locked, Supporting, Settled, Shown, Replayed, Damaged
<1>10. CASE call.status # "SUCCEEDED"
    <2>1. Supporting => \A v \in Worker : v # w => wk[v].pc \notin Locked
        BY Zenon, <1>6 DEF Knows
    <2>2. Supporting => Settled(call') /\ call'.status # "NONE"
        BY Zenon, <1>5, <1>6, <1>10 DEF Settled
    <2>3. call' \in Call
        BY Zenon, <1>5, <1>10
    <2> QED BY Zenon, <1>1, <1>2, <1>3, <1>6, <1>9, <1>10, <2>1, <2>2, <2>3, CallStep
<1>11. CASE call.status = "SUCCEEDED"
    <2>1. TypeOK'
        BY Zenon, <1>1, <1>2, <1>3, <1>4, <1>11 DEF IInv, TypeOK, Becomes, Attempt, Output
    <2>2. AttemptsKnow'
        BY Zenon, <1>1, <1>2, <1>4, <1>9, <1>11, OthersKnow DEF AttemptsKnow, Becomes
    <2>3. RunBacked' /\ Spent'
        BY <1>1, <1>4, <1>11 DEF IInv, RunBacked, Spent, Supporting
    <2> QED BY <2>1, <2>2, <2>3 DEF IInv
<1> QED BY Zenon, <1>10, <1>11
LEMMA Retried ==
    ASSUME wk \in [Worker -> Attempt], NEW w \in Worker, NEW n \in Nat, n <= VlmMaxRetries,
           wk[w].tries < n, wk' = [wk EXCEPT ![w].tries = @ + 1]
    PROVE  Becomes(w, wk[w].pc, wk[w].call, wk[w].end, wk[w].out)
<1>1. wk[w].tries \in 0..VlmMaxRetries
    BY DEF Attempt
<1>2. wk[w].tries + 1 \in 0..VlmMaxRetries
    BY <1>1, BoundAssumption
<1>3. wk' = [wk EXCEPT ![w].tries = wk[w].tries + 1]
    OBVIOUS
<1>4. PICK t \in 0..VlmMaxRetries : wk' = [wk EXCEPT ![w].tries = t]
    BY Zenon, <1>2, <1>3
<1>5. [wk EXCEPT ![w].tries = t] \in [Worker -> Attempt]
    BY Zenon, Counts
<1>6. wk' \in [Worker -> Attempt]
    BY Zenon, <1>4, <1>5
<1> QED BY <1>4, <1>6 DEF Becomes, Attempt

\* A request is sent under the lock in the supporting service, so at most one
\* attempt is between asking and storing.
LEMMA RequestStep ==
    ASSUME IInv, NEW w \in Worker, Request(w)
    PROVE  IInv'
<1> USE StateTypes, Types
<1> DEFINE a == wk[w]
<1>0. requests \in Nat /\ deaths \in Nat
    BY BoundAssumption DEF IInv, TypeOK
<1>1. /\ a.pc = "provider" /\ requests' = requests + 1
      /\ UNCHANGED <<service, routed, run, call, lock, announced, deliveries, deaths>>
    BY DEF Request, At
<1>2. \E p \in PC, e \in Call, o \in Output :
          /\ Becomes(w, p, a.call, e, o) /\ Knows(w, p, a.call, e, o)
          /\ Supporting => p = "finish"
    <2>1. CASE \E c \in Candidate : Answer(w, c)
        <3>1. PICK c \in Candidate : Answer(w, c)
            BY Zenon, <2>1
        <3> DEFINE e == [status |-> "SUCCEEDED", candidate |-> c]
        <3>2. e \in Call /\ e.status = "SUCCEEDED" /\ c \in Shown(e) /\ c \in Output
            BY SMTT(30) DEF Shown, Replayed, Damaged
        <3>3. Becomes(w, "finish", a.call, e, c)
            BY ZenonT(60), <3>1, <3>2, Outcomes DEF Answer, AfterAnswer
        <3>4. Knows(w, "finish", a.call, e, c)
            BY Zenon, <1>1, <3>2 DEF Knows, AfterRouting, Locked, Settled
        <3> HIDE DEF e
        <3> QED BY Zenon, <3>2, <3>3, <3>4
    <2>2. CASE Fail(w)
        <3> DEFINE e == [status |-> "FAILED", candidate |-> None]
        <3>1. e \in Call /\ e.status = "FAILED" /\ Baseline \in Shown(e)
            BY SMTT(30) DEF Shown, Replayed, Damaged, Status
        <3>2. Becomes(w, "finish", a.call, e, Baseline)
            BY ZenonT(60), <2>2, <3>1, Outcomes DEF Fail, AfterFailure
        <3>3. Knows(w, "finish", a.call, e, Baseline)
            BY Zenon, <1>1, <3>1, BaselineAssumption DEF Knows, AfterRouting, Locked, Settled
        <3> HIDE DEF e
        <3> QED BY Zenon, <3>1, <3>2, <3>3
    <2>3. CASE a.tries < Retries /\ wk' = [wk EXCEPT ![w].tries = @ + 1]
        <3>1. Retries \in Nat /\ Retries <= VlmMaxRetries /\ (Supporting => Retries = 0)
            BY BoundAssumption DEF Retries
        <3>2. Becomes(w, a.pc, a.call, a.end, a.out)
            BY ZenonT(60), <2>3, <3>1, Retried
        <3>3. a.tries \in 0..VlmMaxRetries
            BY DEF Attempt
        <3>4. ~Supporting
            BY <2>3, <3>1, <3>3, BoundAssumption
        <3> QED BY Zenon, <3>2, <3>4
    <2> QED BY Zenon, <2>1, <2>2, <2>3 DEF Request
<1>3. PICK p \in PC, e \in Call, o \in Output :
          /\ Becomes(w, p, a.call, e, o) /\ Knows(w, p, a.call, e, o)
          /\ Supporting => p = "finish"
    BY Zenon, <1>2
<1>4. TypeOK'
    <2>1. requests' \in Nat
        BY <1>0, <1>1
    <2> QED BY Zenon, <1>1, <1>3, <2>1 DEF IInv, TypeOK, Becomes, Attempt, Output
<1>5. Knows(w, wk[w].pc, wk[w].call, wk[w].end, wk[w].out)'
    BY Zenon, <1>1, <1>3 DEF Becomes, Knows, Settled, Shown, Replayed, Damaged, Supporting
<1>6. AttemptsKnow'
    BY Zenon, <1>1, <1>3, <1>5, OthersKnow DEF AttemptsKnow, Becomes
<1>7. RunBacked'
    BY Zenon, <1>1 DEF IInv, RunBacked, Settled, Shown, Replayed, Damaged, Supporting
<1>8. Spent'
    <2>1. Supporting => ~Settled(call) /\ \A v \in Worker : wk[v].pc # "finish"
        BY Zenon, <1>1 DEF Knows, Locked
    <2>2. Supporting => requests <= deaths
        BY Zenon, <2>1 DEF IInv, Spent
    <2>3. Supporting => wk'[w].pc = "finish"
        BY <1>3 DEF Becomes
    <2> QED BY SMTT(30), <1>0, <1>1, <2>2, <2>3 DEF Spent, Supporting
<1> QED BY Zenon, <1>4, <1>6, <1>7, <1>8 DEF IInv

-----------------------------------------------------------------------------
(* The theorems *)

LEMMA StepIInv == IInv /\ [Next]_vars => IInv'
<1> SUFFICES ASSUME IInv, [Next]_vars PROVE IInv'
    BY Zenon
<1>1. CASE UNCHANGED vars
    BY <1>1 DEF vars, IInv, TypeOK, AttemptsKnow, Knows, RunBacked, Spent, Settled, Shown,
                Replayed, Damaged, Supporting
<1>2. CASE Next
    <2>1. PICK w \in Worker : Deliver(w) \/ Die(w) \/ TextFails(w) \/ Step(w)
        BY <1>2 DEF Next
    <2> QED BY <2>1, ReadStep, DecideStep, LockStep, RunSteps, CreateCallStep, FinishCallStep,
               RequestStep DEF Step
<1> QED BY <1>1, <1>2

LEMMA SpecIInv == Spec => []IInv
BY InitIInv, StepIInv, PTL DEF Spec

\* The services never leave their types, whatever is delivered, answered or lost.
THEOREM HybridTypeCorrect == Spec => []TypeOK
<1>1. IInv => TypeOK
    BY DEF IInv
<1> QED BY <1>1, SpecIInv, PTL

\* A completed run never shows an answer that is not stored in its call, and a
\* supporting run shows the stored answer, or the baseline when that answer no
\* longer validates, and was announced.
THEOREM HybridOutputBacked == Spec => []OutputBacked
<1>1. IInv => OutputBacked
    BY BaselineAssumption DEF IInv, RunBacked, OutputBacked, Current
<1> QED BY <1>1, SpecIInv, PTL

\* Neither a repeated nor an overlapping delivery replaces a stored answer, or
\* what readers are offered once a supporting document's run is complete and its
\* stored answer validates.
THEOREM HybridResultsKept == Spec => ResultsKept
<1>1. IInv /\ [Next]_vars => [call.status = "SUCCEEDED" => call' = call]_vars
    <2> SUFFICES ASSUME IInv, Next, call.status = "SUCCEEDED" PROVE call' = call
        BY DEF vars
    <2>1. PICK w \in Worker : Deliver(w) \/ Die(w) \/ TextFails(w) \/ Step(w)
        BY DEF Next
    <2>2. CASE CreateCall(w)
        BY Zenon, <2>2 DEF CreateCall
    <2>3. CASE FinishCall(w)
        BY Zenon, <2>3, StateTypes DEF FinishCall, At, CallOpen, Knows, Settled
    <2>4. CASE ~CreateCall(w) /\ ~FinishCall(w)
        BY <2>1, <2>4 DEF Deliver, Die, TextFails, Step, FindRun, FindRunAgain, CreateRun,
           MarkProcessing, ReadText, MarkTerminalFailure, FindCall, LockCall, Decide,
           ReplayRaises, Request, RenderFails, SaveRun
    <2> QED BY <2>2, <2>3, <2>4
<1>2. IInv /\ [Next]_vars
        => [Supporting /\ run.status = "SUCCEEDED" /\ ~Damaged(call) => Current' = Current]_vars
    <2> SUFFICES ASSUME IInv, Next, Supporting, run.status = "SUCCEEDED", ~Damaged(call)
                 PROVE  Current' = Current
        BY DEF vars
    <2>1. PICK w \in Worker : Deliver(w) \/ Die(w) \/ TextFails(w) \/ Step(w)
        BY Zenon DEF Next
    <2>2. CASE SaveRun(w)
        <3>1. wk[w].pc = "save" /\ run' = [status |-> "SUCCEEDED", output |-> wk[w].out]
            BY Zenon, <2>2 DEF SaveRun, At
        <3>2. wk[w].out \in Shown(call) /\ run.output \in Shown(call)
            BY <3>1, StateTypes DEF IInv, RunBacked, Knows
        <3>3. \A o \in Shown(call) : o = Replayed(call)
            BY DEF Shown, Replayed
        <3> QED BY Zenon, <3>1, <3>2, <3>3 DEF Current
    <2>3. CASE MarkTerminalFailure(w)
        BY <2>3, StateTypes DEF MarkTerminalFailure, At, Knows
    <2>4. CASE ~SaveRun(w) /\ ~MarkTerminalFailure(w)
        <3>1. run' = run
            BY <2>1, <2>4 DEF Deliver, Die, TextFails, Step, FindRun, FindRunAgain, CreateRun,
               MarkProcessing, ReadText, FindCall, CreateCall, LockCall, Decide,
               ReplayRaises, Request, RenderFails, FinishCall
        <3> QED BY <3>1 DEF Current
    <2> QED BY <2>2, <2>3, <2>4
<1> QED BY <1>1, <1>2, SpecIInv, PTL DEF Spec, ResultsKept, AnswerKept, SupportingOutputKept

-----------------------------------------------------------------------------
(* The spend *)

\* The requests that the attempts under way may still send, one element each.
Asking == PC \ {"idle", "runfail", "finish", "save"}
Owed ==
    {p \in Worker \X (0..VlmMaxRetries) : wk[p[1]].pc \in Asking /\ wk[p[1]].tries <= p[2]}

\* What was sent and what may still be sent is covered by the deliveries.
Budget ==
    /\ IsFiniteSet(Owed)
    /\ requests + Cardinality(Owed) <= deliveries * (1 + VlmMaxRetries)

\* Attempt w asks for no more than before, and the others are where they were.
AsksNoMore(w) ==
    /\ wk'[w].pc \in Asking => wk[w].pc \in Asking /\ wk'[w].tries = wk[w].tries
    /\ \A v \in Worker : v # w => wk'[v] = wk[v]

\* A step that sends nothing owes no more than before.
LEMMA OwesNoMore ==
    ASSUME TypeOK, Budget, NEW w \in Worker, AsksNoMore(w), UNCHANGED <<requests, deliveries>>
    PROVE  Budget'
<1>1. ASSUME NEW p \in Owed' PROVE p \in Owed
    <2>1. /\ p \in Worker \X (0..VlmMaxRetries)
          /\ wk'[p[1]].pc \in Asking /\ wk'[p[1]].tries <= p[2]
        BY Zenon DEF Owed
    <2>2. p[1] \in Worker
        BY <2>1
    <2>3. wk[p[1]].pc \in Asking /\ wk[p[1]].tries <= p[2]
        BY Zenon, <2>1, <2>2 DEF AsksNoMore
    <2> QED BY Zenon, <2>1, <2>3 DEF Owed
<1>2. PICK S, T : S = Owed /\ T = Owed'
    BY Zenon
<1>3. IsFiniteSet(S) /\ T \in SUBSET S
    BY Zenon, <1>1, <1>2 DEF Budget
<1>4. IsFiniteSet(T) /\ Cardinality(T) <= Cardinality(S)
    BY Zenon, <1>3, FS_Subset
<1>5. Cardinality(S) \in Nat /\ Cardinality(T) \in Nat
    BY Zenon, <1>3, <1>4, FS_CardinalityType
<1>6. /\ requests \in Nat /\ deliveries \in Nat /\ VlmMaxRetries \in Nat
      /\ requests' = requests /\ deliveries' = deliveries
    BY BoundAssumption DEF TypeOK
<1>7. requests + Cardinality(S) <= deliveries * (1 + VlmMaxRetries)
    BY Zenon, <1>2 DEF Budget
<1>8. PICK d : d = deliveries * (1 + VlmMaxRetries) /\ d \in Nat
    BY <1>6
<1>9. requests + Cardinality(T) <= d
    BY <1>4, <1>5, <1>6, <1>7, <1>8
<1> QED BY Zenon, <1>2, <1>4, <1>6, <1>8, <1>9 DEF Budget

\* A request is one of those that its attempt was owed.
LEMMA RequestInBudget ==
    ASSUME TypeOK, Budget, NEW w \in Worker, Request(w)
    PROVE  Budget'
<1>0. wk \in [Worker -> Attempt]
    BY DEF TypeOK, Attempt, Output
<1>1. wk[w].pc = "provider" /\ wk[w].tries \in 0..VlmMaxRetries
    BY <1>0 DEF Request, At, Attempt
<1>2. PICK x : x = <<w, wk[w].tries>>
    BY Zenon
<1>3. x \in Owed
    <2>1. "provider" \in Asking
        BY DEF Asking, PC
    <2>2. x \in Worker \X (0..VlmMaxRetries) /\ x[1] = w /\ x[2] = wk[w].tries
        BY <1>1, <1>2
    <2>3. wk[w].tries <= wk[w].tries
        BY <1>1
    <2> QED BY Zenon, <1>1, <2>1, <2>2, <2>3 DEF Owed
<1>4. /\ \A v \in Worker : v # w => wk'[v] = wk[v]
      /\ wk'[w].pc \in Asking => wk'[w].pc = "provider" /\ wk'[w].tries = wk[w].tries + 1
    <2>1. CASE \E c \in Candidate : Answer(w, c)
        <3>1. PICK c \in Candidate : Answer(w, c)
            BY Zenon, <2>1
        <3>2. wk'[w].pc = "finish" /\ \A v \in Worker : v # w => wk'[v] = wk[v]
            BY <1>0, <3>1 DEF Answer, AfterAnswer, Attempt
        <3> QED BY <3>2 DEF Asking
    <2>2. CASE Fail(w)
        <3>1. wk'[w].pc = "finish" /\ \A v \in Worker : v # w => wk'[v] = wk[v]
            BY <1>0, <2>2 DEF Fail, AfterFailure, Attempt
        <3> QED BY <3>1 DEF Asking
    <2>3. CASE wk' = [wk EXCEPT ![w].tries = @ + 1]
        BY <1>0, <1>1, <2>3 DEF Attempt
    <2> QED BY Zenon, <2>1, <2>2, <2>3 DEF Request
<1>5. ASSUME NEW p \in Owed' PROVE p \in Owed \ {x}
    <2>1. /\ p \in Worker \X (0..VlmMaxRetries)
          /\ wk'[p[1]].pc \in Asking /\ wk'[p[1]].tries <= p[2]
        BY Zenon DEF Owed
    <2>2. p[1] \in Worker /\ p[2] \in 0..VlmMaxRetries
        BY <2>1
    <2>3. CASE p[1] # w
        <3>1. p \in Owed
            BY Zenon, <2>1, <2>2, <2>3, <1>4 DEF Owed
        <3>2. p # x
            BY <1>2, <2>3
        <3> QED BY Zenon, <3>1, <3>2
    <2>4. CASE p[1] = w
        <3>1. wk[w].pc \in Asking /\ wk[w].tries + 1 <= p[2]
            BY Zenon, <2>1, <2>4, <1>1, <1>4
        <3>2. wk[w].tries <= p[2] /\ p[2] # wk[w].tries
            BY <1>1, <2>2, <3>1
        <3>3. p # x
            BY <1>2, <3>2
        <3> QED BY Zenon, <2>1, <2>4, <3>1, <3>2, <3>3 DEF Owed
    <2> QED BY <2>3, <2>4
<1>6. PICK S, T : S = Owed /\ T = Owed'
    BY Zenon
<1>7. IsFiniteSet(S) /\ x \in S /\ T \in SUBSET (S \ {x})
    BY Zenon, <1>3, <1>5, <1>6 DEF Budget
<1>8. IsFiniteSet(S \ {x}) /\ Cardinality(S \ {x}) = Cardinality(S) - 1
    BY Zenon, <1>7, FS_RemoveElement
<1>9. IsFiniteSet(T) /\ Cardinality(T) <= Cardinality(S) - 1
    BY ZenonT(60), <1>7, <1>8, FS_Subset
<1>10. Cardinality(S) \in Nat /\ Cardinality(T) \in Nat
    BY Zenon, <1>7, <1>9, FS_CardinalityType
<1>11. /\ requests \in Nat /\ deliveries \in Nat /\ VlmMaxRetries \in Nat
       /\ requests' = requests + 1 /\ deliveries' = deliveries
    BY BoundAssumption DEF TypeOK, Request
<1>12. requests + Cardinality(S) <= deliveries * (1 + VlmMaxRetries)
    BY Zenon, <1>6 DEF Budget
<1>13. PICK d : d = deliveries * (1 + VlmMaxRetries) /\ d \in Nat
    BY <1>11
<1>14. requests' + Cardinality(T) <= d
    BY <1>9, <1>10, <1>11, <1>12, <1>13
<1> QED BY Zenon, <1>6, <1>9, <1>11, <1>13, <1>14 DEF Budget

\* A delivery pays for the requests of its attempt.
LEMMA DeliveryPays ==
    ASSUME TypeOK, Budget, NEW w \in Worker, Deliver(w)
    PROVE  Budget'
<1>0. wk \in [Worker -> Attempt]
    BY DEF TypeOK, Attempt, Output
<1>1. \A v \in Worker : v # w => wk'[v] = wk[v]
    BY <1>0 DEF Deliver, Goto
<1>2. PICK N : N = {w} \X (0..VlmMaxRetries)
    BY Zenon
<1>3. ASSUME NEW p \in Owed' PROVE p \in Owed \cup N
    <2>1. /\ p \in Worker \X (0..VlmMaxRetries)
          /\ wk'[p[1]].pc \in Asking /\ wk'[p[1]].tries <= p[2]
        BY Zenon DEF Owed
    <2>2. p[1] \in Worker
        BY <2>1
    <2>3. CASE p[1] # w
        BY Zenon, <2>1, <2>2, <2>3, <1>1 DEF Owed
    <2>4. CASE p[1] = w
        BY <1>2, <2>1, <2>4
    <2> QED BY <2>3, <2>4
<1>4. /\ requests \in Nat /\ deliveries \in Nat /\ VlmMaxRetries \in Nat
      /\ requests' = requests /\ deliveries' = deliveries + 1
    BY BoundAssumption DEF TypeOK, Deliver
<1>5. IsFiniteSet(N) /\ Cardinality(N) = 1 + VlmMaxRetries
    <2>1. IsFiniteSet({w}) /\ Cardinality({w}) = 1
        BY Zenon, FS_Singleton
    <2>2. /\ IsFiniteSet(0..VlmMaxRetries)
          /\ Cardinality(0..VlmMaxRetries) =
               IF 0 > VlmMaxRetries THEN 0 ELSE VlmMaxRetries - 0 + 1
        BY <1>4, FS_Interval
    <2>3. Cardinality(0..VlmMaxRetries) = 1 + VlmMaxRetries
        BY <1>4, <2>2
    <2>4. IsFiniteSet(N) /\ Cardinality(N) = Cardinality({w}) * Cardinality(0..VlmMaxRetries)
        BY Zenon, <1>2, <2>1, <2>2, FS_Product
    <2> QED BY <1>4, <2>1, <2>3, <2>4
<1>6. PICK S, T : S = Owed /\ T = Owed'
    BY Zenon
<1>7. IsFiniteSet(S) /\ T \in SUBSET (S \cup N)
    BY Zenon, <1>3, <1>6 DEF Budget
<1>8. /\ IsFiniteSet(S \cup N) /\ IsFiniteSet(S \cap N)
      /\ Cardinality(S \cup N) = Cardinality(S) + Cardinality(N) - Cardinality(S \cap N)
    <2>1. S \cap N \in SUBSET S
        BY Zenon
    <2> QED BY Zenon, <1>5, <1>7, <2>1, FS_Union, FS_Subset
<1>9. IsFiniteSet(T) /\ Cardinality(T) <= Cardinality(S \cup N)
    BY ZenonT(60), <1>7, <1>8, FS_Subset
<1>10. /\ Cardinality(S) \in Nat /\ Cardinality(T) \in Nat
       /\ Cardinality(S \cap N) \in Nat /\ Cardinality(S \cup N) \in Nat
    BY Zenon, <1>7, <1>8, <1>9, FS_CardinalityType
<1>11. requests + Cardinality(S) <= deliveries * (1 + VlmMaxRetries)
    BY Zenon, <1>6 DEF Budget
<1>12. PICK r : r = 1 + VlmMaxRetries /\ r \in Nat
    BY <1>4
<1>13. (deliveries + 1) * r = deliveries * r + r /\ deliveries * r \in Nat
    BY <1>4, <1>12
<1>14. PICK d : d = deliveries * r /\ d \in Nat
    BY Zenon, <1>13
<1>15. requests + Cardinality(T) <= d + r
    BY <1>4, <1>5, <1>8, <1>9, <1>10, <1>11, <1>12, <1>14
<1> QED BY Zenon, <1>4, <1>6, <1>9, <1>12, <1>13, <1>14, <1>15 DEF Budget

\* An attempt's way to the request and from it.
LEMMA MovesOn ==
    ASSUME wk \in [Worker -> Attempt], NEW w \in Worker, NEW p, NEW s, NEW c, NEW e, NEW o,
           \/ wk' = [wk EXCEPT ![w].pc = p]
           \/ wk' = [wk EXCEPT ![w].seen = s, ![w].pc = p]
           \/ wk' = [wk EXCEPT ![w].call = c, ![w].pc = p]
           \/ wk' = [wk EXCEPT ![w].out = o, ![w].end = e, ![w].pc = p],
           p \in Asking => wk[w].pc \in Asking
    PROVE  AsksNoMore(w)
<1>1. wk'[w].pc = p /\ wk'[w].tries = wk[w].tries /\ \A v \in Worker : v # w => wk'[v] = wk[v]
    BY SMTT(30) DEF Attempt
<1> QED BY Zenon, <1>1 DEF AsksNoMore

LEMMA ReturnsOwing ==
    ASSUME wk \in [Worker -> Attempt], NEW w \in Worker, Return(w)
    PROVE  AsksNoMore(w)
<1>1. wk'[w] = Idle /\ \A v \in Worker : v # w => wk'[v] = wk[v]
    BY DEF Return
<1>2. Idle.pc = "idle" /\ "idle" \notin Asking
    BY DEF Idle, Asking
<1> QED BY Zenon, <1>1, <1>2 DEF AsksNoMore

\* No step but a delivery and a request changes what the attempts may ask for.
LEMMA OthersAskNoMore ==
    ASSUME TypeOK, NEW w \in Worker, Die(w) \/ TextFails(w) \/ Step(w), ~Request(w)
    PROVE  AsksNoMore(w) /\ UNCHANGED <<requests, deliveries>>
<1>0. wk \in [Worker -> Attempt]
    BY DEF TypeOK, Attempt, Output
<1>1. /\ {"find", "create", "mark", "text", "again", "call", "callcreate", "lock", "decide",
          "provider"} \subseteq Asking
      /\ "runfail" \notin Asking /\ "finish" \notin Asking /\ "save" \notin Asking
    BY DEF Asking, PC
<1>2. CASE Die(w)
    BY Zenon, <1>0, <1>2, ReturnsOwing DEF Die, Return
<1>3. CASE TextFails(w)
    <2>1. wk' = [wk EXCEPT ![w].pc = "runfail"]
        BY Zenon, <1>3 DEF TextFails, Goto
    <2> QED BY ZenonT(30), <1>0, <1>1, <1>3, <2>1, MovesOn DEF TextFails
<1>4. CASE FindRun(w)
    <2>1. wk[w].pc \in Asking
        BY Zenon, <1>1, <1>4 DEF FindRun, At
    <2>2. AsksNoMore(w)
        BY ZenonT(30), <1>0, <1>4, <2>1, MovesOn, ReturnsOwing DEF FindRun
    <2> QED BY Zenon, <1>4, <2>2 DEF FindRun
<1>5. CASE FindRunAgain(w)
    <2>1. wk[w].pc \in Asking
        BY Zenon, <1>1, <1>5 DEF FindRunAgain, At
    <2>2. AsksNoMore(w)
        BY ZenonT(30), <1>0, <1>5, <2>1, MovesOn, ReturnsOwing DEF FindRunAgain, Goto
    <2> QED BY Zenon, <1>5, <2>2 DEF FindRunAgain
<1>6. CASE CreateRun(w)
    <2>1. wk[w].pc \in Asking
        BY Zenon, <1>1, <1>6 DEF CreateRun, At
    <2>2. AsksNoMore(w)
        BY ZenonT(30), <1>0, <1>6, <2>1, MovesOn DEF CreateRun, Goto
    <2> QED BY Zenon, <1>6, <2>2 DEF CreateRun
<1>7. CASE MarkProcessing(w)
    <2>1. wk[w].pc \in Asking
        BY Zenon, <1>1, <1>7 DEF MarkProcessing, At
    <2>2. AsksNoMore(w)
        BY ZenonT(30), <1>0, <1>7, <2>1, MovesOn DEF MarkProcessing, Goto
    <2> QED BY Zenon, <1>7, <2>2 DEF MarkProcessing
<1>8. CASE ReadText(w)
    <2>1. wk[w].pc \in Asking
        BY Zenon, <1>1, <1>8 DEF ReadText, At
    <2>2. AsksNoMore(w)
        BY ZenonT(30), <1>0, <1>8, <2>1, MovesOn, ReturnsOwing DEF ReadText, Goto
    <2> QED BY Zenon, <1>8, <2>2 DEF ReadText
<1>9. CASE MarkTerminalFailure(w)
    BY Zenon, <1>0, <1>9, ReturnsOwing DEF MarkTerminalFailure
<1>10. CASE FindCall(w)
    <2>1. wk[w].pc \in Asking
        BY Zenon, <1>1, <1>10 DEF FindCall, At
    <2>2. AsksNoMore(w)
        BY ZenonT(30), <1>0, <1>10, <2>1, MovesOn DEF FindCall
    <2> QED BY Zenon, <1>10, <2>2 DEF FindCall
<1>11. CASE CreateCall(w)
    <2>1. wk[w].pc \in Asking
        BY Zenon, <1>1, <1>11 DEF CreateCall, At
    <2>2. AsksNoMore(w)
        BY ZenonT(30), <1>0, <1>11, <2>1, MovesOn DEF CreateCall, Goto
    <2> QED BY Zenon, <1>11, <2>2 DEF CreateCall
<1>12. CASE LockCall(w)
    <2>1. wk[w].pc \in Asking
        BY Zenon, <1>1, <1>12 DEF LockCall, At
    <2>2. AsksNoMore(w)
        BY ZenonT(30), <1>0, <1>12, <2>1, MovesOn DEF LockCall
    <2> QED BY Zenon, <1>12, <2>2 DEF LockCall
<1>13. CASE Decide(w)
    <2>1. wk[w].pc \in Asking
        BY Zenon, <1>1, <1>13 DEF Decide, At
    <2>2. AsksNoMore(w)
        BY ZenonT(30), <1>0, <1>13, <2>1, MovesOn DEF Decide
    <2> QED BY Zenon, <1>13, <2>2 DEF Decide
<1>14. CASE RenderFails(w)
    <2>1. AsksNoMore(w)
        BY ZenonT(30), <1>0, <1>1, <1>14, MovesOn DEF RenderFails, Fail, AfterFailure
    <2> QED BY Zenon, <1>14, <2>1 DEF RenderFails
<1>15. CASE FinishCall(w)
    <2>1. AsksNoMore(w)
        BY ZenonT(30), <1>0, <1>1, <1>15, MovesOn DEF FinishCall, Goto
    <2> QED BY Zenon, <1>15, <2>1 DEF FinishCall
<1>16. CASE SaveRun(w)
    BY Zenon, <1>0, <1>16, ReturnsOwing DEF SaveRun
<1>17. CASE ReplayRaises(w)
    BY Zenon, <1>0, <1>17, ReturnsOwing DEF ReplayRaises
<1> QED BY Zenon, <1>2, <1>3, <1>4, <1>5, <1>6, <1>7, <1>8, <1>9, <1>10, <1>11, <1>12, <1>13,
           <1>14, <1>15, <1>16, <1>17 DEF Step

\* Whatever is delivered, dies or is tried again: the deliveries cover what was
\* and what may still be sent.
LEMMA BudgetKept == Spec => []Budget
<1>1. Init => Budget
    <2> SUFFICES ASSUME Init PROVE Budget
        OBVIOUS
    <2>1. \A w \in Worker : wk[w].pc = "idle"
        BY Zenon DEF Init, Idle
    <2>2. "idle" \notin Asking
        BY DEF Asking
    <2>3. \A p \in Worker \X (0..VlmMaxRetries) : p[1] \in Worker
        OBVIOUS
    <2>4. Owed = {}
        BY Zenon, <2>1, <2>2, <2>3 DEF Owed
    <2>5. IsFiniteSet(Owed) /\ Cardinality(Owed) = 0
        BY Zenon, <2>4, FS_EmptySet
    <2>6. requests = 0 /\ deliveries = 0 /\ VlmMaxRetries \in Nat
        BY BoundAssumption DEF Init
    <2>7. 0 + 0 <= 0 * (1 + VlmMaxRetries)
        BY <2>6
    <2> QED BY Zenon, <2>5, <2>6, <2>7 DEF Budget
<1>2. TypeOK /\ Budget /\ [Next]_vars => Budget'
    <2> SUFFICES ASSUME TypeOK, Budget, [Next]_vars PROVE Budget'
        OBVIOUS
    <2>1. CASE UNCHANGED vars
        BY Zenon, <2>1 DEF vars, Budget, Owed
    <2>2. ASSUME NEW w \in Worker, Deliver(w) PROVE Budget'
        BY Zenon, <2>2, DeliveryPays
    <2>3. ASSUME NEW w \in Worker, Request(w) PROVE Budget'
        BY Zenon, <2>3, RequestInBudget
    <2>4. ASSUME NEW w \in Worker, Die(w) \/ TextFails(w) \/ Step(w), ~Request(w) PROVE Budget'
        <3>1. AsksNoMore(w) /\ UNCHANGED <<requests, deliveries>>
            BY Zenon, <2>4, OthersAskNoMore
        <3> QED BY Zenon, <3>1, OwesNoMore
    <2> QED BY Zenon, <2>1, <2>2, <2>3, <2>4 DEF Next
<1> QED BY <1>1, <1>2, HybridTypeCorrect, PTL DEF Spec

\* However deliveries repeat and overlap, an invoice costs no more requests than
\* the retries of its deliveries allow, and a supporting document one, plus one
\* for each attempt that died.
THEOREM SpendBounded == Spec => []SpendBound
<1>1. IInv /\ Budget => SpendBound
    <2> SUFFICES ASSUME IInv, Budget PROVE SpendBound
        OBVIOUS
    <2>1. Supporting => requests <= 1 + deaths
        BY DEF IInv, Spent
    <2>2. Cardinality(Owed) \in Nat
        BY Zenon, FS_CardinalityType DEF Budget
    <2>3. requests \in Nat /\ deliveries \in Nat /\ VlmMaxRetries \in Nat
        BY BoundAssumption DEF IInv, TypeOK
    <2>4. PICK d : d = deliveries * (1 + VlmMaxRetries) /\ d \in Nat
        BY <2>3
    <2>5. requests + Cardinality(Owed) <= d
        BY Zenon, <2>4 DEF Budget
    <2>6. requests <= d
        BY <2>2, <2>3, <2>4, <2>5
    <2> QED BY Zenon, <2>1, <2>4, <2>6 DEF SpendBound
<1> QED BY <1>1, SpecIInv, BudgetKept, PTL
=============================================================================
