----------------------------- MODULE WebSession -----------------------------
(***************************************************************************)
(* The console's backend-for-frontend: a session in Redis that holds the   *)
(* provider's tokens, and resolveSession, which renews them.               *)
(*                                                                         *)
(* One web process serves the browser's concurrent requests; its code runs *)
(* from one await to the next without interruption.  Renewals of a session *)
(* are coalesced in the map refreshes, and the renewal reads the session   *)
(* again before it presents the refresh token, which the provider may      *)
(* accept only once.                                                       *)
(***************************************************************************)
EXTENDS KeyCache

CONSTANTS
    Lifetime,          \* expires_in of an access token
    Margin,            \* the 30 seconds before expiry in which a token is renewed
    MaxFaults          \* bound: failures of Redis and of the provider

ASSUME LifetimeAssumption == Lifetime \in Nat /\ Margin \in Nat /\ MaxFaults \in Nat

VARIABLES
    store,             \* the session in Redis: access and refresh token, or NoSession
    accepted,          \* the refresh token the provider accepts; spent are those before
    task,              \* the renewal in refreshes: pc and session
    web,               \* per request: pc and the session it holds
    lost,              \* has a rotated token been lost on its way to Redis?
    reused,            \* was a spent token presented?
    faults

webVars == <<store, accepted, task, web, lost, reused, faults>>

\* kid and exp of the access token, and the number of the refresh token.
Session == [kid : Nat, exp : Nat, refresh : Nat]
NoSession == [kid |-> 0, exp |-> 0, refresh |-> 0]
NoTask == [pc |-> "none", session |-> NoSession]
Browsing == [pc |-> "idle", session |-> NoSession]

Fault == faults < MaxFaults /\ faults' = faults + 1

\* expiresAt > Date.now() + 30_000
Current(session) == session.exp > now + Margin

-----------------------------------------------------------------------------
(* resolveSession *)

Ask(r) ==
    /\ web[r].pc = "idle"
    /\ web' = [web EXCEPT ![r].pc = "load"]
    /\ UNCHANGED <<store, accepted, task, lost, reused, faults>>

\* loadSession: what Redis answers, on its way to the request.
Load(r) ==
    /\ web[r].pc = "load"
    /\ web' = [web EXCEPT ![r] = [pc |-> "loaded", session |-> store]]
    /\ UNCHANGED <<store, accepted, task, lost, reused, faults>>

LoadFails(r) ==
    /\ web[r].pc = "load"
    /\ Fault
    /\ web' = [web EXCEPT ![r] = [pc |-> "refused", session |-> NoSession]]
    /\ UNCHANGED <<store, accepted, task, lost, reused>>

\* Mutant of FirstRead: the renewal goes on with the session of its request.
FirstReadStale(session) == [pc |-> "read", session |-> session]

\* refreshSession begins by reading the session again.
FirstRead(session) == [pc |-> "reload", session |-> NoSession]

\* A current token is used; otherwise the request joins or starts the renewal.
Continue(r) ==
    LET session == web[r].session
    IN  /\ web[r].pc = "loaded"
        /\ web' = [web EXCEPT ![r].pc = IF session = NoSession THEN "refused"
                                        ELSE IF Current(session) THEN "granted"
                                        ELSE "wait"]
        /\ task' = IF session # NoSession /\ ~Current(session) /\ task.pc = "none"
                   THEN FirstRead(session) ELSE task
        /\ UNCHANGED <<store, accepted, lost, reused, faults>>

-----------------------------------------------------------------------------
(* refreshSession *)

\* The promise is settled: everyone who waits for it gets the same session,
\* and the request that started it takes it out of the map.
Settle(session) ==
    /\ task' = NoTask
    /\ web' = [r \in Caller |->
                 IF web[r].pc # "wait" THEN web[r]
                 ELSE [pc |-> IF session = NoSession THEN "refused" ELSE "granted",
                       session |-> session]]

Reload ==
    /\ task.pc = "reload"
    /\ task' = [pc |-> "read", session |-> store]
    /\ UNCHANGED <<store, accepted, web, lost, reused, faults>>

\* Redis fails while the session is read again: a refusal as well.
ReloadFails ==
    /\ task.pc = "reload"
    /\ Fault
    /\ Settle(NoSession)
    /\ UNCHANGED <<store, accepted, lost, reused>>

Reconsider ==
    /\ task.pc = "read"
    /\ IF task.session = NoSession \/ Current(task.session)
       THEN Settle(task.session)
       ELSE task' = [pc |-> "grant", session |-> task.session] /\ UNCHANGED web
    /\ UNCHANGED <<store, accepted, lost, reused, faults>>

\* The provider issues an access token signed with its newest key, and keeps
\* or replaces the refresh token.
Issued(refresh) == [kid |-> Signing, exp |-> now + Lifetime, refresh |-> refresh]

Grant ==
    /\ task.pc = "grant"
    /\ task.session.refresh = accepted
    /\ accepted' \in {accepted, accepted + 1}
    /\ task' = [pc |-> "save", session |-> Issued(accepted')]
    /\ UNCHANGED <<store, web, lost, reused, faults>>

\* A spent token is an error, and renewal failures are refusals.
GrantRefused ==
    /\ task.pc = "grant"
    /\ task.session.refresh # accepted
    /\ reused' = TRUE
    /\ Settle(NoSession)
    /\ UNCHANGED <<store, accepted, lost, faults>>

\* The provider is not reached, or its answer is lost.
GrantFails ==
    /\ task.pc = "grant"
    /\ Fault
    /\ accepted' \in {accepted, accepted + 1}
    /\ lost' = (lost \/ accepted' # accepted)
    /\ Settle(NoSession)
    /\ UNCHANGED <<store, reused>>

Save ==
    /\ task.pc = "save"
    /\ store' = task.session
    /\ Settle(task.session)
    /\ UNCHANGED <<accepted, lost, reused, faults>>

\* Redis fails, with or without having stored the session.
SaveFails ==
    /\ task.pc = "save"
    /\ Fault
    /\ store' \in {store, task.session}
    /\ lost' = (lost \/ (store' # task.session /\ store'.refresh # accepted))
    /\ Settle(NoSession)
    /\ UNCHANGED <<accepted, reused>>

Renew == Reload \/ Reconsider \/ Grant \/ GrantRefused \/ Save

\* Logout, or the end of the session's time in Redis.
deleteSession ==
    /\ store' = NoSession
    /\ UNCHANGED <<accepted, task, web, lost, reused, faults>>

\* A failure elsewhere, which counts against the bound.
OtherFault == Fault /\ UNCHANGED <<store, accepted, task, web, lost, reused>>

\* The proxy has its answer for the browser.
Respond(r) ==
    /\ web[r].pc \in {"granted", "refused"}
    /\ web' = [web EXCEPT ![r] = Browsing]
    /\ UNCHANGED <<store, accepted, task, lost, reused, faults>>

-----------------------------------------------------------------------------
\* The callback route has saved the session of a login.
WebInit ==
    /\ store = [kid |-> 1, exp |-> now + Lifetime, refresh |-> 1]
    /\ accepted = 1
    /\ task = NoTask
    /\ web = [r \in Caller |-> Browsing]
    /\ lost = FALSE
    /\ reused = FALSE
    /\ faults = 0

WebStep(r) == Load(r) \/ Continue(r)

\* Sessions by themselves; time and the signing keys change between their steps.
WebNext ==
    \/ \E r \in Caller : Ask(r) \/ WebStep(r) \/ LoadFails(r) \/ Respond(r)
    \/ Renew \/ ReloadFails \/ GrantFails \/ SaveFails \/ deleteSession \/ OtherFault

WebSpec == WebInit /\ [][WebNext]_webVars

-----------------------------------------------------------------------------
(* Properties *)

\* However the browser's requests overlap, a refresh token that was replaced is
\* not presented again, unless its replacement was lost on the way to Redis ("a
\* request holding an older session cannot rotate an already-rotated token").
RotatedTokenRetired == reused => lost
=============================================================================
