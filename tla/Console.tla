------------------------------- MODULE Console -------------------------------
(***************************************************************************)
(* A page of a list on its way through the whole console: the browser's    *)
(* tab asks the web process, which resolves the session; the API verifies  *)
(* the session's access token and the caller's role, and reads the page.   *)
(* Any of them may refuse; the tab then shows an error and the user may    *)
(* ask for the same page again.                                            *)
(***************************************************************************)
EXTENDS WebSession, ReviewQueue

CONSTANTS
    Scene              \* named bounds of a behaviour: who takes part, and how much
                       \* of everything else happens

\* A match gives a case each of its reasons once; the API refuses a limit of 0.
ASSUME SceneAssumption ==
    \A s \in DOMAIN Scene :
        /\ Scene[s].tabs \subseteq Caller \cap Reader
        /\ Scene[s].cases \subseteq Case
        /\ Scene[s].limits \subseteq Nat \ {0}
        /\ \A T \in Scene[s].triggers : IsFiniteSet(T) /\ EachReasonOnce(T)

VARIABLES
    scene,             \* the name of this behaviour's bounds
    tab,               \* per tab: where its request is
    asks,              \* requests so far
    role               \* the role in the user's tokens

consoleVars == <<scene, tab, asks, role>>
all == <<now, keyVars, webVars, queueVars, consoleVars>>

here == Scene[scene]

keysQuiet == UNCHANGED <<now, keyVars>>
webQuiet == UNCHANGED webVars
queueQuiet == UNCHANGED queueVars
Moves(r, where) == tab' = [tab EXCEPT ![r] = where] /\ UNCHANGED <<scene, asks, role>>

-----------------------------------------------------------------------------
(* The tab *)

Requests(r) ==
    /\ tab[r] = "idle"
    /\ asks < here.asks
    /\ asks' = asks + 1
    /\ Ask(r)
    /\ tab' = [tab EXCEPT ![r] = "session"]
    /\ keysQuiet /\ UNCHANGED <<scene, role>>

\* The first page under some filters; changing a filter forgets the cursor.
OpenList(r) ==
    /\ \E f \in here.filters, n \in here.limits : Begin(r, f, n)
    /\ Requests(r)

\* The page after the last one shown, or the one that was refused.
RequestPage(r) ==
    /\ walk[r].pc = "walking"
    /\ Requests(r)
    /\ queueQuiet

-----------------------------------------------------------------------------
(* The proxy *)

Forward(r) ==
    /\ tab[r] = "session"
    /\ web[r].pc = "granted"
    /\ Verify(r, web[r].session.kid)
    /\ Moves(r, "token")
    /\ UNCHANGED now /\ webQuiet /\ queueQuiet

\* 401 or 503 of the proxy itself.
Refuse(r) ==
    /\ tab[r] = "session"
    /\ web[r].pc = "refused"
    /\ Respond(r)
    /\ Moves(r, "idle")
    /\ keysQuiet /\ queueQuiet

-----------------------------------------------------------------------------
(* The API *)

Role == {"operator", "reviewer", "auditor", "admin"}

\* ROUTE_ROLES of the two lists.
RouteRoles == [reviews |-> {"reviewer", "auditor", "admin"}, invoices |-> Role]

\* A known key, exp in the future and a sufficient role.
Authorized(r) ==
    /\ api[r].pc = "accepted"
    /\ now < web[r].session.exp
    /\ role \in RouteRoles[walk[r].filter.list]

ServePage(r) ==
    /\ tab[r] = "token"
    /\ Authorized(r)
    /\ NextPage(r)
    /\ Answered(r)
    /\ Respond(r)
    /\ Moves(r, "idle")
    /\ UNCHANGED now

\* 401, 403 or 503.
Deny(r) ==
    /\ tab[r] = "token"
    /\ api[r].pc \in Answers
    /\ ~Authorized(r)
    /\ Answered(r)
    /\ Respond(r)
    /\ Moves(r, "idle")
    /\ UNCHANGED now /\ queueQuiet

-----------------------------------------------------------------------------
(* Everything else that happens meanwhile *)

Tick ==
    /\ now < here.horizon
    /\ MayPass
    /\ now' = now + 1
    /\ UNCHANGED keyVars /\ webQuiet /\ queueQuiet /\ UNCHANGED consoleVars

Rotate ==
    /\ \/ Signing < here.keys /\ Publish
       \/ \E k \in published : Withdraw(k)
    /\ UNCHANGED now /\ webQuiet /\ queueQuiet /\ UNCHANGED consoleVars

\* Reviewers, matching and the wall clock.  A bound: between the requests of
\* the tabs, since all other steps of a request leave the queue alone.
Review ==
    /\ \A r \in here.tabs : tab[r] = "idle"
    /\ \/ here.changes /\ Later
       \/ \E c \in here.cases :
             \/ \E triggers \in here.triggers : Open(c, triggers)
             \/ Commit(c) \/ Rollback(c)
             \/ here.changes /\ Handle(c)
             \/ \E t \in here.signals : AddTrigger(c, t)
    /\ keysQuiet /\ webQuiet /\ UNCHANGED consoleVars

KeyService(r) ==
    KeyStep(r) /\ UNCHANGED now /\ webQuiet /\ queueQuiet /\ UNCHANGED consoleVars

WebService(r) == WebStep(r) /\ keysQuiet /\ queueQuiet /\ UNCHANGED consoleVars

RenewalTask == Renew /\ keysQuiet /\ queueQuiet /\ UNCHANGED consoleVars

Outage ==
    /\ faults < here.faults
    /\ \/ /\ UNCHANGED keyVars
          /\ ReloadFails \/ GrantFails \/ SaveFails \/ \E r \in here.tabs : LoadFails(r)
       \/ OtherFault /\ \E r \in here.tabs : FetchFails(r)
    /\ UNCHANGED now /\ queueQuiet /\ UNCHANGED consoleVars

Logout ==
    /\ store # NoSession
    /\ here.logout
    /\ deleteSession
    /\ keysQuiet /\ queueQuiet /\ UNCHANGED consoleVars

-----------------------------------------------------------------------------
Progress(r) ==
    \/ Forward(r) \/ Refuse(r) \/ ServePage(r) \/ Deny(r)
    \/ KeyService(r) \/ WebService(r)

Init ==
    /\ now = 0
    /\ KeyInit /\ WebInit /\ QueueInit
    /\ scene \in DOMAIN Scene
    /\ tab = [r \in Caller |-> "idle"]
    /\ asks = 0
    /\ role \in here.roles

Next ==
    \/ \E r \in here.tabs : OpenList(r) \/ RequestPage(r) \/ Progress(r)
    \/ RenewalTask
    \/ Tick \/ Rotate \/ Review \/ Outage \/ Logout

\* The web process, the renewal and the API's threads keep running; nothing
\* forces a request, a fault, a rotation or a review.
Spec ==
    /\ Init /\ [][Next]_all
    /\ \A r \in Caller : WF_all(Progress(r))
    /\ WF_all(RenewalTask)

-----------------------------------------------------------------------------
(* Properties *)

\* Every request of a tab is answered: no request waits forever for a renewal
\* that others started, or for the lock held by a thread that asks the provider.
RequestsAnswered == \A r \in Caller : tab[r] # "idle" ~> tab[r] = "idle"
=============================================================================
