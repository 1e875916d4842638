--------------------------- MODULE Console_proofs ---------------------------
(***************************************************************************)
(* Proofs about the console: the API's key cache and the web process'      *)
(* sessions by themselves, for any number of threads and requests, any     *)
(* lifetime of the cache and any delay of the provider's answers; and both *)
(* of them, and the paged lists, as the console composes them.             *)
(***************************************************************************)
EXTENDS Console, ReviewQueue_proofs

-----------------------------------------------------------------------------
(* The key cache.  The properties speak of calls that have ended; the      *)
(* inductive invariant says what the cache, an answer on its way and a     *)
(* call in progress know of the provider: a key that was withdrawn since   *)
(* the answer left was withdrawn no earlier than that.                     *)

Thread == [pc : Waiting \cup Answers \cup {"idle"}, kid : Nat, got : SUBSET Nat,
           asked : Nat, at : Nat, served : BOOLEAN]

Types ==
    /\ now \in Nat /\ expires \in Nat
    /\ published \subseteq Nat /\ keys \subseteq Nat
    /\ DOMAIN withdrawn \subseteq Nat
    /\ \A k \in DOMAIN withdrawn : withdrawn[k] \in Nat
    /\ api \in [Caller -> Thread]

\* Keys are numbered in the order of publication, and none comes back.
Provider ==
    /\ \E m \in published : /\ \A j \in published : j <= m
                            /\ \A k \in DOMAIN withdrawn : k < m
    /\ \A k \in DOMAIN withdrawn : k \notin published /\ withdrawn[k] <= now

\* No cached key outlives its withdrawal by more than the bound.
Cached ==
    /\ expires <= now + Ttl
    /\ \A k \in keys \cap DOMAIN withdrawn : expires <= withdrawn[k] + Ttl + FetchTime

\* What an answer on its way says was true when it left.
Answer(a) ==
    a.pc \in {"store", "storeagain"} =>
        /\ a.asked <= now /\ now <= a.asked + FetchTime
        /\ \A k \in a.got \cap DOMAIN withdrawn : a.asked <= withdrawn[k]

\* served is about the provider, and the second answer holds a served key.
Knows(a) ==
    /\ a.pc # "idle" /\ a.served => a.kid \in published
    /\ a.pc = "storeagain" /\ a.served => a.kid \in a.got
    /\ a.pc = "unknown" => ~a.served

\* A call that was accepted ended in time.
InTime(a) ==
    a.pc = "accepted" =>
        /\ a.at <= now
        /\ a.kid \in DOMAIN withdrawn => a.at < withdrawn[a.kid] + Ttl + FetchTime

Sound(a) == Answer(a) /\ Knows(a) /\ InTime(a)

KeyInv == Types /\ Provider /\ Cached /\ \A c \in Caller : Sound(api[c])

-----------------------------------------------------------------------------
LEMMA KeyInitInv == now = 0 /\ KeyInit => KeyInv
<1> SUFFICES ASSUME now = 0, KeyInit PROVE KeyInv
    OBVIOUS
<1>1. Types
    BY TtlAssumption DEF KeyInit, Types, Thread, Quiet, Waiting, Answers
<1>2. Provider /\ Cached
    BY TtlAssumption DEF KeyInit, Provider, Cached
<1>3. \A c \in Caller : Sound(api[c])
    BY Zenon DEF KeyInit, Quiet, Sound, Answer, Knows, InTime
<1> QED BY Zenon, <1>1, <1>2, <1>3 DEF KeyInv

\* The newest key is the one the invariant speaks of.
LEMMA SigningIsNewest ==
    ASSUME Types, Provider
    PROVE  /\ Signing \in published
           /\ \A j \in published : j <= Signing
           /\ \A k \in DOMAIN withdrawn : k < Signing
<1>1. PICK m \in published : /\ \A j \in published : j <= m
                             /\ \A k \in DOMAIN withdrawn : k < m
    BY DEF Provider
<1>2. Signing \in published /\ \A j \in published : j <= Signing
    BY <1>1 DEF Signing
<1>3. Signing = m
    BY <1>1, <1>2 DEF Types
<1> QED BY Zenon, <1>1, <1>2, <1>3

LEMMA PublishStep == KeyInv /\ Publish /\ UNCHANGED now => KeyInv'
<1> SUFFICES ASSUME KeyInv, Publish, UNCHANGED now PROVE KeyInv'
    OBVIOUS
<1> USE DEF KeyInv
<1>1. UNCHANGED <<withdrawn, keys, expires, api, now>>
    BY DEF Publish, cache
<1>2. published' = published \cup {Signing + 1}
    BY DEF Publish
<1>3. Signing \in Nat /\ \A j \in published : j <= Signing
    BY Zenon, SigningIsNewest DEF Types
<1>4. \A k \in DOMAIN withdrawn : k < Signing /\ k \in Nat
    BY Zenon, SigningIsNewest DEF Types
<1>5. Types'
    BY <1>1, <1>2, <1>3 DEF Types
<1>6. Provider'
  <2>1. /\ \A j \in published' : j <= Signing + 1
        /\ \A k \in DOMAIN withdrawn' : k < Signing + 1
    BY SMTT(30), <1>1, <1>2, <1>3, <1>4 DEF Types
  <2>2. \A k \in DOMAIN withdrawn' : k \notin published' /\ withdrawn'[k] <= now'
    <3>1. \A k \in DOMAIN withdrawn : k # Signing + 1
        BY <1>3, <1>4
    <3> QED BY Zenon, <1>1, <1>2, <3>1 DEF Provider
  <2> QED BY Zenon, <1>2, <2>1, <2>2 DEF Provider
<1>7. Cached'
    BY Zenon, <1>1 DEF Cached
<1>8. \A c \in Caller : Sound(api[c])'
    BY Zenon, <1>1, <1>2 DEF Sound, Answer, Knows, InTime
<1> QED BY Zenon, <1>5, <1>6, <1>7, <1>8

LEMMA WithdrawStep ==
    ASSUME KeyInv, NEW k \in published, Withdraw(k), UNCHANGED now
    PROVE  KeyInv'
<1> USE DEF KeyInv
<1>1. k # Signing /\ published' = published \ {k} /\ UNCHANGED <<keys, expires, now>>
    BY DEF Withdraw, cache
<1>2. /\ DOMAIN withdrawn' = DOMAIN withdrawn \cup {k}
      /\ withdrawn'[k] = now
      /\ \A j \in DOMAIN withdrawn : withdrawn'[j] = withdrawn[j]
    BY DEF Withdraw, Provider
<1>3. ASSUME NEW c \in Caller
      PROVE  /\ api'[c] \in Thread
             /\ \A f \in {"pc", "kid", "got", "asked", "at"} : api'[c][f] = api[c][f]
             /\ api'[c].served = (api[c].served /\ api[c].kid # k)
    BY Zenon DEF Withdraw, Types, Thread
<1>4. Types'
  <2>1. api' \in [Caller -> Thread]
    BY <1>3 DEF Withdraw
  <2> QED BY <1>1, <1>2, <2>1 DEF Types
<1>5. Provider'
  <2>1. /\ Signing \in published' /\ \A j \in published' : j <= Signing
        /\ \A j \in DOMAIN withdrawn' : j < Signing
    <3>1. /\ Signing \in published /\ \A j \in published : j <= Signing
          /\ \A j \in DOMAIN withdrawn : j < Signing
        BY SigningIsNewest
    <3>2. k \in Nat /\ Signing \in Nat /\ k <= Signing
        BY <3>1 DEF Types
    <3>3. k < Signing
        BY <1>1, <3>2
    <3> HIDE DEF Signing
    <3> QED BY Zenon, <1>1, <1>2, <3>1, <3>3
  <2>2. \A j \in DOMAIN withdrawn' : j \notin published' /\ withdrawn'[j] <= now'
    BY <1>1, <1>2 DEF Provider, Types
  <2> QED BY Zenon, <2>1, <2>2 DEF Provider
<1>6. Cached'
    BY SMTT(30), <1>1, <1>2, TtlAssumption DEF Cached, Types
<1>7. ASSUME NEW c \in Caller PROVE Sound(api[c])'
  <2>1. Answer(api[c])'
    BY Zenon, <1>1, <1>2, <1>3 DEF Sound, Answer, Types, Thread
  <2>2. Knows(api[c])'
    BY Zenon, <1>1, <1>3 DEF Sound, Knows
  <2>3. InTime(api[c])'
    <3>1. InTime(api[c]) /\ api[c].at \in Nat /\ now \in Nat /\ now' = now
        BY Zenon, <1>1 DEF Sound, Types, Thread
    <3>2. api'[c].pc = api[c].pc /\ api'[c].kid = api[c].kid /\ api'[c].at = api[c].at
        BY Zenon, <1>3
    <3>3. api[c].at <= now => api[c].at < now + Ttl + FetchTime
        BY <3>1, TtlAssumption
    <3>4. k \notin DOMAIN withdrawn
        BY Zenon DEF Provider
    <3> QED BY Zenon, <1>2, <3>1, <3>2, <3>3, <3>4 DEF InTime
  <2> QED BY Zenon, <2>1, <2>2, <2>3 DEF Sound
<1> QED BY Zenon, <1>4, <1>5, <1>6, <1>7

LEMMA TickStep ==
    ASSUME KeyInv, MayPass, now' = now + 1, UNCHANGED keyVars
    PROVE  KeyInv'
<1> USE DEF KeyInv
<1>1. UNCHANGED <<published, withdrawn, keys, expires, api>>
    BY DEF keyVars
<1>2. Types'
    BY <1>1 DEF Types
<1>3. Provider'
    BY <1>1 DEF Provider, Types
<1>4. Cached'
    BY SMTT(30), <1>1, TtlAssumption DEF Cached, Types
<1>5. ASSUME NEW c \in Caller PROVE Sound(api[c])'
  <2>1. api[c].asked \in Nat /\ api[c].at \in Nat
    BY DEF Types, Thread
  <2> QED BY SMTT(30), <1>1, <2>1, TtlAssumption DEF Sound, Answer, Knows, InTime, MayPass, Types
<1> QED BY Zenon, <1>2, <1>3, <1>4, <1>5

-----------------------------------------------------------------------------
\* A step of one thread that leaves the provider alone.
LEMMA OneThread ==
    ASSUME KeyInv, NEW c \in Caller, NEW a \in Thread,
           api' = [api EXCEPT ![c] = a], UNCHANGED <<now, published, withdrawn>>,
           keys' \subseteq Nat, expires' \in Nat, Cached', Sound(a)
    PROVE  KeyInv'
<1> USE DEF KeyInv
<1>1. Types'
    BY DEF Types
<1>2. Provider'
    BY Zenon DEF Provider
<1>3. ASSUME NEW d \in Caller PROVE Sound(api[d])'
  <2>1. Sound(api'[d])
    BY DEF Types
  <2> QED BY <2>1 DEF Sound, Answer, Knows, InTime
<1> QED BY Zenon, <1>1, <1>2, <1>3

\* A call that ends is a thread, and sound if its answer is justified.
LEMMA EndsSound ==
    ASSUME KeyInv, NEW c \in Caller, NEW answer \in Answers,
           answer = "accepted" /\ api[c].kid \in DOMAIN withdrawn =>
               now < withdrawn[api[c].kid] + Ttl + FetchTime,
           answer = "unknown" => ~api[c].served,
           api[c].pc \in Waiting
    PROVE  LET a == [api[c] EXCEPT !.pc = answer, !.at = now]
           IN  a \in Thread /\ Sound(a) /\ Ends(c, answer) = [api EXCEPT ![c] = a]
<1> DEFINE a == [api[c] EXCEPT !.pc = answer, !.at = now]
<1>1. api[c] \in Thread /\ now \in Nat
    BY DEF KeyInv, Types
<1>2. a \in Thread
    BY Zenon, <1>1 DEF Thread, Answers
<1>3. /\ a.pc = answer /\ a.at = now /\ a.kid = api[c].kid /\ a.served = api[c].served
      /\ a.got = api[c].got
    BY <1>1, Zenon DEF Thread
<1>4. Sound(api[c])
    BY Zenon DEF KeyInv
<1>5. Sound(a)
    <2> HIDE DEF a
    <2> QED BY SMTT(30), <1>1, <1>3, <1>4 DEF Sound, Answer, Knows, InTime, Answers, Waiting
<1>6. Ends(c, answer) = [api EXCEPT ![c] = a]
    BY Zenon, <1>1 DEF Ends, KeyInv, Types
<1> QED BY Zenon, <1>2, <1>5, <1>6

LEMMA VerifyStep ==
    ASSUME KeyInv, NEW c \in Caller, NEW kid \in Nat, Verify(c, kid), UNCHANGED now
    PROVE  KeyInv'
<1> DEFINE a == [pc |-> "enter", kid |-> kid, got |-> {}, asked |-> 0, at |-> 0,
                 served |-> kid \in published]
<1>2. a \in Thread
  <2>1. (kid \in published) \in BOOLEAN /\ {} \in SUBSET Nat /\ 0 \in Nat
    OBVIOUS
  <2> QED BY <2>1, Zenon DEF Thread, Waiting
<1>3. Sound(a)
    BY Zenon DEF Sound, Answer, Knows, InTime
<1>4. /\ api' = [api EXCEPT ![c] = a]
      /\ UNCHANGED <<now, published, withdrawn, keys, expires>>
    BY DEF Verify, provider, cache
<1>5. Cached' /\ keys' \subseteq Nat /\ expires' \in Nat
    BY Zenon, <1>4 DEF KeyInv, Types, Cached
<1> QED BY ZenonT(60), <1>2, <1>3, <1>4, <1>5, OneThread

LEMMA AnsweredStep ==
    ASSUME KeyInv, NEW c \in Caller, Answered(c), UNCHANGED now
    PROVE  KeyInv'
<1>1. Quiet \in Thread /\ Sound(Quiet)
    BY DEF Quiet, Thread, Sound, Answer, Knows, InTime
<1>2. /\ api' = [api EXCEPT ![c] = Quiet]
      /\ UNCHANGED <<now, published, withdrawn, keys, expires>>
    BY DEF Answered, provider, cache
<1>3. Cached' /\ keys' \subseteq Nat /\ expires' \in Nat
    BY Zenon, <1>2 DEF KeyInv, Types, Cached
<1> QED BY ZenonT(60), <1>1, <1>2, <1>3, OneThread

LEMMA EnterStep ==
    ASSUME KeyInv, NEW c \in Caller, Enter(c), UNCHANGED now
    PROVE  KeyInv'
<1>1. UNCHANGED <<now, published, withdrawn, keys, expires>> /\ api[c].pc = "enter"
    BY DEF Enter, provider, cache
<1>2. Cached' /\ keys' \subseteq Nat /\ expires' \in Nat
    BY Zenon, <1>1 DEF KeyInv, Types, Cached
<1>3. api[c] \in Thread /\ Sound(api[c])
    BY DEF KeyInv, Types
<1>4. ASSUME NEW pc \in {"refresh", "again"}, api' = [api EXCEPT ![c].pc = pc]
      PROVE  KeyInv'
  <2> DEFINE a == [api[c] EXCEPT !.pc = pc]
  <2>1. a \in Thread
    BY Zenon, <1>3 DEF Thread, Waiting
  <2>2. a.pc = pc /\ a.kid = api[c].kid /\ a.served = api[c].served
    BY <1>3, Zenon DEF Thread
  <2>3. Sound(a)
    <3> HIDE DEF a
    <3> QED BY Zenon, <1>1, <1>3, <2>2 DEF Sound, Answer, Knows, InTime
  <2>4. api' = [api EXCEPT ![c] = a]
    BY Zenon, <1>4
  <2> QED BY Zenon, <1>1, <1>2, <2>1, <2>3, <2>4, OneThread
<1>5. ASSUME Fresh, api[c].kid \in keys, api' = Ends(c, "accepted")
      PROVE  KeyInv'
  <2>1. api[c].kid \in DOMAIN withdrawn => now < withdrawn[api[c].kid] + Ttl + FetchTime
    BY SMTT(30), <1>5, TtlAssumption DEF KeyInv, Cached, Fresh, Types
  <2>2. PICK a \in Thread : Sound(a) /\ Ends(c, "accepted") = [api EXCEPT ![c] = a]
    BY Zenon, <1>1, <2>1, EndsSound DEF Answers, Waiting
  <2> QED BY Zenon, <1>1, <1>2, <1>5, <2>2, OneThread
<1> QED BY Zenon, <1>4, <1>5 DEF Enter, Missing

LEMMA FetchStep ==
    ASSUME KeyInv, NEW c \in Caller, Fetch(c), UNCHANGED now
    PROVE  KeyInv'
<1>1. UNCHANGED <<now, published, withdrawn, keys, expires>> /\ api[c].pc \in {"refresh", "again"}
    BY DEF Fetch, provider
<1>2. Cached' /\ keys' \subseteq Nat /\ expires' \in Nat
    BY <1>1 DEF KeyInv, Types, Cached
<1>3. /\ api[c] \in Thread /\ Sound(api[c]) /\ api \in [Caller -> Thread]
      /\ published \in SUBSET Nat /\ now \in Nat
    BY DEF KeyInv, Types
<1>4. PICK pc \in {"store", "storeagain"} :
         api' = [api EXCEPT ![c].pc = pc, ![c].got = published, ![c].asked = now]
    BY Zenon DEF Fetch
<1> DEFINE a == [api[c] EXCEPT !.pc = pc, !.got = published, !.asked = now]
<1>5. a \in Thread
    BY Zenon, <1>3 DEF Thread, Waiting
<1>6. /\ a.pc = pc /\ a.kid = api[c].kid /\ a.served = api[c].served
      /\ a.got = published /\ a.asked = now
    BY <1>3, Zenon DEF Thread
<1>7. api' = [api EXCEPT ![c] = a]
    BY Zenon, <1>3, <1>4
<1>8. Sound(a)
  <2> HIDE DEF a
  <2>1. \A k \in published : k \notin DOMAIN withdrawn
    BY DEF KeyInv, Provider
  <2>2. Answer(a)
    <3>1. now <= now /\ now <= now + FetchTime
        BY <1>3, TtlAssumption
    <3> QED BY Zenon, <1>6, <2>1, <3>1 DEF Answer
  <2>3. Knows(a)
    BY Zenon, <1>1, <1>3, <1>6 DEF Sound, Knows
  <2>4. InTime(a)
    BY Zenon, <1>6 DEF InTime
  <2> QED BY Zenon, <2>2, <2>3, <2>4 DEF Sound
<1> QED BY Zenon, <1>1, <1>2, <1>5, <1>7, <1>8, OneThread

LEMMA FetchFailsStep ==
    ASSUME KeyInv, NEW c \in Caller, FetchFails(c), UNCHANGED now
    PROVE  KeyInv'
<1>1. /\ UNCHANGED <<now, published, withdrawn, keys, expires>>
      /\ api[c].pc \in {"refresh", "again"} /\ api' = Ends(c, "unavailable")
    BY Zenon DEF FetchFails, provider
<1>2. Cached' /\ keys' \subseteq Nat /\ expires' \in Nat
    BY Zenon, <1>1 DEF KeyInv, Types, Cached
<1>3. PICK a \in Thread : Sound(a) /\ Ends(c, "unavailable") = [api EXCEPT ![c] = a]
    BY Zenon, <1>1, EndsSound DEF Answers, Waiting
<1> QED BY Zenon, <1>1, <1>2, <1>3, OneThread

LEMMA StoreStep ==
    ASSUME KeyInv, NEW c \in Caller, Store(c), UNCHANGED now
    PROVE  KeyInv'
<1>1. /\ UNCHANGED <<now, published, withdrawn>> /\ api[c].pc \in {"store", "storeagain"}
      /\ keys' = api[c].got /\ expires' = now + Ttl
    BY DEF Store, provider
<1>2. /\ api[c] \in Thread /\ Sound(api[c]) /\ api \in [Caller -> Thread] /\ now \in Nat
      /\ \A k \in DOMAIN withdrawn : withdrawn[k] \in Nat
    BY Zenon DEF KeyInv, Types
<1>3. /\ api[c].asked \in Nat /\ now <= api[c].asked + FetchTime
      /\ \A k \in api[c].got \cap DOMAIN withdrawn : api[c].asked <= withdrawn[k]
    BY Zenon, <1>1, <1>2 DEF Sound, Answer, Thread
<1>4. keys' \subseteq Nat /\ expires' \in Nat /\ Cached'
    <2>1. api[c].got \subseteq Nat
        BY Zenon, <1>2 DEF Thread
    <2>2. now + Ttl \in Nat /\ now + Ttl <= now + Ttl
        BY <1>2, TtlAssumption
    <2>3. ASSUME NEW k \in api[c].got \cap DOMAIN withdrawn
          PROVE  now + Ttl <= withdrawn[k] + Ttl + FetchTime
        <3>1. withdrawn[k] \in Nat /\ api[c].asked <= withdrawn[k]
            BY Zenon, <1>2, <1>3
        <3> QED BY <1>2, <1>3, <3>1, TtlAssumption
    <2> QED BY Zenon, <1>1, <2>1, <2>2, <2>3 DEF Cached
<1>5. ASSUME api[c].kid \in api[c].got, api' = Ends(c, "accepted")
      PROVE  KeyInv'
  <2>1. api[c].kid \in DOMAIN withdrawn => now < withdrawn[api[c].kid] + Ttl + FetchTime
    BY SMTT(30), <1>2, <1>3, <1>5, TtlAssumption
  <2>2. PICK a \in Thread : Sound(a) /\ Ends(c, "accepted") = [api EXCEPT ![c] = a]
    BY Zenon, <1>1, <2>1, EndsSound DEF Answers, Waiting
  <2> QED BY Zenon, <1>1, <1>4, <1>5, <2>2, OneThread
<1>6. ASSUME api[c].kid \notin api[c].got, api[c].pc = "storeagain", api' = Ends(c, "unknown")
      PROVE  KeyInv'
  <2>1. ~api[c].served
    BY Zenon, <1>2, <1>6 DEF Sound, Knows
  <2>2. PICK a \in Thread : Sound(a) /\ Ends(c, "unknown") = [api EXCEPT ![c] = a]
    BY Zenon, <1>1, <2>1, EndsSound DEF Answers, Waiting
  <2> QED BY Zenon, <1>1, <1>4, <1>6, <2>2, OneThread
<1>7. ASSUME api' = [api EXCEPT ![c].pc = "again"]
      PROVE  KeyInv'
  <2> DEFINE a == [api[c] EXCEPT !.pc = "again"]
  <2>1. a \in Thread
    BY <1>2 DEF Thread, Waiting
  <2>2. a.pc = "again" /\ a.kid = api[c].kid /\ a.served = api[c].served
    BY <1>2, Zenon DEF Thread
  <2>3. Sound(a)
    <3> HIDE DEF a
    <3> QED BY Zenon, <1>1, <1>2, <2>2 DEF Sound, Answer, Knows, InTime
  <2>4. api' = [api EXCEPT ![c] = a]
    BY Zenon, <1>2, <1>7
  <2> QED BY ZenonT(60), <1>1, <1>4, <2>1, <2>3, <2>4, OneThread
<1> QED BY Zenon, <1>1, <1>5, <1>6, <1>7 DEF Store, Missing

-----------------------------------------------------------------------------
LEMMA KeyStepInv == KeyInv /\ [KeyNext]_<<now, keyVars>> => KeyInv'
<1> SUFFICES ASSUME KeyInv, [KeyNext]_<<now, keyVars>> PROVE KeyInv'
    BY Zenon
<1>1. ASSUME UNCHANGED <<now, keyVars>> PROVE KeyInv'
    BY Zenon, <1>1 DEF keyVars, KeyInv, Types, Provider, Cached, Sound, Answer, Knows, InTime
<1>2. ASSUME UNCHANGED now, NEW c \in Caller, KeyStep(c) PROVE KeyInv'
    BY Zenon, <1>2, EnterStep, FetchStep, StoreStep DEF KeyStep
<1> QED
    BY SMTT(30), <1>1, <1>2, TickStep, PublishStep, WithdrawStep, VerifyStep, AnsweredStep, FetchFailsStep
    DEF KeyNext

\* The properties are consequences of the invariant.
LEMMA KeyInvFollows == KeyInv => KeysFollowProvider
<1> SUFFICES ASSUME KeyInv, NEW c \in Caller
             PROVE  /\ api[c].pc = "accepted" /\ api[c].kid \in DOMAIN withdrawn =>
                           api[c].at < withdrawn[api[c].kid] + Ttl + FetchTime
                    /\ api[c].pc = "unknown" => ~api[c].served
  BY DEF KeysFollowProvider, WithdrawnKeysLapse, ServedKeysKnown
<1>1. Knows(api[c]) /\ InTime(api[c])
  BY DEF KeyInv, Sound
<1> QED BY Zenon, <1>1 DEF Knows, InTime

\* Whatever the provider rotates and however its answers are delayed or fail,
\* _key_for honours no withdrawn key for longer than the cache's lifetime and
\* one answer's delay, and refuses no token whose key was served all along.
THEOREM KeyCacheFollows == KeySpec => []KeysFollowProvider
BY KeyInvFollows, KeyInitInv, KeyStepInv, PTL DEF KeySpec

-----------------------------------------------------------------------------
(* Sessions.  As long as no replacement was lost, the session in Redis     *)
(* holds the accepted token unless the renewal is about to save a newer    *)
(* one, and the renewal itself never holds an older one: there is only     *)
(* one, and it reads the session after it began.                           *)

Held(session) == session = NoSession \/ session.refresh = accepted

WebInv ==
    \/ lost
    \/ /\ ~reused
       /\ task.pc \in {"none", "reload", "read", "grant", "save"}
       /\ task.pc = "save" => task.session.refresh = accepted
       /\ task.pc # "save" => Held(store)
       /\ task.pc = "read" => Held(task.session)
       /\ task.pc = "grant" => task.session.refresh = accepted

LEMMA WebInitInv == WebInit => WebInv
BY DEF WebInit, WebInv, NoTask, Held

\* Requests read the session and may begin the renewal; they do not disturb it.
LEMMA RequestKeeps ==
    ASSUME WebInv, NEW r \in Caller, Ask(r) \/ WebStep(r) \/ LoadFails(r) \/ Respond(r)
    PROVE  WebInv'
<1>1. UNCHANGED <<store, accepted, lost, reused>>
    BY DEF Ask, WebStep, Load, Continue, LoadFails, Respond
<1>2. task' = task \/ (task.pc = "none" /\ task' = FirstRead(web[r].session))
    BY DEF Ask, WebStep, Load, Continue, LoadFails, Respond
<1>3. FirstRead(web[r].session).pc = "reload"
    BY DEF FirstRead
<1> QED BY Zenon, <1>1, <1>2, <1>3 DEF WebInv, Held

\* The steps of the renewal that read.
LEMMA RenewalReads == ASSUME WebInv, Reload \/ ReloadFails \/ Reconsider PROVE WebInv'
<1>1. CASE Reload
    BY Zenon, <1>1 DEF Reload, WebInv, Held
<1>2. CASE Reconsider
    BY <1>2 DEF Reconsider, Settle, NoTask, WebInv, Held
<1>3. CASE ReloadFails
    BY ZenonT(60), <1>3 DEF ReloadFails, Settle, NoTask, WebInv, Held
<1> QED BY Zenon, <1>1, <1>2, <1>3

\* The steps that talk to the provider: a refused token was lost before.
LEMMA RenewalGrants == ASSUME WebInv, Grant \/ GrantRefused \/ GrantFails PROVE WebInv'
<1>1. CASE Grant
    BY Zenon, <1>1 DEF Grant, Issued, WebInv, Held
<1>2. CASE GrantRefused
    BY <1>2 DEF GrantRefused, WebInv
<1>3. CASE GrantFails
    BY ZenonT(60), <1>3 DEF GrantFails, Settle, NoTask, WebInv, Held
<1> QED BY Zenon, <1>1, <1>2, <1>3

\* The steps that write the session.
LEMMA SessionWrites == ASSUME WebInv, Save \/ SaveFails \/ deleteSession PROVE WebInv'
<1>1. CASE Save
    BY <1>1 DEF Save, Settle, NoTask, WebInv, Held
<1>2. CASE SaveFails
    BY Zenon, <1>2 DEF SaveFails, Settle, NoTask, WebInv, Held
<1>3. CASE deleteSession
    BY <1>3 DEF deleteSession, WebInv, Held
<1> QED BY <1>1, <1>2, <1>3

LEMMA WebStepInv == WebInv /\ [WebNext]_webVars => WebInv'
<1> SUFFICES ASSUME WebInv, [WebNext]_webVars PROVE WebInv'
    OBVIOUS
<1>1. ASSUME OtherFault \/ UNCHANGED webVars PROVE WebInv'
    BY <1>1 DEF OtherFault, webVars, WebInv, Held
<1> QED BY Zenon, <1>1, RequestKeeps, RenewalReads, RenewalGrants, SessionWrites DEF WebNext, Renew

\* However many requests overlap, refreshSession presents a replaced refresh
\* token only after its replacement was lost on the way to Redis.
THEOREM WebTokenRetired == WebSpec => []RotatedTokenRetired
<1>1. WebInv => RotatedTokenRetired
    BY DEF WebInv, RotatedTokenRetired
<1> QED BY <1>1, WebInitInv, WebStepInv, PTL DEF WebSpec

-----------------------------------------------------------------------------
(* The console.  Its steps are steps of the two parts: what the proxy      *)
(* forwards is a token of the provider, and the bounds of a scene only     *)
(* leave steps out.                                                        *)

Asker == [pc : {"idle", "load", "loaded", "wait", "granted", "refused"}, session : Session]
Renewal == [pc : {"none", "reload", "read", "grant", "save"}, session : Session]

WebTypes ==
    accepted \in Nat /\ store \in Session /\ task \in Renewal /\ web \in [Caller -> Asker]

\* Tokens and sessions have their types from the start.
LEMMA WebInitTypes == now = 0 /\ WebInit => WebTypes
<1> SUFFICES ASSUME now = 0, WebInit PROVE WebTypes
    OBVIOUS
<1>1. NoSession \in Session /\ store \in Session /\ accepted \in Nat
    BY LifetimeAssumption DEF WebInit, NoSession, Session
<1> QED BY Zenon, <1>1 DEF WebInit, WebTypes, NoTask, Browsing, Asker, Renewal

\* A promise that is settled with a session leaves sessions.
LEMMA SettledTypes ==
    ASSUME WebTypes, NEW session \in Session, Settle(session)
    PROVE  task' \in Renewal /\ web' \in [Caller -> Asker]
<1>1. NoSession \in Session
    BY DEF NoSession, Session
<1>2. task' = NoTask
    BY DEF Settle
<1>3. ASSUME NEW r \in Caller
      PROVE  (IF web[r].pc # "wait" THEN web[r]
              ELSE [pc |-> IF session = NoSession THEN "refused" ELSE "granted",
                    session |-> session]) \in Asker
    BY DEF WebTypes, Asker
<1>4. web' \in [Caller -> Asker]
    BY Zenon, <1>3 DEF Settle
<1> QED BY Zenon, <1>1, <1>2, <1>4 DEF NoTask, Renewal

\* Steps of the sessions keep the types; the provider signs with a known key.
LEMMA WebStepTypes ==
    ASSUME KeyInv, WebTypes, [WebNext]_webVars
    PROVE  WebTypes'
<1>1. NoSession \in Session /\ task.session \in Session
    BY DEF WebTypes, Renewal, NoSession, Session
<1>2. \A refresh \in Nat : Issued(refresh) \in Session
    <2>1. Signing \in Nat /\ now + Lifetime \in Nat
        <3>1. Signing \in published /\ published \subseteq Nat /\ now \in Nat
            BY Zenon, SigningIsNewest DEF KeyInv, Types
        <3>2. now + Lifetime \in Nat
            BY SMTT(30), <3>1, LifetimeAssumption
        <3> QED BY Zenon, <3>1, <3>2
    <2> QED BY Zenon, <2>1 DEF Issued, Session
<1>3. ASSUME NEW r \in Caller, Ask(r) \/ Load(r) \/ Continue(r) \/ LoadFails(r) \/ Respond(r)
      PROVE  WebTypes'
    <2>1. UNCHANGED <<store, accepted>>
        BY Zenon, <1>3 DEF Ask, Load, Continue, LoadFails, Respond
    <2>2. web[r] \in Asker
        BY Zenon DEF WebTypes
    <2>3. task' \in Renewal
        <3>1. task' = task \/ task' = FirstRead(web[r].session)
            BY Zenon, <1>3 DEF Ask, Load, Continue, LoadFails, Respond
        <3>2. FirstRead(web[r].session) \in Renewal
            BY Zenon, <1>1 DEF FirstRead, Renewal
        <3> QED BY Zenon, <3>1, <3>2 DEF WebTypes
    <2>4. web' \in [Caller -> Asker]
        <3>1. PICK x \in Asker : web' = [web EXCEPT ![r] = x]
            <4>1. CASE Ask(r)
                BY ZenonT(30), <2>2, <4>1 DEF Ask, Asker
            <4>2. CASE Load(r)
                BY ZenonT(30), <4>2 DEF Load, Asker, WebTypes
            <4>3. CASE Continue(r)
                BY ZenonT(30), <2>2, <4>3 DEF Continue, Asker
            <4>4. CASE LoadFails(r)
                BY ZenonT(30), <1>1, <4>4 DEF LoadFails, Asker
            <4>5. CASE Respond(r)
                BY ZenonT(30), <1>1, <4>5 DEF Respond, Asker, Browsing
            <4> QED BY ZenonT(60), <1>3, <4>1, <4>2, <4>3, <4>4, <4>5
        <3> QED BY Zenon, <3>1 DEF WebTypes
    <2> QED BY Zenon, <2>1, <2>3, <2>4 DEF WebTypes
<1>4. CASE Renew
    <2>1. CASE Reload
        BY Zenon, <2>1 DEF Reload, WebTypes, Renewal
    <2>2. CASE Reconsider
        <3>1. UNCHANGED <<store, accepted>>
            BY Zenon, <2>2 DEF Reconsider
        <3>2. task' \in Renewal /\ web' \in [Caller -> Asker]
            <4>1. CASE Settle(task.session)
                BY Zenon, <1>1, <4>1, SettledTypes
            <4>2. CASE task' = [pc |-> "grant", session |-> task.session] /\ UNCHANGED web
                BY Zenon, <1>1, <4>2 DEF WebTypes, Renewal
            <4> QED BY Zenon, <2>2, <4>1, <4>2 DEF Reconsider
        <3> QED BY Zenon, <3>1, <3>2 DEF WebTypes
    <2>3. CASE Grant
        <3>1. accepted' \in Nat
            BY <2>3 DEF Grant, WebTypes
        <3>2. task' \in Renewal
            BY Zenon, <1>2, <2>3, <3>1 DEF Grant, Renewal
        <3> QED BY Zenon, <2>3, <3>1, <3>2 DEF Grant, WebTypes
    <2>4. CASE GrantRefused
        BY Zenon, <1>1, <2>4, SettledTypes DEF GrantRefused, WebTypes
    <2>5. CASE Save
        BY Zenon, <1>1, <2>5, SettledTypes DEF Save, WebTypes
    <2> QED BY Zenon, <1>4, <2>1, <2>2, <2>3, <2>4, <2>5 DEF Renew
<1>5. CASE GrantFails
    <2>1. accepted' \in Nat /\ store' = store /\ Settle(NoSession)
        BY <1>5 DEF GrantFails, WebTypes
    <2> QED BY Zenon, <1>1, <2>1, SettledTypes DEF WebTypes
<1>6. CASE SaveFails
    <2>1. accepted' = accepted /\ store' \in {store, task.session} /\ Settle(NoSession)
        BY Zenon, <1>6 DEF SaveFails
    <2> QED BY Zenon, <1>1, <2>1, SettledTypes DEF WebTypes
<1>7. CASE deleteSession \/ OtherFault \/ UNCHANGED webVars
    BY Zenon, <1>1, <1>7 DEF deleteSession, OtherFault, webVars, WebTypes
<1>8. CASE ReloadFails
    BY Zenon, <1>1, <1>8, SettledTypes DEF ReloadFails, WebTypes
<1> QED BY Zenon, <1>3, <1>4, <1>5, <1>6, <1>7, <1>8 DEF WebNext, WebStep

\* A step of the console is a step of the verifier, or leaves it alone.
LEMMA ConsoleKeyStep ==
    ASSUME WebTypes, scene \in DOMAIN Scene, [Next]_all
    PROVE  [KeyNext]_<<now, keyVars>>
<1>1. here.tabs \subseteq Caller
    BY Zenon, SceneAssumption DEF here
<1>2. ASSUME NEW r \in Caller, OpenList(r) \/ RequestPage(r) \/ Refuse(r) \/ WebService(r)
      PROVE  UNCHANGED <<now, keyVars>>
    BY Zenon, <1>2 DEF OpenList, RequestPage, Requests, Refuse, WebService, keysQuiet
<1>3. ASSUME NEW r \in Caller, Forward(r) \/ ServePage(r) \/ Deny(r) \/ KeyService(r)
      PROVE  KeyNext
    <2>1. web[r].session.kid \in Nat
        BY Zenon DEF WebTypes, Asker, Session
    <2> QED BY Zenon, <1>3, <2>1 DEF Forward, ServePage, Deny, KeyService, KeyNext
<1>4. CASE RenewalTask \/ Review \/ Logout
    BY Zenon, <1>4 DEF RenewalTask, Review, Logout, keysQuiet
<1>5. CASE Tick
    BY Zenon, <1>5 DEF Tick, KeyNext
<1>6. CASE Rotate
    BY Zenon, <1>6 DEF Rotate, KeyNext
<1>7. CASE Outage
    BY Zenon, <1>1, <1>7 DEF Outage, KeyNext
<1>8. CASE UNCHANGED all
    BY Zenon, <1>8 DEF all
<1> QED BY Zenon, <1>1, <1>2, <1>3, <1>4, <1>5, <1>6, <1>7, <1>8 DEF Next, Progress

\* A step of the console is a step of the sessions, or leaves them alone.
LEMMA ConsoleWebStep ==
    ASSUME scene \in DOMAIN Scene, [Next]_all
    PROVE  [WebNext]_webVars /\ scene' = scene
<1>1. here.tabs \subseteq Caller
    BY Zenon, SceneAssumption DEF here
<1>2. ASSUME NEW r \in Caller, OpenList(r) \/ RequestPage(r) \/ Progress(r)
      PROVE  [WebNext]_webVars /\ scene' = scene
    <2>1. CASE OpenList(r) \/ RequestPage(r)
        BY Zenon, <2>1 DEF OpenList, RequestPage, Requests, WebNext
    <2>2. CASE Refuse(r) \/ ServePage(r) \/ Deny(r)
        BY Zenon, <2>2 DEF Refuse, ServePage, Deny, Moves, WebNext
    <2>3. CASE Forward(r) \/ KeyService(r)
        BY Zenon, <2>3 DEF Forward, KeyService, Moves, webQuiet, consoleVars
    <2>4. CASE WebService(r)
        BY Zenon, <2>4 DEF WebService, WebNext, consoleVars
    <2> QED BY Zenon, <1>2, <2>1, <2>2, <2>3, <2>4 DEF Progress
<1>3. CASE RenewalTask \/ Logout
    BY Zenon, <1>3 DEF RenewalTask, Logout, WebNext, consoleVars
<1>4. CASE Tick \/ Rotate \/ Review
    BY Zenon, <1>4 DEF Tick, Rotate, Review, webQuiet, consoleVars
<1>5. CASE Outage
    BY Zenon, <1>1, <1>5 DEF Outage, WebNext, consoleVars
<1>6. CASE UNCHANGED all
    BY Zenon, <1>6 DEF all, consoleVars
<1> QED BY Zenon, <1>1, <1>2, <1>3, <1>4, <1>5, <1>6 DEF Next

\* In the console as a whole, with its tabs, proxy, rotations, outages and
\* logouts, neither does the API's verifier honour a withdrawn key too long or
\* refuse a served one, nor does the web process present a replaced token.
THEOREM ConsoleSound == Spec => [](KeysFollowProvider /\ RotatedTokenRetired)
<1> DEFINE Inv == KeyInv /\ WebTypes /\ WebInv /\ scene \in DOMAIN Scene
<1>1. Init => Inv
    BY Zenon, KeyInitInv, WebInitTypes, WebInitInv DEF Init
<1>2. Inv /\ [Next]_all => Inv'
    <2> SUFFICES ASSUME Inv, [Next]_all PROVE Inv'
        OBVIOUS
    <2>1. [KeyNext]_<<now, keyVars>> /\ [WebNext]_webVars /\ scene' = scene
        BY Zenon, ConsoleKeyStep, ConsoleWebStep
    <2> QED BY ZenonT(60), <2>1, KeyStepInv, WebStepTypes, WebStepInv
<1>3. Inv => KeysFollowProvider /\ RotatedTokenRetired
    BY Zenon, KeyInvFollows DEF WebInv, RotatedTokenRetired
<1> QED BY <1>1, <1>2, <1>3, PTL DEF Spec

\* Whatever happens in the console leaves the walks sound.
LEMMA ConsoleQueueStep ==
    ASSUME QueueInv, scene \in DOMAIN Scene, [Next]_all
    PROVE  QueueInv'
<1>1. /\ here.tabs \subseteq Reader /\ here.cases \subseteq Case /\ here.limits \subseteq Nat \ {0}
      /\ \A T \in here.triggers : IsFiniteSet(T) /\ EachReasonOnce(T)
    BY Zenon, SceneAssumption DEF here
<1>2. ASSUME queueQuiet PROVE QueueInv'
    <2>1. clock' \in 0..MaxClock /\ UNCHANGED <<rows, walk>>
        BY Zenon, <1>2 DEF queueQuiet, queueVars, QueueInv, RowsOK
    <2> QED BY Zenon, <2>1, QueueIdle
<1>3. ASSUME NEW r \in here.tabs, OpenList(r) PROVE QueueInv'
    <2>1. PICK f \in here.filters, n \in here.limits : Begin(r, f, n)
        BY Zenon, <1>3 DEF OpenList
    <2> QED BY Zenon, <1>1, <2>1, BeginStep
<1>4. ASSUME NEW r \in here.tabs, ServePage(r) PROVE QueueInv'
    BY Zenon, <1>1, <1>4, NextPageStep DEF ServePage
<1>5. ASSUME NEW r \in here.tabs, RequestPage(r) \/ (Progress(r) /\ ~ServePage(r)) PROVE queueQuiet
    BY Zenon, <1>5 DEF RequestPage, Progress, Forward, Refuse, Deny, KeyService, WebService
<1>6. CASE RenewalTask \/ Tick \/ Rotate \/ Outage \/ Logout
    BY Zenon, <1>2, <1>6 DEF RenewalTask, Tick, Rotate, Outage, Logout
<1>7. CASE Review
    <2>1. CASE Later
        <3>1. clock' \in 0..MaxClock
            BY SMTT(30), <2>1, ClockAssumption DEF Later, QueueInv, RowsOK
        <3> QED BY Zenon, <2>1, <3>1, QueueIdle DEF Later
    <2>2. ASSUME NEW c \in here.cases,
                 \/ \E T \in here.triggers : Open(c, T)
                 \/ Commit(c) \/ Rollback(c)
          PROVE  QueueInv'
        BY Zenon, <1>1, <2>2, OpeningStep
    <2>3. ASSUME NEW c \in here.cases, Handle(c) \/ \E t \in here.signals : AddTrigger(c, t)
          PROVE  QueueInv'
        BY Zenon, <1>1, <2>3, HandlingStep
    <2> QED BY Zenon, <1>7, <2>1, <2>2, <2>3 DEF Review
<1>8. CASE UNCHANGED all
    BY Zenon, <1>2, <1>8 DEF all, queueQuiet
<1> QED BY Zenon, <1>2, <1>3, <1>4, <1>5, <1>6, <1>7, <1>8 DEF Next, Progress

\* However many rows, readers and requests there are: a list walked page by page
\* through list_cases or list_invoices comes newest first and without repetition,
\* and misses no row that its query selected all along.
THEOREM ListsStayComplete == Spec => []PagesComplete
<1>1. Init => QueueInv /\ scene \in DOMAIN Scene
    BY Zenon, QueueInitInv DEF Init
<1>2. QueueInv /\ scene \in DOMAIN Scene /\ [Next]_all => (QueueInv /\ scene \in DOMAIN Scene)'
    BY Zenon, ConsoleQueueStep, ConsoleWebStep
<1>3. QueueInv => PagesComplete
    BY QueueInvComplete
<1> QED BY <1>1, <1>2, <1>3, PTL DEF Spec
=============================================================================
