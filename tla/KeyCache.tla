------------------------------ MODULE KeyCache ------------------------------
(***************************************************************************)
(* OidcVerifier: the signing keys of the identity provider as the API      *)
(* caches them.  Request threads look a token's key up under one lock,     *)
(* which is held while the provider is asked.  The cache is refreshed when *)
(* its time is over and once more for a key it does not hold.              *)
(*                                                                         *)
(* The provider publishes a new key, signs with it, and later withdraws    *)
(* the old one.  An answer takes up to FetchTime to arrive, so what is     *)
(* stored may be older than the moment it is stored.                       *)
(***************************************************************************)
EXTENDS Integers

CONSTANTS
    Caller,            \* the request threads
    None,
    Ttl,               \* oidc_jwks_ttl_seconds
    FetchTime          \* what the client's timeout allows an answer to take

ASSUME CallerAssumption == None \notin Caller
ASSUME TtlAssumption == Ttl \in Nat \ {0} /\ FetchTime \in Nat

VARIABLES
    now,               \* time.monotonic
    published,         \* the allowed signing keys the provider serves, by number
    withdrawn,         \* when each former key was withdrawn
    discovered,        \* is _jwks_uri known?
    keys,              \* _keys
    expires,           \* _expires_at
    lock,              \* the thread in _key_for, or None
    api                \* per thread: pc, its token's key, the provider's answer

provider == <<published, withdrawn>>
cache == <<discovered, keys, expires>>
keyVars == <<published, withdrawn, discovered, keys, expires, lock, api>>

Waiting == {"enter", "refresh", "store", "again", "storeagain"}
Answers == {"accepted", "unknown", "unavailable"}

\* kid: the token's key; got and asked: the provider's answer and its age; at:
\* when the call ended; served: has the provider served kid all along?
Quiet == [pc |-> "idle", kid |-> 0, got |-> {}, asked |-> 0, at |-> 0, served |-> TRUE]

\* The key that signs: the newest.
Signing == CHOOSE k \in published : \A j \in published : j <= k

-----------------------------------------------------------------------------
(* The provider *)

Publish ==
    /\ published' = published \cup {Signing + 1}
    /\ UNCHANGED <<withdrawn, cache, lock, api>>

Withdraw(k) ==
    /\ k \in published \ {Signing}
    /\ published' = published \ {k}
    /\ withdrawn' = [j \in DOMAIN withdrawn \cup {k} |-> IF j = k THEN now ELSE withdrawn[j]]
    /\ api' = [c \in Caller |-> [api[c] EXCEPT !.served = @ /\ api[c].kid # k]]
    /\ UNCHANGED <<cache, lock>>

\* Time passes, but no answer is on its way for longer than the timeout.
MayPass == \A c \in Caller :
    api[c].pc \in {"store", "storeagain"} => now < api[c].asked + FetchTime

-----------------------------------------------------------------------------
(* _key_for *)

\* verify, up to the lock.
Verify(c, kid) ==
    /\ api[c].pc = "idle"
    /\ api' = [api EXCEPT ![c] = [pc |-> "enter", kid |-> kid, got |-> {}, asked |-> 0,
                                  at |-> 0, served |-> kid \in published]]
    /\ UNCHANGED <<provider, cache, lock>>

\* Mutant of Fresh: a cache is used at the very moment it expires.
FreshAtExpiry == now <= expires

\* now >= self._expires_at refreshes.
Fresh == now < expires

\* The call ends here, holding the lock or about to release it.
Ends(c, answer) == [api EXCEPT ![c].pc = answer, ![c].at = now]

\* Mutant of Missing: an unknown kid is refused without a refresh.
MissingRefused(c) == Ends(c, "unknown")

\* One controlled refresh permits rotation.
Missing(c) == [api EXCEPT ![c].pc = "again"]

Enter(c) ==
    /\ api[c].pc = "enter"
    /\ lock = None
    /\ api' = IF ~Fresh THEN [api EXCEPT ![c].pc = "refresh"]
              ELSE IF api[c].kid \in keys THEN Ends(c, "accepted")
              ELSE Missing(c)
    /\ lock' = IF Fresh /\ api[c].kid \in keys THEN None ELSE c
    /\ UNCHANGED <<provider, cache>>

\* _refresh: discovery unless the URI is known, then the key set; what is
\* served now is on its way.
Fetch(c) ==
    /\ api[c].pc \in {"refresh", "again"}
    /\ discovered' = TRUE
    /\ api' = [api EXCEPT ![c].pc = IF api[c].pc = "refresh" THEN "store" ELSE "storeagain",
                          ![c].got = published, ![c].asked = now]
    /\ UNCHANGED <<provider, keys, expires, lock>>

\* Mutant of FetchFails: the error leaves the lock taken.
FetchFailsLocked(c) ==
    /\ api[c].pc \in {"refresh", "again"}
    /\ discovered' \in {discovered, TRUE}
    /\ api' = Ends(c, "unavailable")
    /\ UNCHANGED <<provider, keys, expires, lock>>

\* Any error of either request: the cache stays as it is, and expired.
FetchFails(c) ==
    /\ api[c].pc \in {"refresh", "again"}
    /\ discovered' \in {discovered, TRUE}
    /\ api' = Ends(c, "unavailable")
    /\ lock' = None
    /\ UNCHANGED <<provider, keys, expires>>

\* The answer replaces the cache; its time counts from now.  Then the lookup.
Store(c) ==
    /\ api[c].pc \in {"store", "storeagain"}
    /\ keys' = api[c].got
    /\ expires' = now + Ttl
    /\ LET found == api[c].kid \in api[c].got
           ended == found \/ api[c].pc = "storeagain"
       IN  /\ api' = IF found THEN Ends(c, "accepted")
                     ELSE IF ended THEN Ends(c, "unknown")
                     ELSE Missing(c)
           /\ lock' = IF ended THEN None ELSE lock
    /\ UNCHANGED <<provider, discovered>>

\* The request has its answer.
Answered(c) ==
    /\ api[c].pc \in Answers
    /\ api' = [api EXCEPT ![c] = Quiet]
    /\ UNCHANGED <<provider, cache, lock>>

-----------------------------------------------------------------------------
KeyInit ==
    /\ published = {1}
    /\ withdrawn = [k \in {} |-> 0]
    /\ discovered = FALSE
    /\ keys = {}
    /\ expires = 0
    /\ lock = None
    /\ api = [c \in Caller |-> Quiet]

KeyStep(c) == Enter(c) \/ Fetch(c) \/ Store(c)

\* The verifier by itself, under any load, rotation and outage.
KeyNext ==
    \/ MayPass /\ now' = now + 1 /\ UNCHANGED keyVars
    \/ /\ UNCHANGED now
       /\ \/ Publish
          \/ \E k \in published : Withdraw(k)
          \/ \E c \in Caller : \/ KeyStep(c) \/ FetchFails(c) \/ Answered(c)
                               \/ \E kid \in Nat : Verify(c, kid)

KeySpec == now = 0 /\ KeyInit /\ [][KeyNext]_<<now, keyVars>>

-----------------------------------------------------------------------------
(* Properties *)

\* A withdrawn key is honoured for less than the cache's lifetime and one
\* answer's delay, whatever other tokens and failures refreshed in between
\* ("periodically on its bounded TTL").
WithdrawnKeysLapse ==
    \A c \in Caller : api[c].pc = "accepted" /\ api[c].kid \in DOMAIN withdrawn =>
        api[c].at < withdrawn[api[c].kid] + Ttl + FetchTime

\* A token is refused as signed by an unknown key only if the provider did not
\* serve that key all through the call ("refreshes once on an unknown key ID").
ServedKeysKnown ==
    \A c \in Caller : api[c].pc = "unknown" => ~api[c].served

\* The cache follows the provider's rotations in both directions.
KeysFollowProvider == WithdrawnKeysLapse /\ ServedKeysKnown
=============================================================================
