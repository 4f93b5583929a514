----------------------------- MODULE ApiSession -----------------------------
(***************************************************************************)
(* The extension's service worker: ApiClient.execute with its one retry    *)
(* after 401, and TokenStore, which shares one registration among the      *)
(* requests that need a token.  The server is the set of tokens it accepts.*)
(***************************************************************************)
EXTENDS Integers

CONSTANTS
    Keys,        \* method, path and body: equal requests in flight are one
    Serials,     \* tokens the server issues
    NoToken      \* nothing stored

ASSUME SessionAssumption == NoToken \notin Serials

VARIABLES
    accepted,    \* tokens the server accepts
    unissued,    \* tokens it has not issued
    stored,      \* installationToken in chrome.storage.local
    inFlight,    \* TokenStore.inFlight: the registration under way
    fetch        \* ApiClient.inFlight: execute, for each key

sessionVars == <<accepted, unissued, stored, inFlight, fetch>>

\* reading      awaits storage.get       read       has its answer
\* registering  awaits inFlight          sent       awaits the response
\* refused      awaits clear
FetchSteps == {"idle", "reading", "read", "registering", "sent", "refused"}
Idle == [at |-> "idle", attempt |-> 0, token |-> NoToken, before |-> NoToken]
NoRegistration == [at |-> "none", token |-> NoToken]

SessionTypeOK ==
    /\ accepted \subseteq Serials /\ unissued \subseteq Serials
    /\ stored \in Serials \cup {NoToken}
    /\ inFlight \in [at: {"none", "posting", "storing"}, token: Serials \cup {NoToken}]
    /\ fetch \in [Keys -> [at: FetchSteps, attempt: 0..1, token: Serials \cup {NoToken},
                           before: Serials \cup {NoToken}]]

\* Some token may have been stored by an earlier browser session.
SessionInit ==
    /\ stored \in Serials \cup {NoToken}
    /\ unissued = Serials \ {stored}
    /\ accepted \in SUBSET (Serials \ unissued)
    /\ inFlight = NoRegistration
    /\ fetch = [k \in Keys |-> Idle]

Send(f, t) == [f EXCEPT !.at = "sent", !.token = t]
Update(k, f) == fetch' = [fetch EXCEPT ![k] = f]

----------------------------------------------------------------------------
(* ApiClient.request, execute *)

Ask(k) ==
    /\ fetch[k].at = "idle"
    /\ Update(k, [Idle EXCEPT !.at = "reading"])
    /\ UNCHANGED <<accepted, unissued, stored, inFlight>>

\* getToken: the answer of storage.get is what was stored, not what is.
ReadStored(k) ==
    /\ fetch[k].at = "reading"
    /\ Update(k, [fetch[k] EXCEPT !.at = "read", !.token = stored])
    /\ UNCHANGED <<accepted, unissued, stored, inFlight>>

UseStored(k) ==
    /\ fetch[k].at = "read" /\ fetch[k].token # NoToken
    /\ Update(k, Send(fetch[k], fetch[k].token))
    /\ UNCHANGED <<accepted, unissued, stored, inFlight>>

\* inFlight ??= register().
JoinRegistration(k) ==
    /\ fetch[k].at = "read" /\ fetch[k].token = NoToken
    /\ inFlight' = IF inFlight.at = "none" THEN [NoRegistration EXCEPT !.at = "posting"]
                                           ELSE inFlight
    /\ Update(k, [fetch[k] EXCEPT !.at = "registering"])
    /\ UNCHANGED <<accepted, unissued, stored>>

Registered(t) ==
    /\ inFlight.at = "posting" /\ t \in unissued
    /\ inFlight' = [at |-> "storing", token |-> t]
    /\ unissued' = unissued \ {t}
    /\ accepted' = accepted \cup {t}
    /\ UNCHANGED <<stored, fetch>>

Waiting == {k \in Keys : fetch[k].at = "registering"}

\* The token is stored, then handed to everybody who waits, then forgotten.
Stored ==
    /\ inFlight.at = "storing"
    /\ stored' = inFlight.token
    /\ fetch' = [k \in Keys |-> IF k \in Waiting THEN Send(fetch[k], inFlight.token)
                                                ELSE fetch[k]]
    /\ inFlight' = NoRegistration
    /\ UNCHANGED <<accepted, unissued>>

\* 429, no answer, or a token that cannot be stored: all that wait are rejected.
RegistrationFails ==
    /\ inFlight # NoRegistration
    /\ inFlight' = NoRegistration
    /\ fetch' = [k \in Keys |-> IF k \in Waiting THEN Idle ELSE fetch[k]]
    /\ UNCHANGED <<accepted, unissued, stored>>

\* Any answer but 401, or none, or an error of the storage.
Settled(k) ==
    /\ fetch[k].at \in {"reading", "sent", "refused"}
    /\ Update(k, Idle)
    /\ UNCHANGED <<accepted, unissued, stored, inFlight>>

Refused(k) ==
    /\ fetch[k].at = "sent" /\ fetch[k].token \notin accepted
    /\ Update(k, [fetch[k] EXCEPT !.at = "refused"])
    /\ UNCHANGED <<accepted, unissued, stored, inFlight>>

Retry(k) == [at |-> "reading", attempt |-> 1, token |-> NoToken, before |-> fetch[k].token]

\* Mutant: every refusal is retried.
ClearAndRetry(k) ==
    /\ fetch[k].at = "refused"
    /\ stored' = NoToken
    /\ Update(k, [Retry(k) EXCEPT !.attempt = fetch[k].attempt + 1])
    /\ UNCHANGED <<accepted, unissued, inFlight>>

\* Mutant: the token is left in the storage.
ClearNothing(k) ==
    /\ fetch[k].at = "refused"
    /\ Update(k, IF fetch[k].attempt = 0 THEN Retry(k) ELSE Idle)
    /\ UNCHANGED <<accepted, unissued, stored, inFlight>>

\* clear removes whatever is stored by now; the first refusal is retried.
Clear(k) ==
    /\ fetch[k].at = "refused"
    /\ stored' = NoToken
    /\ Update(k, IF fetch[k].attempt = 0 THEN Retry(k) ELSE Idle)
    /\ UNCHANGED <<accepted, unissued, inFlight>>

----------------------------------------------------------------------------
(* Browser and server *)

\* The browser ends the service worker: only the storage remains.
WorkerStops ==
    /\ inFlight # NoRegistration \/ \E k \in Keys : fetch[k] # Idle
    /\ inFlight' = NoRegistration
    /\ fetch' = [k \in Keys |-> Idle]
    /\ UNCHANGED <<accepted, unissued, stored>>

\* Revoked, or idle for too long.
Expire(t) ==
    /\ t \in accepted
    /\ accepted' = accepted \ {t}
    /\ UNCHANGED <<unissued, stored, inFlight, fetch>>

SessionNext ==
    \/ \E k \in Keys : \/ Ask(k) \/ ReadStored(k) \/ UseStored(k) \/ JoinRegistration(k)
                       \/ Settled(k) \/ Refused(k) \/ Clear(k)
    \/ \E t \in Serials : Registered(t) \/ Expire(t)
    \/ Stored \/ RegistrationFails \/ WorkerStops

SessionSpec == SessionInit /\ [][SessionNext]_sessionVars

----------------------------------------------------------------------------
(* Properties *)

\* A request that was refused never sends the same token again, although other
\* requests register, store and clear in between: "installation token revoked"
\* means that two different tokens were refused.
SecondAttemptIsFresh ==
    \A k \in Keys : fetch[k].at \in {"sent", "refused"} =>
      fetch[k].token # NoToken /\ fetch[k].token # fetch[k].before
=============================================================================
