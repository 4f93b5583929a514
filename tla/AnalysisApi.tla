----------------------------- MODULE AnalysisApi -----------------------------
(***************************************************************************)
(* Concurrent create_analysis requests: the snapshot they decide on, the   *)
(* transaction of create_or_reuse_attempt with the Redis call inside it,   *)
(* the creation quota and its refund.  Attempts and results are reduced to *)
(* what the requests look at; the workers of AnalysisSystem are Work here. *)
(***************************************************************************)
EXTENDS Integers, FiniteSets

CONSTANTS
    Targets,       \* (bvid, cid)
    Versions,      \* values of app.state.analysis_version
    Tokens,        \* installations
    Requests,      \* requests the API handles at a time
    Windows,       \* the limits "analysis:hour" and "analysis:day"
    Limit,         \* RateLimit.limit of each
    NoVersion      \* NULL

ASSUME ApiAssumption ==
    /\ Limit \in [Windows -> Nat \ {0}]
    /\ NoVersion \notin Versions
    /\ IsFiniteSet(Requests)

VARIABLES
    owner,      \* the attempt that owns a target: its version and status
    cooling,    \* the <<target, version>> with a failed attempt in its cooldown
    result,     \* analysis_result: its version, and whether it has not expired
    request,    \* create_analysis of each request
    count,      \* the Redis counter of each token and window
    expires,    \* the counters whose key has a time to live
    spent,      \* history: creations charged to the present window
    exact       \* history: the counters nothing in this window made wrong

vars == <<owner, cooling, result, request, count, expires, spent, exact>>
storeVars == <<owner, cooling, result>>
quotaVars == <<count, expires, spent, exact>>

\* waiting      deciding to create; waits for pg_advisory_xact_lock
\* authorizing  in the transaction: neither reused nor cooling down
\* inserting    authorized; up to the commit
\* refunding    the transaction raised after the quota was consumed
InTransaction == {"authorizing", "inserting"}
Steps == {"idle", "waiting", "refunding"} \cup InTransaction

NoOwner == [version |-> NoVersion, status |-> "none"]
Counters == Tokens \X Windows

OwnerRow == [version: Versions, status: {"active", "completed", "failed"}]
ResultRow == [version: Versions \cup {NoVersion}, fresh: BOOLEAN]
RequestRow == [at: Steps, token: Tokens, target: Targets, version: Versions,
               charged: SUBSET Windows]

TypeOK ==
    /\ owner \in [Targets -> OwnerRow \cup {NoOwner}]
    /\ cooling \subseteq Targets \X Versions
    /\ result \in [Targets -> ResultRow]
    /\ request \in [Requests -> RequestRow]
    /\ count \in [Tokens -> [Windows -> Nat]]
    /\ expires \subseteq Counters
    /\ spent \in [Tokens -> [Windows -> Nat]]
    /\ exact \subseteq Counters

Init ==
    /\ owner = [t \in Targets |-> NoOwner]
    /\ cooling = {}
    /\ result = [t \in Targets |-> [version |-> NoVersion, fresh |-> FALSE]]
    /\ request \in [Requests -> [at: {"idle"}, token: Tokens, target: Targets,
                                 version: Versions, charged: {{}}]]
    /\ count = [k \in Tokens |-> [w \in Windows |-> 0]]
    /\ expires = {}
    /\ spent = count
    /\ exact = Counters

----------------------------------------------------------------------------
(* What a request looks at *)

\* _compose: result_status = "current".
Current(t, v) == result[t].version = v /\ result[t].fresh

\* The owner is an unfinished attempt of the version.
Active(t, v) == owner[t] = [version |-> v, status |-> "active"]

\* The owner is a failed attempt of the version in its cooldown; a failed
\* attempt in its cooldown that is not the owner is not in the snapshot.
OwnerCooling(t, v) ==
    owner[t] = [version |-> v, status |-> "failed"] /\ <<t, v>> \in cooling

\* Mutant: the advisory lock is not taken.
NeverLocked(t) == FALSE

\* A transaction of create_or_reuse_attempt has the target's locks.
Locked(t) == \E r \in Requests : request[r].at \in InTransaction /\ request[r].target = t

At(r, step) == request' = [request EXCEPT ![r] = [@ EXCEPT !.at = step]]
Pay(r) == request' = [request EXCEPT ![r] = [@ EXCEPT !.at = "inserting",
                                                      !.charged = Windows]]
Answer(r) == request' = [request EXCEPT ![r] = [@ EXCEPT !.at = "idle", !.charged = {}]]

----------------------------------------------------------------------------
(* A request *)

\* create_analysis does not return its snapshot, which would change nothing.
NeedsWork(t, v) == ~Current(t, v) /\ ~Active(t, v) /\ ~OwnerCooling(t, v)

\* The snapshot is read and says that work is needed.  Bound: no requests of a
\* token that has overrun its quota.
Arrive(r, k, t, v) ==
    /\ request[r].at = "idle"
    /\ NeedsWork(t, v)
    /\ \A w \in Windows : spent[k][w] <= Limit[w]
    /\ request' = [request EXCEPT ![r] =
         [at |-> "waiting", token |-> k, target |-> t, version |-> v, charged |-> {}]]
    /\ UNCHANGED <<storeVars, quotaVars>>

\* The locks are granted: attempts, and only they, are looked at again.
Enter(r) ==
    LET t == request[r].target  v == request[r].version
    IN  /\ request[r].at = "waiting"
        /\ ~Locked(t)
        /\ IF Active(t, v) \/ <<t, v>> \in cooling THEN Answer(r)
                                                   ELSE At(r, "authorizing")
        /\ UNCHANGED <<storeVars, quotaVars>>

\* Mutant: the comparison lets one more through.
FullLate(k) == \E w \in Windows : count[k][w] > Limit[w]

Full(k) == \E w \in Windows : count[k][w] >= Limit[w]

Of(k, W) == {<<k, w>> : w \in W}

\* Mutant: EXPIRE is called when the value was one, not when it is.
ChargeLateExpire(r) ==
    LET k == request[r].token
    IN  /\ ~Full(k)
        /\ count' = [count EXCEPT ![k] = [w \in Windows |-> @[w] + 1]]
        /\ expires' = expires \cup Of(k, {w \in Windows : count[k][w] = 1})

\* _FIXED_WINDOW_SCRIPT, atomic in Redis: all limits are compared before any
\* counter moves, and the first increment gives its key a time to live.
Charge(r) ==
    LET k == request[r].token
    IN  /\ ~Full(k)
        /\ count' = [count EXCEPT ![k] = [w \in Windows |-> @[w] + 1]]
        /\ expires' = expires \cup Of(k, {w \in Windows : count'[k][w] = 1})

\* Mutant: CreationRejected is lost and the transaction stays open.
AuthorizeHangs(r) ==
    /\ request[r].at = "authorizing"
    /\ Charge(r)
    /\ Pay(r)
    /\ UNCHANGED <<storeVars, spent, exact>>

\* authorize_creation: allowed; refused (CreationRejected, rolled back); or it
\* raises, before or after the script ran, and quota_consumed stays false.
Authorize(r) ==
    LET k == request[r].token
    IN  /\ request[r].at = "authorizing"
        /\ \/ /\ Charge(r)
              /\ Pay(r)
              /\ UNCHANGED exact
           \/ /\ Full(k)
              /\ Answer(r)
              /\ UNCHANGED <<count, expires, exact>>
           \/ /\ Charge(r)
              /\ Answer(r)
              /\ exact' = exact \ Of(k, Windows)
           \/ /\ Answer(r)
              /\ UNCHANGED <<count, expires, exact>>
        /\ UNCHANGED <<storeVars, spent>>

\* The commit: the old owner is superseded, the new attempt owns the target.
Created(r) ==
    LET q == request[r]
    IN  /\ owner' = [owner EXCEPT ![q.target] = [version |-> q.version,
                                                 status |-> "active"]]
        /\ spent' = [spent EXCEPT ![q.token] =
                       [w \in Windows |-> IF w \in q.charged THEN @[w] + 1 ELSE @[w]]]
        /\ UNCHANGED <<cooling, result, count, expires>>

Commit(r) ==
    /\ request[r].at = "inserting"
    /\ Created(r)
    /\ Answer(r)
    /\ UNCHANGED exact

\* The commit succeeds and the connection fails: the caller sees an exception.
CommitUnknown(r) ==
    LET q == request[r]
    IN  /\ q.at = "inserting"
        /\ Created(r)
        /\ At(r, "refunding")
        /\ exact' = exact \ Of(q.token, q.charged)

\* A statement or the commit fails: the transaction is rolled back.
RollBack(r) ==
    /\ request[r].at = "inserting"
    /\ At(r, "refunding")
    /\ UNCHANGED <<storeVars, quotaVars>>

\* Mutant: DECR without looking at the counter, also of a key that is gone.
DecrementBlindly(n) == n - 1

\* _REFUND_SCRIPT, for one key.
Decrement(n) == IF n > 0 THEN n - 1 ELSE n

\* Mutant: the exception is raised again without a refund.
RefundForgotten(r) ==
    /\ request[r].at = "refunding"
    /\ Answer(r)
    /\ UNCHANGED <<storeVars, quotaVars>>

\* refund_analysis_creation, whichever window the charge was in; it runs or raises.
Refund(r) ==
    LET q == request[r]
    IN  /\ q.at = "refunding"
        /\ \/ /\ count' = [count EXCEPT ![q.token] = [w \in Windows |-> Decrement(@[w])]]
              /\ exact' = exact \ Of(q.token, {w \in Windows \ q.charged :
                                                  count[q.token][w] > 0})
           \/ /\ exact' = exact \ Of(q.token, q.charged)
              /\ UNCHANGED count
        /\ Answer(r)
        /\ UNCHANGED <<storeVars, expires, spent>>

\* The API process ends: the database rolls back and frees the locks.
Crash(r) ==
    LET q == request[r]
    IN  /\ q.at # "idle"
        /\ Answer(r)
        /\ exact' = exact \ Of(q.token, q.charged)
        /\ UNCHANGED <<storeVars, count, expires, spent>>

----------------------------------------------------------------------------
(* What goes on around the requests *)

\* The key expires, or Redis loses it; whoever was charged to it no longer is.
WindowEnds(k, w) ==
    /\ <<k, w>> \in expires
    /\ count' = [count EXCEPT ![k][w] = 0]
    /\ expires' = expires \ {<<k, w>>}
    /\ spent' = [spent EXCEPT ![k][w] = 0]
    /\ exact' = exact \cup {<<k, w>>}
    /\ request' = [r \in Requests |->
         IF request[r].token = k THEN [request[r] EXCEPT !.charged = @ \ {w}]
                                 ELSE request[r]]
    /\ UNCHANGED storeVars

\* A worker completes or fails the attempt; a transaction about to supersede it
\* has its row locked.
Work(t) ==
    /\ owner[t].status = "active"
    /\ ~Locked(t)
    /\ \/ /\ owner' = [owner EXCEPT ![t].status = "completed"]
          /\ result' = [result EXCEPT ![t] = [version |-> owner[t].version, fresh |-> TRUE]]
          /\ UNCHANGED cooling
       \/ /\ owner' = [owner EXCEPT ![t].status = "failed"]
          /\ cooling' = cooling \cup {<<t, owner[t].version>>}
          /\ UNCHANGED result
    /\ UNCHANGED <<request, quotaVars>>

ResultExpires(t) ==
    /\ result[t].fresh
    /\ result' = [result EXCEPT ![t].fresh = FALSE]
    /\ UNCHANGED <<owner, cooling, request, quotaVars>>

CooldownEnds(c) ==
    /\ c \in cooling
    /\ cooling' = cooling \ {c}
    /\ UNCHANGED <<owner, result, request, quotaVars>>

Handle(r) == Enter(r) \/ Authorize(r) \/ Commit(r) \/ CommitUnknown(r)
                 \/ RollBack(r) \/ Refund(r)

Next ==
    \/ \E r \in Requests :
         \/ \E k \in Tokens, t \in Targets, v \in Versions : Arrive(r, k, t, v)
         \/ Handle(r)
         \/ Crash(r)
    \/ \E k \in Tokens, w \in Windows : WindowEnds(k, w)
    \/ \E t \in Targets : Work(t) \/ ResultExpires(t)
    \/ \E c \in cooling : CooldownEnds(c)

\* PostgreSQL grants the lock to those who wait in their order, so nobody who
\* waits is passed over for ever.
Fairness == \A r \in Requests : SF_vars(Enter(r)) /\ WF_vars(Handle(r))

Spec == Init /\ [][Next]_vars
FairSpec == Spec /\ Fairness

----------------------------------------------------------------------------
(* Properties *)

Pending(k, w) == {r \in Requests : request[r].token = k /\ w \in request[r].charged}

\* As long as no call of a window failed without an answer and no refund came
\* after its window, the counter is exactly the creations charged to the window
\* and the requests that still may create: reuse, cooldown, refusal and rollback
\* cost nothing, and both windows are charged or none.
QuotaAccounted ==
    \A k \in Tokens, w \in Windows :
        <<k, w>> \in exact => count[k][w] = spent[k][w] + Cardinality(Pending(k, w))

\* In such a window no more than the limit is created, whatever requests race.
QuotaHolds ==
    \A k \in Tokens, w \in Windows : <<k, w>> \in exact => spent[k][w] <= Limit[w]

\* A counter always has a time to live, across increments, refunds that empty it
\* and refunds that come after the key is gone: no token is locked out for ever.
CountersExpire ==
    \A k \in Tokens, w \in Windows : count[k][w] # 0 => <<k, w>> \in expires

\* A request that is about to insert an attempt duplicates no unfinished attempt
\* of its version and overrides no cooldown, through the wait for the Redis call.
CreationsAreShared ==
    \A r \in Requests :
        request[r].at \in InTransaction =>
            /\ ~Active(request[r].target, request[r].version)
            /\ <<request[r].target, request[r].version>> \notin cooling

\* Every request is answered: the transactions that hold the locks of a target
\* while they wait for Redis let the others in.
RequestsAnswered ==
    \A r \in Requests : request[r].at # "idle" ~> request[r].at = "idle"

\* "Completed valid data returns without queueing work" (design, acceptance
\* criteria): no attempt is created for a target whose result is current.
CompletedNotQueued ==
    [][\A r \in Requests : Commit(r) => ~Current(request[r].target, request[r].version)]_vars

\* "New analysis creation: 5 per hour and 20 per day per token" (design, section
\* 13): no window is charged with more creations than its limit.
CreationsWithinLimit ==
    \A k \in Tokens, w \in Windows : spent[k][w] <= Limit[w]
=============================================================================
