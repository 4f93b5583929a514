--------------------------- MODULE AnalysisStore ---------------------------
(***************************************************************************)
(* The PostgreSQL tables analysis_target, analysis_attempt,                *)
(* analysis_outbox and analysis_result, and the transactions the backend   *)
(* runs on them: AnalysisRepository (db/repository.py), the delivered mark *)
(* of OutboxDispatcher (services/outbox.py) and AttemptReconciler          *)
(* (services/reconciliation.py).                                           *)
(*                                                                         *)
(* Every action is one committed transaction.  Any caller may run any      *)
(* transaction at any time with any attempt and any generation it may have *)
(* been told of, so what is shown here does not depend on how the API, the *)
(* dispatcher and the workers behave; AnalysisSystem adds them.            *)
(***************************************************************************)
EXTENDS Integers, FiniteSets

CONSTANTS
    Targets,           \* the (bvid, cid) pairs
    Attempts,          \* the attempt ids uuid4() may return
    Versions,          \* the analysis versions the API processes ask for
    NoAttempt,         \* SQL NULL in owner_attempt_id
    NoTarget,          \* the target of a row that does not exist
    NoVersion,         \* the version of a row that does not exist
    LeaseSeconds,      \* WorkerRunner.lease_seconds
    DispatchTimeout,   \* reconcile_forever's dispatch_timeout_seconds
    FailureCooldown,   \* WorkerRunner.failure_cooldown
    Skew,              \* how far a process clock may be from the database's
    MaxTime            \* bound: the last value of the database clock

ASSUME StoreAssumption ==
    /\ NoAttempt \notin Attempts
    /\ NoTarget \notin Targets
    /\ NoVersion \notin Versions
    /\ LeaseSeconds \in Nat \ {0}
    /\ DispatchTimeout \in Nat \ {0}
    /\ FailureCooldown \in Nat \ {0}
    /\ Skew \in Nat
    /\ MaxTime \in Nat

VARIABLES
    clock,      \* the database's now()
    target,     \* analysis_target, by (bvid, cid)
    attempt,    \* analysis_attempt, by attempt_id
    outbox,     \* analysis_outbox: the rows ever inserted
    delivered,  \* the rows of outbox whose delivered_at is set
    result      \* analysis_result, by (bvid, cid)

storeVars == <<clock, target, attempt, outbox, delivered, result>>

Running == {"fetching", "analyzing"}
Active == {"queued"} \cup Running
Terminal == {"completed", "failed"}

\* SQL NULL in a timestamp column: "IS NULL OR <= now" and "> now" read it as 0.
Null == 0

TargetRow == [desired: Versions \cup {NoVersion}, generation: Nat,
              owner: Attempts \cup {NoAttempt}]
AttemptRow == [target: Targets \cup {NoTarget},
               version: Versions \cup {NoVersion},
               generation: Nat,
               status: {"absent"} \cup Active \cup Terminal,
               epoch: Nat, lease: Nat, retryAfter: Nat]
OutboxRow == [attempt: Attempts, generation: Nat, epoch: Nat, created: Nat]
\* The generation that wrote the result is not a column: it is recorded here
\* to tell which attempt's writer the stored result comes from.
ResultRow == [version: Versions \cup {NoVersion}, generation: Nat]

AbsentTarget == [desired |-> NoVersion, generation |-> 0, owner |-> NoAttempt]
AbsentAttempt ==
    [target |-> NoTarget, version |-> NoVersion, generation |-> 0,
     status |-> "absent", epoch |-> 0, lease |-> Null, retryAfter |-> Null]
AbsentResult == [version |-> NoVersion, generation |-> 0]

\* The columns every table is created with.
TypeOK ==
    /\ clock \in Nat
    /\ target \in [Targets -> TargetRow]
    /\ attempt \in [Attempts -> AttemptRow]
    /\ outbox \subseteq OutboxRow
    /\ delivered \subseteq outbox
    /\ result \in [Targets -> ResultRow]

Init ==
    /\ clock = 0
    /\ target = [t \in Targets |-> AbsentTarget]
    /\ attempt = [a \in Attempts |-> AbsentAttempt]
    /\ outbox = {}
    /\ delivered = {}
    /\ result = [t \in Targets |-> AbsentResult]

\* What datetime.now(UTC) may return in an API, dispatcher or worker process.
ProcessClock == {now \in 0 .. clock + Skew : now >= clock - Skew}

\* "t.owner_attempt_id = a.attempt_id AND t.write_generation = a.generation".
OwnsTarget(a) ==
    /\ attempt[a].target \in Targets
    /\ target[attempt[a].target].owner = a
    /\ target[attempt[a].target].generation = attempt[a].generation

----------------------------------------------------------------------------
(* create_or_reuse_attempt *)

\* The active attempt of the version that owns the target is returned as is.
Reusable(t, v) ==
    \E a \in Attempts : /\ attempt[a].target = t /\ attempt[a].version = v
                        /\ attempt[a].status \in Active
                        /\ target[t].owner = a

\* Mutant: only the owner's failure is looked at.
CoolingDownOwner(t, v, now) ==
    \E a \in Attempts : /\ target[t].owner = a /\ attempt[a].version = v
                        /\ attempt[a].status = "failed"
                        /\ attempt[a].retryAfter > now

\* A failed attempt of the version whose cooldown still runs is returned as is.
CoolingDown(t, v, now) ==
    \E a \in Attempts : /\ attempt[a].target = t /\ attempt[a].version = v
                        /\ attempt[a].status = "failed"
                        /\ attempt[a].retryAfter > now

\* Mutant: the superseding UPDATE is left out.
NotSuperseded(t, now) == attempt

\* UPDATE analysis_attempt SET status = 'failed' ... for the owner, if active.
Superseded(t, now) ==
    [a \in Attempts |->
        IF a = target[t].owner /\ attempt[a].status \in Active
        THEN [attempt[a] EXCEPT !.status = "failed", !.retryAfter = now]
        ELSE attempt[a]]

\* Mutant: the row's generation is read before the increment.
OutboxRowOfOldGeneration(a, row, now) ==
    [attempt |-> a, generation |-> attempt[a].generation,
     epoch |-> row.epoch, created |-> now]

\* INSERT INTO analysis_outbox for the attempt a as it now is.
OutboxRowOf(a, row, now) ==
    [attempt |-> a, generation |-> row.generation,
     epoch |-> row.epoch, created |-> now]

\* The path that neither reuses nor cools down nor is rejected: attempt a, a
\* fresh uuid4(), replaces the owner of t, and its outbox row is inserted in
\* the same transaction.
CreateAttempt(t, v, a, now) ==
    /\ ~Reusable(t, v)
    /\ ~CoolingDown(t, v, now)
    /\ attempt[a].status = "absent"
    /\ LET generation == target[t].generation + 1
       IN  /\ target' = [target EXCEPT ![t] =
                 [desired |-> v, generation |-> generation, owner |-> a]]
           /\ attempt' = [Superseded(t, now) EXCEPT ![a] =
                 [target |-> t, version |-> v, generation |-> generation,
                  status |-> "queued", epoch |-> 0,
                  lease |-> Null, retryAfter |-> Null]]
           /\ outbox' = outbox \cup {OutboxRowOf(a, attempt'[a], clock)}
    /\ UNCHANGED <<clock, delivered, result>>

----------------------------------------------------------------------------
(* The transactions of a worker that was told attempt a and generation g *)

Claimable(a, g, e) ==
    /\ attempt[a].status = "queued"
    /\ attempt[a].generation = g
    /\ attempt[a].epoch = e
    /\ attempt[a].lease <= clock
    /\ OwnsTarget(a)

ClaimAttempt(a, g, e) ==
    /\ Claimable(a, g, e)
    /\ attempt' = [attempt EXCEPT ![a] =
         [@ EXCEPT !.status = "fetching", !.lease = clock + LeaseSeconds]]
    /\ UNCHANGED <<clock, target, outbox, delivered, result>>

\* Mutant: the generation the worker claimed is not compared.
HoldsAnyGeneration(a, g) ==
    /\ attempt[a].status \in Running
    /\ attempt[a].lease > clock
    /\ OwnsTarget(a)

\* The fence of heartbeat, start_analyzing, complete_attempt and fail_attempt.
HoldsLease(a, g) ==
    /\ attempt[a].generation = g
    /\ attempt[a].status \in Running
    /\ attempt[a].lease > clock
    /\ OwnsTarget(a)

\* "t.desired_analysis_version = :version"; no statement updates an attempt's
\* version, so the claim's copy of it is the row's.
VersionDesired(a) == target[attempt[a].target].desired = attempt[a].version

\* Mutant: the lease is renewed into the past.
HeartbeatBackdated(a, g) ==
    /\ HoldsLease(a, g)
    /\ attempt' = [attempt EXCEPT ![a] =
         [@ EXCEPT !.lease = clock - LeaseSeconds]]
    /\ UNCHANGED <<clock, target, outbox, delivered, result>>

\* Mutant: the UPDATE of the lease does not compare the generation.
HeartbeatAnyGeneration(a, g) ==
    /\ HoldsAnyGeneration(a, g)
    /\ attempt' = [attempt EXCEPT ![a] =
         [@ EXCEPT !.lease = clock + LeaseSeconds]]
    /\ UNCHANGED <<clock, target, outbox, delivered, result>>

Heartbeat(a, g) ==
    /\ HoldsLease(a, g)
    /\ attempt' = [attempt EXCEPT ![a] =
         [@ EXCEPT !.lease = clock + LeaseSeconds]]
    /\ UNCHANGED <<clock, target, outbox, delivered, result>>

MayAnalyze(a, g) ==
    HoldsLease(a, g) /\ attempt[a].status = "fetching" /\ VersionDesired(a)

StartAnalyzing(a, g) ==
    /\ MayAnalyze(a, g)
    /\ attempt' = [attempt EXCEPT ![a] = [@ EXCEPT !.status = "analyzing"]]
    /\ UNCHANGED <<clock, target, outbox, delivered, result>>

\* Mutant: the attempt's own row is checked and the target's owner is not.
MayCompleteUnowned(a, g) ==
    attempt[a].generation = g /\ attempt[a].lease > clock
        /\ attempt[a].status \in Running \cup {"failed"}

MayComplete(a, g) == HoldsLease(a, g) /\ VersionDesired(a)

\* The attempt is completed and the result upserted in one transaction.
CompleteAttempt(a, g) ==
    /\ MayComplete(a, g)
    /\ attempt' = [attempt EXCEPT ![a] = [@ EXCEPT !.status = "completed"]]
    /\ result' = [result EXCEPT ![attempt[a].target] =
                    [version |-> attempt[a].version, generation |-> g]]
    /\ UNCHANGED <<clock, target, outbox, delivered>>

FailAttempt(a, g, retryAfter) ==
    /\ HoldsLease(a, g)
    /\ attempt' = [attempt EXCEPT ![a] =
         [@ EXCEPT !.status = "failed", !.retryAfter = retryAfter]]
    /\ UNCHANGED <<clock, target, outbox, delivered, result>>

----------------------------------------------------------------------------
(* The dispatcher process *)

\* dispatch_batch commits: delivered_at of the rows it published is set.
MarkDelivered(rows) ==
    /\ rows # {} /\ rows \subseteq outbox
    /\ delivered' = delivered \cup rows
    /\ UNCHANGED <<clock, target, attempt, outbox, result>>

\* The rows of analysis_outbox for an attempt's present generation.
RowsOf(a) == {r \in outbox : /\ r.attempt = a
                             /\ r.generation = attempt[a].generation}

\* _redispatch_queued's SELECT.
Undispatched(a, now) ==
    /\ attempt[a].status = "queued"
    /\ attempt[a].lease <= now
    /\ OwnsTarget(a)
    /\ \A r \in RowsOf(a) : r.epoch = attempt[a].epoch => r \in delivered
    /\ RowsOf(a) # {}            \* max() of no row is NULL: not selected
    /\ \A r \in RowsOf(a) : r.created <= now - DispatchTimeout

\* _reclaim_expired's SELECT.
Expired(a, now) ==
    /\ attempt[a].status \in Running
    /\ attempt[a].lease <= now
    /\ OwnsTarget(a)

Requeued(a) ==
    [attempt[a] EXCEPT !.generation = @ + 1, !.epoch = @ + 1,
                       !.status = "queued", !.lease = Null]

\* Mutant: redispatch inserts an outbox row but keeps the attempt's epoch.
RedispatchedSameEpoch(a) == attempt[a]

Redispatched(a) == [attempt[a] EXCEPT !.epoch = @ + 1]

\* Mutant: the target keeps its write_generation when its owner is reclaimed.
TargetAfterKept(t, R) == target[t]

TargetAfter(t, R) ==
    IF target[t].owner \in R
    THEN [target[t] EXCEPT !.generation = attempt[target[t].owner].generation + 1]
    ELSE target[t]

\* One reconcile transaction: the attempts of Q are redispatched and those of R
\* reclaimed.  SKIP LOCKED and LIMIT make Q and R any subsets of what the two
\* SELECTs find; created_at of the new rows is the caller's clock.
Reconcile(now, Q, R) ==
    /\ Q \cup R # {}
    /\ \A a \in Q : Undispatched(a, now)
    /\ \A a \in R : Expired(a, now)
    /\ attempt' = [a \in Attempts |-> IF a \in Q THEN Redispatched(a)
                                      ELSE IF a \in R THEN Requeued(a)
                                      ELSE attempt[a]]
    /\ target' = [t \in Targets |-> TargetAfter(t, R)]
    /\ outbox' = outbox \cup
         {OutboxRowOf(a, attempt'[a], now) : a \in Q \cup R}
    /\ UNCHANGED <<clock, delivered, result>>

----------------------------------------------------------------------------
Tick ==
    /\ clock < MaxTime
    /\ clock' = clock + 1
    /\ UNCHANGED <<target, attempt, outbox, delivered, result>>

\* A caller can hold no generation above the attempt's own, and no epoch either.
Next ==
    \/ \E t \in Targets, v \in Versions, a \in Attempts, now \in ProcessClock :
          CreateAttempt(t, v, a, now)
    \/ \E a \in Attempts :
          \/ \E g \in 0 .. attempt[a].generation :
               \/ \E e \in 0 .. attempt[a].epoch : ClaimAttempt(a, g, e)
               \/ Heartbeat(a, g)
               \/ StartAnalyzing(a, g)
               \/ CompleteAttempt(a, g)
               \/ \E now \in ProcessClock : FailAttempt(a, g, now + FailureCooldown)
    \/ \E rows \in SUBSET (outbox \ delivered) : MarkDelivered(rows)
    \/ \E now \in ProcessClock, Q \in SUBSET Attempts, R \in SUBSET Attempts :
          Reconcile(now, Q, R)
    \/ Tick

Spec == Init /\ [][Next]_storeVars

----------------------------------------------------------------------------
(* Properties *)

\* An unfinished attempt owns its target, at the target's generation and for
\* the version last asked for: so a target has at most one unfinished attempt,
\* whatever the version, and nobody works on one that was replaced
\* (create_or_reuse_attempt against claim, completion and reclaim).
ActiveOwnsTarget ==
    \A a \in Attempts :
        attempt[a].status \in Active => OwnsTarget(a) /\ VersionDesired(a)

\* A generation is a fencing token: no two attempts of a target ever have the
\* same one, and the target's write_generation is above or equal to them all.
GenerationsAreTokens ==
    \A a, b \in Attempts :
        attempt[a].status # "absent" =>
            /\ attempt[a].generation <= target[attempt[a].target].generation
            /\ (a # b /\ attempt[b].target = attempt[a].target) =>
                  attempt[a].generation # attempt[b].generation

\* uq_analysis_outbox_delivery_key never refuses an insertion: were it to, the
\* whole reconcile transaction would fail, and again every 30 seconds.
DeliveryKeysUnique ==
    \A r, s \in outbox :
        ( /\ r.attempt = s.attempt
          /\ r.generation = s.generation
          /\ r.epoch = s.epoch ) => r = s

\* A queued attempt has an outbox row with exactly the key a worker must present
\* to claim it; without one it could neither be claimed nor, max() being NULL,
\* be redispatched.
QueuedHasItsRow ==
    \A a \in Attempts :
        attempt[a].status = "queued" =>
            \E r \in outbox : /\ r.attempt = a
                              /\ r.generation = attempt[a].generation
                              /\ r.epoch = attempt[a].epoch

\* The stored result is the one of the newest completed attempt of its target:
\* an older version or generation never overwrites it, and the completion and
\* the upsert are never seen apart.
ResultIsNewestCompleted ==
    \A t \in Targets :
        /\ \A a \in Attempts :
              attempt[a].target = t /\ attempt[a].status = "completed" =>
                  attempt[a].generation <= result[t].generation
        /\ result[t].generation # 0 =>
              \E a \in Attempts : /\ attempt[a].target = t
                                  /\ attempt[a].status = "completed"
                                  /\ attempt[a].version = result[t].version
                                  /\ attempt[a].generation = result[t].generation

\* A version that failed is not tried again on a target before its cooldown is
\* over, whatever other versions were asked for, done or superseded meanwhile.
CooldownServed ==
    \A a \in Attempts, r \in outbox :
        ( /\ attempt[a].status = "failed"
          /\ r.epoch = 0 /\ r.generation > attempt[a].generation
          /\ attempt[r.attempt].target = attempt[a].target
          /\ attempt[r.attempt].version = attempt[a].version )
        => r.created + Skew >= attempt[a].retryAfter

\* A result is replaced only by one of a later generation: in the sequence v1
\* claim, v2 claim, v2 complete, v1 complete the result stays v2's.
ResultsAdvance ==
    [][\A t \in Targets : result'[t] # result[t] =>
            result'[t].generation > result[t].generation]_storeVars

\* A finished attempt keeps its outcome and its cooldown: a late or repeated
\* message, heartbeat, failure or reclaim does not touch its row.
FinishedIsFinal ==
    [][\A a \in Attempts : attempt[a].status \in Terminal =>
            attempt'[a] = attempt[a]]_storeVars

\* The tables implement TargetRounds: the round of a target is its
\* write_generation, open while the owner is unfinished, and the publication is
\* its analysis_result.
Rounds == INSTANCE TargetRounds WITH
    round <- [t \in Targets |-> target[t].generation],
    open <- [t \in Targets |-> \E a \in Attempts :
                target[t].owner = a /\ attempt[a].status \in Active],
    version <- [t \in Targets |-> target[t].desired],
    published <- result

\* Attempts, leases, epochs and redispatch never show: what is seen of a target
\* is numbered rounds of which only the latest publishes.
ImplementsRounds == Rounds!Spec
=============================================================================
