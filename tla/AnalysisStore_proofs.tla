----------------------- MODULE AnalysisStore_proofs -----------------------
(***************************************************************************)
(* Proofs about AnalysisStore, for any sets of targets, attempts and       *)
(* versions, any timeouts and any clock skew.                              *)
(***************************************************************************)
EXTENDS AnalysisStore, TLAPS

----------------------------------------------------------------------------
(* The inductive invariant *)

Exists(a) == attempt[a].status # "absent"

\* A row that does not exist has no target, and one that does has one.
RowsWellFormed ==
    \A a \in Attempts :
        /\ Exists(a) => attempt[a].target \in Targets
        /\ ~Exists(a) => attempt[a] = AbsentAttempt

\* The owner of a target is one of its attempts, with the target's generation.
OwnerMatchesTarget ==
    \A t \in Targets :
        \A a \in Attempts :
            target[t].owner = a => /\ attempt[a].target = t
                                   /\ Exists(a)
                                   /\ attempt[a].generation = target[t].generation
                                   /\ attempt[a].version = target[t].desired

\* Every attempt that is not the owner is finished and has an older generation.
OthersAreOld ==
    \A a \in Attempts :
        Exists(a) /\ target[attempt[a].target].owner # a =>
            /\ attempt[a].status \in Terminal
            /\ attempt[a].generation < target[attempt[a].target].generation

Fencing == RowsWellFormed /\ OwnerMatchesTarget /\ OthersAreOld

----------------------------------------------------------------------------
(* Type correctness *)

LEMMA ProcessClockNat ==
    ASSUME TypeOK, NEW now \in ProcessClock
    PROVE  now \in Nat
BY StoreAssumption DEF TypeOK, ProcessClock

LEMMA CreateTyped ==
    ASSUME TypeOK, NEW t \in Targets, NEW v \in Versions, NEW a \in Attempts,
           NEW now \in ProcessClock, CreateAttempt(t, v, a, now)
    PROVE  TypeOK'
<1> DEFINE generation == target[t].generation + 1
           row == [target |-> t, version |-> v, generation |-> generation,
                   status |-> "queued", epoch |-> 0,
                   lease |-> Null, retryAfter |-> Null]
<1>1. now \in Nat /\ generation \in Nat
  BY ProcessClockNat DEF TypeOK, TargetRow
<1>2. Superseded(t, now) \in [Attempts -> AttemptRow]
  <2>1. ASSUME NEW b \in Attempts
        PROVE  [attempt[b] EXCEPT !.status = "failed", !.retryAfter = now]
                 \in AttemptRow
    BY <1>1, <2>1 DEF TypeOK, AttemptRow, Terminal
  <2>2. \A b \in Attempts : attempt[b] \in AttemptRow
    BY DEF TypeOK
  <2> QED
    BY <2>1, <2>2 DEF Superseded
<1>3. row \in AttemptRow
  BY <1>1 DEF AttemptRow, Active, Null
<1>4. attempt' = [Superseded(t, now) EXCEPT ![a] = row]
  BY DEF CreateAttempt
<1>5. attempt' \in [Attempts -> AttemptRow]
  BY <1>2, <1>3, <1>4
<1>6. target' \in [Targets -> TargetRow]
  BY <1>1 DEF CreateAttempt, TypeOK, TargetRow
<1>7. outbox' \subseteq OutboxRow
  <2>1. attempt'[a] = row
    BY <1>4, <1>2
  <2>2. outbox' = outbox \cup {OutboxRowOf(a, attempt'[a], clock)}
    BY DEF CreateAttempt
  <2>3. OutboxRowOf(a, attempt'[a], clock) \in OutboxRow
    BY <1>1, <2>1 DEF OutboxRowOf, OutboxRow, TypeOK
  <2> QED
    BY <2>2, <2>3 DEF TypeOK
<1> QED
  BY <1>5, <1>6, <1>7 DEF CreateAttempt, TypeOK

LEMMA ReconcileTyped ==
    ASSUME TypeOK, NEW now \in ProcessClock,
           NEW Q \in SUBSET Attempts, NEW R \in SUBSET Attempts,
           Reconcile(now, Q, R)
    PROVE  TypeOK'
<1>1. now \in Nat
  BY ProcessClockNat
<1>2. ASSUME NEW a \in Attempts
      PROVE  Requeued(a) \in AttemptRow /\ Redispatched(a) \in AttemptRow
  <2>1. attempt[a] \in AttemptRow
    BY DEF TypeOK
  <2>2. Requeued(a) \in AttemptRow
    <3>1. attempt[a].generation + 1 \in Nat /\ attempt[a].epoch + 1 \in Nat
      BY <2>1 DEF AttemptRow
    <3>2. Null \in Nat /\ "queued" \in Active
      BY DEF Null, Active
    <3> QED
      BY <2>1, <3>1, <3>2 DEF AttemptRow, Requeued
  <2>3. Redispatched(a) \in AttemptRow
    BY <2>1 DEF AttemptRow, Redispatched
  <2> QED
    BY <2>2, <2>3
<1>3. attempt' \in [Attempts -> AttemptRow]
  BY <1>2 DEF Reconcile, TypeOK
<1>4. ASSUME NEW t \in Targets
      PROVE  TargetAfter(t, R) \in TargetRow
  BY <1>4 DEF TypeOK, TargetRow, AttemptRow, TargetAfter
<1>5. target' \in [Targets -> TargetRow]
  BY <1>4 DEF Reconcile
<1>6. outbox' \subseteq OutboxRow
  <2>1. ASSUME NEW a \in Attempts
        PROVE  OutboxRowOf(a, attempt'[a], now) \in OutboxRow
    BY <1>1, <1>3 DEF OutboxRowOf, OutboxRow, AttemptRow
  <2> QED
    BY <2>1 DEF Reconcile, TypeOK
<1> QED
  BY <1>3, <1>5, <1>6 DEF Reconcile, TypeOK

(* The five transactions a worker runs differ only in what they write to the *)
(* row of the attempt: never its target, version, generation or epoch.       *)
RowWritten(a) ==
    /\ OwnsTarget(a)
    /\ \E row \in AttemptRow :
          /\ row.target = attempt[a].target
          /\ row.version = attempt[a].version
          /\ row.generation = attempt[a].generation
          /\ row.epoch = attempt[a].epoch
          /\ row.status \in Running \cup Terminal
          /\ attempt' = [attempt EXCEPT ![a] = row]
    /\ UNCHANGED <<clock, target, outbox, delivered>>

LEMMA WorkerWritesRow ==
    ASSUME TypeOK, NEW a \in Attempts, NEW g \in Nat,
           \/ \E e \in Nat : ClaimAttempt(a, g, e)
           \/ Heartbeat(a, g)
           \/ StartAnalyzing(a, g)
           \/ CompleteAttempt(a, g)
           \/ \E r \in Nat : FailAttempt(a, g, r)
    PROVE  RowWritten(a) /\ attempt[a].status \in Active
<1>0. attempt[a] \in AttemptRow /\ clock + LeaseSeconds \in Nat
  BY StoreAssumption DEF TypeOK
<1>1. ASSUME NEW e \in Nat, ClaimAttempt(a, g, e)
      PROVE  RowWritten(a) /\ attempt[a].status \in Active
  <2> DEFINE row == [attempt[a] EXCEPT !.status = "fetching",
                                       !.lease = clock + LeaseSeconds]
  <2>1. row \in AttemptRow
    BY <1>0 DEF AttemptRow, Active, Running, Terminal
  <2>2. /\ attempt' = [attempt EXCEPT ![a] = row]
        /\ UNCHANGED <<clock, target, outbox, delivered>>
    BY <1>1 DEF ClaimAttempt
  <2>3. OwnsTarget(a) /\ attempt[a].status \in Active
    BY <1>1 DEF ClaimAttempt, Claimable, Active, Running
  <2>4. /\ row.target = attempt[a].target
        /\ row.version = attempt[a].version
        /\ row.generation = attempt[a].generation
        /\ row.epoch = attempt[a].epoch
        /\ row.status \in Running \cup Terminal
    BY <1>0, <1>1 DEF AttemptRow, ClaimAttempt, Claimable, Running, Terminal
  <2> QED
    BY <2>1, <2>2, <2>3, <2>4 DEF RowWritten
<1>2. CASE Heartbeat(a, g)
  <2> DEFINE row == [attempt[a] EXCEPT !.lease = clock + LeaseSeconds]
  <2>1. row \in AttemptRow
    BY <1>0 DEF AttemptRow, Active, Running, Terminal
  <2>2. /\ attempt' = [attempt EXCEPT ![a] = row]
        /\ UNCHANGED <<clock, target, outbox, delivered>>
    BY <1>2 DEF Heartbeat
  <2>3. OwnsTarget(a) /\ attempt[a].status \in Active
    BY <1>2 DEF Heartbeat, HoldsLease, Active, Running
  <2>4. /\ row.target = attempt[a].target
        /\ row.version = attempt[a].version
        /\ row.generation = attempt[a].generation
        /\ row.epoch = attempt[a].epoch
        /\ row.status \in Running \cup Terminal
    BY <1>0, <1>2 DEF AttemptRow, Heartbeat, HoldsLease, Running, Terminal
  <2> QED
    BY <2>1, <2>2, <2>3, <2>4 DEF RowWritten
<1>3. CASE StartAnalyzing(a, g)
  <2> DEFINE row == [attempt[a] EXCEPT !.status = "analyzing"]
  <2>1. row \in AttemptRow
    BY <1>0 DEF AttemptRow, Active, Running, Terminal
  <2>2. /\ attempt' = [attempt EXCEPT ![a] = row]
        /\ UNCHANGED <<clock, target, outbox, delivered>>
    BY <1>3 DEF StartAnalyzing
  <2>3. OwnsTarget(a) /\ attempt[a].status \in Active
    BY <1>3 DEF StartAnalyzing, MayAnalyze, HoldsLease, Active, Running
  <2>4. /\ row.target = attempt[a].target
        /\ row.version = attempt[a].version
        /\ row.generation = attempt[a].generation
        /\ row.epoch = attempt[a].epoch
        /\ row.status \in Running \cup Terminal
    BY <1>0, <1>3 DEF AttemptRow, StartAnalyzing, MayAnalyze, HoldsLease, Running, Terminal
  <2> QED
    BY <2>1, <2>2, <2>3, <2>4 DEF RowWritten
<1>4. CASE CompleteAttempt(a, g)
  <2> DEFINE row == [attempt[a] EXCEPT !.status = "completed"]
  <2>1. row \in AttemptRow
    BY <1>0 DEF AttemptRow, Active, Running, Terminal
  <2>2. /\ attempt' = [attempt EXCEPT ![a] = row]
        /\ UNCHANGED <<clock, target, outbox, delivered>>
    BY <1>4 DEF CompleteAttempt
  <2>3. OwnsTarget(a) /\ attempt[a].status \in Active
    BY <1>4 DEF CompleteAttempt, MayComplete, HoldsLease, Active, Running
  <2>4. /\ row.target = attempt[a].target
        /\ row.version = attempt[a].version
        /\ row.generation = attempt[a].generation
        /\ row.epoch = attempt[a].epoch
        /\ row.status \in Running \cup Terminal
    BY <1>0, <1>4 DEF AttemptRow, CompleteAttempt, MayComplete, HoldsLease, Running, Terminal
  <2> QED
    BY <2>1, <2>2, <2>3, <2>4 DEF RowWritten
<1>5. ASSUME NEW r \in Nat, FailAttempt(a, g, r)
      PROVE  RowWritten(a) /\ attempt[a].status \in Active
  <2> DEFINE row == [attempt[a] EXCEPT !.status = "failed", !.retryAfter = r]
  <2>1. row \in AttemptRow
    BY <1>0 DEF AttemptRow, Active, Running, Terminal
  <2>2. /\ attempt' = [attempt EXCEPT ![a] = row]
        /\ UNCHANGED <<clock, target, outbox, delivered>>
    BY <1>5 DEF FailAttempt
  <2>3. OwnsTarget(a) /\ attempt[a].status \in Active
    BY <1>5 DEF FailAttempt, HoldsLease, Active, Running
  <2>4. /\ row.target = attempt[a].target
        /\ row.version = attempt[a].version
        /\ row.generation = attempt[a].generation
        /\ row.epoch = attempt[a].epoch
        /\ row.status \in Running \cup Terminal
    BY <1>0, <1>5 DEF AttemptRow, FailAttempt, HoldsLease, Running, Terminal
  <2> QED
    BY <2>1, <2>2, <2>3, <2>4 DEF RowWritten
<1> QED
  BY <1>1, <1>2, <1>3, <1>4, <1>5

(* Next, with the worker's transactions gathered in one case. *)
LEMMA StepCases ==
    ASSUME TypeOK, Next
    PROVE  \/ \E t \in Targets, v \in Versions, a \in Attempts,
                 now \in ProcessClock : CreateAttempt(t, v, a, now)
           \/ \E a \in Attempts :
                 /\ RowWritten(a)
                 /\ attempt[a].status \in Active
                 /\ \/ UNCHANGED result /\ attempt'[a].status # "completed"
                    \/ CompleteAttempt(a, attempt[a].generation)
           \/ \E now \in ProcessClock, Q \in SUBSET Attempts,
                 R \in SUBSET Attempts : Reconcile(now, Q, R)
           \/ /\ clock' \in Nat /\ delivered' \subseteq outbox
              /\ UNCHANGED <<target, attempt, outbox, result>>
<1>1. ASSUME NEW a \in Attempts, NEW g \in 0 .. attempt[a].generation,
             \/ \E e \in 0 .. attempt[a].epoch : ClaimAttempt(a, g, e)
             \/ Heartbeat(a, g)
             \/ StartAnalyzing(a, g)
             \/ CompleteAttempt(a, g)
             \/ \E now \in ProcessClock : FailAttempt(a, g, now + FailureCooldown)
      PROVE  /\ RowWritten(a)
             /\ attempt[a].status \in Active
             /\ \/ UNCHANGED result /\ attempt'[a].status # "completed"
                \/ CompleteAttempt(a, attempt[a].generation)
  <2>1. g \in Nat /\ 0 .. attempt[a].epoch \subseteq Nat
    BY DEF TypeOK, AttemptRow
  <2>2. \A now \in ProcessClock : now + FailureCooldown \in Nat
    BY ProcessClockNat, StoreAssumption
  <2>3. RowWritten(a) /\ attempt[a].status \in Active
    BY <1>1, <2>1, <2>2, WorkerWritesRow
  <2>4. attempt[a] \in AttemptRow /\ attempt \in [Attempts -> AttemptRow]
    BY DEF TypeOK
  <2>5. CASE CompleteAttempt(a, g)
    <3>1. g = attempt[a].generation
      BY <2>5 DEF CompleteAttempt, MayComplete, HoldsLease
    <3> QED
      BY <2>3, <2>5, <3>1
  <2>6. CASE Heartbeat(a, g)
    BY <2>3, <2>4, <2>6 DEF Heartbeat, HoldsLease, AttemptRow, Running
  <2>7. CASE ~CompleteAttempt(a, g) /\ ~Heartbeat(a, g)
    BY <1>1, <2>3, <2>4, <2>7
       DEF ClaimAttempt, StartAnalyzing, FailAttempt, AttemptRow
  <2> QED
    BY <2>5, <2>6, <2>7
<1>2. ASSUME NEW rows \in SUBSET (outbox \ delivered), MarkDelivered(rows)
      PROVE  /\ clock' \in Nat /\ delivered' \subseteq outbox
             /\ UNCHANGED <<target, attempt, outbox, result>>
  BY <1>2 DEF MarkDelivered, TypeOK
<1>3. ASSUME Tick
      PROVE  /\ clock' \in Nat /\ delivered' \subseteq outbox
             /\ UNCHANGED <<target, attempt, outbox, result>>
  BY <1>3 DEF Tick, TypeOK
<1> QED
  BY <1>1, <1>2, <1>3 DEF Next

LEMMA ResultTyped ==
    ASSUME TypeOK, NEW a \in Attempts, RowWritten(a),
           UNCHANGED result \/ CompleteAttempt(a, attempt[a].generation)
    PROVE  result' \in [Targets -> ResultRow]
BY DEF RowWritten, OwnsTarget, CompleteAttempt, TypeOK, AttemptRow, ResultRow

LEMMA TypeStep ==
    ASSUME TypeOK, [Next]_storeVars
    PROVE  TypeOK'
<1>1. CASE UNCHANGED storeVars
  BY <1>1 DEF storeVars, TypeOK
<1>2. ASSUME NEW a \in Attempts, RowWritten(a),
             UNCHANGED result \/ CompleteAttempt(a, attempt[a].generation)
      PROVE  TypeOK'
  BY <1>2, ResultTyped DEF RowWritten, TypeOK
<1>3. ASSUME clock' \in Nat, delivered' \subseteq outbox,
             UNCHANGED <<target, attempt, outbox, result>>
      PROVE  TypeOK'
  BY <1>3 DEF TypeOK
<1>4. CASE Next
  BY <1>2, <1>3, <1>4, StepCases, CreateTyped, ReconcileTyped
<1> QED
  BY <1>1, <1>4

LEMMA TypeInit == Init => TypeOK
BY DEF Init, TypeOK, TargetRow, AttemptRow, ResultRow, AbsentTarget,
       AbsentAttempt, AbsentResult, Null

\* Every table keeps the columns and the value ranges it is declared with,
\* through every transaction of the repository, dispatcher and reconciler.
THEOREM TypeCorrect == Spec => []TypeOK
<1>1. Init => TypeOK
  BY TypeInit
<1>2. TypeOK /\ [Next]_storeVars => TypeOK'
  BY TypeStep
<1> QED
  BY <1>1, <1>2, PTL DEF Spec

----------------------------------------------------------------------------
(* What a step does to the columns Fencing speaks of *)

LEMMA SupersededRow ==
    ASSUME TypeOK, NEW t \in Targets, NEW now \in Nat, NEW b \in Attempts
    PROVE  /\ Superseded(t, now)[b].target = attempt[b].target
           /\ Superseded(t, now)[b].version = attempt[b].version
           /\ Superseded(t, now)[b].generation = attempt[b].generation
           /\ Superseded(t, now)[b].epoch = attempt[b].epoch
           /\ Superseded(t, now)[b].status =
                 IF b = target[t].owner /\ attempt[b].status \in Active
                 THEN "failed" ELSE attempt[b].status
           /\ attempt[b].status \notin Active => Superseded(t, now)[b] = attempt[b]
BY DEF TypeOK, AttemptRow, Superseded

LEMMA ReconcileRow ==
    ASSUME TypeOK, NEW now \in ProcessClock,
           NEW Q \in SUBSET Attempts, NEW R \in SUBSET Attempts,
           Reconcile(now, Q, R), NEW a \in Attempts
    PROVE  /\ attempt'[a].target = attempt[a].target
           /\ attempt'[a].version = attempt[a].version
           /\ a \in Q => a \notin R
           /\ a \in Q \cup R => /\ OwnsTarget(a)
                                /\ attempt[a].status \in Active
                                /\ attempt'[a].status = "queued"
                                /\ attempt'[a].epoch = attempt[a].epoch + 1
           /\ a \notin Q \cup R => attempt'[a] = attempt[a]
           /\ a \in R => attempt'[a].generation = attempt[a].generation + 1
           /\ a \notin R => attempt'[a].generation = attempt[a].generation
<1>1. attempt[a] \in AttemptRow
  BY DEF TypeOK
<1>2. attempt'[a] = IF a \in Q THEN Redispatched(a)
                    ELSE IF a \in R THEN Requeued(a) ELSE attempt[a]
  BY DEF Reconcile
<1>3. a \in Q => attempt[a].status = "queued" /\ OwnsTarget(a)
  BY DEF Reconcile, Undispatched
<1>4. a \in R => attempt[a].status \in Running /\ OwnsTarget(a)
  BY DEF Reconcile, Expired
<1> QED
  BY <1>1, <1>2, <1>3, <1>4
     DEF AttemptRow, Redispatched, Requeued, Active, Running

LEMMA ReconcileTarget ==
    ASSUME TypeOK, NEW now \in ProcessClock,
           NEW Q \in SUBSET Attempts, NEW R \in SUBSET Attempts,
           Reconcile(now, Q, R), NEW t \in Targets
    PROVE  /\ target'[t].desired = target[t].desired
           /\ target'[t].owner = target[t].owner
           /\ target[t].owner \in R => target'[t].generation =
                                         attempt[target[t].owner].generation + 1
           /\ target[t].owner \notin R => target'[t].generation = target[t].generation
<1>1. target[t] \in TargetRow
  BY DEF TypeOK
<1>2. target'[t] = TargetAfter(t, R)
  BY DEF Reconcile
<1> QED
  BY <1>1, <1>2 DEF TargetAfter, TargetRow

LEMMA RowWrittenRow ==
    ASSUME TypeOK, NEW a \in Attempts, RowWritten(a), NEW b \in Attempts
    PROVE  /\ attempt'[b].target = attempt[b].target
           /\ attempt'[b].version = attempt[b].version
           /\ attempt'[b].generation = attempt[b].generation
           /\ attempt'[b].epoch = attempt[b].epoch
           /\ b # a => attempt'[b] = attempt[b]
           /\ b = a => attempt'[b].status \in Running \cup Terminal
BY DEF RowWritten, TypeOK

----------------------------------------------------------------------------
(* Fencing is inductive *)

LEMMA FencingInit == Init => Fencing
BY StoreAssumption DEF Init, Fencing, RowsWellFormed, OwnerMatchesTarget, OthersAreOld, Exists,
       AbsentTarget, AbsentAttempt

(* What a creation leaves: the new owner, and every other attempt as it was but *)
(* for the superseded one.                                                      *)
RowsCreated(t, v, a) ==
    /\ ~Exists(a)
    /\ attempt'[a].target = t /\ attempt'[a].version = v
    /\ attempt'[a].generation = target[t].generation + 1
    /\ attempt'[a].status = "queued" /\ attempt'[a].epoch = 0
    /\ \A b \in Attempts \ {a} :
          /\ attempt'[b].target = attempt[b].target
          /\ attempt'[b].version = attempt[b].version
          /\ attempt'[b].generation = attempt[b].generation
          /\ attempt'[b].epoch = attempt[b].epoch
          /\ attempt'[b].status =
                IF b = target[t].owner /\ attempt[b].status \in Active
                THEN "failed" ELSE attempt[b].status
          /\ attempt[b].status \notin Active => attempt'[b] = attempt[b]
    /\ target'[t] = [desired |-> v, owner |-> a,
                     generation |-> target[t].generation + 1]
    /\ \A u \in Targets \ {t} : target'[u] = target[u]
    /\ \A u \in Targets : target[u].owner # a

LEMMA CreateRows ==
    ASSUME TypeOK, Fencing, NEW t \in Targets, NEW v \in Versions,
           NEW a \in Attempts, NEW now \in ProcessClock,
           CreateAttempt(t, v, a, now)
    PROVE  RowsCreated(t, v, a)
<1>0. now \in Nat
  BY ProcessClockNat
<1>1. /\ attempt'[a].target = t /\ attempt'[a].version = v
      /\ attempt'[a].generation = target[t].generation + 1
      /\ attempt'[a].status = "queued" /\ attempt'[a].epoch = 0
  BY DEF CreateAttempt, TypeOK, Superseded
<1>2. ASSUME NEW b \in Attempts, b # a
      PROVE  /\ attempt'[b].target = attempt[b].target
             /\ attempt'[b].version = attempt[b].version
             /\ attempt'[b].generation = attempt[b].generation
             /\ attempt'[b].epoch = attempt[b].epoch
             /\ attempt'[b].status =
                   IF b = target[t].owner /\ attempt[b].status \in Active
                   THEN "failed" ELSE attempt[b].status
             /\ attempt[b].status \notin Active => attempt'[b] = attempt[b]
  <2>1. attempt'[b] = Superseded(t, now)[b]
    BY <1>2 DEF CreateAttempt, Superseded
  <2> QED
    BY <2>1, <1>0, SupersededRow
<1>3. target'[t] = [desired |-> v, owner |-> a,
                    generation |-> target[t].generation + 1]
  BY DEF CreateAttempt, TypeOK
<1>4. ASSUME NEW u \in Targets, u # t
      PROVE  target'[u] = target[u]
  BY <1>4 DEF CreateAttempt, TypeOK
<1>5. ~Exists(a)
  BY DEF CreateAttempt, Exists
<1>6. \A u \in Targets : target[u].owner # a
  BY <1>5, StoreAssumption DEF Fencing, OwnerMatchesTarget, Exists
<1> QED
  BY <1>1, <1>2, <1>3, <1>4, <1>5, <1>6 DEF RowsCreated

LEMMA FencingCreate ==
    ASSUME TypeOK, Fencing, NEW t \in Targets, NEW v \in Versions,
           NEW a \in Attempts, NEW now \in ProcessClock,
           CreateAttempt(t, v, a, now)
    PROVE  Fencing'
<1>0. RowsCreated(t, v, a)
  BY CreateRows
<1>1. /\ attempt'[a].target = t /\ attempt'[a].version = v
      /\ attempt'[a].generation = target[t].generation + 1
      /\ attempt'[a].status = "queued"
  BY <1>0 DEF RowsCreated
<1>2. ASSUME NEW b \in Attempts, b # a
      PROVE  /\ attempt'[b].target = attempt[b].target
             /\ attempt'[b].version = attempt[b].version
             /\ attempt'[b].generation = attempt[b].generation
             /\ attempt'[b].status =
                   IF b = target[t].owner /\ attempt[b].status \in Active
                   THEN "failed" ELSE attempt[b].status
             /\ attempt[b].status \notin Active => attempt'[b] = attempt[b]
  BY <1>0, <1>2 DEF RowsCreated
<1>3. target'[t] = [desired |-> v, owner |-> a,
                    generation |-> target[t].generation + 1]
  BY <1>0 DEF RowsCreated
<1>4. ASSUME NEW u \in Targets, u # t
      PROVE  target'[u] = target[u]
  BY <1>0, <1>4 DEF RowsCreated
<1>6. \A u \in Targets : target[u].owner # a
  BY <1>0 DEF RowsCreated
<1>7. RowsWellFormed'
  <2> SUFFICES ASSUME NEW b \in Attempts
               PROVE  /\ Exists(b)' => attempt'[b].target \in Targets
                      /\ ~Exists(b)' => attempt'[b] = AbsentAttempt
    BY DEF RowsWellFormed, AbsentAttempt
  <2>1. CASE b = a
    BY <2>1, <1>1 DEF Exists
  <2>2. CASE b # a
    BY <2>2, <1>2 DEF Fencing, RowsWellFormed, Exists, Active, Running
  <2> QED
    BY <2>1, <2>2
<1>8. OwnerMatchesTarget'
  <2> SUFFICES ASSUME NEW u \in Targets, NEW b \in Attempts, target'[u].owner = b
               PROVE  /\ attempt'[b].target = u
                      /\ Exists(b)'
                      /\ attempt'[b].generation = target'[u].generation
                      /\ attempt'[b].version = target'[u].desired
    BY DEF OwnerMatchesTarget
  <2>1. CASE u = t
    BY <2>1, <1>1, <1>3 DEF Exists
  <2>2. CASE u # t
    <3>1. target[u].owner = b /\ b # a
      BY <2>2, <1>4, <1>6
    <3>2. /\ attempt[b].target = u /\ attempt[b].status # "absent"
          /\ attempt[b].generation = target[u].generation
          /\ attempt[b].version = target[u].desired
      BY <3>1 DEF Fencing, OwnerMatchesTarget, Exists
    <3> QED
      BY <2>2, <3>1, <3>2, <1>2, <1>4 DEF Exists
  <2> QED
    BY <2>1, <2>2
<1>9. OthersAreOld'
  <2> SUFFICES ASSUME NEW b \in Attempts, Exists(b)',
                      target'[attempt'[b].target].owner # b
               PROVE  /\ attempt'[b].status \in Terminal
                      /\ attempt'[b].generation
                           < target'[attempt'[b].target].generation
    BY DEF OthersAreOld
  <2>1. b # a
    BY <1>1, <1>3
  <2>2. Exists(b) /\ attempt'[b].target = attempt[b].target
        /\ attempt'[b].generation = attempt[b].generation
    BY <2>1, <1>2 DEF Exists, Active, Running
  <2>3. attempt[b].target \in Targets /\ attempt[b].generation \in Nat
    BY <2>2 DEF Fencing, RowsWellFormed, TypeOK, AttemptRow
  <2>4. CASE attempt[b].target = t /\ target[t].owner = b
    <3>1. attempt[b].generation = target[t].generation
      BY <2>4, StoreAssumption DEF Fencing, OwnerMatchesTarget
    <3>2. attempt'[b].status \in Terminal
      BY <2>1, <2>2, <2>4, <1>2
         DEF Terminal, Exists, TypeOK, AttemptRow
    <3> QED
      BY <3>1, <3>2, <2>2, <2>3, <2>4, <1>3
  <2>5. CASE ~(attempt[b].target = t /\ target[t].owner = b)
    <3>1. target[attempt[b].target].owner # b
      BY <2>2, <2>3, <2>5, <1>4
    <3>2. attempt[b].status \in Terminal
          /\ attempt[b].generation < target[attempt[b].target].generation
      BY <2>2, <3>1 DEF Fencing, OthersAreOld
    <3>3. attempt'[b].status \in Terminal
      BY <3>2, <2>1, <1>2 DEF Terminal, Active, Running
    <3>4. target'[attempt[b].target].generation
            \in {target[attempt[b].target].generation,
                 target[attempt[b].target].generation + 1}
      BY <2>3, <1>3, <1>4
    <3>5. target[attempt[b].target].generation \in Nat
      BY <2>3 DEF TypeOK, TargetRow
    <3> QED
      BY <3>2, <3>3, <3>4, <3>5, <2>2, <2>3
  <2> QED
    BY <2>4, <2>5
<1> QED
  BY <1>7, <1>8, <1>9 DEF Fencing

LEMMA FencingRowWritten ==
    ASSUME TypeOK, Fencing, NEW a \in Attempts, RowWritten(a),
           attempt[a].status \in Active
    PROVE  Fencing'
<1>1. UNCHANGED target
  BY DEF RowWritten
<1>2. attempt[a].status # "absent" /\ target[attempt[a].target].owner = a
  BY DEF Active, Running, RowWritten, OwnsTarget
<1>3. \A b \in Attempts : Exists(b)' <=> Exists(b)
  BY <1>2, RowWrittenRow DEF Exists, Running, Terminal
<1>4. RowsWellFormed'
  BY <1>2, <1>3, RowWrittenRow DEF Fencing, RowsWellFormed, Exists, AbsentAttempt
<1>5. OwnerMatchesTarget'
  BY <1>1, <1>3, RowWrittenRow DEF Fencing, OwnerMatchesTarget
<1>6. OthersAreOld'
  <2> SUFFICES ASSUME NEW b \in Attempts, Exists(b)',
                      target'[attempt'[b].target].owner # b
               PROVE  /\ attempt'[b].status \in Terminal
                      /\ attempt'[b].generation
                           < target'[attempt'[b].target].generation
    BY DEF OthersAreOld
  <2>1. attempt'[b].target = attempt[b].target
    BY RowWrittenRow
  <2>2. b # a
    BY <1>1, <1>2, <2>1
  <2> QED
    BY <1>1, <1>3, <2>1, <2>2, RowWrittenRow DEF Fencing, OthersAreOld
<1> QED
  BY <1>4, <1>5, <1>6 DEF Fencing

LEMMA FencingReconcile ==
    ASSUME TypeOK, Fencing, NEW now \in ProcessClock,
           NEW Q \in SUBSET Attempts, NEW R \in SUBSET Attempts,
           Reconcile(now, Q, R)
    PROVE  Fencing'
<1>1. \A b \in Attempts : Exists(b)' <=> Exists(b)
  BY ReconcileRow DEF Exists, Active, Running
<1>2. RowsWellFormed'
  <2> SUFFICES ASSUME NEW b \in Attempts
               PROVE  /\ Exists(b)' => attempt'[b].target \in Targets
                      /\ ~Exists(b)' => attempt'[b] = AbsentAttempt
    BY DEF RowsWellFormed, AbsentAttempt
  <2>1. attempt'[b].target = attempt[b].target
    BY ReconcileRow
  <2>2. ~Exists(b) => attempt'[b] = attempt[b]
    BY ReconcileRow DEF Exists, Active, Running
  <2> QED
    BY <2>1, <2>2, <1>1 DEF Fencing, RowsWellFormed
<1>3. OwnerMatchesTarget'
  <2> SUFFICES ASSUME NEW u \in Targets, NEW b \in Attempts, target'[u].owner = b
               PROVE  /\ attempt'[b].target = u
                      /\ Exists(b)'
                      /\ attempt'[b].generation = target'[u].generation
                      /\ attempt'[b].version = target'[u].desired
    BY DEF OwnerMatchesTarget
  <2>1. target[u].owner = b
    BY ReconcileTarget
  <2>2. /\ attempt[b].target = u /\ Exists(b)
        /\ attempt[b].generation = target[u].generation
        /\ attempt[b].version = target[u].desired
    BY <2>1 DEF Fencing, OwnerMatchesTarget
  <2>3. /\ attempt'[b].target = attempt[b].target
        /\ attempt'[b].version = attempt[b].version
        /\ b \in R => attempt'[b].generation = attempt[b].generation + 1
        /\ b \notin R => attempt'[b].generation = attempt[b].generation
    BY ReconcileRow
  <2>4. /\ target'[u].desired = target[u].desired
        /\ b \in R => target'[u].generation = attempt[b].generation + 1
        /\ b \notin R => target'[u].generation = target[u].generation
    BY <2>1, ReconcileTarget
  <2> QED
    BY <2>2, <2>3, <2>4, <1>1
<1>4. OthersAreOld'
  <2> SUFFICES ASSUME NEW b \in Attempts, Exists(b)',
                      target'[attempt'[b].target].owner # b
               PROVE  /\ attempt'[b].status \in Terminal
                      /\ attempt'[b].generation
                           < target'[attempt'[b].target].generation
    BY DEF OthersAreOld
  <2> DEFINE u == attempt[b].target
  <2>1. attempt'[b].target = u /\ Exists(b)
    BY <1>1, ReconcileRow
  <2>2. u \in Targets
    BY <2>1 DEF Fencing, RowsWellFormed
  <2>3. target[u].owner # b
    BY <2>1, <2>2, ReconcileTarget
  <2>4. attempt[b].status \in Terminal /\ attempt[b].generation < target[u].generation
    BY <2>1, <2>3 DEF Fencing, OthersAreOld
  <2>5. b \notin Q \cup R
    BY <2>3, ReconcileRow DEF OwnsTarget
  <2>6. attempt'[b] = attempt[b]
    BY <2>5, ReconcileRow
  <2>7. target[u].owner \in R => attempt[target[u].owner].generation = target[u].generation
    BY <2>2 DEF Fencing, OwnerMatchesTarget
  <2>8. target[u].generation \in Nat /\ attempt[b].generation \in Nat
    BY <2>2 DEF TypeOK, TargetRow, AttemptRow
  <2>9. target'[u].generation \in {target[u].generation, target[u].generation + 1}
    <3>1. /\ target[u].owner \in R => target'[u].generation =
                                         attempt[target[u].owner].generation + 1
          /\ target[u].owner \notin R => target'[u].generation = target[u].generation
      BY <2>2, ReconcileTarget
    <3> QED
      BY <2>7, <3>1
  <2> QED
    BY <2>1, <2>4, <2>6, <2>8, <2>9
<1> QED
  BY <1>2, <1>3, <1>4 DEF Fencing

LEMMA FencingStep ==
    ASSUME TypeOK, Fencing, [Next]_storeVars
    PROVE  Fencing'
<1>1. ASSUME UNCHANGED <<target, attempt>>
      PROVE  Fencing'
  BY <1>1 DEF Fencing, RowsWellFormed, OwnerMatchesTarget, OthersAreOld, Exists
<1>2. CASE UNCHANGED storeVars
  BY <1>1, <1>2 DEF storeVars
<1>3. CASE Next
  BY <1>1, <1>3, StepCases, FencingCreate, FencingRowWritten, FencingReconcile
<1> QED
  BY <1>2, <1>3

\* The owner, the generation and the version of a target always agree with one
\* attempt, and every other attempt of the target is finished and older.
THEOREM FencingHolds == Spec => [](TypeOK /\ Fencing)
<1>1. Init => TypeOK /\ Fencing
  BY TypeInit, FencingInit
<1>2. TypeOK /\ Fencing /\ [Next]_storeVars => (TypeOK /\ Fencing)'
  BY TypeStep, FencingStep
<1> QED
  BY <1>1, <1>2, PTL DEF Spec

(* An unfinished attempt is the owner its target names. *)
LEMMA FencingOwns ==
    ASSUME TypeOK, Fencing, NEW a \in Attempts, attempt[a].status \in Active
    PROVE  OwnsTarget(a) /\ VersionDesired(a)
<1>1. Exists(a) /\ attempt[a].status \notin Terminal
  BY DEF Exists, Active, Running, Terminal
<1>2. attempt[a].target \in Targets
  BY <1>1 DEF Fencing, RowsWellFormed
<1>3. target[attempt[a].target].owner = a
  BY <1>1 DEF Fencing, OthersAreOld
<1> QED
  BY <1>2, <1>3 DEF Fencing, OwnerMatchesTarget, OwnsTarget, VersionDesired

\* At most one unfinished attempt per target, and it is the owner of the target
\* at its generation and version: create_or_reuse_attempt never leaves two.
THEOREM ActiveOwns == Spec => []ActiveOwnsTarget
<1>1. TypeOK /\ Fencing => ActiveOwnsTarget
  BY FencingOwns DEF ActiveOwnsTarget
<1> QED
  BY <1>1, FencingHolds, PTL
=============================================================================
