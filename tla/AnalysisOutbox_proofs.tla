----------------------- MODULE AnalysisOutbox_proofs -----------------------
(***************************************************************************)
(* The outbox: delivery keys, the row of a queued attempt, and the failure *)
(* cooldown that creations respect.                                        *)
(***************************************************************************)
EXTENDS AnalysisResults_proofs

(* A row was inserted for an attempt that exists, with a generation and an   *)
(* epoch the attempt has had: those of a new row are always above.           *)
RowsFollowAttempts ==
    \A r \in outbox :
        /\ Exists(r.attempt)
        /\ r.generation <= attempt[r.attempt].generation
        /\ r.epoch <= attempt[r.attempt].epoch

OutboxInv == /\ RowsFollowAttempts
             /\ DeliveryKeysUnique
             /\ QueuedHasItsRow
             /\ CooldownServed

LEMMA OutboxTyped ==
    ASSUME StoreInv, NEW r \in outbox
    PROVE  /\ r.attempt \in Attempts
           /\ r.generation \in Nat /\ r.epoch \in Nat /\ r.created \in Nat
BY DEF StoreInv, TypeOK, OutboxRow

LEMMA AttemptTyped ==
    ASSUME StoreInv, NEW a \in Attempts
    PROVE  /\ attempt[a].generation \in Nat /\ attempt[a].epoch \in Nat
           /\ attempt[a].retryAfter \in Nat
BY DEF StoreInv, TypeOK, AttemptRow

----------------------------------------------------------------------------
(* Creation *)

LEMMA OutboxCreate ==
    ASSUME StoreInv, OutboxInv,
           NEW t \in Targets, NEW v \in Versions, NEW a \in Attempts,
           NEW now \in ProcessClock, CreateAttempt(t, v, a, now)
    PROVE  OutboxInv'
<1> DEFINE new == [attempt |-> a, generation |-> target[t].generation + 1,
                   epoch |-> 0, created |-> clock]
<1>0. RowsCreated(t, v, a)
  BY CreateRows DEF StoreInv
<1>1. outbox' = outbox \cup {new}
  BY <1>0 DEF CreateAttempt, OutboxRowOf, RowsCreated
<1>2. ASSUME NEW r \in outbox
      PROVE  r.attempt \in Attempts \ {a}
  BY <1>0, OutboxTyped DEF OutboxInv, RowsFollowAttempts, RowsCreated
<1>3. target[t].generation \in Nat /\ clock \in Nat /\ now \in Nat
      /\ now <= clock + Skew
  BY GenerationsNat, ProcessClockNat, StoreAssumption
     DEF StoreInv, TypeOK, ProcessClock
<1>4. RowsFollowAttempts'
  <2>1. ASSUME NEW r \in outbox
        PROVE  /\ Exists(r.attempt)'
               /\ r.generation <= attempt'[r.attempt].generation
               /\ r.epoch <= attempt'[r.attempt].epoch
    <3> DEFINE b == r.attempt
    <3>1. b \in Attempts \ {a} /\ Exists(b)
      BY <1>2 DEF OutboxInv, RowsFollowAttempts
    <3>2. /\ attempt'[b].generation = attempt[b].generation
          /\ attempt'[b].epoch = attempt[b].epoch
          /\ Exists(b)'
      BY <1>0, <3>1 DEF RowsCreated, Exists
    <3> QED
      BY <3>2 DEF OutboxInv, RowsFollowAttempts
  <2>2. /\ Exists(a)' /\ attempt'[a].generation = target[t].generation + 1
        /\ attempt'[a].epoch = 0
    BY <1>0 DEF RowsCreated, Exists
  <2>3. /\ Exists(new.attempt)'
        /\ new.generation <= attempt'[new.attempt].generation
        /\ new.epoch <= attempt'[new.attempt].epoch
    BY <2>2, <1>3
  <2> SUFFICES ASSUME NEW r \in outbox'
               PROVE  /\ Exists(r.attempt)'
                      /\ r.generation <= attempt'[r.attempt].generation
                      /\ r.epoch <= attempt'[r.attempt].epoch
    BY DEF RowsFollowAttempts
  <2>4. CASE r \in outbox
    BY <2>1, <2>4
  <2>5. CASE r = new
    BY <2>3, <2>5
  <2> QED
    BY <1>1, <2>4, <2>5
<1>5. DeliveryKeysUnique'
  BY <1>1, <1>2 DEF OutboxInv, DeliveryKeysUnique
<1>6. QueuedHasItsRow'
  <2> SUFFICES ASSUME NEW b \in Attempts, attempt'[b].status = "queued"
               PROVE  \E r \in outbox' : /\ r.attempt = b
                                         /\ r.generation = attempt'[b].generation
                                         /\ r.epoch = attempt'[b].epoch
    BY DEF QueuedHasItsRow
  <2>1. CASE b = a
    <3>1. new \in outbox'
      BY <1>1
    <3>2. /\ new.attempt = b
          /\ new.generation = attempt'[b].generation
          /\ new.epoch = attempt'[b].epoch
      BY <2>1, <1>0 DEF RowsCreated
    <3> HIDE DEF new
    <3> QED
      BY <3>1, <3>2
  <2>2. CASE b # a
    <3>1. /\ attempt[b].status = "queued"
          /\ attempt'[b].generation = attempt[b].generation
          /\ attempt'[b].epoch = attempt[b].epoch
      BY <2>2, <1>0 DEF RowsCreated
    <3> QED
      BY <3>1, <1>1 DEF OutboxInv, QueuedHasItsRow
  <2> QED
    BY <2>1, <2>2
<1>7. CooldownServed'
  <2> SUFFICES ASSUME NEW b \in Attempts, NEW r \in outbox',
                      attempt'[b].status = "failed", r.epoch = 0,
                      r.generation > attempt'[b].generation,
                      attempt'[r.attempt].target = attempt'[b].target,
                      attempt'[r.attempt].version = attempt'[b].version
               PROVE  r.created + Skew >= attempt'[b].retryAfter
    BY DEF CooldownServed
  <2>1. b # a
    BY <1>0 DEF RowsCreated
  <2>2. CASE b = target[t].owner /\ attempt[b].status \in Active
    <3>1. attempt'[b].retryAfter = now
      <4>1. attempt'[b] = Superseded(t, now)[b]
        BY <2>1 DEF CreateAttempt, Superseded
      <4>2. Superseded(t, now)[b] =
              [attempt[b] EXCEPT !.status = "failed", !.retryAfter = now]
        BY <2>2 DEF Superseded
      <4>3. attempt[b] \in AttemptRow
        BY DEF StoreInv, TypeOK
      <4> QED
        BY <4>1, <4>2, <4>3 DEF AttemptRow
    <3>2. CASE r = new
      BY <3>1, <3>2, <1>3
    <3>3. CASE r \in outbox
      <4> DEFINE c == r.attempt
      <4>1. c \in Attempts \ {a} /\ Exists(c) /\ r.generation <= attempt[c].generation
        BY <3>3, <1>2 DEF OutboxInv, RowsFollowAttempts
      <4>2. attempt[c].target = attempt[b].target
            /\ attempt'[b].generation = attempt[b].generation
        BY <2>1, <4>1, <1>0 DEF RowsCreated
      <4>3. attempt[b].target = t /\ attempt[b].generation = target[t].generation
        BY <2>2 DEF StoreInv, Fencing, OwnerMatchesTarget
      <4>4. attempt[c].generation <= target[t].generation
        BY <4>1, <4>2, <4>3, OwnedOrOld
      <4>5. r.generation \in Nat /\ attempt[c].generation \in Nat
        BY <3>3, <4>1, OutboxTyped, AttemptTyped
      <4> QED
        BY <4>1, <4>2, <4>3, <4>4, <4>5, <1>3
    <3> QED
      BY <3>2, <3>3, <1>1
  <2>3. CASE ~(b = target[t].owner /\ attempt[b].status \in Active)
    <3>1. attempt[b].status = "failed" /\ attempt'[b] = attempt[b]
      <4>1. attempt'[b].status = attempt[b].status
        BY <2>1, <2>3, <1>0 DEF RowsCreated
      <4>2. attempt[b].status \notin Active
        BY <4>1 DEF Active, Running
      <4> QED
        BY <2>1, <4>1, <4>2, <1>0 DEF RowsCreated
    <3>2. CASE r = new
      <4>1. attempt[b].target = t /\ attempt[b].version = v
        BY <3>1, <3>2, <1>0 DEF RowsCreated
      <4>2. ~(attempt[b].retryAfter > now)
        BY <3>1, <4>1 DEF CreateAttempt, CoolingDown
      <4> QED
        BY <3>1, <3>2, <4>2, <1>3, AttemptTyped, StoreAssumption
    <3>3. CASE r \in outbox
      <4>1. r.attempt \in Attempts \ {a}
        BY <3>3, <1>2
      <4>2. /\ attempt'[r.attempt].target = attempt[r.attempt].target
            /\ attempt'[r.attempt].version = attempt[r.attempt].version
        BY <4>1, <1>0 DEF RowsCreated
      <4> QED
        BY <3>1, <3>3, <4>2 DEF OutboxInv, CooldownServed
    <3> QED
      BY <3>2, <3>3, <1>1
  <2> QED
    BY <2>2, <2>3
<1> QED
  BY <1>4, <1>5, <1>6, <1>7 DEF OutboxInv

----------------------------------------------------------------------------
(* A worker's transaction *)

LEMMA OutboxRowWritten ==
    ASSUME StoreInv, OutboxInv, NEW a \in Attempts, RowWritten(a),
           attempt[a].status \in Active
    PROVE  OutboxInv'
<1>0. outbox' = outbox
  BY DEF RowWritten
<1>1. ASSUME NEW b \in Attempts
      PROVE  /\ attempt'[b].target = attempt[b].target
             /\ attempt'[b].version = attempt[b].version
             /\ attempt'[b].generation = attempt[b].generation
             /\ attempt'[b].epoch = attempt[b].epoch
             /\ b # a => attempt'[b] = attempt[b]
             /\ b = a => attempt'[b].status \in Running \cup Terminal
  BY RowWrittenRow DEF StoreInv
<1>2. RowsFollowAttempts'
  <2>1. ASSUME NEW b \in Attempts, Exists(b)
        PROVE  Exists(b)'
    BY <1>1, <2>1 DEF Exists, Running, Terminal
  <2> QED
    BY <1>0, <1>1, <2>1, OutboxTyped DEF OutboxInv, RowsFollowAttempts
<1>3. DeliveryKeysUnique'
  BY <1>0 DEF OutboxInv, DeliveryKeysUnique
<1>4. QueuedHasItsRow'
  <2>1. ASSUME NEW b \in Attempts, attempt'[b].status = "queued"
        PROVE  attempt[b].status = "queued"
    BY <1>1, <2>1 DEF Running, Terminal
  <2> QED
    BY <1>0, <1>1, <2>1 DEF OutboxInv, QueuedHasItsRow
<1>5. CooldownServed'
  <2> SUFFICES ASSUME NEW b \in Attempts, NEW r \in outbox,
                      attempt'[b].status = "failed", r.epoch = 0,
                      r.generation > attempt'[b].generation,
                      attempt'[r.attempt].target = attempt'[b].target,
                      attempt'[r.attempt].version = attempt'[b].version
               PROVE  r.created + Skew >= attempt'[b].retryAfter
    BY <1>0 DEF CooldownServed
  <2> DEFINE c == r.attempt
  <2>1. c \in Attempts /\ Exists(c) /\ r.generation <= attempt[c].generation
    BY OutboxTyped DEF OutboxInv, RowsFollowAttempts
  <2>2. /\ attempt[c].target = attempt[b].target
        /\ attempt[c].version = attempt[b].version
        /\ r.generation > attempt[b].generation
    BY <2>1, <1>1
  <2>3. CASE b = a
    <3>1. attempt[c].generation <= attempt[b].generation
      BY <2>1, <2>2, <2>3, OwnedOrOld DEF RowWritten, OwnsTarget
    <3> QED
      BY <2>1, <2>2, <3>1, OutboxTyped, AttemptTyped
  <2>4. CASE b # a
    BY <2>2, <2>4, <1>1 DEF OutboxInv, CooldownServed
  <2> QED
    BY <2>3, <2>4
<1> QED
  BY <1>2, <1>3, <1>4, <1>5 DEF OutboxInv

----------------------------------------------------------------------------
(* The reconcile transaction *)

LEMMA OutboxReconcile ==
    ASSUME StoreInv, OutboxInv, NEW now \in ProcessClock,
           NEW Q \in SUBSET Attempts, NEW R \in SUBSET Attempts,
           Reconcile(now, Q, R)
    PROVE  OutboxInv'
<1>0. TypeOK
  BY DEF StoreInv
<1>1. ASSUME NEW b \in Attempts
      PROVE  /\ attempt'[b].target = attempt[b].target
             /\ attempt'[b].version = attempt[b].version
             /\ b \in Q \cup R => /\ attempt[b].status \in Active
                                  /\ attempt'[b].status = "queued"
                                  /\ attempt'[b].epoch = attempt[b].epoch + 1
             /\ b \notin Q \cup R => attempt'[b] = attempt[b]
             /\ attempt'[b].generation \in {attempt[b].generation,
                                            attempt[b].generation + 1}
  BY <1>0, ReconcileRow
<1>2. outbox' = outbox \cup {OutboxRowOf(b, attempt'[b], now) : b \in Q \cup R}
  BY DEF Reconcile
<1>3. ASSUME NEW r \in outbox', r \notin outbox
      PROVE  /\ r.attempt \in Q \cup R
             /\ r.generation = attempt'[r.attempt].generation
             /\ r.epoch = attempt[r.attempt].epoch + 1
             /\ r = OutboxRowOf(r.attempt, attempt'[r.attempt], now)
  <2>1. PICK b \in Q \cup R : r = OutboxRowOf(b, attempt'[b], now)
    BY <1>2, <1>3
  <2>2. r.attempt = b /\ r.generation = attempt'[b].generation
        /\ r.epoch = attempt'[b].epoch
    BY <2>1 DEF OutboxRowOf
  <2> QED
    BY <2>1, <2>2, <1>1
<1>4. ASSUME NEW r \in outbox
      PROVE  /\ r.attempt \in Attempts /\ Exists(r.attempt)
             /\ r.generation <= attempt[r.attempt].generation
             /\ r.epoch <= attempt[r.attempt].epoch
             /\ r.generation \in Nat /\ r.epoch \in Nat
  BY OutboxTyped DEF OutboxInv, RowsFollowAttempts
<1>5. RowsFollowAttempts'
  <2> SUFFICES ASSUME NEW r \in outbox'
               PROVE  /\ Exists(r.attempt)'
                      /\ r.generation <= attempt'[r.attempt].generation
                      /\ r.epoch <= attempt'[r.attempt].epoch
    BY DEF RowsFollowAttempts
  <2>1. CASE r \in outbox
    <3> DEFINE b == r.attempt
    <3>1. /\ b \in Attempts /\ Exists(b)
          /\ r.generation <= attempt[b].generation /\ r.epoch <= attempt[b].epoch
          /\ r.generation \in Nat /\ r.epoch \in Nat
      BY <2>1, <1>4
    <3>2. attempt[b].generation \in Nat /\ attempt[b].epoch \in Nat
      BY <3>1, AttemptTyped
    <3>3. CASE b \in Q \cup R
      BY <3>1, <3>2, <3>3, <1>1 DEF Exists
    <3>4. CASE b \notin Q \cup R
      BY <3>1, <3>4, <1>1 DEF Exists
    <3> QED
      BY <3>3, <3>4
  <2>2. CASE r \notin outbox
    <3> DEFINE b == r.attempt
    <3>1. b \in Q \cup R /\ r.generation = attempt'[b].generation
          /\ r.epoch = attempt[b].epoch + 1
      BY <2>2, <1>3
    <3>2. attempt'[b].epoch = attempt[b].epoch + 1 /\ attempt'[b].status = "queued"
      BY <3>1, <1>1
    <3>3. /\ attempt[b].epoch \in Nat /\ attempt[b].generation \in Nat
          /\ attempt'[b].generation \in Nat
      BY <3>1, <1>1, AttemptTyped
    <3> QED
      BY <3>1, <3>2, <3>3 DEF Exists
  <2> QED
    BY <2>1, <2>2
<1>6. DeliveryKeysUnique'
  <2> SUFFICES ASSUME NEW r \in outbox', NEW s \in outbox',
                      r.attempt = s.attempt, r.generation = s.generation,
                      r.epoch = s.epoch
               PROVE  r = s
    BY DEF DeliveryKeysUnique
  <2>1. ASSUME NEW x \in outbox, NEW y \in outbox', y \notin outbox,
               x.attempt = y.attempt, x.epoch = y.epoch
        PROVE  FALSE
    <3>1. /\ x.attempt \in Attempts /\ x.epoch <= attempt[x.attempt].epoch
          /\ x.epoch \in Nat
      BY <1>4
    <3>2. y.epoch = attempt[y.attempt].epoch + 1
      BY <2>1, <1>3
    <3> QED
      BY <2>1, <3>1, <3>2, AttemptTyped
  <2>2. CASE r \in outbox /\ s \in outbox
    BY <2>2 DEF OutboxInv, DeliveryKeysUnique
  <2>3. CASE r \notin outbox /\ s \notin outbox
    BY <2>3, <1>3
  <2> QED
    BY <2>1, <2>2, <2>3
<1>7. QueuedHasItsRow'
  <2> SUFFICES ASSUME NEW b \in Attempts, attempt'[b].status = "queued"
               PROVE  \E r \in outbox' : /\ r.attempt = b
                                         /\ r.generation = attempt'[b].generation
                                         /\ r.epoch = attempt'[b].epoch
    BY DEF QueuedHasItsRow
  <2>1. CASE b \in Q \cup R
    <3> DEFINE new == OutboxRowOf(b, attempt'[b], now)
    <3>1. new \in outbox'
      BY <2>1, <1>2
    <3>2. /\ new.attempt = b
          /\ new.generation = attempt'[b].generation
          /\ new.epoch = attempt'[b].epoch
      BY DEF OutboxRowOf
    <3> HIDE DEF new
    <3> QED
      BY <3>1, <3>2
  <2>2. CASE b \notin Q \cup R
    BY <2>2, <1>1, <1>2 DEF OutboxInv, QueuedHasItsRow
  <2> QED
    BY <2>1, <2>2
<1>8. CooldownServed'
  <2> SUFFICES ASSUME NEW b \in Attempts, NEW r \in outbox',
                      attempt'[b].status = "failed", r.epoch = 0,
                      r.generation > attempt'[b].generation,
                      attempt'[r.attempt].target = attempt'[b].target,
                      attempt'[r.attempt].version = attempt'[b].version
               PROVE  r.created + Skew >= attempt'[b].retryAfter
    BY DEF CooldownServed
  <2>1. r \in outbox
    <3>1. SUFFICES ASSUME r \notin outbox
                   PROVE  FALSE
      OBVIOUS
    <3>2. r.attempt \in Attempts /\ r.epoch = attempt[r.attempt].epoch + 1
      BY <3>1, <1>3
    <3> QED
      BY <3>2, AttemptTyped
  <2>2. attempt'[b] = attempt[b]
    BY <1>1
  <2>3. /\ attempt'[r.attempt].target = attempt[r.attempt].target
        /\ attempt'[r.attempt].version = attempt[r.attempt].version
    BY <2>1, <1>1, <1>4
  <2> QED
    BY <2>1, <2>2, <2>3 DEF OutboxInv, CooldownServed
<1> QED
  BY <1>5, <1>6, <1>7, <1>8 DEF OutboxInv

----------------------------------------------------------------------------
LEMMA OutboxStep ==
    ASSUME StoreInv, OutboxInv, [Next]_storeVars
    PROVE  OutboxInv'
<1>1. ASSUME UNCHANGED <<attempt, outbox>>
      PROVE  OutboxInv'
  BY <1>1 DEF OutboxInv, RowsFollowAttempts, Exists, DeliveryKeysUnique,
              QueuedHasItsRow, CooldownServed
<1>2. CASE UNCHANGED storeVars
  BY <1>1, <1>2 DEF storeVars
<1>3. CASE Next
  BY <1>1, <1>3, StepCases, OutboxCreate, OutboxRowWritten, OutboxReconcile
     DEF StoreInv
<1> QED
  BY <1>2, <1>3

LEMMA OutboxHolds == Spec => []OutboxInv
<1>1. Init => OutboxInv
  BY DEF Init, OutboxInv, RowsFollowAttempts, DeliveryKeysUnique,
         QueuedHasItsRow, CooldownServed, AbsentAttempt
<1>2. StoreInv /\ OutboxInv /\ [Next]_storeVars => OutboxInv'
  BY OutboxStep
<1>3. Spec => []StoreInv
  BY FencingHolds DEF StoreInv
<1> QED
  BY <1>1, <1>2, <1>3, PTL DEF Spec

\* No insertion into analysis_outbox ever meets its unique key, so the key never
\* aborts a reconcile pass.
THEOREM DeliveryKeys == Spec => []DeliveryKeysUnique
<1>1. OutboxInv => DeliveryKeysUnique
  BY DEF OutboxInv
<1> QED
  BY <1>1, OutboxHolds, PTL

\* A queued attempt always has an outbox row with its present key: it can be
\* published and claimed, or redispatched, and is never stuck.
THEOREM QueuedRow == Spec => []QueuedHasItsRow
<1>1. OutboxInv => QueuedHasItsRow
  BY DEF OutboxInv
<1> QED
  BY <1>1, OutboxHolds, PTL

\* A failed version is not tried again on a target before its cooldown is over,
\* up to the skew of the process clocks, whatever happened in between.
THEOREM CooldownKept == Spec => []CooldownServed
<1>1. OutboxInv => CooldownServed
  BY DEF OutboxInv
<1> QED
  BY <1>1, OutboxHolds, PTL
=============================================================================
