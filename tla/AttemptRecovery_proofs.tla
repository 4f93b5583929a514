----------------------- MODULE AttemptRecovery_proofs -----------------------
(***************************************************************************)
(* The recovery of an attempt: for any number of workers, faults and       *)
(* unread entries, at most one worker can write for it, and none while it  *)
(* is queued.  OneCurrentClaim is inductive because every step that makes  *)
(* the attempt queued again (Reclaim), or gives it a new key (Redispatch), *)
(* makes every claim stale in the same transaction: that is the content of *)
(* NewKeyMakesStale, which the lemma about each step rests on.             *)
(***************************************************************************)
EXTENDS AttemptRecovery, TLAPS

\* TypeOK in parts: the attempt's row, the outbox and the stream, the workers.
RowTyped ==
    /\ status \in {"queued"} \cup Running \cup Terminal
    /\ lease \in {"none", "running", "over"}
    /\ due \in BOOLEAN
    /\ faults \in 0..MaxFaults

DeliveryTyped ==
    /\ pending \subseteq Kinds
    /\ sending \in {"none"} \cup Kinds
    /\ stream \in Seq(Kinds) /\ Len(stream) <= MaxUnread

WorkersTyped ==
    worker \in [Workers -> [doing: {"idle", "read"} \cup Busy, kind: Kinds, beating: BOOLEAN]]

RecoveryInv == RowTyped /\ DeliveryTyped /\ WorkersTyped /\ OneCurrentClaim

\* A worker that may still write for the attempt.
Claims(w) == worker[w].doing \in Busy /\ worker[w].kind = "current"

LEMMA ClaimsAre ==
    OneCurrentClaim <=> \A w, x \in Workers :
                           Claims(w) => status # "queued" /\ (Claims(x) => w = x)
BY DEF OneCurrentClaim, Claims

\* A state of one worker in the place of another.
LEMMA WorkersBecome ==
    ASSUME WorkersTyped, NEW w \in Workers,
           NEW s \in [doing: {"idle", "read"} \cup Busy, kind: Kinds, beating: BOOLEAN],
           Becomes(w, s)
    PROVE  /\ WorkersTyped'
           /\ worker'[w] = s
           /\ \A x \in Workers : x # w => worker'[x] = worker[x]
BY DEF WorkersTyped, Becomes

\* A step of a worker that claims nothing new, and leaves the attempt as it is
\* or moves it on, adds no claim.
LEMMA ClaimsKept ==
    ASSUME RecoveryInv, NEW w \in Workers,
           NEW s \in [doing: {"idle", "read"} \cup Busy, kind: Kinds, beating: BOOLEAN],
           Becomes(w, s),
           s.doing \in Busy /\ s.kind = "current" => Claims(w),
           status' = "queued" => status = "queued"
    PROVE  WorkersTyped' /\ OneCurrentClaim'
<1>1. /\ WorkersTyped'
      /\ worker'[w] = s
      /\ \A x \in Workers : x # w => worker'[x] = worker[x]
  BY WorkersBecome DEF RecoveryInv
<1>2. \A x \in Workers : Claims(x)' => Claims(x)
  BY <1>1 DEF Claims
<1>3. OneCurrentClaim'
  BY <1>2, ClaimsAre DEF RecoveryInv, OneCurrentClaim, Claims
<1> QED
  BY <1>1, <1>3

\* A new key: no worker's claim is current any more.
LEMMA NewKeyMakesStale ==
    ASSUME RecoveryInv, NewKey
    PROVE  DeliveryTyped' /\ WorkersTyped' /\ OneCurrentClaim' /\ due' = FALSE
<1>1. pending' \subseteq Kinds /\ sending' \in {"none"} \cup Kinds
  BY DEF RecoveryInv, DeliveryTyped, NewKey, Kinds
<1>2. stream' \in Seq(Kinds) /\ Len(stream') <= MaxUnread
  <2>1. Len(stream) \in Nat /\ Len(stream) <= MaxUnread
    BY DEF RecoveryInv, DeliveryTyped
  <2>2. stream' = [i \in 1..Len(stream) |-> "stale"]
    BY DEF NewKey
  <2> QED
    BY <2>1, <2>2 DEF Kinds
<1>3. /\ worker' = [w \in Workers |-> [worker[w] EXCEPT !.kind = "stale"]]
      /\ \A w \in Workers :
           worker[w] \in [doing: {"idle", "read"} \cup Busy, kind: Kinds, beating: BOOLEAN]
  BY DEF RecoveryInv, WorkersTyped, NewKey
<1>4. WorkersTyped'
  BY <1>3 DEF WorkersTyped, Kinds
<1>5. \A w \in Workers : worker'[w].kind = "stale"
  BY <1>3
<1>6. OneCurrentClaim'
  BY <1>5 DEF OneCurrentClaim
<1> QED
  BY <1>1, <1>2, <1>4, <1>6 DEF DeliveryTyped, NewKey

----------------------------------------------------------------------------
(* Steps *)

LEMMA RecoveryInit == Init => RecoveryInv
<1> SUFFICES ASSUME Init PROVE RecoveryInv
  OBVIOUS
<1>1. RowTyped
  <2>1. MaxFaults \in Nat /\ faults = 0
    BY RecoveryAssumption DEF Init
  <2>2. faults \in 0..MaxFaults
    BY <2>1
  <2> QED
    BY <2>2 DEF Init, RowTyped
<1>2. DeliveryTyped
  BY RecoveryAssumption DEF Init, DeliveryTyped, Kinds
<1>3. WorkersTyped
  BY DEF Init, WorkersTyped, Idle, Kinds
<1>4. OneCurrentClaim
  BY DEF Init, OneCurrentClaim, Idle, Busy
<1> QED
  BY <1>1, <1>2, <1>3, <1>4 DEF RecoveryInv

\* Time, faults and the dispatcher leave the claims alone.
LEMMA RestStep ==
    ASSUME RecoveryInv,
           \/ DispatchTimeoutPasses \/ Outage \/ LeaseRunsOut
           \/ Dispatch \/ DispatcherCrash \/ RedisLosesKeys
    PROVE  RecoveryInv'
<1>0. MaxFaults \in Nat /\ MaxUnread \in Nat
  BY RecoveryAssumption
<1>1. RowTyped'
  <2>1. /\ status' = status
        /\ lease' \in {lease, "over"} /\ due' \in {due, TRUE}
        /\ (faults' = faults \/ (faults < MaxFaults /\ faults' = faults + 1))
    BY DEF DispatchTimeoutPasses, Outage, LeaseRunsOut, Dispatch, Publish, CommitDelivered,
           DispatcherCrash, RedisLosesKeys, Fault
  <2>2. faults' \in 0..MaxFaults
    BY <1>0, <2>1 DEF RecoveryInv, RowTyped
  <2> QED
    BY <2>1, <2>2 DEF RecoveryInv, RowTyped
<1>2. DeliveryTyped'
  <2>1. CASE \E k \in Kinds : Publish(k)
    <3>1. PICK k \in Kinds : Publish(k)
      BY <2>1
    <3>2. stream \in Seq(Kinds) /\ Len(stream) \in Nat
      BY DEF RecoveryInv, DeliveryTyped
    <3>3. Append(stream, k) \in Seq(Kinds) /\ Len(Append(stream, k)) = Len(stream) + 1
      BY <3>2
    <3>4. Len(stream) + 1 <= MaxUnread
      BY <1>0, <3>1, <3>2 DEF Publish
    <3> QED
      BY <3>1, <3>3, <3>4 DEF RecoveryInv, DeliveryTyped, Publish
  <2>2. CASE RedisLosesKeys
    BY <1>0, <2>2 DEF RecoveryInv, DeliveryTyped, RedisLosesKeys
  <2>3. CASE DispatchTimeoutPasses \/ Outage \/ LeaseRunsOut \/ CommitDelivered \/ DispatcherCrash
    BY <2>3 DEF RecoveryInv, DeliveryTyped, DispatchTimeoutPasses, Outage, LeaseRunsOut,
                CommitDelivered, DispatcherCrash
  <2> QED
    BY <2>1, <2>2, <2>3 DEF Dispatch
<1>3. UNCHANGED <<status, worker>>
  BY DEF DispatchTimeoutPasses, Outage, LeaseRunsOut, Dispatch, Publish, CommitDelivered,
         DispatcherCrash, RedisLosesKeys
<1>4. WorkersTyped' /\ OneCurrentClaim'
  BY <1>3 DEF RecoveryInv, WorkersTyped, OneCurrentClaim
<1> QED
  BY <1>1, <1>2, <1>4 DEF RecoveryInv

\* The reconciler gives the attempt a new key whenever it touches it.
LEMMA ReconcilerStep ==
    ASSUME RecoveryInv, Redispatch \/ Reclaim
    PROVE  RecoveryInv'
<1>1. NewKey
  BY DEF Redispatch, Reclaim
<1>2. DeliveryTyped' /\ WorkersTyped' /\ OneCurrentClaim' /\ due' = FALSE
  BY <1>1, NewKeyMakesStale
<1>3. RowTyped'
  BY <1>2 DEF RecoveryInv, RowTyped, Redispatch, Reclaim
<1> QED
  BY <1>2, <1>3 DEF RecoveryInv

\* A worker claims what is queued, and then writes under its claim only.
LEMMA WorkerStep ==
    ASSUME RecoveryInv, NEW w \in Workers, Work(w) \/ HeartbeatDies(w) \/ WorkerCrash(w)
    PROVE  RecoveryInv'
<1> DEFINE State == [doing: {"idle", "read"} \cup Busy, kind: Kinds, beating: BOOLEAN]
<1>0. MaxFaults \in Nat
  BY RecoveryAssumption
<1>1. Idle \in State /\ Idle.doing = "idle" /\ worker[w] \in State
  BY DEF Idle, Kinds, RecoveryInv, WorkersTyped
<1>2. RowTyped'
  BY <1>0 DEF RecoveryInv, RowTyped, Work, Read, TryClaim, Analyze, Complete, Raise, Fail,
              HeartbeatDies, WorkerCrash, Fault, Running, Terminal
<1>3. DeliveryTyped'
  <2>1. CASE Read(w)
    <3>1. stream \in Seq(Kinds) /\ stream # <<>> /\ stream' = Tail(stream)
      BY <2>1 DEF RecoveryInv, DeliveryTyped, Read
    <3>2. Tail(stream) \in Seq(Kinds) /\ Len(Tail(stream)) = Len(stream) - 1 /\ Len(stream) \in Nat
      BY <3>1
    <3>3. Len(stream') <= MaxUnread
      BY <3>1, <3>2, RecoveryAssumption DEF RecoveryInv, DeliveryTyped
    <3> QED
      BY <2>1, <3>1, <3>2, <3>3 DEF RecoveryInv, DeliveryTyped, Read
  <2>2. CASE ~Read(w)
    BY <2>2 DEF RecoveryInv, DeliveryTyped, Work, TryClaim, Analyze, Complete, Raise, Fail,
                HeartbeatDies, WorkerCrash
  <2> QED
    BY <2>1, <2>2
<1>4. CASE TryClaim(w) /\ worker[w].kind = "current" /\ status = "queued"
  <2> DEFINE s == [worker[w] EXCEPT !.doing = "loading", !.beating = TRUE]
  <2>1. s \in State /\ Becomes(w, s) /\ status' = "fetching"
    BY <1>1, <1>4 DEF TryClaim, Busy
  <2>2. WorkersTyped' /\ \A x \in Workers : x # w => worker'[x] = worker[x]
    <3> HIDE DEF s
    <3> QED
      BY <2>1, WorkersBecome DEF RecoveryInv
  <2>3. \A x \in Workers : ~Claims(x)
    BY <1>4 DEF RecoveryInv, OneCurrentClaim, Claims
  <2>4. \A x \in Workers : Claims(x)' => x = w
    BY <2>2, <2>3 DEF Claims
  <2>5. OneCurrentClaim'
    BY <2>1, <2>4 DEF OneCurrentClaim, Claims
  <2> QED
    BY <1>2, <1>3, <2>2, <2>5 DEF RecoveryInv
<1>5. CASE ~(TryClaim(w) /\ worker[w].kind = "current" /\ status = "queued")
  <2>1. \E s \in State :
          /\ Becomes(w, s)
          /\ s.doing \in Busy /\ s.kind = "current" => Claims(w)
    <3>1. CASE Read(w)
      <4> DEFINE s == [doing |-> "read", kind |-> Head(stream), beating |-> FALSE]
      <4>1. Head(stream) \in Kinds
        BY <3>1 DEF RecoveryInv, DeliveryTyped, Read
      <4>2. s \in State /\ s.doing \notin Busy /\ Becomes(w, s)
        BY <3>1, <4>1 DEF Read, Busy
      <4> QED
        BY <4>2
    <3>2. CASE Becomes(w, Idle)
      <4>1. Idle.doing \notin Busy
        BY DEF Idle, Busy
      <4> QED
        BY <1>1, <3>2, <4>1
    <3>3. CASE /\ worker[w].doing \in Busy
               /\ \E d \in Busy : Becomes(w, [worker[w] EXCEPT !.doing = d])
      <4>1. PICK d \in Busy : Becomes(w, [worker[w] EXCEPT !.doing = d])
        BY <3>3
      <4> DEFINE s == [worker[w] EXCEPT !.doing = d]
      <4>2. s \in State /\ s.kind = worker[w].kind
        BY <1>1
      <4> QED
        BY <3>3, <4>1, <4>2 DEF Claims
    <3>4. CASE Becomes(w, [worker[w] EXCEPT !.beating = FALSE])
      <4> DEFINE s == [worker[w] EXCEPT !.beating = FALSE]
      <4>1. s \in State /\ s.kind = worker[w].kind /\ s.doing = worker[w].doing
        BY <1>1
      <4> QED
        BY <3>4, <4>1 DEF Claims
    <3> QED
      BY <1>5, <3>1, <3>2, <3>3, <3>4 DEF Work, TryClaim, Analyze, Complete, Raise, Fail,
         HeartbeatDies, WorkerCrash, Busy
  <2>2. status' = "queued" => status = "queued"
    BY <1>5 DEF Work, Read, TryClaim, Analyze, Complete, Raise, Fail, HeartbeatDies, WorkerCrash
  <2>3. WorkersTyped' /\ OneCurrentClaim'
    BY <2>1, <2>2, ClaimsKept
  <2> QED
    BY <1>2, <1>3, <2>3 DEF RecoveryInv
<1> QED
  BY <1>4, <1>5

LEMMA RecoveryStep == RecoveryInv /\ [Next]_vars => RecoveryInv'
<1> SUFFICES ASSUME RecoveryInv, [Next]_vars PROVE RecoveryInv'
  OBVIOUS
<1>1. CASE DispatchTimeoutPasses \/ Outage \/ LeaseRunsOut \/ Dispatch \/ DispatcherCrash
             \/ RedisLosesKeys
  BY <1>1, RestStep
<1>2. CASE Redispatch \/ Reclaim
  BY <1>2, ReconcilerStep
<1>3. ASSUME NEW w \in Workers, Work(w) \/ HeartbeatDies(w) \/ WorkerCrash(w)
      PROVE  RecoveryInv'
  BY <1>3, WorkerStep
<1>4. CASE UNCHANGED vars
  BY <1>4 DEF vars, RecoveryInv, RowTyped, DeliveryTyped, WorkersTyped, OneCurrentClaim
<1> QED
  BY <1>1, <1>2, <1>3, <1>4 DEF Next

LEMMA RecoveryInvHolds == Spec => []RecoveryInv
BY RecoveryInit, RecoveryStep, PTL DEF Spec

----------------------------------------------------------------------------
(* Theorems *)

\* Type correctness of the recovery, for any number of workers and faults.
THEOREM RecoveryTypes == Spec => []TypeOK
<1>1. RecoveryInv => TypeOK
  BY DEF RecoveryInv, RowTyped, DeliveryTyped, WorkersTyped, TypeOK
<1> QED
  BY <1>1, RecoveryInvHolds, PTL

\* claim_attempt, reclaim_expired and redispatch leave at most one worker whose
\* writes pass the fence, and none while the attempt is queued.
THEOREM RecoveryOneClaim == Spec => []OneCurrentClaim
BY RecoveryInvHolds, PTL DEF RecoveryInv
=============================================================================
