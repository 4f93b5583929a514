----------------------- MODULE AnalysisSystem_proofs -----------------------
(***************************************************************************)
(* Proofs about AnalysisSystem: it implements AnalysisStore, so everything *)
(* proved of the tables holds of it; and what the claims of the workers    *)
(* add to that: at most one worker holds the lease of a target, late       *)
(* workers write nothing, and no entry of the stream is dropped.           *)
(***************************************************************************)
EXTENDS AnalysisSystem, AnalysisOutbox_proofs

----------------------------------------------------------------------------
(* AnalysisSystem implements AnalysisStore *)

(* A worker that is not idle has an entry of the stream in hand. *)
EntriesInHand == \A w \in Workers : worker[w].doing # "idle" => worker[w].claim \in Message

(* Only the dispatcher marks rows delivered, and not those it is working on. *)
RowsInHand == batch \cup published \subseteq outbox \ delivered

SystemTyped == SystemTypeOK /\ EntriesInHand /\ RowsInHand

LEMMA ClaimInHand ==
    ASSUME SystemTyped, NEW w \in Workers, worker[w].doing # "idle"
    PROVE  /\ worker[w].claim.attempt \in Attempts
           /\ worker[w].claim.generation \in Nat
           /\ worker[w].claim.epoch \in Nat
BY DEF SystemTyped, EntriesInHand, Message

(* The transactions of AnalysisStore a worker calls for its entry or claim. *)
LEMMA WorkerCalls ==
    ASSUME StoreInv, NEW a \in Attempts, NEW g \in Nat, NEW e \in Nat,
           \/ ClaimAttempt(a, g, e)
           \/ Heartbeat(a, g)
           \/ StartAnalyzing(a, g)
           \/ CompleteAttempt(a, g)
           \/ \E now \in ProcessClock : FailAttempt(a, g, now + FailureCooldown)
    PROVE  Next
<1>1. g = attempt[a].generation
  BY DEF ClaimAttempt, Claimable, Heartbeat, StartAnalyzing, MayAnalyze,
         CompleteAttempt, MayComplete, FailAttempt, HoldsLease
<1>2. attempt[a].generation \in Nat /\ attempt[a].epoch \in Nat
  BY AttemptTyped
<1>3. g \in 0 .. attempt[a].generation
  BY <1>1, <1>2
<1>4. ClaimAttempt(a, g, e) => e \in 0 .. attempt[a].epoch
  BY <1>2 DEF ClaimAttempt, Claimable
<1>5. CASE ClaimAttempt(a, g, e)
  <2>1. e \in 0 .. attempt[a].epoch
    BY <1>4, <1>5
  <2> QED
    BY <1>3, <1>5, <2>1 DEF Next
<1>6. CASE ~ClaimAttempt(a, g, e)
  BY <1>3, <1>6 DEF Next
<1> QED
  BY <1>5, <1>6

LEMMA WorkerStoreStep ==
    ASSUME StoreInv, SystemTyped, NEW w \in Workers, WorkerNext(w)
    PROVE  [Next]_storeVars
<1> DEFINE m == worker[w].claim
<1>1. ASSUME worker[w].doing # "idle",
             \/ ClaimAttempt(m.attempt, m.generation, m.epoch)
             \/ Heartbeat(m.attempt, m.generation)
             \/ StartAnalyzing(m.attempt, m.generation)
             \/ CompleteAttempt(m.attempt, m.generation)
             \/ \E now \in ProcessClock :
                   FailAttempt(m.attempt, m.generation, now + FailureCooldown)
      PROVE  Next
  <2>1. m.attempt \in Attempts /\ m.generation \in Nat /\ m.epoch \in Nat
    BY <1>1, ClaimInHand
  <2> HIDE DEF m
  <2> QED
    BY <1>1, <2>1, WorkerCalls
<1>2. CASE Read(w)
  BY <1>2 DEF Read
<1>3. CASE TryClaim(w)
  BY <1>1, <1>3 DEF TryClaim
<1>4. CASE Beat(w)
  BY <1>1, <1>4 DEF Beat, Busy
<1>5. CASE Analyze(w)
  BY <1>1, <1>5 DEF Analyze
<1>6. CASE Complete(w)
  BY <1>1, <1>6 DEF Complete
<1>7. CASE Raise(w)
  BY <1>7 DEF Raise
<1>8. CASE Fail(w)
  BY <1>1, <1>8 DEF Fail
<1>9. CASE WorkerCrash(w)
  BY <1>9 DEF WorkerCrash
<1> QED
  BY <1>2, <1>3, <1>4, <1>5, <1>6, <1>7, <1>8, <1>9 DEF WorkerNext

LEMMA DispatcherStoreStep ==
    ASSUME StoreInv, SystemTyped, DispatcherNext
    PROVE  [Next]_storeVars
<1>1. CASE CommitBatch
  <2>1. published \in SUBSET (outbox \ delivered)
    BY DEF SystemTyped, RowsInHand
  <2> QED
    BY <1>1, <2>1 DEF CommitBatch, Next
<1>2. ASSUME NEW now \in ProcessClock, NEW Q \in SUBSET Attempts,
             NEW R \in SUBSET Attempts, ReconcilePass(now, Q, R)
      PROVE  Next
  <2>1. Reconcile(now, Q, R)
    BY <1>2 DEF ReconcilePass
  <2> QED
    BY <2>1 DEF Next
<1>3. CASE SelectBatch \/ DispatcherCrash
  BY <1>3 DEF SelectBatch, DispatcherCrash
<1>4. ASSUME NEW r \in batch, Publish(r)
      PROVE  UNCHANGED storeVars
  BY <1>4 DEF Publish
<1> QED
  BY <1>1, <1>2, <1>3, <1>4 DEF DispatcherNext

LEMMA StoreStep ==
    ASSUME StoreInv, SystemTyped, [SystemNext]_systemVars
    PROVE  [Next]_storeVars
<1>1. CASE UNCHANGED systemVars
  BY <1>1 DEF systemVars
<1>2. ASSUME NEW t \in Targets, NEW v \in Versions, NEW a \in Attempts,
             NEW now \in ProcessClock, RequestAnalysis(t, v, a, now)
      PROVE  Next
  <2>1. CreateAttempt(t, v, a, now)
    BY <1>2 DEF RequestAnalysis
  <2> QED
    BY <2>1 DEF Next
<1>3. CASE TimePasses
  BY <1>3 DEF TimePasses, Next
<1>4. CASE RedisLosesKeys
  BY <1>4 DEF RedisLosesKeys
<1>5. CASE SystemNext
  BY <1>2, <1>3, <1>4, <1>5, WorkerStoreStep, DispatcherStoreStep DEF SystemNext
<1> QED
  BY <1>1, <1>5

----------------------------------------------------------------------------
(* Typing of the stream, the dispatcher and the workers *)

ProcessesTyped ==
    /\ stream \in Seq(Message) /\ Len(stream) <= MaxUnread
    /\ worker \in [Workers -> WorkerState]
    /\ lost \in BOOLEAN
    /\ EntriesInHand

(* What WorkerStep may put into worker[w]. *)
LEMMA WorkerStepTyped ==
    ASSUME ProcessesTyped, NEW w \in Workers,
           NEW state \in WorkerState, state.doing # "idle" => state.claim \in Message,
           WorkerStep(w, state)
    PROVE  /\ worker' \in [Workers -> WorkerState]
           /\ EntriesInHand'
<1>1. worker' = [worker EXCEPT ![w] = state]
  BY DEF WorkerStep
<1>2. worker' \in [Workers -> WorkerState]
  BY <1>1 DEF ProcessesTyped
<1>3. EntriesInHand'
  BY <1>1 DEF ProcessesTyped, EntriesInHand
<1> QED
  BY <1>2, <1>3

LEMMA IdleTyped == Idle \in WorkerState /\ Idle.doing = "idle"
BY DEF Idle, WorkerState, NoClaim

LEMMA DoingTyped ==
    ASSUME ProcessesTyped, NEW w \in Workers, worker[w].doing # "idle",
           NEW d \in {"read"} \cup Busy, NEW b \in BOOLEAN
    PROVE  /\ worker[w].claim \in Message
           /\ [doing |-> d, claim |-> worker[w].claim, beating |-> b] \in WorkerState
           /\ [worker[w] EXCEPT !.doing = d] \in WorkerState
           /\ [worker[w] EXCEPT !.doing = d].claim \in Message
           /\ [worker[w] EXCEPT !.beating = b] \in WorkerState
           /\ [worker[w] EXCEPT !.beating = b].claim \in Message
<1>1. worker[w] \in WorkerState /\ worker[w].claim \in Message
  BY DEF ProcessesTyped, EntriesInHand
<1> QED
  BY <1>1 DEF WorkerState

LEMMA WorkerTyped ==
    ASSUME ProcessesTyped, NEW w \in Workers, WorkerNext(w)
    PROVE  ProcessesTyped'
<1>1. CASE Read(w)
  <2> DEFINE state == [doing |-> "read", claim |-> Head(stream), beating |-> FALSE]
  <2>1. stream \in Seq(Message) /\ stream # <<>> /\ stream' = Tail(stream)
    BY <1>1 DEF Read, ProcessesTyped
  <2>2. Head(stream) \in Message /\ stream' \in Seq(Message)
        /\ Len(stream') = Len(stream) - 1 /\ Len(stream) \in Nat
    BY <2>1
  <2>3. Len(stream') <= MaxUnread
    BY <2>2, SystemAssumption DEF ProcessesTyped
  <2>4. state \in WorkerState /\ state.claim \in Message
    BY <2>2 DEF WorkerState
  <2>5. WorkerStep(w, state) /\ UNCHANGED lost
    BY <1>1 DEF Read
  <2>6. worker' \in [Workers -> WorkerState] /\ EntriesInHand'
    BY <2>4, <2>5, WorkerStepTyped
  <2> QED
    BY <2>2, <2>3, <2>5, <2>6 DEF ProcessesTyped
<1>2. CASE UNCHANGED <<stream, worker, lost>>
  BY <1>2 DEF ProcessesTyped, EntriesInHand
<1>3. ASSUME UNCHANGED <<stream, lost>>, NEW d \in {"read"} \cup Busy, NEW b \in BOOLEAN,
             worker[w].doing # "idle",
             \/ WorkerStep(w, Idle)
             \/ WorkerStep(w, [doing |-> d, claim |-> worker[w].claim, beating |-> b])
             \/ WorkerStep(w, [worker[w] EXCEPT !.doing = d])
             \/ WorkerStep(w, [worker[w] EXCEPT !.beating = b])
      PROVE  ProcessesTyped'
  <2>1. worker' \in [Workers -> WorkerState] /\ EntriesInHand'
    BY <1>3, WorkerStepTyped, IdleTyped, DoingTyped
  <2> QED
    BY <1>3, <2>1 DEF ProcessesTyped
<1>4. {"loading", "detecting", "failing"} \subseteq {"read"} \cup Busy
  BY DEF Busy
<1>5. CASE TryClaim(w)
  BY <1>3, <1>4, <1>5 DEF TryClaim
<1>6. CASE Beat(w)
  BY <1>2, <1>3, <1>4, <1>6 DEF Beat, Busy
<1>7. CASE Analyze(w)
  BY <1>3, <1>4, <1>7 DEF Analyze
<1>8. CASE Complete(w)
  BY <1>3, <1>4, <1>8 DEF Complete
<1>9. CASE Raise(w)
  BY <1>3, <1>4, <1>9 DEF Raise
<1>10. CASE Fail(w)
  BY <1>3, <1>4, <1>10 DEF Fail
<1>11. CASE WorkerCrash(w)
  <2>1. WorkerStep(w, Idle) /\ UNCHANGED stream
        /\ lost' = (lost \/ worker[w].doing = "read")
    BY <1>11 DEF WorkerCrash
  <2>2. lost' \in BOOLEAN
    BY <2>1
  <2>3. worker' \in [Workers -> WorkerState] /\ EntriesInHand'
    BY <2>1, WorkerStepTyped, IdleTyped
  <2> QED
    BY <2>1, <2>2, <2>3 DEF ProcessesTyped
<1> QED
  BY <1>1, <1>5, <1>6, <1>7, <1>8, <1>9, <1>10, <1>11 DEF WorkerNext

LEMMA ProcessesTypedStep ==
    ASSUME StoreInv, SystemTyped, [SystemNext]_systemVars
    PROVE  ProcessesTyped'
<1>0. ProcessesTyped
  BY DEF SystemTyped, SystemTypeOK, ProcessesTyped
<1>1. CASE UNCHANGED <<stream, worker, lost>>
  BY <1>0, <1>1 DEF ProcessesTyped, EntriesInHand
<1>2. ASSUME NEW r \in batch, Publish(r)
      PROVE  ProcessesTyped'
  <2>1. r \in outbox
    BY DEF SystemTyped, RowsInHand
  <2>2. MessageOf(r) \in Message
    BY <2>1, OutboxTyped DEF MessageOf, Message
  <2>3. stream' = Append(stream, MessageOf(r)) /\ Len(stream) < MaxUnread
        /\ UNCHANGED <<worker, lost>> /\ stream \in Seq(Message)
    BY <1>0, <1>2 DEF Publish, ProcessesTyped
  <2>4. stream' \in Seq(Message) /\ Len(stream') = Len(stream) + 1
        /\ Len(stream) \in Nat
    BY <2>2, <2>3
  <2>5. Len(stream') <= MaxUnread
    BY <2>3, <2>4, SystemAssumption
  <2> QED
    BY <1>0, <2>3, <2>4, <2>5 DEF ProcessesTyped, EntriesInHand
<1>3. CASE RedisLosesKeys
  <2>1. stream' = <<>> /\ lost' = TRUE /\ UNCHANGED worker
    BY <1>3 DEF RedisLosesKeys
  <2>2. stream' \in Seq(Message) /\ Len(stream') <= MaxUnread
    BY <2>1, SystemAssumption
  <2> QED
    BY <1>0, <2>1, <2>2 DEF ProcessesTyped, EntriesInHand
<1>4. ASSUME NEW w \in Workers, WorkerNext(w)
      PROVE  ProcessesTyped'
  BY <1>0, <1>4, WorkerTyped
<1>5. CASE UNCHANGED systemVars
  BY <1>1, <1>5 DEF systemVars
<1>6. ASSUME NEW t \in Targets, NEW v \in Versions, NEW a \in Attempts,
             NEW now \in ProcessClock, RequestAnalysis(t, v, a, now)
      PROVE  ProcessesTyped'
  BY <1>1, <1>6 DEF RequestAnalysis
<1>7. CASE TimePasses
  BY <1>1, <1>7 DEF TimePasses
<1>8. CASE DispatcherNext
  BY <1>1, <1>2, <1>8
     DEF DispatcherNext, SelectBatch, CommitBatch, ReconcilePass, DispatcherCrash
<1> QED
  BY <1>3, <1>4, <1>5, <1>6, <1>7, <1>8 DEF SystemNext

LEMMA RowsInHandStep ==
    ASSUME StoreInv, SystemTyped, [SystemNext]_systemVars
    PROVE  RowsInHand'
<1>0. /\ batch \subseteq outbox \ delivered /\ published \subseteq outbox \ delivered
      /\ delivered \subseteq outbox
  BY DEF SystemTyped, RowsInHand, StoreInv, TypeOK
<1>1. ASSUME UNCHANGED <<dispatcherVars, delivered>>, outbox \subseteq outbox'
      PROVE  RowsInHand'
  BY <1>0, <1>1 DEF RowsInHand, dispatcherVars
<1>2. CASE UNCHANGED systemVars
  BY <1>1, <1>2 DEF systemVars, storeVars, dispatcherVars
<1>3. ASSUME NEW t \in Targets, NEW v \in Versions, NEW a \in Attempts,
             NEW now \in ProcessClock, RequestAnalysis(t, v, a, now)
      PROVE  RowsInHand'
  <2>1. UNCHANGED <<dispatcherVars, delivered>> /\ outbox \subseteq outbox'
    BY <1>3 DEF RequestAnalysis, CreateAttempt, dispatcherVars
  <2> QED
    BY <1>1, <2>1
<1>4. CASE TimePasses \/ RedisLosesKeys
  BY <1>1, <1>4 DEF TimePasses, Tick, RedisLosesKeys, storeVars
<1>5. CASE DispatcherNext
  <2>1. CASE SelectBatch
    BY <1>0, <2>1 DEF SelectBatch, RowsInHand, storeVars
  <2>2. ASSUME NEW r \in batch, Publish(r)
        PROVE  RowsInHand'
    BY <1>0, <2>2 DEF Publish, RowsInHand, storeVars
  <2>3. CASE CommitBatch
    BY <1>0, <2>3 DEF CommitBatch, MarkDelivered, RowsInHand
  <2>4. ASSUME NEW now \in ProcessClock, NEW Q \in SUBSET Attempts,
               NEW R \in SUBSET Attempts, ReconcilePass(now, Q, R)
        PROVE  RowsInHand'
    <3>1. UNCHANGED <<dispatcherVars, delivered>> /\ outbox \subseteq outbox'
      BY <2>4 DEF ReconcilePass, Reconcile, dispatcherVars
    <3> QED
      BY <1>1, <3>1
  <2>5. CASE DispatcherCrash
    BY <1>0, <2>5 DEF DispatcherCrash, RowsInHand, storeVars
  <2> QED
    BY <1>5, <2>1, <2>2, <2>3, <2>4, <2>5 DEF DispatcherNext
<1>6. ASSUME NEW w \in Workers, WorkerNext(w)
      PROVE  RowsInHand'
  <2>1. UNCHANGED <<dispatcherVars, outbox, delivered>>
    BY <1>6 DEF WorkerNext, Read, TryClaim, Beat, Analyze, Complete, Raise, Fail,
                WorkerCrash, WorkerStep, ClaimAttempt, Heartbeat, StartAnalyzing,
                CompleteAttempt, FailAttempt, storeVars, dispatcherVars
  <2> QED
    BY <1>1, <2>1
<1> QED
  BY <1>2, <1>3, <1>4, <1>5, <1>6 DEF SystemNext

LEMMA SystemTypedStep ==
    ASSUME StoreInv, SystemTyped, [SystemNext]_systemVars
    PROVE  StoreInv' /\ SystemTyped'
<1>1. StoreInv'
  BY StoreStep, StoreInvStep
<1>2. ProcessesTyped' /\ RowsInHand'
  BY ProcessesTypedStep, RowsInHandStep
<1>3. batch' \subseteq outbox' /\ published' \subseteq outbox'
  BY <1>2 DEF RowsInHand
<1> QED
  BY <1>1, <1>2, <1>3 DEF SystemTyped, SystemTypeOK, ProcessesTyped, StoreInv

LEMMA SystemInitTyped == SystemInit => Init /\ StoreInv /\ SystemTyped
<1> SUFFICES ASSUME SystemInit
             PROVE  Init /\ StoreInv /\ SystemTyped
  OBVIOUS
<1>1. Init /\ StoreInv
  BY TypeInit, FencingInit DEF SystemInit, StoreInv
<1>2. stream \in Seq(Message) /\ Len(stream) <= MaxUnread
  BY SystemAssumption DEF SystemInit
<1>3. worker \in [Workers -> WorkerState] /\ EntriesInHand
  BY IdleTyped DEF SystemInit, EntriesInHand
<1>4. RowsInHand /\ batch \subseteq outbox /\ published \subseteq outbox
  BY DEF SystemInit, RowsInHand
<1>5. lost \in BOOLEAN
  BY DEF SystemInit
<1> QED
  BY <1>1, <1>2, <1>3, <1>4, <1>5 DEF StoreInv, SystemTyped, SystemTypeOK

LEMMA SystemTypedHolds == SystemSpec => [](StoreInv /\ SystemTyped)
<1>1. StoreInv /\ SystemTyped /\ [SystemNext]_systemVars => (StoreInv /\ SystemTyped)'
  BY SystemTypedStep
<1> QED
  BY <1>1, SystemInitTyped, PTL DEF SystemSpec

\* Rows, entries and claims are only ever what the schema, DispatchMessage and
\* ClaimedAttempt allow, in every process.
THEOREM SystemTypeCorrect == SystemSpec => []SystemTypeOK
<1>1. SystemTyped => SystemTypeOK
  BY DEF SystemTyped
<1> QED
  BY <1>1, SystemTypedHolds, PTL

\* The API, the dispatcher and the workers change the tables only by the
\* transactions of AnalysisStore, called as it says: every theorem about Spec
\* holds of the whole system.
THEOREM SystemImplementsStore == SystemSpec => Spec
<1>1. SystemInit => Init
  BY SystemInitTyped
<1>2. StoreInv /\ SystemTyped /\ [SystemNext]_systemVars => [Next]_storeVars
  BY StoreStep
<1> QED
  BY <1>1, <1>2, SystemTypedHolds, PTL DEF SystemSpec, Spec

\* So the whole system implements TargetRounds: whatever API, dispatcher, Redis and
\* workers do to a target, its rounds follow one another, one open at a time, and
\* only the open one publishes; what is published only advances and is the newest.
THEOREM SystemImplementsRounds ==
    SystemSpec => ImplementsRounds /\ FinishedIsFinal /\ ResultsAdvance /\ []ResultIsNewestCompleted
BY SystemImplementsStore, StoreImplementsRounds, FinishedStays, ResultOnlyAdvances, ResultNewest, PTL

----------------------------------------------------------------------------
(* The claims of the workers and the entries of the stream *)

SystemInv == StoreInv /\ OutboxInv /\ SystemTyped

LEMMA SystemInvHolds == SystemSpec => []SystemInv
<1>1. SystemSpec => []OutboxInv
  BY SystemImplementsStore, OutboxHolds, PTL
<1>2. StoreInv /\ SystemTyped /\ OutboxInv => SystemInv
  BY DEF SystemInv
<1> QED
  BY <1>1, <1>2, SystemTypedHolds, PTL

----------------------------------------------------------------------------
(* What one step may do to an attempt *)

(* Generations go up only, and an attempt that was claimed is queued again  *)
(* only under a new generation.                                              *)
LEMMA AttemptMoves ==
    ASSUME StoreInv, [Next]_storeVars, NEW a \in Attempts, Exists(a)
    PROVE  /\ Exists(a)'
           /\ attempt[a].generation <= attempt'[a].generation
           /\ attempt'[a].generation = attempt[a].generation
                 /\ attempt[a].status # "queued" => attempt'[a].status # "queued"
<1>0. attempt[a].generation \in Nat /\ attempt[a].status # "absent"
  BY AttemptTyped DEF Exists
<1>1. ASSUME attempt'[a] = attempt[a]
      PROVE  /\ Exists(a)'
             /\ attempt[a].generation <= attempt'[a].generation
             /\ attempt'[a].generation = attempt[a].generation
                   /\ attempt[a].status # "queued" => attempt'[a].status # "queued"
  BY <1>0, <1>1 DEF Exists
<1>2. ASSUME NEW t \in Targets, NEW v \in Versions, NEW b \in Attempts,
             NEW now \in ProcessClock, CreateAttempt(t, v, b, now)
      PROVE  /\ Exists(a)'
             /\ attempt'[a].generation = attempt[a].generation
             /\ attempt[a].status # "queued" => attempt'[a].status # "queued"
  <2>1. RowsCreated(t, v, b)
    BY <1>2, CreateRows DEF StoreInv
  <2>2. a # b
    BY <2>1 DEF RowsCreated
  <2> QED
    BY <2>1, <2>2, <1>0 DEF RowsCreated, Exists
<1>3. ASSUME NEW b \in Attempts, RowWritten(b)
      PROVE  /\ Exists(a)'
             /\ attempt'[a].generation = attempt[a].generation
             /\ attempt[a].status # "queued" => attempt'[a].status # "queued"
  <2>1. /\ attempt'[a].generation = attempt[a].generation
        /\ a # b => attempt'[a] = attempt[a]
        /\ a = b => attempt'[a].status \in Running \cup Terminal
    BY <1>3, RowWrittenRow DEF StoreInv
  <2> QED
    BY <2>1, <1>0 DEF Exists, Running, Terminal
<1>4. ASSUME NEW now \in ProcessClock, NEW Q \in SUBSET Attempts,
             NEW R \in SUBSET Attempts, Reconcile(now, Q, R)
      PROVE  /\ Exists(a)'
             /\ attempt[a].generation <= attempt'[a].generation
             /\ attempt'[a].generation = attempt[a].generation
                   /\ attempt[a].status # "queued" => attempt'[a].status # "queued"
  <2>1. CASE a \notin Q \cup R
    <3>1. attempt'[a] = attempt[a]
      BY <1>4, <2>1, ReconcileRow DEF StoreInv
    <3> QED
      BY <1>1, <3>1
  <2>2. CASE a \in R
    <3>1. attempt'[a].generation = attempt[a].generation + 1
          /\ attempt'[a].status = "queued"
      BY <1>4, <2>2, ReconcileRow DEF StoreInv
    <3> QED
      BY <3>1, <1>0 DEF Exists
  <2>3. CASE a \in Q /\ a \notin R
    <3>1. attempt'[a].generation = attempt[a].generation
          /\ attempt'[a].status = "queued"
      BY <1>4, <2>3, ReconcileRow DEF StoreInv
    <3>2. attempt[a].status = "queued"
      BY <1>4, <2>3 DEF Reconcile, Undispatched
    <3> QED
      BY <3>1, <3>2, <1>0 DEF Exists
  <2> QED
    BY <2>1, <2>2, <2>3
<1>5. CASE UNCHANGED attempt
  BY <1>1, <1>5
<1>6. CASE Next
  BY <1>0, <1>1, <1>2, <1>3, <1>4, <1>5, <1>6, StepCases DEF StoreInv
<1> QED
  BY <1>5, <1>6 DEF storeVars

(* reconcile_attempts counts every dispatch it asks for. *)
LEMMA ReconcileEpoch ==
    ASSUME StoreInv, NEW a \in Attempts, NEW now \in ProcessClock,
           NEW Q \in SUBSET Attempts, NEW R \in SUBSET Attempts, Reconcile(now, Q, R)
    PROVE  /\ a \in Q \cup R => attempt'[a].epoch = attempt[a].epoch + 1
           /\ a \notin Q \cup R => attempt'[a] = attempt[a]
<1>1. CASE a \in R
  BY <1>1, ReconcileRow DEF StoreInv
<1>2. CASE a \in Q /\ a \notin R
  BY <1>2, ReconcileRow DEF StoreInv
<1>3. CASE a \notin Q \cup R
  BY <1>3, ReconcileRow DEF StoreInv
<1> QED
  BY <1>1, <1>2, <1>3

(* A row that carries the key of a queued attempt carried it before. *)
LEMMA KeyMoves ==
    ASSUME StoreInv, OutboxInv, [Next]_storeVars, NEW r \in outbox,
           attempt'[r.attempt].status = "queued",
           attempt'[r.attempt].generation = r.generation,
           attempt'[r.attempt].epoch = r.epoch
    PROVE  /\ attempt[r.attempt].status = "queued"
           /\ attempt[r.attempt].generation = r.generation
           /\ attempt[r.attempt].epoch = r.epoch
<1> PICK a \in Attempts : a = r.attempt
  BY OutboxTyped
<1>0. /\ Exists(a) /\ r.epoch <= attempt[a].epoch
      /\ r.epoch \in Nat /\ attempt[a].epoch \in Nat
  BY OutboxTyped, AttemptTyped DEF OutboxInv, RowsFollowAttempts
<1>1. ASSUME NEW t \in Targets, NEW v \in Versions, NEW b \in Attempts,
             NEW now \in ProcessClock, CreateAttempt(t, v, b, now)
      PROVE  /\ attempt[a].status = "queued"
             /\ attempt[a].generation = attempt'[a].generation
             /\ attempt[a].epoch = attempt'[a].epoch
  <2>1. RowsCreated(t, v, b)
    BY <1>1, CreateRows DEF StoreInv
  <2> QED
    BY <2>1, <1>0 DEF RowsCreated
<1>2. ASSUME NEW b \in Attempts, RowWritten(b)
      PROVE  attempt'[a] = attempt[a]
  <2>1. /\ a # b => attempt'[a] = attempt[a]
        /\ a = b => attempt'[a].status \in Running \cup Terminal
    BY <1>2, RowWrittenRow DEF StoreInv
  <2> QED
    BY <2>1 DEF Running, Terminal
<1>3. ASSUME NEW now \in ProcessClock, NEW Q \in SUBSET Attempts,
             NEW R \in SUBSET Attempts, Reconcile(now, Q, R)
      PROVE  attempt'[a] = attempt[a]
  <2>1. CASE a \in Q \cup R
    <3>1. attempt'[a].epoch = attempt[a].epoch + 1
      BY <1>3, <2>1, ReconcileEpoch
    <3>2. attempt'[a].epoch = r.epoch
      BY <1>0
    <3> QED
      BY <3>1, <3>2, <1>0
  <2>2. CASE a \notin Q \cup R
    BY <1>3, <2>2, ReconcileEpoch
  <2> QED
    BY <2>1, <2>2
<1>4. CASE UNCHANGED attempt
  BY <1>4
<1>5. CASE Next
  BY <1>1, <1>2, <1>3, <1>4, <1>5, StepCases DEF StoreInv
<1> QED
  BY <1>4, <1>5 DEF storeVars

(* A busy worker was busy with the same claim, or claims now. *)
LEMMA WorkerMoves ==
    ASSUME SystemTyped, [SystemNext]_systemVars, NEW w \in Workers,
           worker'[w].doing \in Busy
    PROVE  \/ worker[w].doing \in Busy /\ worker'[w].claim = worker[w].claim
           \/ /\ worker'[w].claim = worker[w].claim
              /\ ClaimAttempt(worker[w].claim.attempt, worker[w].claim.generation,
                              worker[w].claim.epoch)
              /\ worker[w].doing = "read"
              /\ \A x \in Workers : x # w => worker'[x] = worker[x]
<1>0. worker \in [Workers -> WorkerState] /\ Idle.doing \notin Busy
      /\ "read" \notin Busy
  BY DEF SystemTyped, SystemTypeOK, Idle, Busy
<1>1. CASE worker'[w] = worker[w]
  BY <1>1
<1>2. ASSUME NEW x \in Workers, WorkerNext(x), x # w
      PROVE  worker'[w] = worker[w]
  BY <1>0, <1>2
     DEF WorkerNext, Read, TryClaim, Beat, Analyze, Complete, Raise, Fail,
         WorkerCrash, WorkerStep
<1>3. CASE TryClaim(w)
  BY <1>0, <1>3 DEF TryClaim, WorkerStep
<1>4. CASE Read(w) \/ Fail(w) \/ WorkerCrash(w)
  BY <1>0, <1>4 DEF Read, Fail, WorkerCrash, WorkerStep
<1>5. CASE Beat(w) \/ Analyze(w) \/ Complete(w) \/ Raise(w)
  <2>1. worker[w].doing \in Busy
    BY <1>5 DEF Beat, Analyze, Complete, Raise, Busy
  <2>2. \/ worker' = worker
        \/ worker' = [worker EXCEPT ![w] = Idle]
        \/ worker' = [worker EXCEPT ![w] = [worker[w] EXCEPT !.beating = FALSE]]
        \/ \E d \in Busy :
              worker' = [worker EXCEPT ![w] = [worker[w] EXCEPT !.doing = d]]
    BY <1>5 DEF Beat, Analyze, Complete, Raise, WorkerStep, Busy
  <2>3. worker[w] \in WorkerState
    BY <1>0
  <2> QED
    BY <1>0, <2>1, <2>2, <2>3 DEF WorkerState
<1>6. CASE UNCHANGED worker
  BY <1>1, <1>6
<1>7. ASSUME NEW x \in Workers, WorkerNext(x)
      PROVE  \/ worker'[w] = worker[w]
             \/ TryClaim(w) \/ Read(w) \/ Fail(w) \/ WorkerCrash(w)
             \/ Beat(w) \/ Analyze(w) \/ Complete(w) \/ Raise(w)
  BY <1>2, <1>7 DEF WorkerNext
<1>8. CASE ~UNCHANGED worker
  <2>1. PICK x \in Workers : WorkerNext(x)
    BY <1>8 DEF systemVars, SystemNext, RequestAnalysis, TimePasses, DispatcherNext,
       SelectBatch, Publish, CommitBatch, ReconcilePass, DispatcherCrash, RedisLosesKeys
  <2> QED
    BY <1>1, <1>3, <1>4, <1>5, <1>7, <2>1
<1> QED
  BY <1>6, <1>8

----------------------------------------------------------------------------
(* One lease holder *)

(* The claim of a busy worker is a generation its attempt has or had, and   *)
(* while it has it the attempt is not queued.                                *)
Held(a, g) == /\ Exists(a)
              /\ g <= attempt[a].generation
              /\ g = attempt[a].generation => attempt[a].status # "queued"

ClaimsHeld ==
    \A w \in Workers :
        worker[w].doing \in Busy =>
            Held(worker[w].claim.attempt, worker[w].claim.generation)

ClaimsDistinct ==
    \A w, x \in Workers :
        w # x /\ worker[w].doing \in Busy /\ worker[x].doing \in Busy =>
            \/ worker[w].claim.attempt # worker[x].claim.attempt
            \/ worker[w].claim.generation # worker[x].claim.generation

(* What ClaimAttempt finds and leaves. *)
LEMMA ClaimFinds ==
    ASSUME StoreInv, NEW a \in Attempts, NEW g, NEW e, ClaimAttempt(a, g, e)
    PROVE  /\ attempt[a].status = "queued" /\ attempt[a].generation = g
           /\ attempt'[a].status = "fetching" /\ attempt'[a].generation = g
<1>1. attempt[a] \in AttemptRow /\ attempt \in [Attempts -> AttemptRow]
  BY DEF StoreInv, TypeOK
<1> QED
  BY <1>1 DEF ClaimAttempt, Claimable, AttemptRow

LEMMA ClaimsStep ==
    ASSUME SystemInv, ClaimsHeld, ClaimsDistinct, [SystemNext]_systemVars
    PROVE  ClaimsHeld' /\ ClaimsDistinct'
<1>0. /\ StoreInv /\ SystemTyped /\ [Next]_storeVars
      /\ "read" \notin Busy /\ "idle" \notin Busy
  BY StoreStep DEF SystemInv, Busy
<1>1. ASSUME NEW w \in Workers, worker'[w].doing \in Busy,
             NEW a \in Attempts, NEW g \in Nat,
             a = worker[w].claim.attempt, g = worker[w].claim.generation
      PROVE  Held(a, g)'
  <2>3. CASE worker[w].doing \in Busy
    <3>1. Held(a, g)
      BY <1>1, <2>3 DEF ClaimsHeld
    <3>2. /\ Exists(a)'
          /\ attempt[a].generation <= attempt'[a].generation
          /\ attempt'[a].generation = attempt[a].generation
                /\ attempt[a].status # "queued" => attempt'[a].status # "queued"
      BY <1>0, <3>1, AttemptMoves DEF Held
    <3>3. attempt[a].generation \in Nat /\ attempt'[a].generation \in Nat
      BY <1>0, StoreInvStep DEF StoreInv, TypeOK, AttemptRow
    <3> QED
      BY <3>1, <3>2, <3>3 DEF Held
  <2>4. CASE worker[w].doing \notin Busy
    <3>1. ClaimAttempt(a, g, worker[w].claim.epoch)
      BY <1>0, <1>1, <2>4, WorkerMoves
    <3>2. attempt'[a].status = "fetching" /\ attempt'[a].generation = g
      BY <1>0, <3>1, ClaimFinds
    <3> QED
      BY <3>2 DEF Held, Exists
  <2> QED
    BY <2>3, <2>4
<1>2. ASSUME NEW w \in Workers, NEW x \in Workers, w # x,
             worker'[w].doing \in Busy, worker'[x].doing \in Busy,
             worker[w].doing \notin Busy
      PROVE  \/ worker'[w].claim.attempt # worker'[x].claim.attempt
             \/ worker'[w].claim.generation # worker'[x].claim.generation
  <2> DEFINE m == worker[w].claim
  <2>1. /\ worker'[w].claim = m /\ worker[w].doing = "read"
        /\ ClaimAttempt(m.attempt, m.generation, m.epoch)
        /\ worker'[x] = worker[x]
    BY <1>0, <1>2, WorkerMoves
  <2>2. m.attempt \in Attempts
    BY <1>0, <2>1, ClaimInHand
  <2>3. attempt[m.attempt].status = "queued" /\ attempt[m.attempt].generation = m.generation
    BY <1>0, <2>1, <2>2, ClaimFinds
  <2>4. worker[x].claim.generation = attempt[worker[x].claim.attempt].generation =>
           attempt[worker[x].claim.attempt].status # "queued"
    BY <1>2, <2>1 DEF ClaimsHeld, Held
  <2> QED
    BY <2>1, <2>3, <2>4
<1>3. ClaimsHeld'
  <2> SUFFICES ASSUME NEW w \in Workers, worker'[w].doing \in Busy
               PROVE  Held(worker[w].claim.attempt, worker[w].claim.generation)'
    BY DEF ClaimsHeld
  <2>1. worker'[w].claim = worker[w].claim /\ worker[w].doing # "idle"
    BY <1>0, WorkerMoves
  <2>2. PICK a \in Attempts, g \in Nat :
           a = worker[w].claim.attempt /\ g = worker[w].claim.generation
    BY <1>0, <2>1, ClaimInHand
  <2>3. Held(a, g)'
    BY <1>1, <2>2
  <2> QED
    BY <2>1, <2>2, <2>3 DEF Held
<1>4. ClaimsDistinct'
  <2> SUFFICES ASSUME NEW w \in Workers, NEW x \in Workers, w # x,
                      worker'[w].doing \in Busy, worker'[x].doing \in Busy
               PROVE  \/ worker'[w].claim.attempt # worker'[x].claim.attempt
                      \/ worker'[w].claim.generation # worker'[x].claim.generation
    BY DEF ClaimsDistinct
  <2>1. CASE worker[w].doing \notin Busy \/ worker[x].doing \notin Busy
    BY <1>2, <2>1
  <2>2. CASE worker[w].doing \in Busy /\ worker[x].doing \in Busy
    <3>1. worker'[w].claim = worker[w].claim /\ worker'[x].claim = worker[x].claim
      BY <1>0, WorkerMoves
    <3> QED
      BY <2>2, <3>1 DEF ClaimsDistinct
  <2> QED
    BY <2>1, <2>2
<1> QED
  BY <1>3, <1>4

\* Of all workers at most one can write for a target, whatever was published
\* twice, redispatched or reclaimed: claim_attempt never grants a generation that
\* is out, and the lease fence ties a writer to the owner's present generation.
THEOREM OneLease == SystemSpec => []OneLeaseHolder
<1>1. SystemInit => ClaimsHeld /\ ClaimsDistinct
  BY DEF SystemInit, ClaimsHeld, ClaimsDistinct, Idle, Busy
<1>2. SystemInv /\ ClaimsHeld /\ ClaimsDistinct /\ [SystemNext]_systemVars
        => (ClaimsHeld /\ ClaimsDistinct)'
  BY ClaimsStep
<1>3. SystemInv /\ ClaimsDistinct => OneLeaseHolder
  <2> SUFFICES ASSUME SystemInv, ClaimsDistinct,
                      NEW w \in Workers, NEW x \in Workers, w # x,
                      worker[w].doing \in Busy, worker[x].doing \in Busy,
                      HoldsLease(worker[w].claim.attempt, worker[w].claim.generation),
                      HoldsLease(worker[x].claim.attempt, worker[x].claim.generation),
                      attempt[worker[w].claim.attempt].target
                         = attempt[worker[x].claim.attempt].target
               PROVE  FALSE
    BY DEF OneLeaseHolder
  <2>1. worker[w].claim.attempt = worker[x].claim.attempt
    BY DEF HoldsLease, OwnsTarget
  <2>2. worker[w].claim.generation = worker[x].claim.generation
    BY <2>1 DEF HoldsLease
  <2> QED
    BY <2>1, <2>2 DEF ClaimsDistinct
<1> QED
  BY <1>1, <1>2, <1>3, SystemInvHolds, PTL DEF SystemSpec

\* A worker whose generation or target was taken away runs on to its end, and none
\* of its calls, heartbeats among them, changes a table: the fence refuses a
\* generation that is not the attempt's and an attempt that is not the owner.
THEOREM LateWorkers == SystemSpec => LateWorkersChangeNothing
<1>1. ASSUME SystemInv, NEW w \in Workers, Late(w), WorkerNext(w)
      PROVE  UNCHANGED storeVars
  <2> DEFINE m == worker[w].claim
  <2>0. worker[w].doing \in Busy /\ worker[w].doing \notin {"idle", "read"}
    BY <1>1 DEF Late, Busy
  <2>1. m.attempt \in Attempts /\ m.generation \in Nat
    BY <1>1, <2>0, ClaimInHand DEF SystemInv
  <2>2. ~HoldsLease(m.attempt, m.generation)
    <3>1. CASE m.generation < attempt[m.attempt].generation
      <4>1. attempt[m.attempt].generation # m.generation
        BY <1>1, <2>1, <3>1, AttemptTyped DEF SystemInv
      <4> QED
        BY <4>1 DEF HoldsLease
    <3>2. CASE target[attempt[m.attempt].target].owner # m.attempt
      BY <3>2 DEF HoldsLease, OwnsTarget
    <3> QED
      BY <1>1, <3>1, <3>2 DEF Late
  <2>3. ~Read(w) /\ ~TryClaim(w)
    BY <2>0 DEF Read, TryClaim
  <2>4. CASE Beat(w)
    BY <2>2, <2>4 DEF Beat, Heartbeat
  <2>5. CASE Analyze(w)
    BY <2>2, <2>5 DEF Analyze, StartAnalyzing, MayAnalyze
  <2>6. CASE Complete(w)
    BY <2>2, <2>6 DEF Complete, CompleteAttempt, MayComplete
  <2>7. CASE Fail(w)
    BY <2>2, <2>7 DEF Fail, FailAttempt
  <2>8. CASE Raise(w) \/ WorkerCrash(w)
    BY <2>8 DEF Raise, WorkerCrash
  <2> QED
    BY <1>1, <2>3, <2>4, <2>5, <2>6, <2>7, <2>8 DEF WorkerNext
<1>2. SystemInv =>
        [\A w \in Workers : Late(w) /\ WorkerNext(w) => UNCHANGED storeVars]_systemVars
  BY <1>1
<1> QED
  BY <1>2, SystemInvHolds, PTL DEF SystemSpec, LateWorkersChangeNothing

----------------------------------------------------------------------------
(* No entry is dropped *)

(* reclaim clears the lease of what it queues, so a queued attempt that is   *)
(* presented its key is claimed.                                             *)
QueuedUnleased ==
    \A a \in Attempts : attempt[a].status = "queued" => attempt[a].lease = Null

Current(m) == /\ attempt[m.attempt].status = "queued"
              /\ attempt[m.attempt].generation = m.generation
              /\ attempt[m.attempt].epoch = m.epoch

Unread(m) == \E i \in 1 .. Len(stream) : stream[i] = m
InHand(m) == \E w \in Workers : worker[w].doing = "read" /\ worker[w].claim = m

(* What was published with the present key of a queued attempt is on its way. *)
Carried ==
    ~lost => \A r \in delivered \cup published :
                Current(r) => Unread(MessageOf(r)) \/ InHand(MessageOf(r))

LEMMA QueuedUnleasedStep ==
    ASSUME StoreInv, QueuedUnleased, [Next]_storeVars
    PROVE  QueuedUnleased'
<1>0. TypeOK /\ attempt \in [Attempts -> AttemptRow]
  BY DEF StoreInv, TypeOK
<1>1. ASSUME NEW t \in Targets, NEW v \in Versions, NEW a \in Attempts,
             NEW now \in ProcessClock, CreateAttempt(t, v, a, now)
      PROVE  QueuedUnleased'
  <2> SUFFICES ASSUME NEW b \in Attempts, attempt'[b].status = "queued"
               PROVE  attempt'[b].lease = Null
    BY DEF QueuedUnleased
  <2>1. attempt'[a].lease = Null
    BY <1>0, <1>1 DEF CreateAttempt, Superseded
  <2>2. b # a => attempt'[b] = Superseded(t, now)[b]
    BY <1>0, <1>1 DEF CreateAttempt, Superseded
  <2>3. Superseded(t, now)[b].status = "queued" =>
           Superseded(t, now)[b].status = attempt[b].status
           /\ Superseded(t, now)[b].lease = attempt[b].lease
    BY <1>0 DEF Superseded, AttemptRow
  <2> QED
    BY <2>1, <2>2, <2>3 DEF QueuedUnleased
<1>2. ASSUME NEW a \in Attempts, RowWritten(a)
      PROVE  QueuedUnleased'
  BY <1>0, <1>2 DEF QueuedUnleased, RowWritten, Running, Terminal
<1>3. ASSUME NEW now \in ProcessClock, NEW Q \in SUBSET Attempts,
             NEW R \in SUBSET Attempts, Reconcile(now, Q, R)
      PROVE  QueuedUnleased'
  <2> SUFFICES ASSUME NEW a \in Attempts, attempt'[a].status = "queued"
               PROVE  attempt'[a].lease = Null
    BY DEF QueuedUnleased
  <2>1. attempt'[a] = IF a \in Q THEN Redispatched(a)
                      ELSE IF a \in R THEN Requeued(a) ELSE attempt[a]
    BY <1>3 DEF Reconcile
  <2>2. a \in Q => attempt[a].status = "queued"
    BY <1>3 DEF Reconcile, Undispatched
  <2>3. attempt[a] \in AttemptRow
    BY <1>0
  <2> QED
    BY <2>1, <2>2, <2>3 DEF QueuedUnleased, Redispatched, Requeued, AttemptRow
<1>4. CASE UNCHANGED attempt
  BY <1>4 DEF QueuedUnleased
<1>5. CASE Next
  BY <1>0, <1>1, <1>2, <1>3, <1>4, <1>5, StepCases
<1> QED
  BY <1>4, <1>5 DEF storeVars

(* claim_attempt does not refuse the present key of a queued attempt. *)
LEMMA CurrentIsClaimable ==
    ASSUME StoreInv, QueuedUnleased, NEW a \in Attempts, NEW g, NEW e,
           attempt[a].status = "queued", attempt[a].generation = g, attempt[a].epoch = e
    PROVE  Claimable(a, g, e)
<1>1. attempt[a].lease = Null /\ clock \in Nat
  BY DEF QueuedUnleased, StoreInv, TypeOK
<1>2. OwnsTarget(a)
  BY FencingOwns DEF StoreInv, Active
<1> QED
  BY <1>1, <1>2 DEF Claimable, Null

(* An entry with the present key of a queued attempt stays unread or in hand  *)
(* until the attempt is claimed.                                              *)
LEMMA EntryMoves ==
    ASSUME SystemInv, QueuedUnleased, [SystemNext]_systemVars, ~lost, ~lost',
           NEW m \in Message, Unread(m) \/ InHand(m),
           Current(m), attempt'[m.attempt].status = "queued"
    PROVE  Unread(m)' \/ InHand(m)'
<1>0. /\ StoreInv /\ SystemTyped
      /\ stream \in Seq(Message) /\ worker \in [Workers -> WorkerState]
      /\ m.attempt \in Attempts
  BY DEF SystemInv, SystemTyped, SystemTypeOK, Message
<1>1. CASE UNCHANGED <<stream, worker>>
  BY <1>1 DEF Unread, InHand
<1>2. ASSUME NEW r \in batch, Publish(r)
      PROVE  Unread(m)' \/ InHand(m)'
  <2>1. stream' = Append(stream, MessageOf(r)) /\ UNCHANGED worker
    BY <1>2 DEF Publish
  <2>2. ASSUME NEW i \in 1 .. Len(stream)
        PROVE  i \in 1 .. Len(stream') /\ stream'[i] = stream[i]
    BY <1>0, <2>1, <2>2
  <2> QED
    BY <2>1, <2>2 DEF Unread, InHand
<1>3. CASE RedisLosesKeys
  BY <1>3 DEF RedisLosesKeys
<1>4. ASSUME NEW w \in Workers, WorkerNext(w)
      PROVE  Unread(m)' \/ InHand(m)'
  <2>1. CASE Read(w)
    <3>1. /\ stream # <<>> /\ stream' = Tail(stream)
          /\ worker' = [worker EXCEPT ![w] =
                [doing |-> "read", claim |-> Head(stream), beating |-> FALSE]]
          /\ worker[w].doing = "idle"
      BY <2>1 DEF Read, WorkerStep
    <3>2. CASE InHand(m)
      BY <1>0, <3>1, <3>2 DEF InHand
    <3>3. ASSUME NEW i \in 1 .. Len(stream), stream[i] = m
          PROVE  Unread(m)' \/ InHand(m)'
      <4>1. CASE i = 1
        <5>1. worker'[w].doing = "read" /\ worker'[w].claim = m
          BY <1>0, <3>1, <3>3, <4>1
        <5> QED
          BY <5>1 DEF InHand
      <4>2. CASE i # 1
        <5>1. i - 1 \in 1 .. Len(stream') /\ stream'[i - 1] = m
          BY <1>0, <3>1, <3>3, <4>2
        <5> QED
          BY <5>1 DEF Unread
      <4> QED
        BY <4>1, <4>2
    <3> QED
      BY <3>2, <3>3 DEF Unread
  <2>2. CASE TryClaim(w)
    <3>1. UNCHANGED stream
      BY <2>2 DEF TryClaim
    <3>2. ASSUME worker[w].claim = m
          PROVE  FALSE
      <4>1. Claimable(m.attempt, m.generation, m.epoch)
        BY <1>0, CurrentIsClaimable DEF Current
      <4>2. ClaimAttempt(m.attempt, m.generation, m.epoch)
        BY <2>2, <3>2, <4>1 DEF TryClaim
      <4>3. attempt'[m.attempt].status = "fetching"
        BY <1>0, <4>2, ClaimFinds
      <4> QED
        BY <4>3
    <3>3. ASSUME NEW x \in Workers, x # w
          PROVE  worker'[x] = worker[x]
      BY <1>0, <2>2, <3>3 DEF TryClaim, WorkerStep
    <3> QED
      BY <3>1, <3>2, <3>3 DEF Unread, InHand
  <2>3. CASE WorkerCrash(w)
    <3>1. worker[w].doing # "read" /\ UNCHANGED stream
          /\ worker' = [worker EXCEPT ![w] = Idle]
      BY <2>3 DEF WorkerCrash, WorkerStep
    <3> QED
      BY <1>0, <3>1 DEF Unread, InHand
  <2>4. CASE Beat(w) \/ Analyze(w) \/ Complete(w) \/ Raise(w) \/ Fail(w)
    <3>1. worker[w].doing \in Busy /\ UNCHANGED stream
      BY <2>4 DEF Beat, Analyze, Complete, Raise, Fail, Busy
    <3>2. ASSUME NEW x \in Workers, x # w
          PROVE  worker'[x] = worker[x]
      BY <1>0, <2>4, <3>2 DEF Beat, Analyze, Complete, Raise, Fail, WorkerStep
    <3>3. worker[w].doing # "read"
      BY <3>1 DEF Busy
    <3> QED
      BY <3>1, <3>2, <3>3 DEF Unread, InHand
  <2> QED
    BY <1>4, <2>1, <2>2, <2>3, <2>4 DEF WorkerNext
<1> QED
  BY <1>1, <1>2, <1>3, <1>4
     DEF systemVars, SystemNext, RequestAnalysis, TimePasses, DispatcherNext,
         SelectBatch, CommitBatch, ReconcilePass, DispatcherCrash

LEMMA CarriedStep ==
    ASSUME SystemInv, QueuedUnleased, Carried, [SystemNext]_systemVars
    PROVE  Carried'
<1>0. StoreInv /\ OutboxInv /\ SystemTyped /\ [Next]_storeVars
  BY StoreStep DEF SystemInv
<1> SUFFICES ASSUME ~lost', NEW r \in (delivered \cup published)', Current(r)'
             PROVE  Unread(MessageOf(r))' \/ InHand(MessageOf(r))'
  BY DEF Carried, MessageOf
<1>1. ~lost
  BY DEF systemVars, SystemNext, RequestAnalysis, TimePasses, DispatcherNext,
     SelectBatch, Publish, CommitBatch, ReconcilePass, DispatcherCrash, RedisLosesKeys,
     WorkerNext, Read, TryClaim, Beat, Analyze, Complete, Raise, Fail, WorkerCrash
<1>2. CASE r \in delivered \cup published
  <2>1. r \in outbox
    BY <1>0, <1>2 DEF SystemTyped, SystemTypeOK, StoreInv, TypeOK
  <2>2. Current(r)
    BY <1>0, <2>1, KeyMoves DEF Current
  <2>3. MessageOf(r) \in Message
    BY <1>0, <2>1, OutboxTyped DEF MessageOf, Message
  <2>4. PICK m \in Message : m = MessageOf(r)
    BY <2>3
  <2>5. Unread(m) \/ InHand(m)
    BY <1>1, <1>2, <2>2, <2>4 DEF Carried
  <2>6. Current(m) /\ attempt'[m.attempt].status = "queued"
    BY <2>2, <2>4 DEF Current, MessageOf
  <2>7. Unread(m)' \/ InHand(m)'
    BY <1>1, <2>5, <2>6, EntryMoves
  <2> QED
    BY <2>4, <2>7 DEF Unread, InHand
<1>3. CASE r \notin delivered \cup published
  <2>1. Publish(r) /\ r \in batch
    BY <1>3 DEF systemVars, storeVars, dispatcherVars, SystemNext, RequestAnalysis,
       TimePasses, DispatcherNext, SelectBatch, Publish, CommitBatch, ReconcilePass,
       DispatcherCrash, RedisLosesKeys, WorkerNext, Read, TryClaim, Beat, Analyze,
       Complete, Raise, Fail, WorkerCrash, WorkerStep, CreateAttempt, Tick, Reconcile,
       MarkDelivered, ClaimAttempt, Heartbeat, StartAnalyzing, CompleteAttempt,
       FailAttempt
  <2>2. stream' = Append(stream, MessageOf(r)) /\ stream \in Seq(Message)
    BY <1>0, <2>1 DEF Publish, SystemTyped, SystemTypeOK
  <2>3. Len(stream') \in 1 .. Len(stream') /\ stream'[Len(stream')] = MessageOf(r)
    BY <2>2
  <2> QED
    BY <2>3 DEF Unread, MessageOf
<1> QED
  BY <1>2, <1>3

\* Unless an entry was lost with Redis or with a worker, a queued attempt is
\* always on its way to a worker without the dispatch timeout: through all
\* duplicates, redispatches and rollbacks the entry that counts is there.
THEOREM NothingDroppedHolds == SystemSpec => []NothingDropped
<1>1. SystemInit => QueuedUnleased /\ Carried
  BY DEF SystemInit, Init, QueuedUnleased, Carried, AbsentAttempt
<1>2. SystemInv /\ QueuedUnleased /\ Carried /\ [SystemNext]_systemVars
        => (QueuedUnleased /\ Carried)'
  BY CarriedStep, QueuedUnleasedStep, StoreStep DEF SystemInv
<1>3. SystemInv /\ Carried => NothingDropped
  <2> SUFFICES ASSUME SystemInv, Carried, NEW a \in Attempts,
                      attempt[a].status = "queued", ~lost,
                      \A r \in outbox \ delivered :
                         ~(r \in RowsOf(a) /\ r.epoch = attempt[a].epoch)
               PROVE  LET key == [attempt |-> a, generation |-> attempt[a].generation,
                                  epoch |-> attempt[a].epoch]
                      IN  \/ \E i \in 1 .. Len(stream) : stream[i] = key
                          \/ \E w \in Workers :
                                worker[w].doing = "read" /\ worker[w].claim = key
    BY DEF NothingDropped
  <2>1. PICK r \in outbox : /\ r.attempt = a
                            /\ r.generation = attempt[a].generation
                            /\ r.epoch = attempt[a].epoch
    BY DEF SystemInv, OutboxInv, QueuedHasItsRow
  <2>2. r \in delivered
    BY <2>1 DEF RowsOf
  <2>3. Unread(MessageOf(r)) \/ InHand(MessageOf(r))
    BY <2>1, <2>2 DEF Carried, Current
  <2> QED
    BY <2>1, <2>3 DEF Unread, InHand, MessageOf
<1> QED
  BY <1>1, <1>2, <1>3, SystemInvHolds, PTL DEF SystemSpec
=============================================================================
