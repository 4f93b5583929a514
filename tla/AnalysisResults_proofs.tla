---------------------- MODULE AnalysisResults_proofs ----------------------
(***************************************************************************)
(* Generations as fencing tokens, the stored result, and the finality of   *)
(* finished attempts, from the invariant of AnalysisStore_proofs; and that *)
(* AnalysisStore implements TargetRounds, which rests on them.             *)
(***************************************************************************)
EXTENDS AnalysisStore_proofs

StoreInv == TypeOK /\ Fencing

LEMMA StoreInvStep ==
    ASSUME StoreInv, [Next]_storeVars
    PROVE  StoreInv'
BY TypeStep, FencingStep DEF StoreInv

(* An existing attempt has a target, and its generation is the target's if it *)
(* is the owner and an older one if not.                                       *)
LEMMA OwnedOrOld ==
    ASSUME StoreInv, NEW a \in Attempts, Exists(a)
    PROVE  /\ attempt[a].target \in Targets
           /\ attempt[a].generation \in Nat
           /\ target[attempt[a].target].generation \in Nat
           /\ attempt[a].generation <= target[attempt[a].target].generation
           /\ target[attempt[a].target].owner = a =>
                 attempt[a].generation = target[attempt[a].target].generation
           /\ target[attempt[a].target].owner # a =>
                 /\ attempt[a].generation < target[attempt[a].target].generation
                 /\ attempt[a].status \in Terminal
<1>1. attempt[a].target \in Targets
  BY DEF StoreInv, Fencing, RowsWellFormed
<1>2. attempt[a].generation \in Nat /\ target[attempt[a].target].generation \in Nat
  BY <1>1 DEF StoreInv, TypeOK, AttemptRow, TargetRow
<1>3. CASE target[attempt[a].target].owner = a
  BY <1>1, <1>2, <1>3 DEF StoreInv, Fencing, OwnerMatchesTarget
<1>4. CASE target[attempt[a].target].owner # a
  BY <1>1, <1>2, <1>4 DEF StoreInv, Fencing, OthersAreOld
<1> QED
  BY <1>1, <1>2, <1>3, <1>4

----------------------------------------------------------------------------
(* Generations are tokens *)

DistinctGenerations ==
    \A a, b \in Attempts :
        Exists(a) /\ Exists(b) /\ a # b /\ attempt[a].target = attempt[b].target
            => attempt[a].generation # attempt[b].generation

LEMMA DistinctCreate ==
    ASSUME StoreInv, DistinctGenerations,
           NEW t \in Targets, NEW v \in Versions, NEW a \in Attempts,
           RowsCreated(t, v, a)
    PROVE  DistinctGenerations'
<1>1. ASSUME NEW b \in Attempts, b # a, Exists(b)', attempt'[b].target = t
      PROVE  attempt'[b].generation # attempt'[a].generation
  <2>1. Exists(b) /\ attempt[b].target = t
    BY <1>1 DEF RowsCreated, Exists, Active, Running
  <2>2. attempt[b].generation <= target[t].generation
        /\ attempt[b].generation \in Nat /\ target[t].generation \in Nat
    BY <2>1, OwnedOrOld
  <2> QED
    BY <1>1, <2>2 DEF RowsCreated
<1> SUFFICES ASSUME NEW b \in Attempts, NEW c \in Attempts, Exists(b)',
                    Exists(c)', b # c, attempt'[b].target = attempt'[c].target
             PROVE  attempt'[b].generation # attempt'[c].generation
  BY DEF DistinctGenerations
<1>2. CASE b = a
  BY <1>1, <1>2 DEF RowsCreated
<1>3. CASE c = a
  BY <1>1, <1>3 DEF RowsCreated
<1>4. CASE b # a /\ c # a
  BY <1>4 DEF RowsCreated, DistinctGenerations, Exists, Active, Running
<1> QED
  BY <1>2, <1>3, <1>4

LEMMA DistinctRowWritten ==
    ASSUME StoreInv, DistinctGenerations, NEW a \in Attempts, RowWritten(a),
           attempt[a].status \in Active
    PROVE  DistinctGenerations'
<1>1. \A b \in Attempts : Exists(b)' => Exists(b)
  BY RowWrittenRow DEF StoreInv, Exists, Active, Running
<1>2. \A b \in Attempts : /\ attempt'[b].target = attempt[b].target
                          /\ attempt'[b].generation = attempt[b].generation
  BY RowWrittenRow DEF StoreInv
<1> QED
  BY <1>1, <1>2 DEF DistinctGenerations

LEMMA DistinctReconcile ==
    ASSUME StoreInv, DistinctGenerations, NEW now \in ProcessClock,
           NEW Q \in SUBSET Attempts, NEW R \in SUBSET Attempts,
           Reconcile(now, Q, R)
    PROVE  DistinctGenerations'
<1>1. ASSUME NEW b \in Attempts
      PROVE  /\ attempt'[b].target = attempt[b].target
             /\ b \in R => /\ attempt'[b].generation = attempt[b].generation + 1
                           /\ OwnsTarget(b)
             /\ b \notin R => attempt'[b].generation = attempt[b].generation
             /\ Exists(b)' => Exists(b)
  <2>1. TypeOK
    BY DEF StoreInv
  <2>2. /\ attempt'[b].target = attempt[b].target
        /\ b \in R => attempt'[b].generation = attempt[b].generation + 1
        /\ b \notin R => attempt'[b].generation = attempt[b].generation
        /\ b \in Q \cup R => OwnsTarget(b) /\ attempt[b].status \in Active
        /\ b \notin Q \cup R => attempt'[b] = attempt[b]
    BY <2>1, ReconcileRow
  <2> QED
    BY <2>2 DEF Exists, Active, Running
<1>2. ASSUME NEW b \in Attempts, NEW c \in Attempts, Exists(b)', Exists(c)', b # c,
             attempt'[b].target = attempt'[c].target, b \in R
      PROVE  attempt'[b].generation # attempt'[c].generation
  <2>1. Exists(b) /\ Exists(c) /\ attempt[b].target = attempt[c].target
    BY <1>1, <1>2
  <2>2. OwnsTarget(b)
    BY <1>1, <1>2
  <2>3. target[attempt[c].target].owner = b
    BY <2>1, <2>2 DEF OwnsTarget
  <2>4. c \notin R
    BY <1>1, <1>2, <2>3 DEF OwnsTarget
  <2>5. /\ attempt[b].generation \in Nat /\ attempt[c].generation \in Nat
        /\ attempt[c].generation <= attempt[b].generation
    BY <2>1, <2>2, OwnedOrOld DEF OwnsTarget
  <2> QED
    BY <1>1, <1>2, <2>4, <2>5
<1> SUFFICES ASSUME NEW b \in Attempts, NEW c \in Attempts, Exists(b)',
                    Exists(c)', b # c, attempt'[b].target = attempt'[c].target
             PROVE  attempt'[b].generation # attempt'[c].generation
  BY DEF DistinctGenerations
<1>3. CASE b \in R \/ c \in R
  BY <1>2, <1>3
<1>4. CASE b \notin R /\ c \notin R
  BY <1>1, <1>4 DEF DistinctGenerations
<1> QED
  BY <1>3, <1>4

LEMMA DistinctStep ==
    ASSUME StoreInv, DistinctGenerations, [Next]_storeVars
    PROVE  DistinctGenerations'
<1>1. ASSUME UNCHANGED attempt
      PROVE  DistinctGenerations'
  BY <1>1 DEF DistinctGenerations, Exists
<1>2. CASE UNCHANGED storeVars
  BY <1>1, <1>2 DEF storeVars
<1>3. ASSUME NEW t \in Targets, NEW v \in Versions, NEW a \in Attempts,
             NEW now \in ProcessClock, CreateAttempt(t, v, a, now)
      PROVE  DistinctGenerations'
  <2>1. RowsCreated(t, v, a)
    BY <1>3, CreateRows DEF StoreInv
  <2> QED
    BY <2>1, DistinctCreate
<1>4. CASE Next
  BY <1>1, <1>3, <1>4, StepCases, DistinctRowWritten, DistinctReconcile DEF StoreInv
<1> QED
  BY <1>2, <1>4

\* No two attempts of a target ever have the same generation and the target's
\* write_generation is never below any of them: what a worker presents with its
\* writes identifies one ownership of the target, for ever.
THEOREM Tokens == Spec => []GenerationsAreTokens
<1>1. Init => DistinctGenerations
  BY DEF Init, DistinctGenerations, Exists, AbsentAttempt
<1>2. StoreInv /\ DistinctGenerations /\ [Next]_storeVars => DistinctGenerations'
  BY DistinctStep
<1>3. StoreInv /\ DistinctGenerations => GenerationsAreTokens
  <2> SUFFICES ASSUME StoreInv, DistinctGenerations,
                      NEW a \in Attempts, NEW b \in Attempts, Exists(a)
               PROVE  /\ attempt[a].generation
                           <= target[attempt[a].target].generation
                      /\ a # b /\ attempt[b].target = attempt[a].target =>
                            attempt[a].generation # attempt[b].generation
    BY DEF GenerationsAreTokens, Exists
  <2>1. attempt[b].target = attempt[a].target => Exists(b)
    BY OwnedOrOld, StoreAssumption
       DEF StoreInv, Fencing, RowsWellFormed, AbsentAttempt
  <2> QED
    BY <2>1, OwnedOrOld DEF DistinctGenerations
<1>4. Spec => []StoreInv
  BY FencingHolds DEF StoreInv
<1> QED
  BY <1>1, <1>2, <1>3, <1>4, PTL DEF Spec

----------------------------------------------------------------------------
(* Finished attempts *)

LEMMA FinishedStep ==
    ASSUME StoreInv, [Next]_storeVars, NEW a \in Attempts,
           attempt[a].status \in Terminal
    PROVE  attempt'[a] = attempt[a]
<1>0. attempt[a].status \notin Active /\ Exists(a)
  BY DEF Terminal, Active, Running, Exists
<1>1. ASSUME NEW t \in Targets, NEW v \in Versions, NEW b \in Attempts,
             NEW now \in ProcessClock, CreateAttempt(t, v, b, now)
      PROVE  attempt'[a] = attempt[a]
  <2>1. RowsCreated(t, v, b)
    BY <1>1, CreateRows DEF StoreInv
  <2> QED
    BY <2>1, <1>0 DEF RowsCreated
<1>2. ASSUME NEW b \in Attempts, RowWritten(b), attempt[b].status \in Active
      PROVE  attempt'[a] = attempt[a]
  BY <1>0, <1>2, RowWrittenRow DEF StoreInv
<1>3. ASSUME NEW now \in ProcessClock, NEW Q \in SUBSET Attempts,
             NEW R \in SUBSET Attempts, Reconcile(now, Q, R)
      PROVE  attempt'[a] = attempt[a]
  BY <1>0, <1>3, ReconcileRow DEF StoreInv
<1>4. CASE UNCHANGED storeVars
  BY <1>4 DEF storeVars
<1>5. CASE Next
  BY <1>1, <1>2, <1>3, <1>5, StepCases DEF StoreInv
<1> QED
  BY <1>4, <1>5

\* The row of a completed or failed attempt never changes again: no repeated
\* entry, late heartbeat, failure, supersession or reclaim touches it.
THEOREM FinishedStays == Spec => FinishedIsFinal
<1>1. StoreInv /\ [Next]_storeVars =>
        [\A a \in Attempts : attempt[a].status \in Terminal =>
            attempt'[a] = attempt[a]]_storeVars
  BY FinishedStep
<1>2. Spec => []StoreInv
  BY FencingHolds DEF StoreInv
<1> QED
  BY <1>1, <1>2, PTL DEF Spec, FinishedIsFinal

----------------------------------------------------------------------------
(* The stored result *)

(* What a target's result was written by is not newer than the target, and   *)
(* strictly older than an unfinished owner, which may still replace it.       *)
ResultsBehind ==
    \A t \in Targets :
        /\ result[t].generation <= target[t].generation
        /\ \A a \in Attempts :
              target[t].owner = a /\ attempt[a].status \in Active =>
                  result[t].generation < target[t].generation

ResultInv == ResultsBehind /\ ResultIsNewestCompleted

LEMMA GenerationsNat ==
    ASSUME StoreInv, NEW t \in Targets
    PROVE  target[t].generation \in Nat /\ result[t].generation \in Nat
BY DEF StoreInv, TypeOK, TargetRow, ResultRow

LEMMA ResultCreate ==
    ASSUME StoreInv, ResultInv,
           NEW t \in Targets, NEW v \in Versions, NEW a \in Attempts,
           RowsCreated(t, v, a), UNCHANGED result
    PROVE  ResultInv'
<1>1. ResultsBehind'
  <2> SUFFICES ASSUME NEW u \in Targets, NEW b \in Attempts
               PROVE  /\ result[u].generation <= target'[u].generation
                      /\ target'[u].owner = b /\ attempt'[b].status \in Active =>
                            result[u].generation < target'[u].generation
    BY DEF ResultsBehind
  <2>1. CASE u = t
    BY <2>1, GenerationsNat DEF ResultInv, ResultsBehind, RowsCreated
  <2>2. CASE u # t
    <3>1. target'[u] = target[u] /\ target[u].owner # a
      BY <2>2 DEF RowsCreated
    <3>2. b # a /\ attempt'[b].status \in Active => attempt[b].status \in Active
      BY DEF RowsCreated, Active, Running
    <3> QED
      BY <3>1, <3>2 DEF ResultInv, ResultsBehind
  <2> QED
    BY <2>1, <2>2
<1>2. ASSUME NEW b \in Attempts
      PROVE  /\ attempt'[b].status = "completed" <=> attempt[b].status = "completed"
             /\ attempt[b].status = "completed" => attempt'[b] = attempt[b]
  <2>1. "completed" \notin Active
    BY DEF Active, Running
  <2>2. CASE b = a
    BY <2>2 DEF RowsCreated, Exists
  <2>3. CASE b # a
    BY <2>1, <2>3 DEF RowsCreated
  <2> QED
    BY <2>2, <2>3
<1>3. ResultIsNewestCompleted'
  BY <1>2 DEF ResultInv, ResultIsNewestCompleted
<1> QED
  BY <1>1, <1>3 DEF ResultInv

LEMMA ResultKept ==
    ASSUME StoreInv, ResultInv, NEW a \in Attempts, RowWritten(a),
           attempt[a].status \in Active,
           UNCHANGED result, attempt'[a].status # "completed"
    PROVE  ResultInv'
<1>0. UNCHANGED target
  BY DEF RowWritten
<1>1. ASSUME NEW b \in Attempts
      PROVE  /\ attempt'[b].target = attempt[b].target
             /\ attempt'[b].version = attempt[b].version
             /\ attempt'[b].generation = attempt[b].generation
             /\ attempt'[b].status \in Active => attempt[b].status \in Active
             /\ attempt'[b].status = "completed" <=> attempt[b].status = "completed"
  <2>1. /\ attempt'[b].target = attempt[b].target
        /\ attempt'[b].version = attempt[b].version
        /\ attempt'[b].generation = attempt[b].generation
        /\ b # a => attempt'[b] = attempt[b]
    BY RowWrittenRow DEF StoreInv
  <2>2. attempt[a].status # "completed"
    BY DEF Active, Running
  <2> QED
    BY <2>1, <2>2
<1>2. ResultsBehind'
  BY <1>0, <1>1 DEF ResultInv, ResultsBehind
<1>3. ResultIsNewestCompleted'
  BY <1>1 DEF ResultInv, ResultIsNewestCompleted
<1> QED
  BY <1>2, <1>3 DEF ResultInv

LEMMA ResultWritten ==
    ASSUME StoreInv, ResultInv, NEW a \in Attempts, RowWritten(a),
           attempt[a].status \in Active,
           CompleteAttempt(a, attempt[a].generation)
    PROVE  /\ ResultInv'
           /\ \A t \in Targets : result'[t] # result[t] =>
                 result'[t].generation > result[t].generation
<1> DEFINE t == attempt[a].target
           g == attempt[a].generation
<1>0. /\ t \in Targets /\ target[t].owner = a /\ target[t].generation = g
      /\ UNCHANGED target /\ g \in Nat
  BY OwnedOrOld DEF RowWritten, OwnsTarget, Exists, Active, Running
<1>1. /\ result'[t] = [version |-> attempt[a].version, generation |-> g]
      /\ \A u \in Targets : u # t => result'[u] = result[u]
  BY <1>0 DEF CompleteAttempt, StoreInv, TypeOK
<1>2. attempt'[a] = [attempt[a] EXCEPT !.status = "completed"]
  BY DEF CompleteAttempt, StoreInv, TypeOK
<1>3. /\ attempt'[a].status = "completed" /\ attempt'[a].target = t
      /\ attempt'[a].version = attempt[a].version /\ attempt'[a].generation = g
  BY <1>2 DEF StoreInv, TypeOK, AttemptRow
<1>4. \A b \in Attempts : b # a => attempt'[b] = attempt[b]
  BY RowWrittenRow DEF StoreInv
<1>5. result[t].generation < g
  BY <1>0 DEF ResultInv, ResultsBehind
<1>6. ResultsBehind'
  <2> SUFFICES ASSUME NEW u \in Targets, NEW b \in Attempts
               PROVE  /\ result'[u].generation <= target[u].generation
                      /\ target[u].owner = b /\ attempt'[b].status \in Active =>
                            result'[u].generation < target[u].generation
    BY <1>0 DEF ResultsBehind
  <2>1. CASE u = t
    BY <2>1, <1>0, <1>1, <1>3 DEF Active, Running
  <2>2. CASE u # t
    <3>1. b = a => target[u].owner # b
      BY <2>2, <1>0 DEF StoreInv, Fencing, OwnerMatchesTarget
    <3> QED
      BY <2>2, <3>1, <1>1, <1>4 DEF ResultInv, ResultsBehind
  <2> QED
    BY <2>1, <2>2
<1>7. ResultIsNewestCompleted'
  <2>1. ASSUME NEW u \in Targets, NEW b \in Attempts,
               attempt'[b].target = u, attempt'[b].status = "completed"
        PROVE  attempt'[b].generation <= result'[u].generation
    <3>1. CASE b = a
      BY <3>1, <2>1, <1>0, <1>1, <1>3
    <3>2. CASE b # a /\ u = t
      BY <3>2, <2>1, <1>0, <1>1, <1>4, OwnedOrOld DEF Exists
    <3>3. CASE b # a /\ u # t
      BY <3>3, <2>1, <1>1, <1>4 DEF ResultInv, ResultIsNewestCompleted
    <3> QED
      BY <3>1, <3>2, <3>3
  <2>2. ASSUME NEW u \in Targets, result'[u].generation # 0
        PROVE  \E b \in Attempts : /\ attempt'[b].target = u
                                   /\ attempt'[b].status = "completed"
                                   /\ attempt'[b].version = result'[u].version
                                   /\ attempt'[b].generation = result'[u].generation
    <3>1. CASE u = t
      BY <3>1, <1>1, <1>3
    <3>2. CASE u # t
      <4>1. PICK b \in Attempts : /\ attempt[b].target = u
                                  /\ attempt[b].status = "completed"
                                  /\ attempt[b].version = result[u].version
                                  /\ attempt[b].generation = result[u].generation
        BY <2>2, <3>2, <1>1 DEF ResultInv, ResultIsNewestCompleted
      <4>2. b # a
        BY <4>1 DEF Active, Running
      <4> QED
        BY <3>2, <4>1, <4>2, <1>1, <1>4
    <3> QED
      BY <3>1, <3>2
  <2> QED
    BY <2>1, <2>2 DEF ResultIsNewestCompleted
<1>8. \A u \in Targets : result'[u] # result[u] =>
         result'[u].generation > result[u].generation
  BY <1>0, <1>1, <1>5, GenerationsNat
<1> QED
  BY <1>6, <1>7, <1>8 DEF ResultInv

LEMMA ResultReconcile ==
    ASSUME StoreInv, ResultInv, NEW now \in ProcessClock,
           NEW Q \in SUBSET Attempts, NEW R \in SUBSET Attempts,
           Reconcile(now, Q, R)
    PROVE  ResultInv'
<1>0. result' = result /\ TypeOK
  BY DEF Reconcile, StoreInv
<1>1. ASSUME NEW b \in Attempts
      PROVE  /\ b \in Q \cup R => /\ attempt[b].status \in Active
                                  /\ attempt'[b].status = "queued"
             /\ b \notin Q \cup R => attempt'[b] = attempt[b]
  BY <1>0, ReconcileRow
<1>2. ResultsBehind'
  <2> SUFFICES ASSUME NEW u \in Targets
               PROVE  /\ result[u].generation <= target'[u].generation
                      /\ \A b \in Attempts :
                            target'[u].owner = b /\ attempt'[b].status \in Active =>
                               result[u].generation < target'[u].generation
    BY <1>0 DEF ResultsBehind
  <2>1. /\ target'[u].owner = target[u].owner
        /\ target[u].owner \in R => target'[u].generation =
                                      attempt[target[u].owner].generation + 1
        /\ target[u].owner \notin R => target'[u].generation = target[u].generation
    BY <1>0, ReconcileTarget
  <2>2. target[u].owner \in R =>
           attempt[target[u].owner].generation = target[u].generation
    BY DEF StoreInv, Fencing, OwnerMatchesTarget
  <2>3. \A b \in Attempts :
           attempt'[b].status \in Active => attempt[b].status \in Active
    BY <1>1
  <2> QED
    BY <2>1, <2>2, <2>3, GenerationsNat DEF ResultInv, ResultsBehind
<1>3. ASSUME NEW b \in Attempts
      PROVE  /\ attempt'[b].status = "completed" <=> attempt[b].status = "completed"
             /\ attempt[b].status = "completed" => attempt'[b] = attempt[b]
  BY <1>1 DEF Active, Running
<1>4. ResultIsNewestCompleted'
  BY <1>0, <1>3 DEF ResultInv, ResultIsNewestCompleted
<1> QED
  BY <1>2, <1>4 DEF ResultInv

LEMMA ResultStep ==
    ASSUME StoreInv, ResultInv, [Next]_storeVars
    PROVE  /\ ResultInv'
           /\ \A t \in Targets : result'[t] # result[t] =>
                 result'[t].generation > result[t].generation
<1> DEFINE Goal == /\ ResultInv'
                   /\ \A t \in Targets : result'[t] # result[t] =>
                         result'[t].generation > result[t].generation
<1>1. ASSUME UNCHANGED <<target, attempt, result>>
      PROVE  Goal
  BY <1>1 DEF ResultInv, ResultsBehind, ResultIsNewestCompleted
<1>2. CASE UNCHANGED storeVars
  BY <1>1, <1>2 DEF storeVars
<1>3. ASSUME NEW t \in Targets, NEW v \in Versions, NEW a \in Attempts,
             NEW now \in ProcessClock, CreateAttempt(t, v, a, now)
      PROVE  Goal
  <2>1. RowsCreated(t, v, a) /\ UNCHANGED result
    BY <1>3, CreateRows DEF StoreInv, CreateAttempt
  <2> QED
    BY <2>1, ResultCreate
<1>4. ASSUME NEW a \in Attempts, RowWritten(a), attempt[a].status \in Active,
             \/ UNCHANGED result /\ attempt'[a].status # "completed"
             \/ CompleteAttempt(a, attempt[a].generation)
      PROVE  Goal
  BY <1>4, ResultKept, ResultWritten
<1>5. ASSUME NEW now \in ProcessClock, NEW Q \in SUBSET Attempts,
             NEW R \in SUBSET Attempts, Reconcile(now, Q, R)
      PROVE  Goal
  BY <1>5, ResultReconcile DEF Reconcile
<1>6. CASE Next
  BY <1>1, <1>3, <1>4, <1>5, <1>6, StepCases DEF StoreInv
<1> QED
  BY <1>2, <1>6

LEMMA ResultInit == Init => ResultInv
BY StoreAssumption
   DEF Init, ResultInv, ResultsBehind, ResultIsNewestCompleted, AbsentTarget,
       AbsentAttempt, AbsentResult

\* The stored result is that of the newest completed attempt of its target:
\* complete_attempt's fence keeps every older writer out, and status and result
\* change together.
THEOREM ResultNewest == Spec => []ResultIsNewestCompleted
<1>1. Init => ResultInv
  BY ResultInit
<1>2. StoreInv /\ ResultInv /\ [Next]_storeVars => ResultInv'
  BY ResultStep
<1>3. Spec => []StoreInv
  BY FencingHolds DEF StoreInv
<1>4. ResultInv => ResultIsNewestCompleted
  BY DEF ResultInv
<1> QED
  BY <1>1, <1>2, <1>3, <1>4, PTL DEF Spec

\* In the sequence v1 claim, v2 claim, v2 complete, v1 complete the result stays
\* v2's: a result is only replaced by one of a later generation.
THEOREM ResultOnlyAdvances == Spec => ResultsAdvance
<1>1. Init => ResultInv
  BY ResultInit
<1>2. StoreInv /\ ResultInv /\ [Next]_storeVars => ResultInv'
  BY ResultStep
<1>3. StoreInv /\ ResultInv /\ [Next]_storeVars =>
        [\A t \in Targets : result'[t] # result[t] =>
            result'[t].generation > result[t].generation]_storeVars
  BY ResultStep
<1>4. Spec => []StoreInv
  BY FencingHolds DEF StoreInv
<1> QED
  BY <1>1, <1>2, <1>3, <1>4, PTL DEF Spec, ResultsAdvance

----------------------------------------------------------------------------
(* AnalysisStore implements TargetRounds *)

(* The mapped variables of TargetRounds. *)
Round == [t \in Targets |-> target[t].generation]
Open(t) == \E a \in Attempts : target[t].owner = a /\ attempt[a].status \in Active
OpenMap == [t \in Targets |-> Open(t)]
Version == [t \in Targets |-> target[t].desired]

LEMMA StepsOfRounds ==
    /\ \A t \in Targets : Rounds!Publish(t) => Rounds!Next
    /\ \A t \in Targets : Rounds!Abandon(t) => Rounds!Next
    /\ \A t \in Targets, v \in Versions : Rounds!Begin(t, v) => Rounds!Next
    /\ \A T \in SUBSET Targets : Rounds!HandOver(T) => Rounds!Next
BY DEF Rounds!Next

LEMMA RoundsInit == Init => Rounds!Init
<1> SUFFICES ASSUME Init
             PROVE  Rounds!Init
  OBVIOUS
<1>1. \A t \in Targets : Open(t) = FALSE
  BY StoreAssumption DEF Init, Open, AbsentTarget
<1>2. OpenMap = [t \in Targets |-> FALSE]
  BY <1>1 DEF OpenMap
<1>3. Round = [t \in Targets |-> 0] /\ Version = [t \in Targets |-> NoVersion]
  BY DEF Init, AbsentTarget, Round, Version
<1>4. result = [t \in Targets |-> [version |-> NoVersion, generation |-> 0]]
  BY DEF Init, AbsentResult
<1> QED
  BY <1>2, <1>3, <1>4 DEF Rounds!Init, OpenMap, Open, Round, Version

LEMMA CreateBegins ==
    ASSUME StoreInv, NEW t \in Targets, NEW v \in Versions, NEW a \in Attempts,
           RowsCreated(t, v, a), UNCHANGED result
    PROVE  Rounds!Begin(t, v)
<1>1. Round' = [Round EXCEPT ![t] = @ + 1]
  <2>1. \A u \in Targets : target'[u].generation =
           IF u = t THEN target[u].generation + 1 ELSE target[u].generation
    BY DEF RowsCreated
  <2> QED
    BY <2>1 DEF Round
<1>2. ASSUME NEW u \in Targets, u # t
      PROVE  Open(u)' = Open(u)
  <2>1. target'[u] = target[u] /\ target[u].owner # a
    BY <1>2 DEF RowsCreated
  <2>2. ASSUME NEW b \in Attempts, target[u].owner = b
        PROVE  attempt'[b].status = attempt[b].status
    <3>1. b # a /\ b # target[t].owner
      BY <1>2, <2>1, <2>2 DEF StoreInv, Fencing, OwnerMatchesTarget
    <3> QED
      BY <3>1 DEF RowsCreated
  <2> QED
    BY <2>1, <2>2 DEF Open
<1>3. Open(t)'
  BY DEF RowsCreated, Open, Active
<1>4. OpenMap' = [OpenMap EXCEPT ![t] = TRUE]
  BY <1>2, <1>3 DEF OpenMap
<1>5. Version' = [Version EXCEPT ![t] = v]
  <2>1. \A u \in Targets :
           target'[u].desired = IF u = t THEN v ELSE target[u].desired
    BY DEF RowsCreated
  <2> QED
    BY <2>1 DEF Version
<1> QED
  BY <1>1, <1>4, <1>5 DEF Rounds!Begin, OpenMap, Open, Round, Version

(* What a worker's transaction does to the owner's round. *)
LEMMA RowWrittenOpen ==
    ASSUME StoreInv, NEW a \in Attempts, RowWritten(a),
           attempt[a].status \in Active,
           NEW t \in Targets, attempt[a].target = t
    PROVE  /\ target[t].owner = a
           /\ Open(t) = TRUE
           /\ Open(t)' <=> attempt'[a].status \in Active
           /\ \A u \in Targets \ {t} : Open(u)' = Open(u)
           /\ UNCHANGED <<Round, Version>>
<1>1. target[t].owner = a
  BY DEF RowWritten, OwnsTarget
<1>2. target' = target
  BY DEF RowWritten
<1>3. ASSUME NEW u \in Targets, u # t
      PROVE  Open(u)' = Open(u)
  <2>1. target[u].owner # a
    BY <1>3 DEF StoreInv, Fencing, OwnerMatchesTarget
  <2>2. \A b \in Attempts : b # a => attempt'[b] = attempt[b]
    BY RowWrittenRow DEF StoreInv
  <2> QED
    BY <1>2, <2>1, <2>2 DEF Open
<1>4. Open(t) = TRUE
  BY <1>1 DEF Open
<1>5. Open(t)' <=> attempt'[a].status \in Active
  BY <1>1, <1>2 DEF Open
<1> QED
  BY <1>1, <1>2, <1>3, <1>4, <1>5 DEF Round, Version

LEMMA RowWrittenMaps ==
    ASSUME StoreInv, NEW a \in Attempts, RowWritten(a),
           attempt[a].status \in Active,
           \/ UNCHANGED result /\ attempt'[a].status # "completed"
           \/ CompleteAttempt(a, attempt[a].generation)
    PROVE  [Rounds!Next]_(Rounds!vars)
<1> PICK t \in Targets : attempt[a].target = t
  BY DEF RowWritten, OwnsTarget
<1>0. /\ target[t].owner = a
      /\ Open(t) = TRUE
      /\ Open(t)' <=> attempt'[a].status \in Active
      /\ \A u \in Targets \ {t} : Open(u)' = Open(u)
      /\ UNCHANGED <<Round, Version>>
  BY RowWrittenOpen
<1>1. CASE UNCHANGED result /\ attempt'[a].status \in Active
  <2>1. \A u \in Targets : Open(u)' = Open(u)
    BY <1>0, <1>1
  <2>2. OpenMap' = OpenMap
    BY <2>1 DEF OpenMap
  <2> QED
    BY <1>0, <1>1, <2>2 DEF Rounds!vars, OpenMap, Open, Round, Version
<1>2. CASE UNCHANGED result /\ attempt'[a].status \notin Active
  <2>1. Open(t)' = FALSE
    <3>1. ~Open(t)'
      BY <1>0, <1>2
    <3> QED
      BY <3>1 DEF Open
  <2>2. OpenMap' = [OpenMap EXCEPT ![t] = FALSE]
    <3>1. \A u \in Targets : Open(u)' = IF u = t THEN FALSE ELSE Open(u)
      BY <1>0, <2>1
    <3> QED
      BY <3>1 DEF OpenMap
  <2>3. OpenMap[t]
    BY <1>0 DEF OpenMap
  <2>4. Rounds!Abandon(t)
    BY <1>0, <1>2, <2>2, <2>3 DEF Rounds!Abandon, OpenMap, Open, Round, Version
  <2> QED
    BY <1>0, <2>4, StepsOfRounds
<1>3. CASE CompleteAttempt(a, attempt[a].generation)
  <2>1. attempt'[a].status = "completed"
    BY <1>3 DEF CompleteAttempt, StoreInv, TypeOK, AttemptRow
  <2>2. Open(t)' = FALSE
    <3>1. ~Open(t)'
      BY <1>0, <2>1 DEF Active, Running
    <3> QED
      BY <3>1 DEF Open
  <2>3. OpenMap' = [OpenMap EXCEPT ![t] = FALSE] /\ OpenMap[t]
    <3>1. \A u \in Targets : Open(u)' = IF u = t THEN FALSE ELSE Open(u)
      BY <1>0, <2>2
    <3> QED
      BY <1>0, <3>1 DEF OpenMap
  <2>4. result' = [result EXCEPT ![t] =
                     [version |-> Version[t], generation |-> Round[t]]]
    BY <1>0, <1>3 DEF CompleteAttempt, MayComplete, HoldsLease, OwnsTarget,
                      VersionDesired, Version, Round
  <2>5. Rounds!Publish(t)
    BY <1>0, <2>3, <2>4 DEF Rounds!Publish, OpenMap, Open, Round, Version
  <2> QED
    BY <1>0, <2>5, StepsOfRounds
<1> QED
  BY <1>1, <1>2, <1>3

LEMMA ReconcileHandsOver ==
    ASSUME StoreInv, NEW now \in ProcessClock,
           NEW Q \in SUBSET Attempts, NEW R \in SUBSET Attempts,
           Reconcile(now, Q, R)
    PROVE  \E T \in SUBSET Targets : Rounds!HandOver(T)
<1> PICK T \in SUBSET Targets : T = {t \in Targets : target[t].owner \in R}
  OBVIOUS
<1>0. TypeOK
  BY DEF StoreInv
<1>1. ASSUME NEW b \in Attempts
      PROVE  attempt'[b].status \in Active <=> attempt[b].status \in Active
  <2>1. /\ b \in Q \cup R => /\ attempt[b].status \in Active
                             /\ attempt'[b].status = "queued"
        /\ b \notin Q \cup R => attempt'[b] = attempt[b]
    BY <1>0, ReconcileRow
  <2> QED
    BY <2>1 DEF Active
<1>2. ASSUME NEW t \in Targets
      PROVE  /\ target'[t].desired = target[t].desired
             /\ target'[t].owner = target[t].owner
             /\ t \in T => target'[t].generation = target[t].generation + 1
             /\ t \notin T => target'[t].generation = target[t].generation
  <2>1. /\ target'[t].desired = target[t].desired
        /\ target'[t].owner = target[t].owner
        /\ target[t].owner \in R => target'[t].generation =
                                      attempt[target[t].owner].generation + 1
        /\ target[t].owner \notin R => target'[t].generation = target[t].generation
    BY <1>0, ReconcileTarget
  <2>2. target[t].owner \in R =>
           attempt[target[t].owner].generation = target[t].generation
    BY DEF StoreInv, Fencing, OwnerMatchesTarget
  <2> QED
    BY <2>1, <2>2
<1>3. \A t \in T : OpenMap[t]
  <2> SUFFICES ASSUME NEW t \in T
               PROVE  Open(t)
    BY DEF OpenMap
  <2>1. target[t].owner \in Attempts /\ attempt[target[t].owner].status \in Active
    <3>1. target[t].owner \in R /\ R \subseteq Attempts
      OBVIOUS
    <3> DEFINE b == target[t].owner
    <3>2. b \in Attempts /\ b \in Q \cup R
      BY <3>1
    <3> HIDE DEF b
    <3>3. attempt[b].status \in Active
      BY <1>0, <3>2, ReconcileRow
    <3> QED
      BY <3>2, <3>3 DEF b
  <2> QED
    BY <2>1 DEF Open
<1>4. Round' = [t \in Targets |-> IF t \in T THEN Round[t] + 1 ELSE Round[t]]
  BY <1>2 DEF Round
<1>5. \A t \in Targets : Open(t)' = Open(t)
  BY <1>1, <1>2 DEF Open
<1>6. OpenMap' = OpenMap /\ Version' = Version
  BY <1>2, <1>5 DEF OpenMap, Version
<1>7. result' = result
  BY DEF Reconcile
<1>8. Rounds!HandOver(T)
  BY <1>3, <1>4, <1>6, <1>7 DEF Rounds!HandOver, OpenMap, Open, Round, Version
<1> QED
  BY <1>8

LEMMA StepMaps ==
    ASSUME StoreInv, [Next]_storeVars
    PROVE  [Rounds!Next]_(Rounds!vars)
<1>1. ASSUME UNCHANGED <<target, attempt, result>>
      PROVE  [Rounds!Next]_(Rounds!vars)
  BY <1>1 DEF Rounds!vars
<1>2. CASE UNCHANGED storeVars
  BY <1>1, <1>2 DEF storeVars
<1>3. ASSUME NEW t \in Targets, NEW v \in Versions, NEW a \in Attempts,
             NEW now \in ProcessClock, CreateAttempt(t, v, a, now)
      PROVE  [Rounds!Next]_(Rounds!vars)
  <2>1. RowsCreated(t, v, a) /\ UNCHANGED result
    BY <1>3, CreateRows DEF StoreInv, CreateAttempt
  <2>2. Rounds!Begin(t, v)
    BY <2>1, CreateBegins
  <2> QED
    BY <2>2, StepsOfRounds
<1>4. ASSUME NEW now \in ProcessClock, NEW Q \in SUBSET Attempts,
             NEW R \in SUBSET Attempts, Reconcile(now, Q, R)
      PROVE  [Rounds!Next]_(Rounds!vars)
  <2>1. \E T \in SUBSET Targets : Rounds!HandOver(T)
    BY <1>4, ReconcileHandsOver
  <2> QED
    BY <2>1, StepsOfRounds
<1>5. CASE Next
  BY <1>1, <1>3, <1>4, <1>5, StepCases, RowWrittenMaps DEF StoreInv
<1> QED
  BY <1>2, <1>5

\* The tables implement numbered rounds: whatever attempts, leases, epochs,
\* redispatches and reclaims do inside, a target is only ever seen to begin a
\* round, to hand it over, to publish from it once, or to abandon it.
THEOREM StoreImplementsRounds == Spec => ImplementsRounds
<1>1. Init => Rounds!Init
  BY RoundsInit
<1>2. StoreInv /\ [Next]_storeVars => [Rounds!Next]_(Rounds!vars)
  BY StepMaps
<1>3. Spec => []StoreInv
  BY FencingHolds DEF StoreInv
<1> QED
  BY <1>1, <1>2, <1>3, PTL DEF Spec, ImplementsRounds, Rounds!Spec
=============================================================================
