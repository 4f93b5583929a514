------------------------- MODULE AnalysisApi_proofs -------------------------
(***************************************************************************)
(* What AnalysisApi promises for any number of requests, tokens, targets   *)
(* and windows: the lock keeps creations apart and the quota is accounted  *)
(* for.                                                                    *)
(***************************************************************************)
EXTENDS AnalysisApi, FiniteSetTheorems, TLAPS

----------------------------------------------------------------------------
(* The ways a step changes a request *)

(* Only request r is changed, within its type. *)
Changes(r) ==
    /\ request' \in [Requests -> RequestRow]
    /\ \A s \in Requests \ {r} : request'[s] = request[s]
    /\ request'[r].at # "waiting" =>
          /\ request'[r].token = request[r].token
          /\ request'[r].target = request[r].target
          /\ request'[r].version = request[r].version

LEMMA AnswerChanges ==
    ASSUME TypeOK, NEW r \in Requests, Answer(r)
    PROVE  Changes(r) /\ request'[r].at = "idle" /\ request'[r].charged = {}
BY DEF TypeOK, Answer, Changes, RequestRow, Steps, InTransaction

LEMMA AtChanges ==
    ASSUME TypeOK, NEW r \in Requests, NEW step \in Steps, At(r, step)
    PROVE  Changes(r) /\ request'[r].at = step /\ request'[r].charged = request[r].charged
BY DEF TypeOK, At, Changes, RequestRow

LEMMA PayChanges ==
    ASSUME TypeOK, NEW r \in Requests, Pay(r)
    PROVE  Changes(r) /\ request'[r].at = "inserting" /\ request'[r].charged = Windows
<1> DEFINE row == [request[r] EXCEPT !.at = "inserting", !.charged = Windows]
<1>1. request' = [request EXCEPT ![r] = row] /\ request \in [Requests -> RequestRow]
  BY DEF Pay, TypeOK
<1>2. /\ row \in RequestRow /\ row.at = "inserting" /\ row.charged = Windows
      /\ row.token = request[r].token /\ row.target = request[r].target
      /\ row.version = request[r].version
  BY <1>1 DEF RequestRow, Steps, InTransaction
<1> HIDE DEF row
<1> QED
  BY <1>1, <1>2 DEF Changes

LEMMA ArriveChanges ==
    ASSUME TypeOK, NEW r \in Requests, NEW k \in Tokens, NEW t \in Targets,
           NEW v \in Versions, Arrive(r, k, t, v)
    PROVE  Changes(r) /\ request'[r].at = "waiting" /\ request'[r].charged = {}
BY DEF TypeOK, Arrive, Changes, RequestRow, Steps, InTransaction

LEMMA WindowEndsChanges ==
    ASSUME TypeOK, NEW k \in Tokens, NEW w \in Windows, WindowEnds(k, w)
    PROVE  /\ request' \in [Requests -> RequestRow]
           /\ \A r \in Requests :
                 /\ request'[r].at = request[r].at
                 /\ request'[r].token = request[r].token
                 /\ request'[r].target = request[r].target
                 /\ request'[r].version = request[r].version
                 /\ request'[r].charged = IF request[r].token = k
                                          THEN request[r].charged \ {w}
                                          ELSE request[r].charged
<1>0. request \in [Requests -> RequestRow]
  BY DEF TypeOK
<1>1. ASSUME NEW r \in Requests, request[r].token = k
      PROVE  request'[r] = [request[r] EXCEPT !.charged = request[r].charged \ {w}]
  BY <1>1 DEF WindowEnds
<1>2. ASSUME NEW r \in Requests, request[r].token # k
      PROVE  request'[r] = request[r]
  BY <1>2 DEF WindowEnds
<1>3. request' = [r \in Requests |-> request'[r]]
  BY DEF WindowEnds
<1>4. ASSUME NEW r \in Requests
      PROVE  /\ request'[r] \in RequestRow
             /\ request'[r].at = request[r].at
             /\ request'[r].token = request[r].token
             /\ request'[r].target = request[r].target
             /\ request'[r].version = request[r].version
             /\ request'[r].charged = IF request[r].token = k
                                      THEN request[r].charged \ {w}
                                      ELSE request[r].charged
  <2>1. CASE request[r].token = k
    <3>1. request[r] \in RequestRow /\ request[r].charged \ {w} \in SUBSET Windows
      BY <1>0 DEF RequestRow
    <3> QED
      BY <1>1, <2>1, <3>1 DEF RequestRow
  <2>2. CASE request[r].token # k
    BY <1>0, <1>2, <2>2
  <2> QED
    BY <2>1, <2>2
<1> QED
  BY <1>3, <1>4

(* A step is the arrival, the progress or the end of one request, or changes *)
(* what is around all of them.                                                *)
LEMMA RequestCases ==
    ASSUME TypeOK, Next
    PROVE  \/ \E r \in Requests :
                /\ Changes(r)
                /\ request'[r].at \in InTransaction =>
                      \/ Enter(r) /\ request'[r].at = "authorizing"
                      \/ Authorize(r)
           \/ \E k \in Tokens, w \in Windows : WindowEnds(k, w)
           \/ UNCHANGED request
<1> USE DEF InTransaction
<1>1. ASSUME NEW r \in Requests, NEW k \in Tokens, NEW t \in Targets,
             NEW v \in Versions, Arrive(r, k, t, v)
      PROVE  Changes(r) /\ request'[r].at \notin InTransaction
  BY <1>1, ArriveChanges
<1>2. ASSUME NEW r \in Requests, Enter(r)
      PROVE  Changes(r)
             /\ (request'[r].at \in InTransaction => request'[r].at = "authorizing")
  BY <1>2, AnswerChanges, AtChanges DEF Enter, Steps
<1>3. ASSUME NEW r \in Requests, Authorize(r)
      PROVE  Changes(r)
  BY <1>3, AnswerChanges, PayChanges DEF Authorize
<1>4. ASSUME NEW r \in Requests,
             Commit(r) \/ CommitUnknown(r) \/ RollBack(r) \/ Refund(r) \/ Crash(r)
      PROVE  Changes(r) /\ request'[r].at \notin InTransaction
  BY <1>4, AnswerChanges, AtChanges DEF Commit, CommitUnknown, RollBack, Refund, Crash, Steps
<1>5. CASE \E t \in Targets : Work(t) \/ ResultExpires(t)
  BY <1>5 DEF Work, ResultExpires
<1>6. CASE \E c \in cooling : CooldownEnds(c)
  BY <1>6 DEF CooldownEnds
<1> QED
  BY <1>1, <1>2, <1>3, <1>4, <1>5, <1>6 DEF Next, Handle

----------------------------------------------------------------------------
(* Type correctness *)

(* The tables change with a commit, a worker, or the passing of time. *)
StoreTyped == /\ owner \in [Targets -> OwnerRow \cup {NoOwner}]
              /\ cooling \subseteq Targets \X Versions
              /\ result \in [Targets -> ResultRow]

LEMMA StoreTypeStep ==
    ASSUME TypeOK, [Next]_vars
    PROVE  StoreTyped'
<1>0. StoreTyped
  BY DEF TypeOK, StoreTyped
<1>1. CASE UNCHANGED storeVars
  BY <1>0, <1>1 DEF storeVars, StoreTyped
<1>2. ASSUME NEW r \in Requests, Created(r)
      PROVE  StoreTyped'
  <2>1. request[r].target \in Targets /\ request[r].version \in Versions
    BY DEF TypeOK, RequestRow
  <2> QED
    BY <1>0, <1>2, <2>1 DEF Created, StoreTyped, OwnerRow
<1>3. ASSUME NEW t \in Targets, Work(t)
      PROVE  StoreTyped'
  <2>1. owner[t].version \in Versions
    BY <1>3 DEF TypeOK, Work, OwnerRow, NoOwner
  <2>2. owner[t] \in OwnerRow
    BY <1>3 DEF TypeOK, Work, OwnerRow, NoOwner
  <2>3. owner' \in [Targets -> OwnerRow \cup {NoOwner}]
    BY <1>0, <1>3, <2>2 DEF Work, StoreTyped, OwnerRow
  <2>4. cooling' \subseteq Targets \X Versions
    BY <1>0, <1>3, <2>1 DEF Work, StoreTyped
  <2>5. result' \in [Targets -> ResultRow]
    <3>1. [version |-> owner[t].version, fresh |-> TRUE] \in ResultRow
      BY <2>1 DEF ResultRow
    <3> QED
      BY <1>0, <1>3, <3>1 DEF Work, StoreTyped
  <2> QED
    BY <2>3, <2>4, <2>5 DEF StoreTyped
<1>4. ASSUME NEW t \in Targets, ResultExpires(t)
      PROVE  StoreTyped'
  BY <1>0, <1>4 DEF ResultExpires, StoreTyped, ResultRow
<1>5. ASSUME NEW c \in cooling, CooldownEnds(c)
      PROVE  StoreTyped'
  BY <1>0, <1>5 DEF CooldownEnds, StoreTyped
<1> QED
  BY <1>1, <1>2, <1>3, <1>4, <1>5 DEF vars, storeVars, Next, Handle, Arrive, Enter,
     Authorize, Commit, CommitUnknown, RollBack, Refund, Crash, WindowEnds

QuotaTyped == /\ count \in [Tokens -> [Windows -> Nat]]
              /\ expires \subseteq Counters
              /\ spent \in [Tokens -> [Windows -> Nat]]
              /\ exact \subseteq Counters

LEMMA QuotaTypeStep ==
    ASSUME TypeOK, [Next]_vars
    PROVE  QuotaTyped'
<1>0. QuotaTyped
  BY DEF TypeOK, QuotaTyped
<1>1. CASE UNCHANGED quotaVars
  BY <1>0, <1>1 DEF quotaVars, QuotaTyped
<1>2. ASSUME NEW r \in Requests
      PROVE  request[r].token \in Tokens
  BY DEF TypeOK, RequestRow
<1>3. ASSUME NEW r \in Requests, Charge(r)
      PROVE  /\ count' \in [Tokens -> [Windows -> Nat]]
             /\ expires' \subseteq Counters
  BY <1>0, <1>2, <1>3 DEF Charge, QuotaTyped, Counters, Of
<1>4. ASSUME NEW r \in Requests, Authorize(r)
      PROVE  QuotaTyped'
  BY <1>0, <1>2, <1>3, <1>4 DEF Authorize, QuotaTyped, Counters, Of
<1>5. ASSUME NEW r \in Requests, Created(r)
      PROVE  /\ count' \in [Tokens -> [Windows -> Nat]]
             /\ expires' \subseteq Counters
             /\ spent' \in [Tokens -> [Windows -> Nat]]
  BY <1>0, <1>2, <1>5 DEF Created, QuotaTyped
<1>6. ASSUME NEW r \in Requests, Commit(r) \/ CommitUnknown(r)
      PROVE  QuotaTyped'
  BY <1>0, <1>2, <1>5, <1>6 DEF Commit, CommitUnknown, QuotaTyped, Counters, Of
<1>7. ASSUME NEW r \in Requests, Refund(r) \/ Crash(r)
      PROVE  QuotaTyped'
  <2>1. \A n \in Nat : Decrement(n) \in Nat
    BY DEF Decrement
  <2>2. CASE Refund(r)
    <3>1. count' \in [Tokens -> [Windows -> Nat]]
      BY <1>0, <1>2, <2>1, <2>2 DEF Refund, QuotaTyped
    <3>2. exact' \subseteq Counters /\ UNCHANGED <<expires, spent>>
      BY <1>0, <2>2 DEF Refund, QuotaTyped
    <3> QED
      BY <1>0, <3>1, <3>2 DEF QuotaTyped
  <2>3. CASE Crash(r)
    BY <1>0, <2>3 DEF Crash, QuotaTyped
  <2> QED
    BY <1>7, <2>2, <2>3
<1>8. ASSUME NEW k \in Tokens, NEW w \in Windows, WindowEnds(k, w)
      PROVE  QuotaTyped'
  BY <1>0, <1>8 DEF WindowEnds, QuotaTyped, Counters, Of
<1> QED
  BY <1>1, <1>4, <1>6, <1>7, <1>8 DEF vars, quotaVars, Next, Handle, Arrive, Enter,
     RollBack, Work, ResultExpires, CooldownEnds

LEMMA ApiTypeStep ==
    ASSUME TypeOK, [Next]_vars
    PROVE  TypeOK'
<1>1. request' \in [Requests -> RequestRow]
  BY RequestCases, WindowEndsChanges DEF Changes, vars, TypeOK
<1> QED
  BY <1>1, StoreTypeStep, QuotaTypeStep DEF StoreTyped, QuotaTyped, TypeOK

LEMMA ApiTypeInit == Init => TypeOK
BY DEF Init, TypeOK, ResultRow, RequestRow, Steps

\* The requests, the reduced tables and the counters keep their types; no
\* counter is ever negative, though refunds come at any time.
THEOREM ApiTypeCorrect == Spec => []TypeOK
<1>1. TypeOK /\ [Next]_vars => TypeOK'
  BY ApiTypeStep
<1> QED
  BY <1>1, ApiTypeInit, PTL DEF Spec

----------------------------------------------------------------------------
(* Creations are shared *)

(* The locks: one request at a time is inside a transaction for a target. *)
OneInside ==
    \A r, s \in Requests :
        ( /\ request[r].at \in InTransaction /\ request[s].at \in InTransaction
          /\ request[r].target = request[s].target ) => r = s

LEMMA OneInsideStep ==
    ASSUME TypeOK, OneInside, [Next]_vars
    PROVE  OneInside'
<1>1. ASSUME NEW r \in Requests, Changes(r),
             request'[r].at \in InTransaction =>
                \/ Enter(r) /\ request'[r].at = "authorizing"
                \/ Authorize(r)
      PROVE  OneInside'
  <2> SUFFICES ASSUME NEW s \in Requests, s # r,
                      request'[r].at \in InTransaction, request'[s].at \in InTransaction,
                      request'[r].target = request'[s].target
               PROVE  FALSE
    BY <1>1 DEF OneInside, Changes
  <2>1. /\ request'[s] = request[s]
        /\ request'[r].target = request[r].target
    BY <1>1 DEF Changes, InTransaction
  <2>2. CASE Enter(r)
    BY <2>1, <2>2, AnswerChanges DEF Enter, Locked
  <2>3. CASE Authorize(r)
    BY <2>1, <2>3 DEF Authorize, OneInside, InTransaction
  <2> QED
    BY <1>1, <2>2, <2>3
<1>2. ASSUME NEW k \in Tokens, NEW w \in Windows, WindowEnds(k, w)
      PROVE  OneInside'
  BY <1>2, WindowEndsChanges DEF OneInside
<1>3. CASE UNCHANGED request
  BY <1>3 DEF OneInside
<1> QED
  BY <1>1, <1>2, <1>3, RequestCases DEF vars

(* The attempt a request is about to create is missing still. *)
SharedInv == TypeOK /\ OneInside /\ CreationsAreShared

LEMMA SharedStep ==
    ASSUME SharedInv, [Next]_vars
    PROVE  CreationsAreShared'
<1>0. TypeOK /\ OneInside /\ CreationsAreShared
  BY DEF SharedInv
<1> SUFFICES ASSUME NEW s \in Requests, request'[s].at \in InTransaction
             PROVE  /\ ~Active(request[s].target, request[s].version)'
                    /\ <<request[s].target, request[s].version>>' \notin cooling'
  BY DEF CreationsAreShared
<1>1. request'[s].target = request[s].target /\ request'[s].version = request[s].version
  BY <1>0, RequestCases, WindowEndsChanges DEF Changes, InTransaction, vars
<1>2. PICK t \in Targets, v \in Versions : t = request[s].target /\ v = request[s].version
  BY <1>0 DEF TypeOK, RequestRow
<1>3. \/ request[s].at \in InTransaction
      \/ Enter(s) /\ request'[s].at = "authorizing"
  <2>1. ASSUME NEW r \in Requests, Changes(r),
               request'[r].at \in InTransaction =>
                  \/ Enter(r) /\ request'[r].at = "authorizing"
                  \/ Authorize(r)
        PROVE  <1>3!1 \/ <1>3!2
    BY <2>1 DEF Changes, Authorize, InTransaction
  <2>2. ASSUME NEW k \in Tokens, NEW w \in Windows, WindowEnds(k, w)
        PROVE  <1>3!1
    BY <1>0, <2>2, WindowEndsChanges
  <2>3. CASE UNCHANGED request
    BY <2>3
  <2> QED
    BY <1>0, <2>1, <2>2, <2>3, RequestCases DEF vars
<1>4. ~Active(t, v) /\ <<t, v>> \notin cooling
  <2>1. CASE request[s].at \in InTransaction
    BY <1>0, <1>2, <2>1 DEF CreationsAreShared
  <2>2. CASE Enter(s) /\ request'[s].at = "authorizing"
    BY <1>0, <1>2, <2>2, AnswerChanges DEF Enter
  <2> QED
    BY <1>3, <2>1, <2>2
<1>5. owner'[t] = owner[t] \/ owner'[t].status # "active"
  <2>1. ASSUME NEW r \in Requests, request[r].at = "inserting", Created(r),
               Answer(r) \/ At(r, "refunding")
        PROVE  owner'[t] = owner[t]
    <3>1. r # s /\ request[s].at \in InTransaction
      BY <1>0, <1>3, <2>1, AnswerChanges, AtChanges DEF InTransaction, Steps, Changes, Enter
    <3>2. request[r].target # t
      BY <1>0, <1>2, <2>1, <3>1 DEF OneInside, InTransaction
    <3> QED
      BY <1>0, <2>1, <3>2 DEF Created, TypeOK
  <2>2. ASSUME NEW u \in Targets, Work(u)
        PROVE  owner'[t] = owner[t] \/ owner'[t].status # "active"
    BY <1>0, <2>2 DEF Work, TypeOK, OwnerRow, NoOwner
  <2>3. CASE UNCHANGED owner
    BY <2>3
  <2> QED
    BY <2>1, <2>2, <2>3 DEF vars, storeVars, Next, Handle, Arrive, Enter, Authorize, Commit,
       CommitUnknown, RollBack, Refund, Crash, WindowEnds, ResultExpires, CooldownEnds
<1>6. <<t, v>> \in cooling' => <<t, v>> \in cooling
  <2>1. ASSUME NEW u \in Targets, Work(u)
        PROVE  <<t, v>> \in cooling' => <<t, v>> \in cooling
    <3>1. UNCHANGED request
      BY <2>1 DEF Work
    <3>2. request[s].at \in InTransaction
      BY <3>1
    <3>3. u # t
      BY <1>2, <2>1, <3>2 DEF Work, Locked
    <3> QED
      BY <2>1, <3>3 DEF Work
  <2>2. CASE cooling' \subseteq cooling
    BY <2>2
  <2> QED
    BY <2>1, <2>2 DEF vars, storeVars, Next, Handle, Arrive, Enter, Authorize, Commit,
       CommitUnknown, RollBack, Refund, Crash, Created, WindowEnds, ResultExpires,
       CooldownEnds
<1> QED
  BY <1>1, <1>2, <1>4, <1>5, <1>6 DEF Active

\* However many requests saw that work is needed, each creates only what is still
\* missing: the lock is held from the second look at the attempts to the commit,
\* across the call to Redis.
THEOREM SharedCreations == Spec => []CreationsAreShared
<1>1. Init => SharedInv
  BY ApiTypeInit DEF Init, SharedInv, OneInside, CreationsAreShared, InTransaction
<1>2. SharedInv /\ [Next]_vars => SharedInv'
  BY ApiTypeStep, OneInsideStep, SharedStep DEF SharedInv
<1>3. SharedInv => CreationsAreShared
  BY DEF SharedInv
<1> QED
  BY <1>1, <1>2, <1>3, PTL DEF Spec

----------------------------------------------------------------------------
(* The quota *)

(* Before the quota is consumed nothing is charged. *)
ChargedLate ==
    \A r \in Requests :
        request[r].at \notin {"inserting", "refunding"} => request[r].charged = {}

(* What is known of one counter. *)
Counted(k, w) ==
    /\ count[k][w] <= Limit[w]
    /\ count[k][w] # 0 => <<k, w>> \in expires
    /\ <<k, w>> \in exact => count[k][w] = spent[k][w] + Cardinality(Pending(k, w))

QuotaInv == TypeOK /\ ChargedLate /\ \A k \in Tokens, w \in Windows : Counted(k, w)

Charged(r, k, w) == request[r].token = k /\ w \in request[r].charged

LEMMA PendingFinite ==
    ASSUME NEW k, NEW w
    PROVE  IsFiniteSet(Pending(k, w)) /\ Cardinality(Pending(k, w)) \in Nat
BY ApiAssumption, FS_Subset, FS_CardinalityType DEF ApiAssumption, Pending

LEMMA PendingKept ==
    ASSUME NEW r \in Requests, Changes(r), NEW k, NEW w,
           Charged(r, k, w)' <=> Charged(r, k, w)
    PROVE  Pending(k, w)' = Pending(k, w)
BY DEF Changes, Charged, Pending

LEMMA PendingGained ==
    ASSUME NEW r \in Requests, Changes(r), NEW k, NEW w,
           ~Charged(r, k, w), Charged(r, k, w)'
    PROVE  Cardinality(Pending(k, w)') = Cardinality(Pending(k, w)) + 1
<1>1. Pending(k, w)' = Pending(k, w) \cup {r} /\ r \notin Pending(k, w)
  BY DEF Changes, Charged, Pending
<1> QED
  BY <1>1, PendingFinite, FS_AddElement

LEMMA PendingLost ==
    ASSUME NEW r \in Requests, Changes(r), NEW k, NEW w,
           Charged(r, k, w), ~Charged(r, k, w)'
    PROVE  Cardinality(Pending(k, w)') = Cardinality(Pending(k, w)) - 1
<1>1. Pending(k, w)' = Pending(k, w) \ {r} /\ r \in Pending(k, w)
  BY DEF Changes, Charged, Pending
<1> QED
  BY <1>1, PendingFinite, FS_RemoveElement

LEMMA ChargedLateStep ==
    ASSUME TypeOK, ChargedLate, [Next]_vars
    PROVE  ChargedLate'
<1>1. ASSUME NEW r \in Requests,
             \/ \E k \in Tokens, t \in Targets, v \in Versions : Arrive(r, k, t, v)
             \/ Handle(r) \/ Crash(r)
      PROVE  /\ Changes(r)
             /\ request'[r].at \notin {"inserting", "refunding"} =>
                   request'[r].charged = {}
  <2>1. CASE \E k \in Tokens, t \in Targets, v \in Versions : Arrive(r, k, t, v)
    BY <2>1, ArriveChanges
  <2>2. CASE Answer(r)
    BY <2>2, AnswerChanges
  <2>3. CASE At(r, "refunding")
    BY <2>3, AtChanges DEF Steps
  <2>4. CASE Pay(r)
    BY <2>4, PayChanges
  <2>5. CASE At(r, "authorizing") /\ Enter(r)
    BY <2>5, AtChanges DEF Steps, InTransaction, Enter, ChargedLate
  <2> QED
    BY <1>1, <2>1, <2>2, <2>3, <2>4, <2>5 DEF Handle, Enter, Authorize, Commit,
       CommitUnknown, RollBack, Refund, Crash
<1>2. ASSUME NEW k \in Tokens, NEW w \in Windows, WindowEnds(k, w)
      PROVE  ChargedLate'
  BY <1>2, WindowEndsChanges DEF ChargedLate
<1>3. CASE UNCHANGED request
  BY <1>3 DEF ChargedLate
<1> QED
  BY <1>1, <1>2, <1>3 DEF ChargedLate, Changes, Next, vars, Work, ResultExpires, CooldownEnds

(* The ways a request changes a counter. *)
LEMMA ArriveCounted ==
    ASSUME QuotaInv, NEW k \in Tokens, NEW w \in Windows, NEW r \in Requests,
           \/ \E l \in Tokens, t \in Targets, v \in Versions : Arrive(r, l, t, v)
           \/ Enter(r)
           \/ RollBack(r)
    PROVE  Counted(k, w)'
<1>0. TypeOK /\ ChargedLate /\ Counted(k, w)
  BY DEF QuotaInv
<1>1. UNCHANGED <<count, expires, spent, exact>>
  BY DEF Arrive, Enter, RollBack, quotaVars
<1>2. Pending(k, w)' = Pending(k, w)
  <2>1. CASE \E l \in Tokens, t \in Targets, v \in Versions : Arrive(r, l, t, v)
    <3>1. request[r].charged = {} /\ request'[r].charged = {} /\ Changes(r)
      BY <1>0, <2>1, ArriveChanges DEF Arrive, ChargedLate
    <3> QED
      BY <3>1, PendingKept DEF Charged
  <2>2. CASE Enter(r)
    <3>1. request[r].charged = {} /\ request'[r].charged = {} /\ Changes(r)
      BY <1>0, <2>2, AnswerChanges, AtChanges DEF Enter, ChargedLate, Steps, InTransaction
    <3> QED
      BY <3>1, PendingKept DEF Charged
  <2>3. CASE RollBack(r)
    <3>1. /\ request'[r].charged = request[r].charged /\ Changes(r)
          /\ request'[r].at = "refunding"
      BY <1>0, <2>3, AtChanges DEF RollBack, Steps
    <3> QED
      BY <3>1, PendingKept DEF Charged, Changes
  <2> QED
    BY <2>1, <2>2, <2>3
<1> QED
  BY <1>0, <1>1, <1>2 DEF Counted

(* The script counts in both windows or in none and starts the time to live. *)
LEMMA ChargeCounts ==
    ASSUME QuotaInv, NEW k \in Tokens, NEW w \in Windows, NEW r \in Requests, Charge(r)
    PROVE  /\ request[r].token = k => count'[k][w] = count[k][w] + 1
           /\ request[r].token # k => count'[k][w] = count[k][w]
           /\ count'[k][w] \in Nat /\ count'[k][w] <= Limit[w]
           /\ count'[k][w] # 0 => <<k, w>> \in expires'
<1>0. /\ count \in [Tokens -> [Windows -> Nat]] /\ Counted(k, w)
      /\ request[r].token \in Tokens /\ Limit[w] \in Nat
  BY ApiAssumption DEF QuotaInv, TypeOK, RequestRow, ApiAssumption
<1>1. /\ request[r].token = k => count'[k][w] = count[k][w] + 1
      /\ request[r].token # k => count'[k][w] = count[k][w]
  BY <1>0 DEF Charge
<1>2. count'[k][w] \in Nat /\ count[k][w] \in Nat
  BY <1>0, <1>1
<1>3. request[r].token = k => count[k][w] < Limit[w]
  BY <1>0, <1>2 DEF Charge, Full
<1>4. request[r].token = k /\ count'[k][w] = 1 => <<k, w>> \in expires'
  BY DEF Charge, Of
<1>5. expires \subseteq expires'
  BY DEF Charge
<1> QED
  BY <1>0, <1>1, <1>2, <1>3, <1>4, <1>5 DEF Counted

LEMMA AuthorizeCounted ==
    ASSUME QuotaInv, NEW k \in Tokens, NEW w \in Windows, NEW r \in Requests, Authorize(r)
    PROVE  Counted(k, w)'
<1>0. /\ TypeOK /\ Counted(k, w) /\ request[r].charged = {} /\ UNCHANGED spent
      /\ count[k][w] \in Nat /\ spent[k][w] \in Nat
  BY DEF QuotaInv, ChargedLate, Authorize, TypeOK
<1>1. CASE Charge(r) /\ Pay(r) /\ UNCHANGED exact
  <2>1. Changes(r) /\ request'[r].charged = Windows /\ request'[r].token = request[r].token
    BY <1>0, <1>1, PayChanges DEF Changes
  <2>2. CASE request[r].token = k
    <3>1. Cardinality(Pending(k, w)') = Cardinality(Pending(k, w)) + 1
      BY <1>0, <2>1, <2>2, PendingGained DEF Charged
    <3>2. count'[k][w] = count[k][w] + 1
      BY <1>1, <2>2, ChargeCounts
    <3> QED
      BY <1>0, <1>1, <3>1, <3>2, ChargeCounts, PendingFinite DEF Counted
  <2>3. CASE request[r].token # k
    <3>1. Pending(k, w)' = Pending(k, w)
      BY <2>1, <2>3, PendingKept DEF Charged
    <3>2. count'[k][w] = count[k][w]
      BY <1>1, <2>3, ChargeCounts
    <3> QED
      BY <1>0, <1>1, <3>1, <3>2, ChargeCounts DEF Counted
  <2> QED
    BY <2>2, <2>3
<1>2. CASE Answer(r)
  <2>1. Pending(k, w)' = Pending(k, w)
    BY <1>0, <1>2, AnswerChanges, PendingKept DEF Charged
  <2>2. CASE UNCHANGED <<count, expires, exact>>
    BY <1>0, <2>1, <2>2 DEF Counted
  <2>3. CASE Charge(r) /\ exact' = exact \ Of(request[r].token, Windows)
    <3>1. CASE request[r].token = k
      <4>1. <<k, w>> \notin exact'
        BY <2>3, <3>1 DEF Of
      <4> QED
        BY <2>3, <4>1, ChargeCounts DEF Counted
    <3>2. CASE request[r].token # k
      <4>1. count'[k][w] = count[k][w] /\ (<<k, w>> \in exact' => <<k, w>> \in exact)
        BY <2>3, <3>2, ChargeCounts
      <4> QED
        BY <1>0, <2>1, <2>3, <4>1, ChargeCounts DEF Counted
    <3> QED
      BY <3>1, <3>2
  <2> QED
    BY <1>2, <2>2, <2>3, PayChanges, AnswerChanges, <1>0 DEF Authorize
<1> QED
  BY <1>1, <1>2 DEF Authorize

(* A commit moves the request from the pending to the created. *)
LEMMA CommitCounted ==
    ASSUME QuotaInv, NEW k \in Tokens, NEW w \in Windows, NEW r \in Requests,
           Commit(r) \/ CommitUnknown(r)
    PROVE  Counted(k, w)'
<1>0. /\ TypeOK /\ Counted(k, w) /\ UNCHANGED <<count, expires>>
      /\ count[k][w] \in Nat /\ spent[k][w] \in Nat
      /\ request[r].token \in Tokens
  BY DEF QuotaInv, TypeOK, RequestRow, Commit, CommitUnknown, Created
<1>1. spent'[k][w] = IF Charged(r, k, w) THEN spent[k][w] + 1 ELSE spent[k][w]
  BY <1>0 DEF Commit, CommitUnknown, Created, Charged, TypeOK
<1>2. CASE Commit(r)
  <2>1. Changes(r) /\ ~Charged(r, k, w)' /\ UNCHANGED exact
    BY <1>0, <1>2, AnswerChanges DEF Commit, Charged
  <2>2. CASE Charged(r, k, w)
    <3>1. Cardinality(Pending(k, w)') = Cardinality(Pending(k, w)) - 1
      BY <2>1, <2>2, PendingLost
    <3> QED
      BY <1>0, <1>1, <2>1, <2>2, <3>1, PendingFinite DEF Counted
  <2>3. CASE ~Charged(r, k, w)
    <3>1. Pending(k, w)' = Pending(k, w)
      BY <2>1, <2>3, PendingKept
    <3> QED
      BY <1>0, <1>1, <2>1, <2>3, <3>1 DEF Counted
  <2> QED
    BY <2>2, <2>3
<1>3. CASE CommitUnknown(r)
  <2>1. /\ Changes(r) /\ request'[r].charged = request[r].charged
        /\ request'[r].at = "refunding"
    BY <1>0, <1>3, AtChanges DEF CommitUnknown, Steps
  <2>2. Pending(k, w)' = Pending(k, w)
    BY <2>1, PendingKept DEF Changes, Charged
  <2>3. <<k, w>> \in exact' => <<k, w>> \in exact /\ ~Charged(r, k, w)
    BY <1>3 DEF CommitUnknown, Charged, Of
  <2> QED
    BY <1>0, <1>1, <2>2, <2>3 DEF Counted
<1> QED
  BY <1>2, <1>3

(* A refund of a charge that still counts takes back what it added. *)
LEMMA RefundCounted ==
    ASSUME QuotaInv, NEW k \in Tokens, NEW w \in Windows, NEW r \in Requests,
           Refund(r) \/ Crash(r)
    PROVE  Counted(k, w)'
<1>0. /\ TypeOK /\ Counted(k, w) /\ UNCHANGED <<expires, spent>>
      /\ count[k][w] \in Nat /\ spent[k][w] \in Nat
      /\ request[r].token \in Tokens /\ count \in [Tokens -> [Windows -> Nat]]
      /\ Limit[w] \in Nat
  BY ApiAssumption DEF QuotaInv, TypeOK, RequestRow, Refund, Crash, ApiAssumption
<1>1. Changes(r) /\ ~Charged(r, k, w)'
  BY <1>0, AnswerChanges DEF Refund, Crash, Charged
<1>2. CASE /\ UNCHANGED count
           /\ exact' = exact \ Of(request[r].token, request[r].charged)
  <2>1. CASE Charged(r, k, w)
    <3>1. <<k, w>> \notin exact'
      BY <1>2, <2>1 DEF Charged, Of
    <3> QED
      BY <1>0, <1>2, <3>1 DEF Counted
  <2>2. CASE ~Charged(r, k, w)
    <3>1. Pending(k, w)' = Pending(k, w) /\ (<<k, w>> \in exact' => <<k, w>> \in exact)
      BY <1>1, <1>2, <2>2, PendingKept
    <3> QED
      BY <1>0, <1>2, <3>1 DEF Counted
  <2> QED
    BY <2>1, <2>2
<1>3. CASE /\ count' = [count EXCEPT ![request[r].token] =
                          [x \in Windows |-> Decrement(@[x])]]
           /\ exact' = exact \ Of(request[r].token,
                                  {x \in Windows \ request[r].charged :
                                      count[request[r].token][x] > 0})
  <2>0. <<k, w>> \in exact' => <<k, w>> \in exact
    BY <1>3
  <2>1. CASE request[r].token # k
    <3>1. count'[k][w] = count[k][w] /\ Pending(k, w)' = Pending(k, w)
      BY <1>0, <1>1, <1>3, <2>1, PendingKept DEF Charged
    <3> QED
      BY <1>0, <2>0, <3>1 DEF Counted
  <2>2. CASE request[r].token = k
    <3>1. count'[k][w] = IF count[k][w] > 0 THEN count[k][w] - 1 ELSE count[k][w]
      BY <1>0, <1>3, <2>2 DEF Decrement
    <3>2. count'[k][w] <= Limit[w] /\ (count'[k][w] # 0 => <<k, w>> \in expires')
      BY <1>0, <3>1 DEF Counted
    <3>3. CASE w \in request[r].charged
      <4>1. Cardinality(Pending(k, w)') = Cardinality(Pending(k, w)) - 1
        BY <1>1, <2>2, <3>3, PendingLost DEF Charged
      <4>2. Cardinality(Pending(k, w)') \in Nat
        <5>1. Pending(k, w)' \subseteq Requests
          BY DEF Pending
        <5> QED
          BY <5>1, ApiAssumption, FS_Subset, FS_CardinalityType DEF ApiAssumption
      <4> QED
        BY <1>0, <2>0, <3>1, <3>2, <4>1, <4>2, PendingFinite DEF Counted
    <3>4. CASE w \notin request[r].charged
      <4>1. Pending(k, w)' = Pending(k, w)
        BY <1>1, <3>4, PendingKept DEF Charged
      <4>2. <<k, w>> \in exact' => count[k][w] = 0
        BY <1>0, <1>3, <2>2, <3>4 DEF Of
      <4> QED
        BY <1>0, <2>0, <3>1, <3>2, <4>1, <4>2 DEF Counted
    <3> QED
      BY <3>3, <3>4
  <2> QED
    BY <2>1, <2>2
<1> QED
  BY <1>2, <1>3 DEF Refund, Crash

LEMMA WindowEndsCounted ==
    ASSUME QuotaInv, NEW k \in Tokens, NEW w \in Windows,
           NEW l \in Tokens, NEW x \in Windows, WindowEnds(l, x)
    PROVE  Counted(k, w)'
<1>0. /\ TypeOK /\ Counted(k, w) /\ Limit[w] \in Nat
      /\ count \in [Tokens -> [Windows -> Nat]] /\ spent \in [Tokens -> [Windows -> Nat]]
  BY ApiAssumption DEF QuotaInv, TypeOK, ApiAssumption
<1>1. ASSUME NEW r \in Requests
      PROVE  /\ request'[r].token = request[r].token
             /\ request'[r].charged = IF request[r].token = l
                                      THEN request[r].charged \ {x}
                                      ELSE request[r].charged
  BY <1>0, WindowEndsChanges
<1>2. CASE k = l /\ w = x
  <2>1. count'[k][w] = 0 /\ spent'[k][w] = 0
    BY <1>0, <1>2 DEF WindowEnds
  <2>2. Pending(k, w)' = {}
    BY <1>1, <1>2 DEF Pending
  <2> QED
    BY <1>0, <2>1, <2>2, FS_EmptySet DEF Counted
<1>3. CASE k # l \/ w # x
  <2>1. count'[k][w] = count[k][w] /\ spent'[k][w] = spent[k][w]
    BY <1>0, <1>3 DEF WindowEnds
  <2>2. Pending(k, w)' = Pending(k, w)
    BY <1>1, <1>3 DEF Pending
  <2>3. /\ <<k, w>> \in exact' <=> <<k, w>> \in exact
        /\ <<k, w>> \in expires' <=> <<k, w>> \in expires
    BY <1>3 DEF WindowEnds
  <2> QED
    BY <1>0, <2>1, <2>2, <2>3 DEF Counted
<1> QED
  BY <1>2, <1>3

LEMMA QuotaStep ==
    ASSUME QuotaInv, [Next]_vars
    PROVE  QuotaInv'
<1>1. TypeOK' /\ ChargedLate'
  BY ApiTypeStep, ChargedLateStep DEF QuotaInv
<1> SUFFICES ASSUME NEW k \in Tokens, NEW w \in Windows
             PROVE  Counted(k, w)'
  BY <1>1 DEF QuotaInv
<1>2. CASE UNCHANGED <<request, quotaVars>>
  <2>1. Counted(k, w)
    BY DEF QuotaInv
  <2> QED
    BY <1>2, <2>1 DEF Counted, Pending, quotaVars
<1>3. ASSUME NEW r \in Requests, Handle(r)
      PROVE  Counted(k, w)'
  BY <1>3, ArriveCounted, AuthorizeCounted, CommitCounted, RefundCounted DEF Handle
<1> QED
  BY <1>2, <1>3, ArriveCounted, RefundCounted, WindowEndsCounted
     DEF Next, vars, quotaVars, Work, ResultExpires, CooldownEnds

LEMMA QuotaInit == Init => QuotaInv
<1> SUFFICES ASSUME Init
             PROVE  QuotaInv
  OBVIOUS
<1>1. ASSUME NEW r \in Requests
      PROVE  request[r].charged = {}
  BY DEF Init
<1>2. ASSUME NEW k \in Tokens, NEW w \in Windows
      PROVE  Counted(k, w)
  <2>1. Pending(k, w) = {}
    BY <1>1 DEF Pending
  <2> QED
    BY <2>1, FS_EmptySet, ApiAssumption DEF Init, Counted, ApiAssumption
<1> QED
  BY <1>1, <1>2, ApiTypeInit DEF QuotaInv, ChargedLate

LEMMA QuotaInvHolds == Spec => []QuotaInv
BY QuotaInit, QuotaStep, PTL DEF Spec

\* What a window counts is what was created in it and what may be created still,
\* however many requests are refused, rolled back and refunded, unless a call
\* failed without an answer or a refund came after its window.
THEOREM QuotaIsAccounted == Spec => []QuotaAccounted
<1>1. QuotaInv => QuotaAccounted
  BY DEF QuotaInv, Counted, QuotaAccounted
<1> QED
  BY <1>1, QuotaInvHolds, PTL

\* No such window admits more creations than its limit.
THEOREM QuotaIsKept == Spec => []QuotaHolds
<1>1. ASSUME QuotaInv, NEW k \in Tokens, NEW w \in Windows, <<k, w>> \in exact
      PROVE  spent[k][w] <= Limit[w]
  <2>1. /\ count[k][w] <= Limit[w] /\ Limit[w] \in Nat
        /\ count[k][w] = spent[k][w] + Cardinality(Pending(k, w))
        /\ spent[k][w] \in Nat
    BY <1>1, ApiAssumption DEF QuotaInv, Counted, TypeOK, ApiAssumption
  <2> QED
    BY <2>1, PendingFinite
<1>2. QuotaInv => QuotaHolds
  BY <1>1 DEF QuotaHolds
<1> QED
  BY <1>2, QuotaInvHolds, PTL

\* Refunds at any time included, a counter that is not zero always expires.
THEOREM CountersAlwaysExpire == Spec => []CountersExpire
<1>1. QuotaInv => CountersExpire
  BY DEF QuotaInv, Counted, CountersExpire
<1> QED
  BY <1>1, QuotaInvHolds, PTL
=============================================================================
