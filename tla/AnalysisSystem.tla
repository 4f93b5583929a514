--------------------------- MODULE AnalysisSystem ---------------------------
(***************************************************************************)
(* The processes around AnalysisStore: the API's create request, the       *)
(* dispatcher (dispatch_forever and reconcile_forever, one process), the   *)
(* Redis stream with its consumer group, and the workers of                *)
(* workers/runner.py running workers/pipeline.py.  Processes crash between *)
(* any two steps, Redis may lose its keys, and a commit may succeed without *)
(* the caller learning of it.                                              *)
(***************************************************************************)
EXTENDS AnalysisStore, Sequences

CONSTANTS
    Workers,       \* the worker processes: the consumers of the group
    MaxUnread      \* bound: entries of the stream not yet given to a consumer

ASSUME SystemAssumption == MaxUnread \in Nat

VARIABLES
    stream,     \* the entries of "analysis-attempts" no consumer has been given
    batch,      \* rows of dispatch_batch's SELECT it has not published yet
    published,  \* rows it has published and not committed as delivered
    worker,     \* what run_once of each worker is doing, and its claim
    lost        \* history: an entry was lost, with Redis or with a worker

systemVars == <<storeVars, stream, batch, published, worker, lost>>
dispatcherVars == <<batch, published>>

\* DispatchMessage: the fields of a stream entry.
Message == [attempt: Attempts, generation: Nat, epoch: Nat]
MessageOf(r) == [attempt |-> r.attempt, generation |-> r.generation,
                 epoch |-> r.epoch]

\* read      the entry is in hand, claim_attempt has not been called
\* loading   the material loader runs (status fetching)
\* detecting start_analyzing succeeded; up to complete_attempt
\* failing   run_analysis raised, fail_attempt has not been called
\* idle      before xreadgroup; a restarted process
Busy == {"loading", "detecting", "failing"}
NoClaim == [attempt |-> NoAttempt, generation |-> 0, epoch |-> 0]
WorkerState == [doing: {"idle", "read"} \cup Busy,
                claim: Message \cup {NoClaim},
                beating: BOOLEAN]   \* the heartbeat task runs
Idle == [doing |-> "idle", claim |-> NoClaim, beating |-> FALSE]

SystemTypeOK ==
    /\ TypeOK
    /\ stream \in Seq(Message) /\ Len(stream) <= MaxUnread
    /\ batch \subseteq outbox /\ published \subseteq outbox
    /\ worker \in [Workers -> WorkerState]
    /\ lost \in BOOLEAN

SystemInit ==
    /\ Init
    /\ stream = <<>>
    /\ batch = {} /\ published = {}
    /\ worker = [w \in Workers |-> Idle]
    /\ lost = FALSE

----------------------------------------------------------------------------
(* API and time *)

RequestAnalysis(t, v, a, now) ==
    CreateAttempt(t, v, a, now) /\ UNCHANGED <<stream, dispatcherVars, worker, lost>>

TimePasses == Tick /\ UNCHANGED <<stream, dispatcherVars, worker, lost>>

----------------------------------------------------------------------------
(* The dispatcher process *)

\* dispatch_batch opens its transaction and locks the undelivered rows.
SelectBatch ==
    /\ batch = {} /\ published = {}
    /\ outbox # delivered
    /\ batch' = outbox \ delivered
    /\ UNCHANGED <<storeVars, stream, published, worker, lost>>

\* XADD of the oldest row: not undone if the transaction is.
Publish(r) ==
    /\ r \in batch
    /\ \A s \in batch : r.created <= s.created
    /\ Len(stream) < MaxUnread
    /\ stream' = Append(stream, MessageOf(r))
    /\ batch' = batch \ {r}
    /\ published' = published \cup {r}
    /\ UNCHANGED <<storeVars, worker, lost>>

\* Mutant: the UPDATE is not restricted to the event it published.
CommitBatchAllRows ==
    /\ batch = {} /\ published # {}
    /\ MarkDelivered(outbox)
    /\ published' = {}
    /\ UNCHANGED <<stream, batch, worker, lost>>

CommitBatch ==
    /\ batch = {}
    /\ MarkDelivered(published)
    /\ published' = {}
    /\ UNCHANGED <<stream, batch, worker, lost>>

ReconcilePass(now, Q, R) ==
    Reconcile(now, Q, R) /\ UNCHANGED <<stream, dispatcherVars, worker, lost>>

\* An exception in either loop or the end of the process: dispatch_batch's
\* transaction rolls back, the published entries stay in the stream.
DispatcherCrash ==
    /\ batch \cup published # {}
    /\ batch' = {} /\ published' = {}
    /\ UNCHANGED <<storeVars, stream, worker, lost>>

\* Redis restarts without its keys: stream and consumer group are gone, and
\* ensure_group makes them anew.
RedisLosesKeys ==
    /\ stream # <<>>
    /\ stream' = <<>>
    /\ lost' = TRUE
    /\ UNCHANGED <<storeVars, dispatcherVars, worker>>

----------------------------------------------------------------------------
(* A worker *)

WorkerStep(w, state) == /\ worker' = [worker EXCEPT ![w] = state]
                        /\ UNCHANGED dispatcherVars

\* xreadgroup ">" count 1: entries are given out once and never read again.
Read(w) ==
    /\ worker[w].doing = "idle"
    /\ stream # <<>>
    /\ stream' = Tail(stream)
    /\ WorkerStep(w, [doing |-> "read", claim |-> Head(stream), beating |-> FALSE])
    /\ UNCHANGED <<storeVars, lost>>

\* claim_attempt; None acknowledges the entry and ends run_once.
TryClaim(w) ==
    LET m == worker[w].claim
    IN  /\ worker[w].doing = "read"
        /\ \/ /\ ClaimAttempt(m.attempt, m.generation, m.epoch)
              /\ WorkerStep(w, [doing |-> "loading", claim |-> m, beating |-> TRUE])
           \/ /\ ~Claimable(m.attempt, m.generation, m.epoch)
              /\ WorkerStep(w, Idle)
              /\ UNCHANGED storeVars
        /\ UNCHANGED <<stream, lost>>

\* One round of the heartbeat task, which ends when the lease is not renewed
\* or, silently, when the call raises; run_analysis goes on either way.
Beat(w) ==
    LET m == worker[w].claim
    IN  /\ worker[w].doing \in Busy
        /\ worker[w].beating
        /\ \/ /\ Heartbeat(m.attempt, m.generation)
              /\ UNCHANGED <<worker, dispatcherVars>>
           \/ /\ WorkerStep(w, [worker[w] EXCEPT !.beating = FALSE])
              /\ UNCHANGED storeVars
        /\ UNCHANGED <<stream, lost>>

\* The materials are loaded: start_analyzing, whose refusal ends run_analysis.
Analyze(w) ==
    LET m == worker[w].claim
    IN  /\ worker[w].doing = "loading"
        /\ \/ /\ StartAnalyzing(m.attempt, m.generation)
              /\ WorkerStep(w, [worker[w] EXCEPT !.doing = "detecting"])
           \/ /\ ~MayAnalyze(m.attempt, m.generation)
              /\ WorkerStep(w, Idle)
              /\ UNCHANGED storeVars
        /\ UNCHANGED <<stream, lost>>

\* The workspace is removed and complete_attempt called: committed, committed
\* with the answer lost (run_analysis raises), or refused.
Complete(w) ==
    LET m == worker[w].claim
    IN  /\ worker[w].doing = "detecting"
        /\ \/ /\ CompleteAttempt(m.attempt, m.generation)
              /\ \/ WorkerStep(w, Idle)
                 \/ WorkerStep(w, [worker[w] EXCEPT !.doing = "failing"])
           \/ /\ ~MayComplete(m.attempt, m.generation)
              /\ WorkerStep(w, Idle)
              /\ UNCHANGED storeVars
        /\ UNCHANGED <<stream, lost>>

\* The loader, the cleanup, a database call or the job timeout raises.
Raise(w) ==
    /\ worker[w].doing \in {"loading", "detecting"}
    /\ WorkerStep(w, [worker[w] EXCEPT !.doing = "failing"])
    /\ UNCHANGED <<storeVars, stream, lost>>

\* fail_attempt; when it is refused the entry is not even acknowledged.
Fail(w) ==
    LET m == worker[w].claim
    IN  /\ worker[w].doing = "failing"
        /\ \/ \E now \in ProcessClock :
                 FailAttempt(m.attempt, m.generation, now + FailureCooldown)
           \/ /\ ~HoldsLease(m.attempt, m.generation)
              /\ UNCHANGED storeVars
        /\ WorkerStep(w, Idle)
        /\ UNCHANGED <<stream, lost>>

\* The process ends, on its own or on an exception of Redis, claim_attempt or
\* fail_attempt, and is started again; what it had read is not read again.
WorkerCrash(w) ==
    /\ worker[w].doing # "idle"
    /\ WorkerStep(w, Idle)
    /\ lost' = (lost \/ worker[w].doing = "read")
    /\ UNCHANGED <<storeVars, stream>>

----------------------------------------------------------------------------
DispatcherNext ==
    \/ SelectBatch
    \/ \E r \in batch : Publish(r)
    \/ CommitBatch
    \/ \E now \in ProcessClock, Q \in SUBSET Attempts, R \in SUBSET Attempts :
          ReconcilePass(now, Q, R)
    \/ DispatcherCrash

WorkerNext(w) ==
    \/ Read(w) \/ TryClaim(w) \/ Beat(w) \/ Analyze(w)
    \/ Complete(w) \/ Raise(w) \/ Fail(w) \/ WorkerCrash(w)

SystemNext ==
    \/ \E t \in Targets, v \in Versions, a \in Attempts, now \in ProcessClock :
          RequestAnalysis(t, v, a, now)
    \/ TimePasses
    \/ DispatcherNext
    \/ RedisLosesKeys
    \/ \E w \in Workers : WorkerNext(w)

SystemSpec == SystemInit /\ [][SystemNext]_systemVars

----------------------------------------------------------------------------
(* Properties *)

\* Two workers never both hold the lease of a target, for the same attempt or
\* for different ones, though entries are published twice, redispatched and
\* read late, and a worker that lost its lease goes on working.
OneLeaseHolder ==
    \A w, x \in Workers :
        LET m == worker[w].claim  n == worker[x].claim
        IN  ( /\ w # x
              /\ worker[w].doing \in Busy /\ worker[x].doing \in Busy
              /\ HoldsLease(m.attempt, m.generation)
              /\ HoldsLease(n.attempt, n.generation) )
            => attempt[m.attempt].target # attempt[n.attempt].target

\* Unless Redis loses its keys or a worker dies with an entry in hand, a queued
\* attempt never depends on the dispatch timeout: its row is undelivered, or an
\* entry with its present key is unread or about to be claimed.  Entries of older
\* keys, refused and acknowledged, are never the only ones.
NothingDropped ==
    \A a \in Attempts :
        attempt[a].status = "queued" /\ ~lost =>
            \/ \E r \in outbox \ delivered :
                  r \in RowsOf(a) /\ r.epoch = attempt[a].epoch
            \/ LET key == [attempt |-> a, generation |-> attempt[a].generation,
                           epoch |-> attempt[a].epoch]
               IN  \/ \E i \in 1 .. Len(stream) : stream[i] = key
                   \/ \E w \in Workers :
                         worker[w].doing = "read" /\ worker[w].claim = key

\* The reconciler took the worker's generation away, or a request for another
\* version gave the target to another attempt.
Late(w) ==
    LET m == worker[w].claim
    IN  /\ worker[w].doing \in Busy
        /\ \/ m.generation < attempt[m.attempt].generation
           \/ target[attempt[m.attempt].target].owner # m.attempt

\* A late worker, reclaimed or superseded, changes no table any more: run_analysis
\* does not notice and goes on to the end, but neither its heartbeats nor
\* start_analyzing, complete_attempt or fail_attempt touch the attempt, the lease
\* or the result of whoever works now.
LateWorkersChangeNothing ==
    [][\A w \in Workers :
          Late(w) /\ WorkerNext(w) => UNCHANGED storeVars]_systemVars
=============================================================================
