-------------------------- MODULE AttemptRecovery --------------------------
(***************************************************************************)
(* Liveness of one analysis attempt through the outbox, the Redis stream,  *)
(* the workers and the reconciler, whatever crashes or is lost.  The steps *)
(* are those of AnalysisSystem for the attempt that owns a target; what    *)
(* grows without bound there is kept relative to the present here: a row,  *)
(* an entry or a claim is "current" while it carries the attempt's         *)
(* generation and dispatch epoch, and "stale" from the next increment on;  *)
(* a lease or the dispatch timeout is running or over.  So every execution *)
(* may go on for ever and TLC sees it whole.                               *)
(***************************************************************************)
EXTENDS Integers, Sequences

CONSTANTS
    Workers,
    MaxFaults,     \* bound: crashes and losses; after them nothing fails again
    MaxUnread      \* bound: entries of the stream no worker was given

ASSUME RecoveryAssumption == MaxFaults \in Nat /\ MaxUnread \in Nat \ {0}

VARIABLES
    status,    \* analysis_attempt.status
    lease,     \* "none", "running" or "over"
    due,       \* the newest outbox row is older than the dispatch timeout
    pending,   \* kinds of the outbox rows whose delivered_at is NULL
    sending,   \* the row dispatch_batch published and has not committed, or "none"
    stream,    \* kinds of the entries no worker was given
    worker,    \* doing, kind of its entry or claim, heartbeat task running
    faults     \* the faults that happened

vars == <<status, lease, due, pending, sending, stream, worker, faults>>

Kinds == {"current", "stale"}
Running == {"fetching", "analyzing"}
Terminal == {"completed", "failed"}
Busy == {"loading", "detecting", "failing"}

TypeOK ==
    /\ status \in {"queued"} \cup Running \cup Terminal
    /\ lease \in {"none", "running", "over"}
    /\ due \in BOOLEAN
    /\ pending \subseteq Kinds
    /\ sending \in {"none"} \cup Kinds
    /\ stream \in Seq(Kinds) /\ Len(stream) <= MaxUnread
    /\ worker \in [Workers -> [doing: {"idle", "read"} \cup Busy,
                               kind: Kinds, beating: BOOLEAN]]
    /\ faults \in 0 .. MaxFaults

Idle == [doing |-> "idle", kind |-> "stale", beating |-> FALSE]

\* create_or_reuse_attempt has committed.
Init ==
    /\ status = "queued" /\ lease = "none" /\ due = FALSE
    /\ pending = {"current"} /\ sending = "none" /\ stream = <<>>
    /\ worker = [w \in Workers |-> Idle]
    /\ faults = 0

Fault == faults < MaxFaults /\ faults' = faults + 1

----------------------------------------------------------------------------
(* Time.  The two guards are the only timing assumed: while nothing stands  *)
(* still, a row is published, read by an idle worker and claimed well within *)
(* the 300 s dispatch timeout, and a running heartbeat task, every 20 s,    *)
(* keeps a 60 s lease from running out.                                     *)

OnItsWay ==
    \/ "current" \in pending
    \/ \E w \in Workers :
          \/ worker[w].doing = "read" /\ worker[w].kind = "current"
          \/ /\ worker[w].doing \in {"idle", "read"}
             /\ \E i \in 1 .. Len(stream) : stream[i] = "current"

DispatchTimeoutPasses ==
    /\ status = "queued" /\ ~due
    /\ ~OnItsWay /\ Len(stream) < MaxUnread
    /\ due' = TRUE
    /\ UNCHANGED <<status, lease, pending, sending, stream, worker, faults>>

\* The dispatcher, Redis or the workers stand still for longer than the timeout:
\* created_at, not delivered_at, is what makes a row old.
Outage ==
    /\ status = "queued" /\ ~due /\ Fault
    /\ due' = TRUE
    /\ UNCHANGED <<status, lease, pending, sending, stream, worker>>

Renewed == \E w \in Workers : /\ worker[w].doing \in Busy
                              /\ worker[w].kind = "current" /\ worker[w].beating

LeaseRunsOut ==
    /\ status \in Running /\ lease = "running" /\ ~Renewed
    /\ lease' = "over"
    /\ UNCHANGED <<status, due, pending, sending, stream, worker, faults>>

----------------------------------------------------------------------------
(* The dispatcher process *)

Publish(k) ==
    /\ sending = "none" /\ k \in pending
    /\ Len(stream) < MaxUnread
    /\ stream' = Append(stream, k) /\ sending' = k
    /\ UNCHANGED <<status, lease, due, pending, worker, faults>>

CommitDelivered ==
    /\ sending # "none"
    /\ pending' = pending \ {sending} /\ sending' = "none"
    /\ UNCHANGED <<status, lease, due, stream, worker, faults>>

DispatcherCrash ==
    /\ sending # "none" /\ Fault
    /\ sending' = "none"
    /\ UNCHANGED <<status, lease, due, pending, stream, worker>>

\* Mutant: workers may go on under the claim they have.
NewKeyKeepsClaims ==
    /\ pending' = {"current"} \cup (IF pending = {} THEN {} ELSE {"stale"})
    /\ sending' = IF sending = "none" THEN "none" ELSE "stale"
    /\ stream' = [i \in 1 .. Len(stream) |-> "stale"]
    /\ due' = FALSE
    /\ UNCHANGED worker

\* The generation or the epoch goes up and a row with the new key is inserted:
\* whatever carries the old key is stale from here on.
NewKey ==
    /\ pending' = {"current"} \cup (IF pending = {} THEN {} ELSE {"stale"})
    /\ sending' = IF sending = "none" THEN "none" ELSE "stale"
    /\ stream' = [i \in 1 .. Len(stream) |-> "stale"]
    /\ worker' = [w \in Workers |-> [worker[w] EXCEPT !.kind = "stale"]]
    /\ due' = FALSE

\* Mutant: an attempt whose row was delivered is not redispatched.
UndispatchedIfNeverDelivered ==
    status = "queued" /\ due /\ "current" \in pending

Undispatched == status = "queued" /\ due /\ "current" \notin pending

Redispatch == Undispatched /\ NewKey /\ UNCHANGED <<status, lease, faults>>

Expired == status \in Running /\ lease = "over"

Reclaim ==
    /\ Expired
    /\ status' = "queued" /\ lease' = "none"
    /\ NewKey
    /\ UNCHANGED faults

\* The stream is lost with the other keys of Redis.
RedisLosesKeys ==
    /\ stream # <<>> /\ Fault
    /\ stream' = <<>>
    /\ UNCHANGED <<status, lease, due, pending, sending, worker>>

----------------------------------------------------------------------------
(* A worker *)

Becomes(w, state) == worker' = [worker EXCEPT ![w] = state]

HoldsLease(w) ==
    worker[w].kind = "current" /\ status \in Running /\ lease = "running"

Read(w) ==
    /\ worker[w].doing = "idle" /\ stream # <<>>
    /\ stream' = Tail(stream)
    /\ Becomes(w, [doing |-> "read", kind |-> Head(stream), beating |-> FALSE])
    /\ UNCHANGED <<status, lease, due, pending, sending, faults>>

TryClaim(w) ==
    /\ worker[w].doing = "read"
    /\ IF worker[w].kind = "current" /\ status = "queued"
       THEN /\ status' = "fetching" /\ lease' = "running"
            /\ Becomes(w, [worker[w] EXCEPT !.doing = "loading", !.beating = TRUE])
       ELSE Becomes(w, Idle) /\ UNCHANGED <<status, lease>>
    /\ UNCHANGED <<due, pending, sending, stream, faults>>

Analyze(w) ==
    /\ worker[w].doing = "loading"
    /\ IF HoldsLease(w) /\ status = "fetching"
       THEN status' = "analyzing" /\ Becomes(w, [worker[w] EXCEPT !.doing = "detecting"])
       ELSE Becomes(w, Idle) /\ UNCHANGED status
    /\ UNCHANGED <<lease, due, pending, sending, stream, faults>>

\* Mutant: a status the CHECK constraint does not know.
CompleteUnknownStatus(w) ==
    /\ worker[w].doing = "detecting"
    /\ status' = IF HoldsLease(w) THEN "done" ELSE status
    /\ Becomes(w, Idle)
    /\ UNCHANGED <<lease, due, pending, sending, stream, faults>>

\* complete_attempt; its commit may succeed and the call raise all the same.
Complete(w) ==
    /\ worker[w].doing = "detecting"
    /\ status' = IF HoldsLease(w) THEN "completed" ELSE status
    /\ \/ Becomes(w, Idle)
       \/ HoldsLease(w) /\ Becomes(w, [worker[w] EXCEPT !.doing = "failing"])
    /\ UNCHANGED <<lease, due, pending, sending, stream, faults>>

Raise(w) ==
    /\ worker[w].doing \in {"loading", "detecting"}
    /\ Becomes(w, [worker[w] EXCEPT !.doing = "failing"])
    /\ UNCHANGED <<status, lease, due, pending, sending, stream, faults>>

Fail(w) ==
    /\ worker[w].doing = "failing"
    /\ status' = IF HoldsLease(w) THEN "failed" ELSE status
    /\ Becomes(w, Idle)
    /\ UNCHANGED <<lease, due, pending, sending, stream, faults>>

\* The heartbeat task ends on an exception, the job goes on without it.
HeartbeatDies(w) ==
    /\ worker[w].beating /\ Fault
    /\ Becomes(w, [worker[w] EXCEPT !.beating = FALSE])
    /\ UNCHANGED <<status, lease, due, pending, sending, stream>>

WorkerCrash(w) ==
    /\ worker[w].doing # "idle" /\ Fault
    /\ Becomes(w, Idle)
    /\ UNCHANGED <<status, lease, due, pending, sending, stream>>

\* What run_forever does when nothing fails: the job timeout ends every job.
Work(w) ==
    Read(w) \/ TryClaim(w) \/ Analyze(w) \/ Complete(w) \/ Raise(w) \/ Fail(w)

----------------------------------------------------------------------------
Dispatch == (\E k \in Kinds : Publish(k)) \/ CommitDelivered

Next ==
    \/ DispatchTimeoutPasses \/ Outage \/ LeaseRunsOut
    \/ Dispatch \/ DispatcherCrash
    \/ Redispatch \/ Reclaim
    \/ RedisLosesKeys
    \/ \E w \in Workers : Work(w) \/ HeartbeatDies(w) \/ WorkerCrash(w)

\* Time passes; dispatch_forever, reconcile_forever and run_forever are loops
\* of processes that are restarted (restart: unless-stopped).
Fairness ==
    /\ WF_vars(DispatchTimeoutPasses) /\ WF_vars(LeaseRunsOut)
    /\ WF_vars(Dispatch)
    /\ WF_vars(Redispatch) /\ WF_vars(Reclaim)
    /\ \A w \in Workers : WF_vars(Work(w))

Spec == Init /\ [][Next]_vars /\ Fairness

----------------------------------------------------------------------------
(* Properties *)

\* Every attempt is completed or failed in the end: no crash, lost entry, lost
\* stream, dead heartbeat or unknown commit leaves it queued or running.
EventuallyFinished == <>(status \in Terminal)

\* At most one worker can still write for the attempt, and while it is queued
\* nobody can: a claim made under an earlier key is stale by then.
OneCurrentClaim ==
    \A w, x \in Workers :
        worker[w].doing \in Busy /\ worker[w].kind = "current" =>
            /\ status # "queued"
            /\ worker[x].doing \in Busy /\ worker[x].kind = "current" => w = x
=============================================================================
