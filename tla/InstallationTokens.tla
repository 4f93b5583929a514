------------------------- MODULE InstallationTokens -------------------------
(***************************************************************************)
(* TokenService: registration, authentication and rotation of anonymous    *)
(* installation tokens by concurrent requests.  Authentication is a SELECT *)
(* and an UPDATE in one transaction, rotation an UPDATE that locks the row *)
(* and an INSERT in another.                                               *)
(***************************************************************************)
EXTENDS Integers

CONSTANTS
    Ids,          \* tokens, numbered as they are issued (token_id is random)
    Calls,        \* requests the API handles at a time
    Retention,    \* idle_retention
    Interval,     \* last_used_write_interval
    MaxClock      \* bound of the clock

ASSUME TokensAssumption ==
    /\ Ids \subseteq Nat
    /\ Retention \in Nat \ {0}
    /\ Interval \in Nat \ {0}
    /\ MaxClock \in Nat

VARIABLES
    time,       \* the clock
    tokens,     \* installation_token
    call,       \* each request
    usedAt      \* history: the latest now of a successful authentication

tokenVars == <<time, tokens, call, usedAt>>

Never == -1
Times == 0..MaxClock

\* root is the registration a token descends from by rotations.
TokenRow == [root: Ids, created: Times, used: Times \cup {Never}, live: BOOLEAN]
NoRow == [root |-> "none"]

\* selected       the SELECT found the row
\* authenticated  require_installation returned
\* rotating       the row is locked and revoked, not committed
CallRow == [at: {"selected", "rotating"}, token: Ids, now: Times]
             \cup [at: {"authenticated"}, token: Ids]
NoCall == [at |-> "idle"]

TokenTypeOK ==
    /\ time \in Times
    /\ tokens \in [Ids -> TokenRow \cup {NoRow}]
    /\ call \in [Calls -> CallRow \cup {NoCall}]
    /\ usedAt \in [Ids -> Times \cup {Never}]

TokenInit ==
    /\ time = 0
    /\ tokens = [t \in Ids |-> NoRow]
    /\ call = [r \in Calls |-> NoCall]
    /\ usedAt = [t \in Ids |-> Never]

Issued(t) == tokens[t] # NoRow

\* revoked_at IS NULL.
Live(t) == Issued(t) /\ tokens[t].live

\* COALESCE(last_used_at, created_at).
LastActivity(t) == IF tokens[t].used = Never THEN tokens[t].created ELSE tokens[t].used

\* The SELECT of authenticate, for a request whose now is n.
Accepts(t, n) == Live(t) /\ LastActivity(t) > n - Retention

\* created_at is the time the transaction began.
NewRow(root, began) == [root |-> root, created |-> began, used |-> Never, live |-> TRUE]

\* Mutant: nothing waits for a rotation under way.
NeverLocked(t) == FALSE

\* The row is locked by a rotation under way.
Locked(t) == \E r \in Calls : call[r].at = "rotating" /\ call[r].token = t

NextId(t) == ~Issued(t) /\ \A u \in Ids : u < t => Issued(u)

----------------------------------------------------------------------------
(* TokenService *)

\* create, below the registration limits.
Register(t) ==
    /\ NextId(t)
    /\ tokens' = [tokens EXCEPT ![t] = NewRow(t, time)]
    /\ UNCHANGED <<time, call, usedAt>>

\* authenticate takes now before its transaction; a token that is not
\* accepted is answered 401 and changes nothing.
Select(r, t, n) ==
    /\ call[r].at = "idle"
    /\ Accepts(t, n)
    /\ call' = [call EXCEPT ![r] = [at |-> "selected", token |-> t, now |-> n]]
    /\ UNCHANGED <<time, tokens, usedAt>>

\* Mutant: the write is skipped when the last one is half an interval back.
DueLate(t, n) == tokens[t].used = Never \/ tokens[t].used <= n - 2 * Interval

\* last_used_at IS NULL OR last_used_at <= :write_before.
Due(t, n) == tokens[t].used = Never \/ tokens[t].used <= n - Interval

Latest(a, b) == IF a >= b THEN a ELSE b

\* The UPDATE of authenticate waits for the row, and the transaction commits.
Touch(r) ==
    LET t == call[r].token  n == call[r].now
    IN  /\ call[r].at = "selected"
        /\ ~Locked(t)
        /\ tokens' = IF Due(t, n) THEN [tokens EXCEPT ![t] = [@ EXCEPT !.used = n]]
                                  ELSE tokens
        /\ usedAt' = [usedAt EXCEPT ![t] = Latest(@, n)]
        /\ call' = [call EXCEPT ![r] = [at |-> "authenticated", token |-> t]]
        /\ UNCHANGED time

\* rotate: the UPDATE waits for the row and looks at it again.
Revoke(r) ==
    LET t == call[r].token
    IN  /\ call[r].at = "authenticated"
        /\ ~Locked(t)
        /\ Live(t)
        /\ call' = [call EXCEPT ![r] = [at |-> "rotating", token |-> t, now |-> time]]
        /\ UNCHANGED <<time, tokens, usedAt>>

\* The INSERT of the new token, and the commit of both.
CommitRotation(r, new) ==
    LET t == call[r].token
    IN  /\ call[r].at = "rotating"
        /\ NextId(new)
        /\ tokens' = [tokens EXCEPT ![t] = [@ EXCEPT !.live = FALSE],
                                    ![new] = NewRow(tokens[t].root, call[r].now)]
        /\ call' = [call EXCEPT ![r] = NoCall]
        /\ UNCHANGED <<time, usedAt>>

\* The handler answers, with 401 when a rotation found the row revoked; or an
\* error or a crash rolls back what is not committed.
EndCall(r) ==
    /\ call[r].at # "idle"
    /\ call' = [call EXCEPT ![r] = NoCall]
    /\ UNCHANGED <<time, tokens, usedAt>>

TokenTick ==
    /\ time < MaxClock
    /\ time' = time + 1
    /\ UNCHANGED <<tokens, call, usedAt>>

\* The clocks of the API's processes may be late or ahead by any time.
TokenNext ==
    \/ TokenTick
    \/ \E t \in Ids : Register(t)
    \/ \E r \in Calls :
         \/ \E t \in Ids, n \in Times : Select(r, t, n)
         \/ \E t \in Ids : CommitRotation(r, t)
         \/ Touch(r) \/ Revoke(r) \/ EndCall(r)

TokenSpec == TokenInit /\ [][TokenNext]_tokenVars

----------------------------------------------------------------------------
(* Properties *)

\* However many requests rotate a token, its registration has exactly one live
\* token: two never succeed from one, and a failed rotation loses none.
OneLiveToken ==
    \A t \in Ids : Issued(t) =>
      \E u \in Ids :
        /\ Live(u) /\ tokens[u].root = tokens[t].root
        /\ \A w \in Ids : Live(w) /\ tokens[w].root = tokens[t].root => w = u

\* A token that authenticated a request is accepted again for the idle retention
\* less the write interval, although most uses are not written and requests
\* read their clock before they reach the row.
UsedStaysUsable ==
    \A t \in Ids : Live(t) /\ usedAt[t] # Never =>
      \A n \in Times : n <= usedAt[t] + Retention - Interval => Accepts(t, n)
=============================================================================
