---------------------------- MODULE Reading_proofs ----------------------------
(***************************************************************************)
(* The parts around the store, for any number of tokens, loads, requests,  *)
(* shows and cards: a registration has one live token and a used token     *)
(* stays usable; a fact is served while it is true; a refused token is not *)
(* sent again; only watched videos are asked for; a badge is the label of  *)
(* the video its card was observed with.  Each part is proved by itself,   *)
(* from an invariant of its own, and MCReading, which puts them beside one *)
(* another, is shown to run every one of them and nothing else.            *)
(***************************************************************************)
EXTENDS MCReading, TLAPS

----------------------------------------------------------------------------
(* The tokens of the installations *)

\* OneLiveToken alone is not inductive: a rotation that commits must know that
\* the token it revokes is still the live one, which is so because the row it
\* has locked is locked by it alone (RotationsHoldTheirRow), and a registration
\* that its root is new.
RootsAreIssued == \A t \in Ids : Issued(t) => Issued(tokens[t].root)

CallsKnowTheirToken == \A r \in Calls : call[r].at # "idle" => Issued(call[r].token)

Rotating(r) == call[r].at = "rotating"

RotationsHoldTheirRow ==
    \A r \in Calls : Rotating(r) =>
      /\ Live(call[r].token)
      /\ \A s \in Calls : Rotating(s) /\ call[s].token = call[r].token => s = r

\* What is written of a use is less than an interval behind it.
UsesAreWritten ==
    \A t \in Ids : usedAt[t] # Never =>
      Issued(t) /\ tokens[t].used # Never /\ tokens[t].used > usedAt[t] - Interval

TokenInv ==
    /\ TokenTypeOK
    /\ RootsAreIssued
    /\ CallsKnowTheirToken
    /\ RotationsHoldTheirRow
    /\ UsesAreWritten
    /\ OneLiveToken

----------------------------------------------------------------------------
(* The tokens: rows *)

\* A row is never the absent one.
LEMMA RowsAreRows ==
    ASSUME NEW x \in TokenRow
    PROVE  x # NoRow
BY DEF TokenRow, NoRow

\* A new row is of its registration, unused and live.
LEMMA NewRowFacts ==
    ASSUME NEW root \in Ids, NEW began \in Times
    PROVE  LET row == NewRow(root, began)
           IN  row \in TokenRow /\ row.root = root /\ row.used = Never /\ row.live
BY DEF NewRow, TokenRow

\* The row of an issued token, field by field.
LEMMA IssuedRow ==
    ASSUME TokenTypeOK, NEW t \in Ids, Issued(t)
    PROVE  /\ tokens[t] \in TokenRow
           /\ tokens[t].root \in Ids /\ tokens[t].created \in Times
           /\ tokens[t].used \in Times \cup {Never} /\ tokens[t].live \in BOOLEAN
BY DEF TokenTypeOK, Issued, TokenRow

\* A request under way, field by field.
LEMMA CallUnderWay ==
    ASSUME TokenTypeOK, NEW r \in Calls, call[r].at # "idle"
    PROVE  /\ call[r].token \in Ids
           /\ call[r].at \in {"selected", "rotating"} => call[r].now \in Times
BY DEF TokenTypeOK, CallRow, NoCall

----------------------------------------------------------------------------
(* The tokens: the initial state, and the steps that keep the rows *)

\* No token is issued in the beginning, and no request is under way.
LEMMA TokenInitInv == TokenInit => TokenInv
<1> SUFFICES ASSUME TokenInit PROVE TokenInv
  OBVIOUS
<1>1. \A t \in Ids : ~Issued(t) /\ usedAt[t] = Never
  BY DEF TokenInit, Issued
<1>2. \A r \in Calls : call[r].at = "idle"
  BY DEF TokenInit, NoCall
<1>3. TokenTypeOK
  BY TokensAssumption DEF TokenInit, TokenTypeOK, Times, Never
<1>4. RootsAreIssued /\ UsesAreWritten /\ OneLiveToken
  BY <1>1 DEF RootsAreIssued, UsesAreWritten, OneLiveToken
<1>5. CallsKnowTheirToken /\ RotationsHoldTheirRow
  BY <1>2 DEF CallsKnowTheirToken, RotationsHoldTheirRow, Rotating
<1> QED BY <1>3, <1>4, <1>5 DEF TokenInv

\* What the invariant says depends on tokens and usedAt, and on the requests only
\* as far as they are under way.
LEMMA CallsChange ==
    ASSUME TokenInv, UNCHANGED <<tokens, usedAt>>, time' \in Times,
           call' \in [Calls -> CallRow \cup {NoCall}],
           CallsKnowTheirToken', RotationsHoldTheirRow'
    PROVE  TokenInv'
<1>1. TokenTypeOK'
  BY DEF TokenInv, TokenTypeOK
<1>2. RootsAreIssued' /\ UsesAreWritten' /\ OneLiveToken'
  BY DEF TokenInv, RootsAreIssued, UsesAreWritten, OneLiveToken, Issued, Live
<1> QED BY <1>1, <1>2 DEF TokenInv

LEMMA TickStep == TokenInv /\ TokenTick => TokenInv'
<1> SUFFICES ASSUME TokenInv, TokenTick PROVE TokenInv'
  OBVIOUS
<1>1. time' \in Times
  BY TokensAssumption DEF TokenInv, TokenTypeOK, TokenTick, Times
<1>2. CallsKnowTheirToken' /\ RotationsHoldTheirRow'
  BY DEF TokenInv, TokenTick, CallsKnowTheirToken, RotationsHoldTheirRow, Rotating, Issued, Live
<1> QED BY <1>1, <1>2, CallsChange DEF TokenInv, TokenTypeOK, TokenTick

LEMMA SelectStep ==
    ASSUME TokenInv, NEW r \in Calls, NEW t \in Ids, NEW n \in Times, Select(r, t, n)
    PROVE  TokenInv'
<1> USE DEF TokenInv
<1>1. Issued(t) /\ Issued(t)'
  BY DEF Select, Accepts, Live, Issued
<1>2. call' = [call EXCEPT ![r] = [at |-> "selected", token |-> t, now |-> n]]
  BY DEF Select
<1>3. call' \in [Calls -> CallRow \cup {NoCall}]
  BY <1>2 DEF TokenTypeOK, CallRow
<1>4. CallsKnowTheirToken'
  BY <1>1, <1>2 DEF CallsKnowTheirToken, TokenTypeOK, Issued, Select
<1>5. RotationsHoldTheirRow'
  BY <1>2 DEF RotationsHoldTheirRow, Rotating, TokenTypeOK, Live, Issued, Select
<1> QED BY <1>3, <1>4, <1>5, CallsChange DEF Select, TokenTypeOK

LEMMA RevokeStep ==
    ASSUME TokenInv, NEW r \in Calls, Revoke(r)
    PROVE  TokenInv'
<1> USE DEF TokenInv
<1> DEFINE t == call[r].token
<1>1. call' = [call EXCEPT ![r] = [at |-> "rotating", token |-> t, now |-> time]]
  BY DEF Revoke
<1>2. t \in Ids /\ Live(t) /\ ~Locked(t)
  BY CallUnderWay DEF Revoke
<1>3. call' \in [Calls -> CallRow \cup {NoCall}]
  BY <1>1, <1>2 DEF TokenTypeOK, CallRow
<1>4. CallsKnowTheirToken'
  BY <1>1, <1>2 DEF CallsKnowTheirToken, TokenTypeOK, Live, Issued, Revoke
<1>5. RotationsHoldTheirRow'
  BY <1>1, <1>2 DEF RotationsHoldTheirRow, Rotating, TokenTypeOK, Live, Issued, Locked, Revoke
<1> QED BY <1>3, <1>4, <1>5, CallsChange DEF Revoke, TokenTypeOK

LEMMA EndStep ==
    ASSUME TokenInv, NEW r \in Calls, EndCall(r)
    PROVE  TokenInv'
<1> USE DEF TokenInv
<1>1. call' = [call EXCEPT ![r] = NoCall] /\ UNCHANGED <<tokens, usedAt, time>>
  BY DEF EndCall
<1>2. call' \in [Calls -> CallRow \cup {NoCall}]
  BY <1>1 DEF TokenTypeOK
<1>3. \A s \in Calls : call'[s].at # "idle" => s # r /\ call'[s] = call[s]
  BY <1>1 DEF TokenTypeOK, NoCall
<1>4. CallsKnowTheirToken'
  BY <1>1, <1>3 DEF CallsKnowTheirToken, Issued
<1>5. RotationsHoldTheirRow'
  BY <1>1, <1>3 DEF RotationsHoldTheirRow, Rotating, Live, Issued
<1> QED BY <1>1, <1>2, <1>4, <1>5, CallsChange DEF TokenTypeOK

----------------------------------------------------------------------------
(* The tokens: the steps that write rows *)

LEMMA RegisterStep ==
    ASSUME TokenInv, NEW t \in Ids, Register(t)
    PROVE  TokenInv'
<1> USE DEF TokenInv
<1> DEFINE row == NewRow(t, time)
<1>1. tokens' = [tokens EXCEPT ![t] = row] /\ UNCHANGED <<time, call, usedAt>> /\ ~Issued(t)
  BY DEF Register, NextId
<1>2. row \in TokenRow /\ row.root = t /\ row.used = Never /\ row.live /\ row # NoRow
  BY NewRowFacts, RowsAreRows DEF TokenTypeOK
<1> HIDE DEF row
<1>3. tokens'[t] = row /\ \A u \in Ids : u # t => tokens'[u] = tokens[u]
  BY <1>1 DEF TokenTypeOK
<1>4. TokenTypeOK'
  BY <1>1, <1>2 DEF TokenTypeOK
<1>5. /\ Issued(t)' /\ Live(t)'
      /\ \A u \in Ids : u # t => Issued(u)' = Issued(u) /\ Live(u)' = Live(u)
  BY <1>2, <1>3 DEF Issued, Live
<1>6. \A u \in Ids : Issued(u) => tokens[u].root \in Ids /\ tokens[u].root # t
  BY <1>1, IssuedRow DEF RootsAreIssued
<1>7. RootsAreIssued'
  BY <1>2, <1>3, <1>5, <1>6 DEF RootsAreIssued
<1>8. CallsKnowTheirToken'
  BY <1>1, <1>5, CallUnderWay DEF CallsKnowTheirToken
<1>9. RotationsHoldTheirRow'
  <2>1. \A r \in Calls : Rotating(r) => call[r].token \in Ids /\ call[r].token # t
    BY <1>1, CallUnderWay DEF RotationsHoldTheirRow, Rotating, Live
  <2> QED BY <1>1, <1>5, <2>1 DEF RotationsHoldTheirRow, Rotating
<1>10. UsesAreWritten'
  <2>1. \A u \in Ids : usedAt'[u] # Never => u # t /\ usedAt'[u] = usedAt[u]
    BY <1>1 DEF UsesAreWritten
  <2> QED BY <1>3, <1>5, <2>1 DEF UsesAreWritten
<1>11. OneLiveToken'
  <2>1. SUFFICES ASSUME NEW x \in Ids, Issued(x)'
                 PROVE  \E u \in Ids :
                          /\ Live(u)' /\ tokens'[u].root = tokens'[x].root
                          /\ \A w \in Ids : Live(w)' /\ tokens'[w].root = tokens'[x].root => w = u
    BY DEF OneLiveToken
  <2>2. CASE x = t
    <3>1. \A w \in Ids : Live(w)' /\ tokens'[w].root = t => w = t
      BY <1>3, <1>5, <1>6 DEF Live
    <3> QED BY <1>2, <1>3, <1>5, <2>2, <3>1
  <2>3. CASE x # t
    <3>1. Issued(x)
      BY <1>5, <2>1, <2>3
    <3>2. PICK u \in Ids :
            /\ Live(u) /\ tokens[u].root = tokens[x].root
            /\ \A w \in Ids : Live(w) /\ tokens[w].root = tokens[x].root => w = u
      BY <3>1 DEF OneLiveToken
    <3>3. u # t /\ tokens[x].root # t
      BY <1>1, <1>6, <3>1, <3>2 DEF Live
    <3>4. \A w \in Ids : Live(w)' /\ tokens'[w].root = tokens'[x].root => w = u
      BY <1>2, <1>3, <1>5, <2>3, <3>2, <3>3
    <3> QED BY <1>3, <1>5, <2>3, <3>2, <3>3, <3>4
  <2> QED BY <2>2, <2>3
<1> QED BY <1>4, <1>7, <1>8, <1>9, <1>10, <1>11

LEMMA TouchStep ==
    ASSUME TokenInv, NEW r \in Calls, Touch(r)
    PROVE  TokenInv'
<1> USE DEF TokenInv
<1> DEFINE t == call[r].token
           n == call[r].now
           row == IF Due(t, n) THEN [tokens[t] EXCEPT !.used = n] ELSE tokens[t]
<1>1. /\ call[r].at = "selected" /\ UNCHANGED time
      /\ tokens' = IF Due(t, n) THEN [tokens EXCEPT ![t] = [@ EXCEPT !.used = n]] ELSE tokens
      /\ usedAt' = [usedAt EXCEPT ![t] = Latest(@, n)]
      /\ call' = [call EXCEPT ![r] = [at |-> "authenticated", token |-> t]]
  BY DEF Touch
<1>2. t \in Ids /\ n \in Times /\ Issued(t)
  BY <1>1, CallUnderWay DEF CallsKnowTheirToken
<1>3. /\ tokens[t] \in TokenRow /\ tokens[t] # NoRow
      /\ tokens[t].used \in Times \cup {Never}
  BY <1>2, IssuedRow DEF Issued
<1>4. tokens' = [tokens EXCEPT ![t] = row]
  <2>1. CASE Due(t, n)
    BY <1>1, <2>1
  <2>2. CASE ~Due(t, n)
    BY <1>1, <1>2, <2>2 DEF TokenTypeOK
  <2> QED BY <2>1, <2>2
<1>5. row \in TokenRow /\ row # NoRow
      /\ row.root = tokens[t].root /\ row.live = tokens[t].live
  <2>1. row \in TokenRow /\ row.root = tokens[t].root /\ row.live = tokens[t].live
    BY <1>2, <1>3 DEF TokenRow
  <2> QED BY <2>1, RowsAreRows
<1>6. row.used \in Times /\ row.used > Latest(usedAt[t], n) - Interval
  <2>1. usedAt[t] \in Times \cup {Never}
    BY <1>2 DEF TokenTypeOK
  <2>2. usedAt[t] # Never => tokens[t].used # Never /\ tokens[t].used > usedAt[t] - Interval
    BY <1>2 DEF UsesAreWritten
  <2>3. CASE Due(t, n)
    <3>1. row.used = n
      BY <1>3, <2>3 DEF TokenRow
    <3> QED BY <1>2, <1>3, <2>1, <2>2, <2>3, <3>1, TokensAssumption DEF Due, Latest, Times, Never
  <2>4. CASE ~Due(t, n)
    BY <1>2, <1>3, <2>1, <2>2, <2>4, TokensAssumption DEF Due, Latest, Times, Never
  <2> QED BY <2>3, <2>4
<1> HIDE DEF row
<1>7. tokens'[t] = row /\ \A u \in Ids : u # t => tokens'[u] = tokens[u]
  BY <1>2, <1>4 DEF TokenTypeOK
<1>8. \A u \in Ids : /\ Issued(u)' = Issued(u) /\ Live(u)' = Live(u)
                     /\ Issued(u) => tokens'[u].root = tokens[u].root
  BY <1>2, <1>3, <1>5, <1>7 DEF Issued, Live
<1>9. Latest(usedAt[t], n) \in Times \cup {Never}
  <2>1. usedAt[t] \in Times \cup {Never}
    BY <1>2 DEF TokenTypeOK
  <2> QED BY <1>2, <2>1 DEF Latest
<1>10. TokenTypeOK'
  BY <1>1, <1>2, <1>4, <1>5, <1>9 DEF TokenTypeOK, CallRow
<1>11. RootsAreIssued'
  BY <1>8, IssuedRow DEF RootsAreIssued
<1>12. \A s \in Calls : call'[s].at # "idle" => call[s].at # "idle" /\ call'[s].token = call[s].token
  BY <1>1 DEF TokenTypeOK
<1>13. \A s \in Calls : Rotating(s)' => Rotating(s)
  BY <1>1 DEF TokenTypeOK, Rotating
<1>14. CallsKnowTheirToken'
  BY <1>8, <1>12, CallUnderWay DEF CallsKnowTheirToken
<1>15. RotationsHoldTheirRow'
  BY <1>8, <1>12, <1>13, CallUnderWay DEF RotationsHoldTheirRow, Rotating
<1>16. UsesAreWritten'
  <2>1. usedAt'[t] = Latest(usedAt[t], n) /\ \A u \in Ids : u # t => usedAt'[u] = usedAt[u]
    BY <1>1, <1>2 DEF TokenTypeOK
  <2>2. tokens'[t].used # Never /\ tokens'[t].used > usedAt'[t] - Interval
    BY <1>6, <1>7, <2>1, TokensAssumption DEF Times, Never
  <2> QED BY <1>2, <1>7, <1>8, <2>1, <2>2 DEF UsesAreWritten
<1>17. OneLiveToken'
  BY <1>8, IssuedRow DEF OneLiveToken, Live
<1> QED BY <1>10, <1>11, <1>14, <1>15, <1>16, <1>17

\* The new token takes the place of the one that is revoked.
LEMMA CommitStep ==
    ASSUME TokenInv, NEW r \in Calls, NEW new \in Ids, CommitRotation(r, new)
    PROVE  TokenInv'
<1> USE DEF TokenInv
<1>0. PICK t \in Ids : t = call[r].token
  BY CallUnderWay DEF CommitRotation
<1> DEFINE root == tokens[t].root
           old == [tokens[t] EXCEPT !.live = FALSE]
           row == NewRow(root, call[r].now)
<1>1. /\ Rotating(r) /\ ~Issued(new) /\ UNCHANGED <<time, usedAt>>
      /\ tokens' = [tokens EXCEPT ![t] = [@ EXCEPT !.live = FALSE], ![new] = row]
      /\ call' = [call EXCEPT ![r] = NoCall]
  BY <1>0 DEF CommitRotation, NextId, Rotating
<1>2. call[r].now \in Times /\ Live(t) /\ Issued(t) /\ t # new
  BY <1>0, <1>1, CallUnderWay DEF RotationsHoldTheirRow, Rotating, Live
<1>3. tokens[t] \in TokenRow /\ root \in Ids
  BY <1>2, IssuedRow
<1>4. row \in TokenRow /\ row # NoRow /\ row.root = root /\ row.used = Never /\ row.live
  BY <1>2, <1>3, NewRowFacts, RowsAreRows
<1>5. /\ old \in TokenRow /\ old # NoRow /\ old.root = root
      /\ old.used = tokens[t].used /\ ~old.live
  <2>1. old \in TokenRow /\ old.root = root /\ old.used = tokens[t].used /\ ~old.live
    BY <1>3 DEF TokenRow
  <2> QED BY <2>1, RowsAreRows
<1>6. tokens' = [tokens EXCEPT ![t] = old, ![new] = row]
  BY <1>1
<1> HIDE DEF row, old, root
<1>7. /\ tokens'[t] = old /\ tokens'[new] = row
      /\ \A u \in Ids : u \notin {t, new} => tokens'[u] = tokens[u]
  BY <1>2, <1>6 DEF TokenTypeOK
<1>8. /\ Issued(t)' /\ Issued(new)' /\ ~Live(t)' /\ Live(new)'
      /\ \A u \in Ids : u \notin {t, new} => Issued(u)' = Issued(u) /\ Live(u)' = Live(u)
  BY <1>4, <1>5, <1>7 DEF Issued, Live
<1>9. \A u \in Ids : Issued(u) => Issued(u)' /\ tokens'[u].root = tokens[u].root
  BY <1>1, <1>5, <1>7, <1>8 DEF root
<1>10. \A s \in Calls : call'[s].at # "idle" => s # r /\ call'[s] = call[s]
  BY <1>1 DEF TokenTypeOK, NoCall
<1>11. TokenTypeOK'
  BY <1>1, <1>2, <1>4, <1>5, <1>6 DEF TokenTypeOK
<1>12. RootsAreIssued'
  <2>1. Issued(root)
    BY <1>2 DEF RootsAreIssued, root
  <2>2. \A u \in Ids : Issued(u)' /\ u # new => Issued(u)
    BY <1>2, <1>8
  <2> QED BY <1>3, <1>4, <1>7, <1>9, <2>1, <2>2, IssuedRow DEF RootsAreIssued
<1>13. CallsKnowTheirToken'
  BY <1>9, <1>10, CallUnderWay DEF CallsKnowTheirToken
<1>14. RotationsHoldTheirRow'
  <2>1. \A s \in Calls : Rotating(s)' =>
          /\ Rotating(s) /\ s # r /\ call'[s].token = call[s].token
          /\ call[s].token \in Ids /\ call[s].token # t /\ Live(call[s].token)
    BY <1>0, <1>1, <1>10, CallUnderWay DEF RotationsHoldTheirRow, Rotating
  <2>2. \A s \in Calls : Rotating(s)' => call[s].token # new
    BY <1>1, <2>1 DEF Live
  <2> QED BY <1>8, <2>1, <2>2 DEF RotationsHoldTheirRow
<1>15. UsesAreWritten'
  <2>1. \A u \in Ids : usedAt'[u] # Never =>
          u # new /\ Issued(u) /\ usedAt'[u] = usedAt[u]
    BY <1>1 DEF UsesAreWritten
  <2>2. \A u \in Ids : u # new => tokens'[u].used = tokens[u].used
    BY <1>5, <1>7
  <2> QED BY <1>9, <2>1, <2>2 DEF UsesAreWritten
<1>16. OneLiveToken'
  <2>1. SUFFICES ASSUME NEW x \in Ids, Issued(x)'
                 PROVE  \E u \in Ids :
                          /\ Live(u)' /\ tokens'[u].root = tokens'[x].root
                          /\ \A w \in Ids : Live(w)' /\ tokens'[w].root = tokens'[x].root => w = u
    BY DEF OneLiveToken
  <2>2. \A w \in Ids : Live(w)' /\ w # new => Live(w) /\ w # t /\ tokens'[w].root = tokens[w].root
    BY <1>2, <1>7, <1>8
  <2>3. CASE tokens'[x].root = root
    <3>1. \A w \in Ids : Live(w) /\ tokens[w].root = root => w = t
      BY <1>2 DEF OneLiveToken, root
    <3> QED BY <1>4, <1>7, <1>8, <2>2, <2>3, <3>1
  <2>4. CASE tokens'[x].root # root
    <3>1. x # new /\ x # t /\ Issued(x) /\ tokens'[x].root = tokens[x].root
      BY <1>2, <1>4, <1>5, <1>7, <1>8, <2>1, <2>4
    <3>2. PICK u \in Ids :
            /\ Live(u) /\ tokens[u].root = tokens[x].root
            /\ \A w \in Ids : Live(w) /\ tokens[w].root = tokens[x].root => w = u
      BY <3>1 DEF OneLiveToken
    <3>3. u # t /\ u # new
      BY <1>1, <2>4, <3>1, <3>2 DEF Live, root
    <3>4. \A w \in Ids : Live(w)' /\ tokens'[w].root = tokens'[x].root => w = u
      BY <1>4, <1>7, <2>2, <2>4, <3>1, <3>2
    <3> QED BY <1>7, <1>8, <3>1, <3>2, <3>3, <3>4
  <2> QED BY <2>3, <2>4
<1> QED BY <1>11, <1>12, <1>13, <1>14, <1>15, <1>16

----------------------------------------------------------------------------
(* The tokens: the invariant and what follows from it *)

LEMMA TokenStep == TokenInv /\ [TokenNext]_tokenVars => TokenInv'
<1> SUFFICES ASSUME TokenInv, [TokenNext]_tokenVars PROVE TokenInv'
  OBVIOUS
<1>1. CASE TokenTick
  BY <1>1, TickStep
<1>2. ASSUME NEW t \in Ids, Register(t) PROVE TokenInv'
  BY <1>2, RegisterStep
<1>3. ASSUME NEW r \in Calls, NEW t \in Ids, NEW n \in Times, Select(r, t, n) PROVE TokenInv'
  BY <1>3, SelectStep
<1>4. ASSUME NEW r \in Calls, NEW t \in Ids, CommitRotation(r, t) PROVE TokenInv'
  BY <1>4, CommitStep
<1>5. ASSUME NEW r \in Calls, Touch(r) \/ Revoke(r) \/ EndCall(r) PROVE TokenInv'
  BY <1>5, TouchStep, RevokeStep, EndStep
<1>6. CASE UNCHANGED tokenVars
  BY <1>6 DEF tokenVars, TokenInv, TokenTypeOK, RootsAreIssued, CallsKnowTheirToken,
              RotationsHoldTheirRow, UsesAreWritten, OneLiveToken, Issued, Live, Rotating
<1> QED BY <1>1, <1>2, <1>3, <1>4, <1>5, <1>6 DEF TokenNext

\* The invariant of the proofs holds in every reachable state.
THEOREM TokensKeepInvariant == TokenSpec => []TokenInv
<1>1. TokenInit => TokenInv
  BY TokenInitInv
<1>2. TokenInv /\ [TokenNext]_tokenVars => TokenInv'
  BY TokenStep
<1> QED BY <1>1, <1>2, PTL DEF TokenSpec

\* Tokens, requests and clocks are what they are declared to be.
THEOREM TokensTyped == TokenSpec => []TokenTypeOK
<1>1. TokenInv => TokenTypeOK
  BY DEF TokenInv
<1> QED BY <1>1, TokensKeepInvariant, PTL

\* Exactly one live token per registration, whatever rotations race or fail.
THEOREM TokensOneLive == TokenSpec => []OneLiveToken
<1>1. TokenInv => OneLiveToken
  BY DEF TokenInv
<1> QED BY <1>1, TokensKeepInvariant, PTL

\* A used token is accepted for the retention less the write interval.
THEOREM TokensStayUsable == TokenSpec => []UsedStaysUsable
<1>1. TokenInv => UsedStaysUsable
  <2>1. SUFFICES ASSUME TokenInv, NEW t \in Ids, Live(t), usedAt[t] # Never,
                        NEW n \in Times, n <= usedAt[t] + Retention - Interval
                 PROVE  Accepts(t, n)
    BY DEF UsedStaysUsable
  <2>2. tokens[t].used # Never /\ tokens[t].used > usedAt[t] - Interval
    BY <2>1 DEF TokenInv, UsesAreWritten
  <2>3. tokens[t].used \in Times /\ usedAt[t] \in Times
    BY <2>1, <2>2, IssuedRow DEF TokenInv, TokenTypeOK, Live
  <2>4. tokens[t].used > n - Retention
    BY <2>1, <2>2, <2>3, TokensAssumption DEF Times
  <2> QED BY <2>1, <2>2, <2>4 DEF Accepts, LastActivity
<1> QED BY <1>1, TokensKeepInvariant, PTL
----------------------------------------------------------------------------
(* The facts of a video *)

\* What a load has seen, and what a row says, was true at the time it is dated
\* or later: the time is taken before bilibili is asked, by every load for
\* itself, so it holds in whatever order the loads write.
LoadsSawWhatIs ==
    \A w \in Loads :
      /\ load[w].at # "idle" => load[w].checked <= now
      /\ load[w].at = "viewed" => defaultSeen[load[w].cid] >= load[w].checked
      /\ load[w].at \in {"viewed", "loaded"} => declaredSeen[load[w].state] >= load[w].checked

RowsSayWhatWas ==
    /\ metadata.checked <= now
    /\ metadata.cid # NoCid => defaultSeen[metadata.cid] >= metadata.checked
    /\ declaration.checked <= now
    /\ \/ declaration.expires = LongAgo
       \/ /\ declaration.expires = declaration.checked + DeclarationTtl
          /\ declaredSeen[declaration.state] >= declaration.checked

PresentIsSeen ==
    /\ defaultSeen[default] = now /\ declaredSeen[declared] = now
    /\ \A c \in Cids : defaultSeen[c] <= now
    /\ \A b \in BOOLEAN : declaredSeen[b] <= now

FactsInv == FactsTypeOK /\ LoadsSawWhatIs /\ RowsSayWhatWas /\ PresentIsSeen

\* The integers the times are, and that they are ordered.
LEMMA MomentsAre ==
    /\ MetadataTtl \in Nat /\ DeclarationTtl \in Nat /\ MaxNow \in Nat
    /\ LongAgo \in Int /\ LongAgo <= 0 /\ LongAgo <= -MetadataTtl /\ LongAgo <= -DeclarationTtl
    /\ \A m \in Moments : m \in Int /\ m <= MaxNow
    /\ \A n \in 0..MaxNow : n \in Moments /\ n \in Nat
BY FactsAssumption DEF LongAgo, Moments

LEMMA FactsStart == FactsInit => FactsInv
<1> SUFFICES ASSUME FactsInit PROVE FactsInv
  OBVIOUS
<1>1. 0 \in 0..MaxNow /\ 0 \in Moments /\ LongAgo \in Moments
  BY MomentsAre DEF Moments
<1>2. /\ default \in Cids /\ declared \in BOOLEAN
      /\ defaultSeen = [c \in Cids |-> IF c = default THEN 0 ELSE LongAgo]
      /\ declaredSeen = [b \in BOOLEAN |-> IF b = declared THEN 0 ELSE LongAgo]
      /\ metadata = [cid |-> NoCid, checked |-> LongAgo]
      /\ declaration = [state |-> FALSE, checked |-> LongAgo, expires |-> LongAgo]
      /\ load = [w \in Loads |-> NoLoad] /\ now = 0
  BY DEF FactsInit
<1>3. LongAgo \in LongAgo..(MaxNow + DeclarationTtl)
  BY MomentsAre
<1>4. defaultSeen \in [Cids -> Moments] /\ declaredSeen \in [BOOLEAN -> Moments]
  BY <1>1, <1>2
<1>5. FactsTypeOK
  BY <1>1, <1>2, <1>3, <1>4 DEF FactsTypeOK
<1>6. LoadsSawWhatIs
  BY <1>2 DEF LoadsSawWhatIs, NoLoad
<1>7. RowsSayWhatWas
  BY <1>2, MomentsAre DEF RowsSayWhatWas
<1>8. PresentIsSeen
  BY <1>2, MomentsAre DEF PresentIsSeen
<1> QED
  BY <1>5, <1>6, <1>7, <1>8 DEF FactsInv

\* Nothing is seen after now, and what was seen is not forgotten.
SeenGrows ==
    /\ now' \in 0..MaxNow /\ now <= now'
    /\ default' \in Cids /\ declared' \in BOOLEAN
    /\ defaultSeen' \in [Cids -> Moments] /\ declaredSeen' \in [BOOLEAN -> Moments]
    /\ \A c \in Cids : defaultSeen[c] <= defaultSeen'[c] /\ defaultSeen'[c] <= now'
    /\ \A b \in BOOLEAN : declaredSeen[b] <= declaredSeen'[b] /\ declaredSeen'[b] <= now'
    /\ defaultSeen'[default'] = now' /\ declaredSeen'[declared'] = now'

LEMMA SeenSoFar ==
    ASSUME FactsInv
    PROVE  /\ now \in 0..MaxNow /\ now \in Nat /\ now \in Moments
           /\ default \in Cids /\ declared \in BOOLEAN
           /\ defaultSeen \in [Cids -> Moments] /\ declaredSeen \in [BOOLEAN -> Moments]
           /\ \A c \in Cids : defaultSeen[c] \in Int /\ defaultSeen[c] <= now
           /\ \A b \in BOOLEAN : declaredSeen[b] \in Int /\ declaredSeen[b] <= now
           /\ defaultSeen[default] = now /\ declaredSeen[declared] = now
<1>1. now \in 0..MaxNow
  BY DEF FactsInv, FactsTypeOK
<1>2. now \in Nat /\ now \in Moments
  BY <1>1, MomentsAre
<1>3. /\ default \in Cids /\ declared \in BOOLEAN
      /\ defaultSeen \in [Cids -> Moments] /\ declaredSeen \in [BOOLEAN -> Moments]
  BY DEF FactsInv, FactsTypeOK
<1>4. /\ \A c \in Cids : defaultSeen[c] \in Moments
      /\ \A b \in BOOLEAN : declaredSeen[b] \in Moments
  BY <1>3
<1> QED
  BY <1>1, <1>2, <1>3, <1>4, MomentsAre DEF FactsInv, PresentIsSeen

LEMMA TickGrows ==
    ASSUME FactsInv, FactsTick
    PROVE  SeenGrows
<1>1. /\ now < MaxNow /\ now' = now + 1
      /\ defaultSeen' = [defaultSeen EXCEPT ![default] = now']
      /\ declaredSeen' = [declaredSeen EXCEPT ![declared] = now']
      /\ default' = default /\ declared' = declared
  BY DEF FactsTick
<1>2. now' \in 0..MaxNow /\ now' \in Nat /\ now <= now' /\ now' \in Moments
  BY <1>1, SeenSoFar, MomentsAre
<1> QED
  BY <1>1, <1>2, SeenSoFar DEF SeenGrows

LEMMA EditGrows ==
    ASSUME FactsInv, NEW c \in Cids, NEW b \in BOOLEAN, Edit(c, b)
    PROVE  SeenGrows
<1>1. /\ now' = now /\ default' = c /\ declared' = b
      /\ defaultSeen' = [defaultSeen EXCEPT ![c] = now]
      /\ declaredSeen' = [declaredSeen EXCEPT ![b] = now]
  BY DEF Edit
<1> QED
  BY <1>1, SeenSoFar DEF SeenGrows

\* The world moves on: no row and no load becomes untrue by it.
LEMMA WorldKeepsFacts ==
    ASSUME FactsInv, SeenGrows, UNCHANGED <<metadata, declaration, load>>
    PROVE  FactsInv'
<1>1. FactsTypeOK'
  BY DEF FactsInv, FactsTypeOK, SeenGrows
<1>2. LoadsSawWhatIs'
  <2> SUFFICES ASSUME NEW w \in Loads
               PROVE  /\ load[w].at # "idle" => load[w].checked <= now'
                      /\ load[w].at = "viewed" => defaultSeen'[load[w].cid] >= load[w].checked
                      /\ load[w].at \in {"viewed", "loaded"} =>
                           declaredSeen'[load[w].state] >= load[w].checked
    BY DEF LoadsSawWhatIs
  <2>1. load[w] \in LoadRow \cup {NoLoad}
    BY DEF FactsInv, FactsTypeOK
  <2>2. /\ load[w].at # "idle" => load[w].checked \in 0..MaxNow
        /\ load[w].at = "viewed" => load[w].cid \in Cids
        /\ load[w].at \in {"viewed", "loaded"} => load[w].state \in BOOLEAN
    BY <2>1 DEF LoadRow, NoLoad
  <2>3. now' \in Int /\ \A m \in 0..MaxNow : m \in Int
    BY DEF SeenGrows
  <2>4. /\ \A c \in Cids : defaultSeen'[c] \in Int
        /\ \A b \in BOOLEAN : declaredSeen'[b] \in Int
    BY MomentsAre DEF SeenGrows
  <2> QED
    BY <2>2, <2>3, <2>4, SeenSoFar DEF FactsInv, LoadsSawWhatIs, SeenGrows
<1>3. RowsSayWhatWas'
  <2>1. /\ metadata.cid \in Cids \cup {NoCid} /\ metadata.checked \in Int
        /\ declaration.state \in BOOLEAN /\ declaration.checked \in Int
    BY MomentsAre DEF FactsInv, FactsTypeOK
  <2>2. now' \in Int
    BY DEF SeenGrows
  <2>3. /\ \A c \in Cids : defaultSeen'[c] \in Int
        /\ \A b \in BOOLEAN : declaredSeen'[b] \in Int
    BY MomentsAre DEF SeenGrows
  <2> QED
    BY <2>1, <2>2, <2>3, SeenSoFar DEF FactsInv, RowsSayWhatWas, SeenGrows, LongAgo
<1>4. PresentIsSeen'
  BY DEF SeenGrows, PresentIsSeen
<1> QED
  BY <1>1, <1>2, <1>3, <1>4 DEF FactsInv

\* What a load may be turned into, and what that says of the others.
LoadMay(r) ==
    /\ r \in LoadRow \cup {NoLoad}
    /\ r.at # "idle" => r.checked <= now
    /\ r.at = "viewed" => defaultSeen[r.cid] >= r.checked
    /\ r.at \in {"viewed", "loaded"} => declaredSeen[r.state] >= r.checked

LEMMA LoadBecomes ==
    ASSUME FactsInv, NEW w \in Loads, NEW r, LoadMay(r), load' = [load EXCEPT ![w] = r],
           UNCHANGED worldVars
    PROVE  load' \in [Loads -> LoadRow \cup {NoLoad}] /\ LoadsSawWhatIs'
<1>1. load \in [Loads -> LoadRow \cup {NoLoad}]
  BY DEF FactsInv, FactsTypeOK
<1>2. load' \in [Loads -> LoadRow \cup {NoLoad}]
  BY <1>1 DEF LoadMay
<1>3. load'[w] = r /\ \A x \in Loads : x # w => load'[x] = load[x]
  BY <1>1
<1>4. LoadsSawWhatIs'
  BY <1>3 DEF LoadMay, FactsInv, LoadsSawWhatIs, worldVars
<1> QED
  BY <1>2, <1>4

\* A load in work, as its steps find it.
LEMMA LoadInWork ==
    ASSUME FactsInv, NEW w \in Loads, load[w].at # "idle"
    PROVE  /\ load[w].checked \in 0..MaxNow /\ load[w].checked <= now
           /\ load[w].at = "viewed" =>
                load[w].cid \in Cids /\ defaultSeen[load[w].cid] >= load[w].checked
           /\ load[w].at \in {"viewed", "loaded"} =>
                load[w].state \in BOOLEAN /\ declaredSeen[load[w].state] >= load[w].checked
<1>1. load[w] \in LoadRow \cup {NoLoad}
  BY DEF FactsInv, FactsTypeOK
<1>2. /\ load[w].checked \in 0..MaxNow
      /\ load[w].at = "viewed" => load[w].cid \in Cids
      /\ load[w].at \in {"viewed", "loaded"} => load[w].state \in BOOLEAN
  BY <1>1 DEF LoadRow, NoLoad
<1> QED
  BY <1>2 DEF FactsInv, LoadsSawWhatIs

LEMMA NoLoadMay == LoadMay(NoLoad)
BY DEF LoadMay, NoLoad

LEMMA WorldRests ==
    ASSUME FactsInv, UNCHANGED worldVars
    PROVE  /\ PresentIsSeen'
           /\ UNCHANGED metadata /\ UNCHANGED declaration => RowsSayWhatWas'
BY DEF FactsInv, PresentIsSeen, RowsSayWhatWas, worldVars

\* A load asks for itself, and writes its rows over those of any other.
LEMMA LoadKeepsFacts ==
    ASSUME FactsInv, NEW w \in Loads,
           StartLoad(w) \/ View(w) \/ SaveDefaultCid(w) \/ DeclarationSaved(w) \/ LoadFails(w)
    PROVE  FactsInv'
<1>0. UNCHANGED worldVars
  BY DEF StartLoad, View, SaveDefaultCid, DeclarationSaved, LoadFails
<1>1. CASE StartLoad(w)
  <2> DEFINE r == [at |-> "asking", checked |-> now]
  <2>1. LoadMay(r)
    BY SeenSoFar DEF LoadMay, LoadRow
  <2>2. load' \in [Loads -> LoadRow \cup {NoLoad}] /\ LoadsSawWhatIs'
    <3> HIDE DEF r
    <3> QED
      BY <1>0, <2>1, LoadBecomes, <1>1 DEF StartLoad, r
  <2> QED
    BY <1>0, <1>1, <2>2, WorldRests DEF StartLoad, FactsInv, FactsTypeOK, worldVars
<1>2. CASE View(w)
  <2> DEFINE r == [at |-> "viewed", checked |-> load[w].checked, cid |-> default, state |-> declared]
  <2>1. LoadMay(r)
    <3>1. load[w].checked \in 0..MaxNow /\ load[w].checked <= now
      BY <1>2, LoadInWork DEF View
    <3> QED
      BY <3>1, SeenSoFar DEF LoadMay, LoadRow
  <2>2. load' \in [Loads -> LoadRow \cup {NoLoad}] /\ LoadsSawWhatIs'
    <3> HIDE DEF r
    <3> QED
      BY <1>0, <2>1, LoadBecomes, <1>2 DEF View, r
  <2> QED
    BY <1>0, <1>2, <2>2, WorldRests DEF View, FactsInv, FactsTypeOK, worldVars
<1>3. CASE SaveDefaultCid(w)
  <2> DEFINE r == [at |-> "loaded", checked |-> load[w].checked, state |-> load[w].state]
  <2>1. /\ load[w].checked \in 0..MaxNow /\ load[w].checked <= now
        /\ load[w].cid \in Cids /\ defaultSeen[load[w].cid] >= load[w].checked
        /\ load[w].state \in BOOLEAN /\ declaredSeen[load[w].state] >= load[w].checked
    BY <1>3, LoadInWork DEF SaveDefaultCid
  <2>2. LoadMay(r)
    BY <2>1 DEF LoadMay, LoadRow
  <2>3. load' \in [Loads -> LoadRow \cup {NoLoad}] /\ LoadsSawWhatIs'
    <3> HIDE DEF r
    <3> QED
      BY <1>0, <2>2, LoadBecomes, <1>3 DEF SaveDefaultCid, r
  <2>4. metadata' = [cid |-> load[w].cid, checked |-> load[w].checked] /\ declaration' = declaration
    BY <1>3 DEF SaveDefaultCid
  <2>5. RowsSayWhatWas'
    BY <1>0, <2>1, <2>4 DEF FactsInv, RowsSayWhatWas, worldVars
  <2>6. metadata' \in [cid: Cids \cup {NoCid}, checked: Moments]
    BY <2>1, <2>4, MomentsAre
  <2> QED
    BY <1>0, <2>3, <2>4, <2>5, <2>6, WorldRests DEF FactsInv, FactsTypeOK, worldVars
<1>4. CASE DeclarationSaved(w)
  <2>1. /\ load[w].checked \in 0..MaxNow /\ load[w].checked <= now
        /\ load[w].state \in BOOLEAN /\ declaredSeen[load[w].state] >= load[w].checked
    BY <1>4, LoadInWork DEF DeclarationSaved
  <2>2. load' \in [Loads -> LoadRow \cup {NoLoad}] /\ LoadsSawWhatIs'
    BY <1>0, <1>4, NoLoadMay, LoadBecomes DEF DeclarationSaved
  <2>3. /\ declaration' = [state |-> load[w].state, checked |-> load[w].checked,
                           expires |-> load[w].checked + DeclarationTtl]
        /\ metadata' = metadata
    BY <1>4 DEF DeclarationSaved
  <2>4. RowsSayWhatWas'
    BY <1>0, <2>1, <2>3 DEF FactsInv, RowsSayWhatWas, worldVars
  <2>5. load[w].checked \in Moments
        /\ load[w].checked + DeclarationTtl \in LongAgo..(MaxNow + DeclarationTtl)
    BY <2>1, MomentsAre
  <2>6. declaration' \in [state: BOOLEAN, checked: Moments, expires: LongAgo..(MaxNow + DeclarationTtl)]
    BY <2>1, <2>3, <2>5
  <2> QED
    BY <1>0, <2>2, <2>3, <2>4, <2>6, WorldRests DEF FactsInv, FactsTypeOK, worldVars
<1>5. CASE LoadFails(w)
  <2>1. load' \in [Loads -> LoadRow \cup {NoLoad}] /\ LoadsSawWhatIs'
    BY <1>0, <1>5, NoLoadMay, LoadBecomes DEF LoadFails
  <2> QED
    BY <1>0, <1>5, <2>1, WorldRests DEF LoadFails, FactsInv, FactsTypeOK, worldVars
<1> QED
  BY <1>1, <1>2, <1>3, <1>4, <1>5

LEMMA FactsStep == FactsInv /\ [FactsNext]_factVars => FactsInv'
<1> SUFFICES ASSUME FactsInv, [FactsNext]_factVars PROVE FactsInv'
  OBVIOUS
<1>1. CASE FactsTick
  BY <1>1, TickGrows, WorldKeepsFacts DEF FactsTick
<1>2. ASSUME NEW c \in Cids, NEW b \in BOOLEAN, Edit(c, b)
      PROVE  FactsInv'
  BY <1>2, EditGrows, WorldKeepsFacts DEF Edit
<1>3. ASSUME NEW w \in Loads,
             StartLoad(w) \/ View(w) \/ SaveDefaultCid(w) \/ DeclarationSaved(w) \/ LoadFails(w)
      PROVE  FactsInv'
  BY <1>3, LoadKeepsFacts
<1>4. CASE UNCHANGED factVars
  BY <1>4 DEF factVars, FactsInv, FactsTypeOK, LoadsSawWhatIs, RowsSayWhatWas, PresentIsSeen
<1> QED
  BY <1>1, <1>2, <1>3, <1>4 DEF FactsNext

\* The facts keep their invariant, for any times to live and any number of loads.
THEOREM FactsKeepInvariant == FactsSpec => []FactsInv
BY FactsStart, FactsStep, PTL DEF FactsSpec

\* batch_current_defaults and the declaration of a response serve what was true
\* within the time to live, whichever worker wrote last.
THEOREM FactsServed == FactsSpec => []ServedWasTrue
<1>1. FactsInv => ServedWasTrue
  <2> SUFFICES ASSUME FactsInv PROVE ServedWasTrue
    OBVIOUS
  <2>1. /\ metadata.cid \in Cids \cup {NoCid} /\ metadata.checked \in Int
        /\ declaration.state \in BOOLEAN /\ declaration.checked \in Int
    BY MomentsAre DEF FactsInv, FactsTypeOK
  <2>2. \A c \in BatchDefaults : defaultSeen[c] > now - MetadataTtl
    <3> SUFFICES ASSUME metadata.cid # NoCid, metadata.checked > now - MetadataTtl
                 PROVE  defaultSeen[metadata.cid] > now - MetadataTtl
      BY DEF BatchDefaults
    <3>1. defaultSeen[metadata.cid] >= metadata.checked /\ defaultSeen[metadata.cid] \in Int
      BY <2>1, SeenSoFar DEF FactsInv, RowsSayWhatWas
    <3> QED
      BY <2>1, <3>1, SeenSoFar, MomentsAre
  <2>3. \A b \in CurrentDeclaration : declaredSeen[b] > now - DeclarationTtl
    <3> SUFFICES ASSUME declaration.expires > now
                 PROVE  declaredSeen[declaration.state] > now - DeclarationTtl
      BY DEF CurrentDeclaration
    <3>1. declaration.expires # LongAgo
      BY SeenSoFar, MomentsAre
    <3>2. /\ declaration.expires = declaration.checked + DeclarationTtl
          /\ declaredSeen[declaration.state] >= declaration.checked
          /\ declaredSeen[declaration.state] \in Int
      BY <2>1, <3>1, SeenSoFar DEF FactsInv, RowsSayWhatWas
    <3> QED
      BY <2>1, <3>2, SeenSoFar, MomentsAre
  <2> QED
    BY <2>2, <2>3 DEF ServedWasTrue
<1> QED
  BY <1>1, FactsKeepInvariant, PTL
----------------------------------------------------------------------------
(* The token of a request *)

\* No token is known to the extension before the server has issued it.
IssuedOnly ==
    /\ accepted \cap unissued = {}
    /\ stored \notin unissued
    /\ inFlight.token \notin unissued
    /\ \A k \in Keys : fetch[k].token \notin unissued /\ fetch[k].before \notin unissued

\* A registration stores a token that nobody has had.
RegistrationIsNew ==
    /\ inFlight.at = "storing" => inFlight.token # NoToken
    /\ inFlight.token # NoToken => stored # inFlight.token
    /\ inFlight.token # NoToken =>
         \A k \in Keys : fetch[k].token # inFlight.token /\ fetch[k].before # inFlight.token

\* A token that was refused is not stored any more, and not in the hand of the
\* second attempt.
RefusedIsGone ==
    \A k \in Keys :
      /\ fetch[k].before # NoToken => stored # fetch[k].before
      /\ fetch[k].token # NoToken => fetch[k].token # fetch[k].before
      /\ fetch[k].at \in {"sent", "refused"} => fetch[k].token # NoToken
      /\ fetch[k].attempt = 0 => fetch[k].before = NoToken

SessionInv == SessionTypeOK /\ IssuedOnly /\ RegistrationIsNew /\ RefusedIsGone

Request == [at: FetchSteps, attempt: 0..1, token: Serials \cup {NoToken},
            before: Serials \cup {NoToken}]

LEMMA IdleRequest == Idle \in Request
BY DEF Idle, Request, FetchSteps

LEMMA SessionStart == SessionInit => SessionInv
<1> SUFFICES ASSUME SessionInit PROVE SessionInv
  OBVIOUS
<1>1. SessionTypeOK
  BY IdleRequest DEF SessionInit, SessionTypeOK, NoRegistration, Request
<1>2. IssuedOnly /\ RegistrationIsNew /\ RefusedIsGone
  BY SessionAssumption DEF SessionInit, IssuedOnly, RegistrationIsNew, RefusedIsGone, Idle,
     NoRegistration
<1> QED
  BY <1>1, <1>2 DEF SessionInv

\* What a request may be turned into.
RequestMay(f) ==
    /\ f \in Request
    /\ f.token \notin unissued /\ f.before \notin unissued
    /\ inFlight.token # NoToken => f.token # inFlight.token /\ f.before # inFlight.token
    /\ f.token # NoToken => f.token # f.before
    /\ f.at \in {"sent", "refused"} => f.token # NoToken
    /\ f.attempt = 0 => f.before = NoToken

LEMMA RequestsMay ==
    ASSUME SessionInv, NEW k \in Keys
    PROVE  RequestMay(fetch[k]) /\ (fetch[k].before # NoToken => stored # fetch[k].before)
BY DEF SessionInv, SessionTypeOK, IssuedOnly, RegistrationIsNew, RefusedIsGone, RequestMay, Request

LEMMA IdleMay == SessionInv => RequestMay(Idle) /\ Idle.before = NoToken
BY IdleRequest, SessionAssumption DEF SessionInv, SessionTypeOK, RequestMay, Idle

\* A step of one request, which may clear the storage.
LEMMA RequestBecomes ==
    ASSUME SessionInv, NEW k \in Keys, NEW f, RequestMay(f), Update(k, f),
           stored' \in {stored, NoToken}, f.before # NoToken => stored' # f.before,
           UNCHANGED <<accepted, unissued, inFlight>>
    PROVE  SessionInv'
<1>1. fetch \in [Keys -> Request]
  BY DEF SessionInv, SessionTypeOK, Request
<1>2. fetch' \in [Keys -> Request]
  BY <1>1 DEF Update, RequestMay
<1>3. fetch'[k] = f /\ \A j \in Keys : j # k => fetch'[j] = fetch[j]
  BY <1>1 DEF Update
<1>4. SessionTypeOK'
  BY <1>2 DEF SessionInv, SessionTypeOK, Request
<1>5. IssuedOnly'
  BY <1>3, SessionAssumption DEF SessionInv, SessionTypeOK, IssuedOnly, RequestMay
<1>6. RegistrationIsNew'
  BY <1>3 DEF SessionInv, RegistrationIsNew, RequestMay
<1>7. RefusedIsGone'
  BY <1>3 DEF SessionInv, RefusedIsGone, RequestMay
<1> QED
  BY <1>4, <1>5, <1>6, <1>7 DEF SessionInv

\* What is asked, read, sent and refused; Settled forgets it.
LEMMA AskStep ==
    ASSUME SessionInv, NEW k \in Keys,
           Ask(k) \/ ReadStored(k) \/ UseStored(k) \/ Settled(k) \/ Refused(k)
    PROVE  SessionInv'
<1>1. /\ fetch[k] \in Request /\ RequestMay(fetch[k]) /\ RequestMay(Idle) /\ Idle.before = NoToken
      /\ fetch[k].before # NoToken => stored # fetch[k].before
  BY RequestsMay, IdleMay DEF RequestMay
<1>2. CASE Ask(k)
  <2> DEFINE f == [Idle EXCEPT !.at = "reading"]
  <2>1. RequestMay(f)
    BY <1>1 DEF RequestMay, Request, FetchSteps, Idle
  <2>2. f.before = NoToken
    BY DEF Idle
  <2> QED
    BY <1>2, <2>1, <2>2, RequestBecomes DEF Ask
<1>3. CASE ReadStored(k)
  <2> DEFINE f == [fetch[k] EXCEPT !.at = "read", !.token = stored]
  <2>1. f \in Request /\ f.at = "read" /\ f.token = stored /\ f.before = fetch[k].before
        /\ f.attempt = fetch[k].attempt
    BY <1>1 DEF Request, FetchSteps, SessionInv, SessionTypeOK
  <2>2. inFlight.token # NoToken => stored # inFlight.token
    BY DEF SessionInv, RegistrationIsNew
  <2>3. RequestMay(f)
    BY <1>1, <2>1, <2>2 DEF RequestMay, SessionInv, IssuedOnly
  <2> QED
    BY <1>1, <1>3, <2>1, <2>3, RequestBecomes DEF ReadStored
<1>4. CASE UseStored(k)
  <2> DEFINE f == Send(fetch[k], fetch[k].token)
  <2>1. f \in Request /\ f.at = "sent" /\ f.token = fetch[k].token /\ f.before = fetch[k].before
        /\ f.attempt = fetch[k].attempt
    BY <1>1 DEF Request, FetchSteps, Send
  <2>2. RequestMay(f)
    BY <1>1, <1>4, <2>1 DEF RequestMay, UseStored
  <2> QED
    BY <1>1, <1>4, <2>1, <2>2, RequestBecomes DEF UseStored
<1>5. CASE Settled(k)
  BY <1>1, <1>5, RequestBecomes DEF Settled
<1>6. CASE Refused(k)
  <2> DEFINE f == [fetch[k] EXCEPT !.at = "refused"]
  <2>1. f \in Request /\ f.at = "refused" /\ f.token = fetch[k].token /\ f.before = fetch[k].before
        /\ f.attempt = fetch[k].attempt
    BY <1>1 DEF Request, FetchSteps
  <2>2. RequestMay(f)
    BY <1>1, <1>6, <2>1 DEF RequestMay, Refused
  <2> QED
    BY <1>1, <1>6, <2>1, <2>2, RequestBecomes DEF Refused
<1> QED
  BY <1>2, <1>3, <1>4, <1>5, <1>6

\* The first refusal is retried, after the storage has been cleared.
LEMMA ClearStep ==
    ASSUME SessionInv, NEW k \in Keys, Clear(k)
    PROVE  SessionInv'
<1> DEFINE f == IF fetch[k].attempt = 0 THEN Retry(k) ELSE Idle
<1>1. /\ fetch[k] \in Request /\ RequestMay(fetch[k]) /\ RequestMay(Idle)
      /\ fetch[k].at = "refused" /\ fetch[k].token # NoToken
  BY RequestsMay, IdleMay DEF RequestMay, Clear
<1>2. NoToken \notin unissued
  BY SessionAssumption DEF SessionInv, SessionTypeOK
<1>3. RequestMay(Retry(k))
  BY <1>1, <1>2 DEF RequestMay, Retry, Request, FetchSteps
<1>4. RequestMay(f)
  BY <1>1, <1>3
<1>5. /\ stored' = NoToken /\ Update(k, f)
      /\ UNCHANGED <<accepted, unissued, inFlight>>
  BY DEF Clear
<1> HIDE DEF f
<1> QED
  BY <1>4, <1>5, RequestBecomes

LEMMA JoinStep ==
    ASSUME SessionInv, NEW k \in Keys, JoinRegistration(k)
    PROVE  SessionInv'
<1> DEFINE f == [fetch[k] EXCEPT !.at = "registering"]
<1>1. /\ fetch[k] \in Request /\ RequestMay(fetch[k])
      /\ fetch[k].before # NoToken => stored # fetch[k].before
  BY RequestsMay DEF RequestMay
<1>2. /\ f \in Request /\ f.at = "registering" /\ f.token = fetch[k].token
      /\ f.before = fetch[k].before /\ f.attempt = fetch[k].attempt
  BY <1>1 DEF Request, FetchSteps
<1>3. RequestMay(f)
  BY <1>1, <1>2 DEF RequestMay
<1>4. fetch' = [fetch EXCEPT ![k] = f] /\ UNCHANGED <<accepted, unissued, stored>>
  BY DEF JoinRegistration, Update
<1>5. \/ inFlight' = inFlight
      \/ inFlight' = [at |-> "posting", token |-> NoToken]
  BY DEF JoinRegistration, NoRegistration
<1> HIDE DEF f
<1>6. fetch \in [Keys -> Request]
  BY DEF SessionInv, SessionTypeOK, Request
<1>7. /\ fetch' \in [Keys -> Request] /\ fetch'[k] = f
      /\ \A j \in Keys : j # k => fetch'[j] = fetch[j]
  BY <1>2, <1>4, <1>6
<1>8. SessionTypeOK'
  BY <1>4, <1>5, <1>7 DEF SessionInv, SessionTypeOK, Request
<1>9. NoToken \notin unissued /\ inFlight'.token \in {inFlight.token, NoToken}
  BY <1>5, SessionAssumption DEF SessionInv, SessionTypeOK
<1>10. IssuedOnly'
  BY <1>3, <1>4, <1>7, <1>9 DEF SessionInv, IssuedOnly, RequestMay
<1>11. RegistrationIsNew'
  <2>1. inFlight'.token # NoToken => inFlight'.token = inFlight.token
    BY <1>9
  <2>2. inFlight'.at = "storing" => inFlight' = inFlight
    BY <1>5
  <2> QED
    BY <1>3, <1>4, <1>7, <2>1, <2>2 DEF SessionInv, RegistrationIsNew, RequestMay
<1>12. RefusedIsGone'
  BY <1>1, <1>2, <1>3, <1>4, <1>7 DEF SessionInv, RefusedIsGone, RequestMay
<1> QED
  BY <1>8, <1>10, <1>11, <1>12 DEF SessionInv

\* A registration issues a token, stores it and hands it over.
LEMMA RegisteredStep ==
    ASSUME SessionInv, NEW t \in Serials, Registered(t)
    PROVE  SessionInv'
<1>1. /\ t \in unissued /\ inFlight' = [at |-> "storing", token |-> t]
      /\ unissued' = unissued \ {t} /\ accepted' = accepted \cup {t}
      /\ UNCHANGED <<stored, fetch>>
  BY DEF Registered
<1>2. SessionTypeOK'
  BY <1>1 DEF SessionInv, SessionTypeOK
<1>3. IssuedOnly' /\ RegistrationIsNew' /\ RefusedIsGone'
  BY <1>1, SessionAssumption DEF SessionInv, IssuedOnly, RegistrationIsNew, RefusedIsGone
<1> QED
  BY <1>2, <1>3 DEF SessionInv

LEMMA StoredStep ==
    ASSUME SessionInv, Stored
    PROVE  SessionInv'
<1> DEFINE t == inFlight.token
<1>1. /\ t \in Serials /\ t # NoToken /\ t \notin unissued
      /\ \A k \in Keys : fetch[k].token # t /\ fetch[k].before # t
  BY DEF Stored, SessionInv, SessionTypeOK, IssuedOnly, RegistrationIsNew
<1>2. /\ stored' = t /\ inFlight' = [at |-> "none", token |-> NoToken]
      /\ fetch' = [k \in Keys |-> IF k \in Waiting THEN Send(fetch[k], t) ELSE fetch[k]]
      /\ UNCHANGED <<accepted, unissued>>
  BY DEF Stored, NoRegistration
<1> HIDE DEF t
<1>3. ASSUME NEW k \in Keys
      PROVE  /\ fetch'[k] \in Request
             /\ \/ fetch'[k] = fetch[k]
                \/ /\ fetch'[k].at = "sent" /\ fetch'[k].token = t
                   /\ fetch'[k].before = fetch[k].before /\ fetch'[k].attempt = fetch[k].attempt
  <2>1. fetch[k] \in Request
    BY DEF SessionInv, SessionTypeOK, Request
  <2>2. fetch'[k] = IF k \in Waiting THEN Send(fetch[k], t) ELSE fetch[k]
    BY <1>2
  <2>3. /\ Send(fetch[k], t) \in Request
        /\ Send(fetch[k], t).at = "sent" /\ Send(fetch[k], t).token = t
        /\ Send(fetch[k], t).before = fetch[k].before /\ Send(fetch[k], t).attempt = fetch[k].attempt
    BY <1>1, <2>1 DEF Send, Request, FetchSteps
  <2> QED
    BY <2>1, <2>2, <2>3
<1>4. fetch' \in [Keys -> Request]
  BY <1>2, <1>3
<1>5. SessionTypeOK'
  BY <1>1, <1>2, <1>4 DEF SessionInv, SessionTypeOK, Request
<1>6. NoToken \notin unissued
  BY SessionAssumption DEF SessionInv, SessionTypeOK
<1>7. IssuedOnly'
  BY <1>1, <1>2, <1>3, <1>6 DEF SessionInv, IssuedOnly
<1>8. RegistrationIsNew'
  BY <1>2 DEF RegistrationIsNew
<1>9. RefusedIsGone'
  BY <1>1, <1>2, <1>3 DEF SessionInv, RefusedIsGone
<1> QED
  BY <1>5, <1>7, <1>8, <1>9 DEF SessionInv

\* Requests that are rejected, or lost with the service worker, begin anew.
LEMMA ForgetStep ==
    ASSUME SessionInv, RegistrationFails \/ WorkerStops
    PROVE  SessionInv'
<1>1. /\ inFlight' = [at |-> "none", token |-> NoToken]
      /\ UNCHANGED <<accepted, unissued, stored>>
      /\ \E S \in SUBSET Keys : fetch' = [k \in Keys |-> IF k \in S THEN Idle ELSE fetch[k]]
  <2>1. CASE RegistrationFails
    <3>1. Waiting \in SUBSET Keys
      BY DEF Waiting
    <3> QED
      BY <2>1, <3>1 DEF RegistrationFails, NoRegistration
  <2>2. CASE WorkerStops
    <3>1. fetch' = [k \in Keys |-> IF k \in Keys THEN Idle ELSE fetch[k]]
      BY <2>2 DEF WorkerStops
    <3> QED
      BY <2>2, <3>1 DEF WorkerStops, NoRegistration
  <2> QED
    BY <2>1, <2>2
<1>2. \A k \in Keys : fetch'[k] \in {fetch[k], Idle}
  BY <1>1
<1>3. fetch' \in [Keys -> Request]
  BY <1>1, IdleRequest DEF SessionInv, SessionTypeOK, Request
<1>4. SessionTypeOK'
  BY <1>1, <1>3 DEF SessionInv, SessionTypeOK, Request
<1>5. NoToken \notin unissued
  BY SessionAssumption DEF SessionInv, SessionTypeOK
<1>6. Idle.at = "idle" /\ Idle.attempt = 0 /\ Idle.token = NoToken /\ Idle.before = NoToken
  BY DEF Idle
<1>7. IssuedOnly' /\ RegistrationIsNew' /\ RefusedIsGone'
  BY <1>1, <1>2, <1>5, <1>6 DEF SessionInv, IssuedOnly, RegistrationIsNew, RefusedIsGone
<1> QED
  BY <1>4, <1>7 DEF SessionInv

LEMMA SessionStep == SessionInv /\ [SessionNext]_sessionVars => SessionInv'
<1> SUFFICES ASSUME SessionInv, [SessionNext]_sessionVars PROVE SessionInv'
  OBVIOUS
<1>1. ASSUME NEW k \in Keys,
             \/ Ask(k) \/ ReadStored(k) \/ UseStored(k) \/ JoinRegistration(k)
             \/ Settled(k) \/ Refused(k) \/ Clear(k)
      PROVE  SessionInv'
  BY <1>1, AskStep, JoinStep, ClearStep
<1>2. ASSUME NEW t \in Serials, Registered(t)
      PROVE  SessionInv'
  BY <1>2, RegisteredStep
<1>3. ASSUME NEW t \in Serials, Expire(t)
      PROVE  SessionInv'
  BY <1>3 DEF Expire, SessionInv, SessionTypeOK, IssuedOnly, RegistrationIsNew, RefusedIsGone
<1>4. CASE Stored
  BY <1>4, StoredStep
<1>5. CASE RegistrationFails \/ WorkerStops
  BY <1>5, ForgetStep
<1>6. CASE UNCHANGED sessionVars
  BY <1>6 DEF sessionVars, SessionInv, SessionTypeOK, IssuedOnly, RegistrationIsNew, RefusedIsGone
<1> QED
  BY <1>1, <1>2, <1>3, <1>4, <1>5, <1>6 DEF SessionNext

\* The session keeps its invariant, for any requests and tokens.
THEOREM SessionKeepsInvariant == SessionSpec => []SessionInv
BY SessionStart, SessionStep, PTL DEF SessionSpec

\* ApiClient.execute never retries with the token that was refused, although the
\* registrations, the storage and the clearings of other requests go on meanwhile.
THEOREM RetriesAreFresh == SessionSpec => []SecondAttemptIsFresh
<1>1. SessionInv => SecondAttemptIsFresh
  BY DEF SessionInv, RefusedIsGone, SecondAttemptIsFresh
<1> QED
  BY <1>1, SessionKeepsInvariant, PTL
----------------------------------------------------------------------------
(* The shows of a page *)

\* Before the answer to its first request, a show has sent none that nobody needs.
FirstAsksOnce ==
    \A i \in DOMAIN shows : shows[i].at \in {"gate", "reading"} => shows[i].abandoned = 0

\* The newest show is that of the current target, which is why its generation is
\* enough to tell that the page did not go to another video; and why an interrupted
\* gate does not survive: when the page is visible again another show begins.
NewestIsCurrent ==
    shows # <<>> =>
      LET s == shows[Len(shows)]
      IN  s.target = lastKey /\ (s.at = "gate" /\ ~hidden => s.watched)

PageInv ==
    /\ PageTypeOK /\ shows \in Seq(Show)
    /\ FirstAsksOnce /\ NewestIsCurrent /\ WatchedVideosOnly

LEMMA PageStart == PageInit => PageInv
BY PageAssumption DEF PageInit, PageInv, PageTypeOK, FirstAsksOnce, NewestIsCurrent, WatchedVideosOnly

LEMMA NewShowIs ==
    ASSUME NEW v \in Videos, hidden \in BOOLEAN, NEW w \in BOOLEAN
    PROVE  LET s == [NewShow(v) EXCEPT !.watched = w]
           IN  /\ s \in Show /\ NewShow(v) \in Show
               /\ s.target = v /\ s.at = "gate" /\ s.abandoned = 0 /\ s.watched = w
               /\ NewShow(v).target = v /\ NewShow(v).at = "gate"
               /\ NewShow(v).abandoned = 0 /\ NewShow(v).watched = ~hidden
BY DEF NewShow, Show, ShowSteps

\* Nothing but watched is different in a show whose gate is interrupted.
LEMMA InterruptedIs ==
    ASSUME NEW s \in Show
    PROVE  LET u == [s EXCEPT !.watched = FALSE]
           IN  /\ u \in Show /\ u.target = s.target /\ u.at = s.at
               /\ u.abandoned = s.abandoned /\ ~u.watched
BY DEF Show

\* What is left of the shows when some gates are interrupted.
LessWatched(old, new) ==
    /\ new \in Seq(Show) /\ Len(new) = Len(old)
    /\ \A i \in 1..Len(old) :
         /\ new[i].target = old[i].target /\ new[i].at = old[i].at
         /\ new[i].abandoned = old[i].abandoned
         /\ old[i].at # "gate" => new[i] = old[i]

LEMMA InterruptionsAre ==
    ASSUME NEW old \in Seq(Show), NEW S \in SUBSET (1..Len(old)),
           \A i \in S : old[i].at = "gate", NEW new,
           new = [i \in DOMAIN old |-> IF i \in S THEN [old[i] EXCEPT !.watched = FALSE]
                                                 ELSE old[i]]
    PROVE  /\ LessWatched(old, new)
           /\ \A i \in 1..Len(old) : i \notin S => new[i] = old[i]
<1>1. DOMAIN old = 1..Len(old) /\ Len(old) \in Nat /\ \A i \in 1..Len(old) : old[i] \in Show
  OBVIOUS
<1>2. ASSUME NEW i \in 1..Len(old)
      PROVE  /\ new[i] \in Show /\ new[i].target = old[i].target /\ new[i].at = old[i].at
             /\ new[i].abandoned = old[i].abandoned
             /\ i \notin S => new[i] = old[i]
  BY <1>1, InterruptedIs
<1>3. new \in [1..Len(old) -> Show]
  BY <1>1, <1>2
<1>4. new \in Seq(Show) /\ Len(new) = Len(old)
  BY <1>1, <1>3
<1> QED
  BY <1>1, <1>2, <1>4 DEF LessWatched

----------------------------------------------------------------------------
(* The steps of the page *)

LEMMA PageIs ==
    ASSUME PageInv
    PROVE  /\ shows \in Seq(Show) /\ DOMAIN shows = 1..Len(shows) /\ Len(shows) \in Nat
           /\ \A i \in 1..Len(shows) : shows[i] \in Show
           /\ hidden \in BOOLEAN /\ lastKey \in Videos \cup {NoVideo}
           /\ shows # <<>> => /\ Len(shows) \in 1..Len(shows) /\ lastKey \in Videos
                              /\ shows[Len(shows)].target = lastKey
<1>1. shows \in Seq(Show) /\ hidden \in BOOLEAN /\ lastKey \in Videos \cup {NoVideo}
  BY DEF PageInv, PageTypeOK
<1>2. DOMAIN shows = 1..Len(shows) /\ Len(shows) \in Nat /\ \A i \in 1..Len(shows) : shows[i] \in Show
  BY <1>1
<1>3. ASSUME shows # <<>>
      PROVE  Len(shows) \in 1..Len(shows) /\ lastKey \in Videos
             /\ shows[Len(shows)].target = lastKey
  <2>1. Len(shows) \in 1..Len(shows)
    BY <1>1, <1>3
  <2>2. shows[Len(shows)].target \in Videos
    BY <1>2, <2>1 DEF Show
  <2> QED
    BY <1>3, <2>1, <2>2 DEF PageInv, NewestIsCurrent
<1> QED
  BY <1>1, <1>2, <1>3

\* Interrupted gates, but for the newest in a page that is visible, spoil nothing.
LEMMA InterruptedStep ==
    ASSUME PageInv, LessWatched(shows, shows'),
           location' \in Videos \cup {NoVideo}, panel' \in Videos \cup {NoVideo},
           hidden' \in BOOLEAN, lastKey' = lastKey,
           \/ hidden'
           \/ hidden' = hidden /\ (shows # <<>> => shows'[Len(shows)] = shows[Len(shows)])
    PROVE  PageInv'
<1>1. /\ shows' \in Seq(Show) /\ Len(shows') = Len(shows) /\ DOMAIN shows' = 1..Len(shows)
      /\ \A i \in 1..Len(shows) : shows'[i] \in Show
  BY DEF LessWatched
<1>2. shows' = <<>> <=> shows = <<>>
  BY <1>1, PageIs
<1>3. PageTypeOK'
  BY <1>1, PageIs DEF PageInv, PageTypeOK
<1>4. FirstAsksOnce'
  BY <1>1, PageIs DEF PageInv, FirstAsksOnce, LessWatched
<1>5. WatchedVideosOnly'
  BY <1>1, PageIs DEF PageInv, WatchedVideosOnly, LessWatched
<1>6. NewestIsCurrent'
  BY <1>1, <1>2, PageIs DEF PageInv, NewestIsCurrent, LessWatched
<1> QED
  BY <1>1, <1>3, <1>4, <1>5, <1>6 DEF PageInv

\* A new show, of the new current target; those before it may have been interrupted.
LEMMA AnotherShowStep ==
    ASSUME PageInv, NEW before, LessWatched(shows, before), NEW s \in Show,
           shows' = Append(before, s), Len(shows) < MaxShows,
           s.at = "gate", s.abandoned = 0, lastKey' = s.target, s.watched = ~hidden',
           location' \in Videos \cup {NoVideo}, panel' \in Videos \cup {NoVideo},
           hidden' \in BOOLEAN
    PROVE  PageInv'
<1> DEFINE n == Len(shows) + 1
<1>1. before \in Seq(Show) /\ Len(before) = Len(shows) /\ Len(shows) \in Nat
  BY PageIs DEF LessWatched
<1>2. /\ shows' \in Seq(Show) /\ Len(shows') = n /\ DOMAIN shows' = 1..n
      /\ shows'[n] = s /\ \A i \in 1..Len(shows) : shows'[i] = before[i]
  BY <1>1
<1>3. \A i \in 1..n : shows'[i] \in Show
  BY <1>2
<1>4. s.target \in Videos
  BY DEF Show
<1>5. PageTypeOK'
  BY <1>1, <1>2, <1>3, <1>4, PageAssumption DEF PageTypeOK
<1>6. \A i \in 1..n : i = n \/ i \in 1..Len(shows)
  BY <1>1
<1>7. FirstAsksOnce'
  BY <1>2, <1>6, PageIs DEF PageInv, FirstAsksOnce, LessWatched
<1>8. WatchedVideosOnly'
  BY <1>2, <1>6, PageIs DEF PageInv, WatchedVideosOnly, LessWatched
<1>9. NewestIsCurrent'
  BY <1>2 DEF NewestIsCurrent
<1> QED
  BY <1>2, <1>5, <1>7, <1>8, <1>9 DEF PageInv

LEMMA NavigateStep ==
    ASSUME PageInv, NEW v \in Videos \cup {NoVideo}, Navigate(v)
    PROVE  PageInv'
<1> DEFINE S == {i \in 1..Len(shows) : /\ shows[i].at = "gate"
                                       /\ v # NoVideo /\ v # shows[i].target}
           left == [i \in DOMAIN shows |-> IF i \in S THEN [shows[i] EXCEPT !.watched = FALSE]
                                                      ELSE shows[i]]
           emitted == v # NoVideo /\ v # lastKey
<1>1. /\ emitted => Len(shows) < MaxShows
      /\ location' = v /\ panel' \in {panel, NoVideo} /\ hidden' = hidden
      /\ lastKey' = IF emitted THEN v ELSE lastKey
      /\ shows' = IF emitted THEN Append(left, NewShow(v)) ELSE left
  BY PageIs DEF Navigate, Missed
<1>2. /\ LessWatched(shows, left)
      /\ \A i \in 1..Len(shows) : i \notin S => left[i] = shows[i]
  <2>1. S \in SUBSET (1..Len(shows)) /\ \A i \in S : shows[i].at = "gate"
    OBVIOUS
  <2>2. left = [i \in DOMAIN shows |-> IF i \in S THEN [shows[i] EXCEPT !.watched = FALSE]
                                                 ELSE shows[i]]
    OBVIOUS
  <2>3. shows \in Seq(Show)
    BY PageIs
  <2> HIDE DEF S, left
  <2>4. LessWatched(shows, left)
    BY <2>1, <2>2, <2>3, InterruptionsAre
  <2>5. \A i \in 1..Len(shows) : i \notin S => left[i] = shows[i]
    BY <2>2, <2>3
  <2> QED
    BY <2>4, <2>5
<1>3. panel' \in Videos \cup {NoVideo} /\ hidden' \in BOOLEAN
  BY <1>1 DEF PageInv, PageTypeOK
<1>4. CASE emitted
  <2>1. v \in Videos
    BY <1>4
  <2>2. /\ NewShow(v) \in Show /\ NewShow(v).target = v /\ NewShow(v).at = "gate"
        /\ NewShow(v).abandoned = 0 /\ NewShow(v).watched = ~hidden
    BY <2>1, PageIs, NewShowIs
  <2>3. shows' = Append(left, NewShow(v)) /\ lastKey' = v /\ Len(shows) < MaxShows
    BY <1>1, <1>4
  <2> HIDE DEF left, emitted
  <2> QED
    BY <1>1, <1>2, <1>3, <2>2, <2>3, AnotherShowStep
<1>5. CASE ~emitted
  <2>1. shows # <<>> => Len(shows) \notin S /\ Len(shows) \in 1..Len(shows)
    BY <1>5, PageIs
  <2>2. shows' = left /\ lastKey' = lastKey
    BY <1>1, <1>5
  <2> HIDE DEF left, emitted, S
  <2> QED
    BY <1>1, <1>2, <1>3, <2>1, <2>2, InterruptedStep
<1> QED
  BY <1>4, <1>5

LEMMA HideStep ==
    ASSUME PageInv, Hide
    PROVE  PageInv'
<1> DEFINE S == {i \in 1..Len(shows) : shows[i].at = "gate"}
           left == [i \in DOMAIN shows |-> IF i \in S THEN [shows[i] EXCEPT !.watched = FALSE]
                                                      ELSE shows[i]]
<1>1. hidden' = TRUE /\ shows' = left /\ UNCHANGED <<location, lastKey, panel>>
  BY PageIs DEF Hide, Missed
<1>2. LessWatched(shows, left)
  <2>1. S \in SUBSET (1..Len(shows)) /\ \A i \in S : shows[i].at = "gate"
    OBVIOUS
  <2>2. left = [i \in DOMAIN shows |-> IF i \in S THEN [shows[i] EXCEPT !.watched = FALSE]
                                                 ELSE shows[i]]
    OBVIOUS
  <2>3. shows \in Seq(Show)
    BY PageIs
  <2> HIDE DEF S, left
  <2> QED
    BY <2>1, <2>2, <2>3, InterruptionsAre
<1>3. location \in Videos \cup {NoVideo} /\ panel \in Videos \cup {NoVideo}
  BY DEF PageInv, PageTypeOK
<1> HIDE DEF left, S
<1> QED
  BY <1>1, <1>2, <1>3, InterruptedStep

LEMMA UnhideStep ==
    ASSUME PageInv, Unhide
    PROVE  PageInv'
<1>1. /\ hidden' = FALSE /\ UNCHANGED <<location, lastKey, panel>>
      /\ location \in Videos \cup {NoVideo} /\ panel \in Videos \cup {NoVideo}
  BY DEF Unhide, PageInv, PageTypeOK
<1>2. LessWatched(shows, shows)
  BY PageIs DEF LessWatched
<1>3. CASE lastKey = NoVideo
  <2>1. shows' = shows /\ shows = <<>>
    BY <1>3, PageIs, PageAssumption DEF Unhide
  <2> QED
    BY <1>1, <2>1 DEF PageInv, PageTypeOK, FirstAsksOnce, NewestIsCurrent, WatchedVideosOnly
<1>4. CASE lastKey # NoVideo
  <2> DEFINE s == [NewShow(lastKey) EXCEPT !.watched = TRUE]
  <2>1. shows' = Append(shows, s) /\ Len(shows) < MaxShows
    BY <1>4 DEF Unhide
  <2>2. /\ s \in Show /\ s.target = lastKey /\ s.at = "gate" /\ s.abandoned = 0
        /\ s.watched = TRUE
    BY <1>4, PageIs, NewShowIs
  <2> HIDE DEF s
  <2> QED
    BY <1>1, <1>2, <2>1, <2>2, AnotherShowStep
<1> QED
  BY <1>3, <1>4

----------------------------------------------------------------------------
(* The steps of a show *)

\* A show goes on with the same target.
LEMMA ShowBecomes ==
    ASSUME PageInv, NEW i \in DOMAIN shows, NEW s \in Show,
           shows' = [shows EXCEPT ![i] = s], s.target = shows[i].target, s.at # "gate",
           s.at = "reading" => s.abandoned = 0,
           s.at # "done" => s.watched /\ s.abandoned <= 1,
           UNCHANGED <<location, hidden, lastKey>>, panel' \in Videos \cup {NoVideo}
    PROVE  PageInv'
<1>1. i \in 1..Len(shows) /\ shows # <<>>
  BY PageIs
<1>2. /\ shows' \in Seq(Show) /\ Len(shows') = Len(shows) /\ DOMAIN shows' = 1..Len(shows)
      /\ shows'[i] = s /\ \A j \in 1..Len(shows) : j # i => shows'[j] = shows[j]
  BY <1>1, PageIs
<1>3. \A j \in 1..Len(shows) : shows'[j] \in Show
  BY <1>2
<1>4. PageTypeOK'
  BY <1>2, <1>3, PageIs DEF PageInv, PageTypeOK
<1>5. FirstAsksOnce'
  BY <1>2, PageIs DEF PageInv, FirstAsksOnce
<1>6. WatchedVideosOnly'
  BY <1>2, PageIs DEF PageInv, WatchedVideosOnly
<1>7. NewestIsCurrent'
  BY <1>1, <1>2, PageIs DEF PageInv, NewestIsCurrent
<1> QED
  BY <1>2, <1>4, <1>5, <1>6, <1>7 DEF PageInv

\* A step that only moves a show, to a place it is fit for.
LEMMA MoveStep ==
    ASSUME PageInv, NEW i \in DOMAIN shows, NEW step \in ShowSteps, MoveTo(i, step),
           step # "gate", step = "reading" => shows[i].abandoned = 0,
           step # "done" => shows[i].watched /\ shows[i].abandoned <= 1,
           UNCHANGED <<location, hidden, lastKey>>, panel' \in Videos \cup {NoVideo}
    PROVE  PageInv'
<1> DEFINE s == [shows[i] EXCEPT !.at = step]
<1>1. shows[i] \in Show
  BY PageIs
<1>2. /\ s \in Show /\ s.at = step /\ s.target = shows[i].target
      /\ s.watched = shows[i].watched /\ s.abandoned = shows[i].abandoned
  BY <1>1 DEF Show
<1>3. shows' = [shows EXCEPT ![i] = s]
  BY DEF MoveTo
<1> HIDE DEF s
<1> QED
  BY <1>2, <1>3, ShowBecomes

LEMMA ShowKeeps ==
    ASSUME PageInv, NEW i \in DOMAIN shows, ShowStep(i)
    PROVE  PageInv'
<1>1. /\ shows[i] \in Show /\ i \in 1..Len(shows)
      /\ shows[i].at \in {"gate", "reading"} => shows[i].abandoned = 0
      /\ shows[i].at \notin {"gate", "done"} => shows[i].watched /\ shows[i].abandoned <= 1
      /\ shows[i].at = "gate" /\ Current(i) => shows[i].watched
      /\ panel \in Videos \cup {NoVideo} /\ shows[i].target \in Videos
  <2>1. shows[i] \in Show /\ i \in 1..Len(shows) /\ shows # <<>>
    BY PageIs
  <2>2. shows[i].at = "gate" /\ Current(i) => shows[i].watched
    BY <2>1 DEF PageInv, NewestIsCurrent, Current
  <2> QED
    BY <2>1, <2>2 DEF PageInv, PageTypeOK, FirstAsksOnce, WatchedVideosOnly, Show
<1>2. {"reading", "creating", "sleeping", "polling", "done"} \subseteq ShowSteps
  BY DEF ShowSteps
<1>3. CASE GateEnds(i)
  <2>1. CASE Current(i)
    <3>1. MoveTo(i, "reading") /\ UNCHANGED <<location, hidden, lastKey, panel>>
          /\ shows[i].at = "gate"
      BY <1>3, <2>1 DEF GateEnds
    <3> QED
      BY <1>1, <1>2, <2>1, <3>1, MoveStep
  <2>2. CASE ~Current(i)
    <3>1. MoveTo(i, "done") /\ UNCHANGED <<location, hidden, lastKey, panel>>
      BY <1>3, <2>2 DEF GateEnds
    <3> QED
      BY <1>1, <1>2, <3>1, MoveStep
  <2> QED
    BY <2>1, <2>2
<1>4. CASE Create(i)
  <2> DEFINE more == IF Current(i) THEN shows[i].abandoned ELSE shows[i].abandoned + 1
             s == [shows[i] EXCEPT !.at = "creating", !.abandoned = more]
  <2>1. more \in 0..1 /\ shows[i].watched
    BY <1>1, <1>4 DEF Create
  <2>2. shows' = [shows EXCEPT ![i] = s]
    BY <1>1, <1>4, PageIs DEF Create
  <2> HIDE DEF more
  <2>3. /\ s \in Show /\ s.at = "creating" /\ s.target = shows[i].target
        /\ s.watched = shows[i].watched /\ s.abandoned = more
    <3>1. more \in 0..2 /\ "creating" \in ShowSteps
      BY <2>1 DEF ShowSteps
    <3> QED
      BY <1>1, <3>1 DEF Show
  <2>4. UNCHANGED <<location, hidden, lastKey>> /\ panel' = shows[i].target
    BY <1>4 DEF Create, Render
  <2>5. more <= 1
    BY <2>1
  <2> HIDE DEF s
  <2> QED
    BY <1>1, <2>1, <2>2, <2>3, <2>4, <2>5, ShowBecomes
<1>5. CASE Answer(i)
  <2>1. PICK step \in {"sleeping", "done"} : MoveTo(i, step)
    BY <1>5 DEF Answer
  <2>2. /\ UNCHANGED <<location, hidden, lastKey>> /\ panel' = shows[i].target
        /\ shows[i].at \in {"reading", "creating", "polling"}
    BY <1>5 DEF Answer, Render
  <2> QED
    BY <1>1, <1>2, <2>1, <2>2, MoveStep
<1>6. CASE AskFails(i) \/ PollsEnd(i)
  <2>1. MoveTo(i, "done") /\ UNCHANGED <<location, hidden, lastKey, panel>>
    BY <1>6 DEF AskFails, PollsEnd
  <2> QED
    BY <1>1, <1>2, <2>1, MoveStep
<1>7. CASE PollAgain(i)
  <2>1. PICK step \in {"polling", "done"} : MoveTo(i, step)
    BY <1>7 DEF PollAgain
  <2>2. UNCHANGED <<location, hidden, lastKey, panel>> /\ shows[i].at = "sleeping"
    BY <1>7 DEF PollAgain
  <2> QED
    BY <1>1, <1>2, <2>1, <2>2, MoveStep
<1> QED
  BY <1>3, <1>4, <1>5, <1>6, <1>7 DEF ShowStep

LEMMA PageStep == PageInv /\ [PageNext]_pageVars => PageInv'
<1> SUFFICES ASSUME PageInv, [PageNext]_pageVars PROVE PageInv'
  OBVIOUS
<1>1. ASSUME NEW v \in Videos \cup {NoVideo}, Navigate(v)
      PROVE  PageInv'
  BY <1>1, NavigateStep
<1>2. CASE Hide
  BY <1>2, HideStep
<1>3. CASE Unhide
  BY <1>3, UnhideStep
<1>4. ASSUME NEW i \in DOMAIN shows, ShowStep(i)
      PROVE  PageInv'
  BY <1>4, ShowKeeps
<1>5. CASE UNCHANGED pageVars
  BY <1>5 DEF pageVars, PageInv, PageTypeOK, FirstAsksOnce, NewestIsCurrent, WatchedVideosOnly
<1> QED
  BY <1>1, <1>2, <1>3, <1>4, <1>5 DEF PageNext

\* The page keeps its invariant, for any videos and any number of shows.
THEOREM PageKeepsInvariant == PageSpec => []PageInv
BY PageStart, PageStep, PTL DEF PageSpec

\* VideoPageController asks only for videos that were watched for the whole gate,
\* and sends at most one request for a show that has been left.
THEOREM WatchedOnly == PageSpec => []WatchedVideosOnly
<1>1. PageInv => WatchedVideosOnly
  BY DEF PageInv
<1> QED
  BY <1>1, PageKeepsInvariant, PTL
----------------------------------------------------------------------------
(* The badges of the recommendations *)

\* A card waits for the video it was last observed with, and for no other:
\* an answer labels whoever waits for it.
WaitingIsMarked == \A f \in Films : \A c \in pending[f] : mark[c] = f

FeedInv == FeedTypeOK /\ WaitingIsMarked /\ BadgeMatchesCard

\* FeedTypeOK, one conjunct for each variable.
LEMMA FeedTypes ==
    FeedTypeOK <=>
      /\ href \in [Cards -> Seen] /\ mark \in [Cards -> Seen] /\ badge \in [Cards -> Seen]
      /\ pending \in [Films -> SUBSET Cards]
      /\ cache \in [Films -> {"unknown", "null", "item"}]
      /\ flush \in [Flushes -> [asked: SUBSET Films, left: SUBSET Films]]
      /\ timer \in BOOLEAN /\ rejected \in BOOLEAN /\ reuses \in 0..MaxReuses
BY DEF FeedTypeOK

LEMMA FeedStart == FeedInit => FeedInv
<1> SUFFICES ASSUME FeedInit PROVE FeedInv
  OBVIOUS
<1>1. /\ mark \in [Cards -> Seen] /\ badge \in [Cards -> Seen]
      /\ pending \in [Films -> SUBSET Cards]
      /\ cache \in [Films -> {"unknown", "null", "item"}]
      /\ flush \in [Flushes -> [asked: SUBSET Films, left: SUBSET Films]]
  BY DEF FeedInit, Seen, NoFlush
<1>2. href \in [Cards -> Seen] /\ reuses \in 0..MaxReuses
  BY FeedAssumption DEF FeedInit
<1>3. FeedTypeOK
  BY <1>1, <1>2, FeedTypes DEF FeedInit
<1> QED
  BY <1>3 DEF FeedInit, FeedInv, WaitingIsMarked, BadgeMatchesCard

LEMMA ObserveStep ==
    ASSUME FeedInv, NEW c \in Cards, Observe(c)
    PROVE  FeedInv'
<1> DEFINE f == href[c]
           label == IF f # NoFilm /\ cache[f] = "item" THEN f ELSE NoFilm
           waits == f # NoFilm /\ cache[f] = "unknown"
<1>1. /\ mark' = [mark EXCEPT ![c] = f] /\ badge' = [badge EXCEPT ![c] = label]
      /\ pending' = IF waits THEN [LeftBehind(c) EXCEPT ![f] = @ \cup {c}] ELSE LeftBehind(c)
      /\ timer' = (timer \/ waits)
      /\ UNCHANGED <<href, cache, flush, reuses, rejected>>
  BY DEF Observe
<1>2. f \in Seen /\ label \in {f, NoFilm} /\ label \in Seen /\ (waits => f \in Films)
  BY FeedTypes DEF FeedInv, Seen
<1> HIDE DEF f, label, waits
<1>3. LeftBehind(c) \in [Films -> SUBSET Cards]
      /\ \A g \in Films : LeftBehind(c)[g] = pending[g] \ {c}
  BY FeedTypes DEF FeedInv, LeftBehind
<1>4. /\ pending' \in [Films -> SUBSET Cards]
      /\ \A g \in Films : pending'[g] = (pending[g] \ {c}) \cup (IF waits /\ g = f THEN {c} ELSE {})
  BY <1>1, <1>2, <1>3
<1>5. /\ mark' \in [Cards -> Seen] /\ badge' \in [Cards -> Seen]
      /\ mark'[c] = f /\ badge'[c] = label
      /\ \A d \in Cards : d # c => mark'[d] = mark[d] /\ badge'[d] = badge[d]
  BY <1>1, <1>2, FeedTypes DEF FeedInv
<1>6. timer' \in BOOLEAN
  BY <1>1, FeedTypes DEF FeedInv
<1>7. FeedTypeOK'
  BY <1>1, <1>4, <1>5, <1>6, FeedTypes DEF FeedInv, FeedTypeOK
<1>8. WaitingIsMarked'
  <2> SUFFICES ASSUME NEW g \in Films, NEW d \in pending'[g]
               PROVE  mark'[d] = g
    BY DEF WaitingIsMarked
  <2>1. d \in Cards
    BY <1>4
  <2>2. CASE d = c
    BY <1>4, <1>5, <2>2
  <2>3. CASE d # c
    <3>1. d \in pending[g]
      BY <1>4, <2>3
    <3> QED
      BY <1>5, <2>1, <2>3, <3>1 DEF FeedInv, WaitingIsMarked
  <2> QED
    BY <2>2, <2>3
<1>9. BadgeMatchesCard'
  BY <1>2, <1>5 DEF FeedInv, BadgeMatchesCard
<1> QED
  BY <1>7, <1>8, <1>9 DEF FeedInv

LEMMA BatchesAre ==
    ASSUME NEW left \in SUBSET Films, NEW b \in Batches(left)
    PROVE  b \in [asked: SUBSET Films, left: SUBSET Films]
BY DEF Batches

LEMMA TimerStep ==
    ASSUME FeedInv, NEW i \in Flushes, TimerFires(i)
    PROVE  FeedInv'
<1>1. PICK b \in Batches(Pending) : flush' = [flush EXCEPT ![i] = b]
  BY DEF TimerFires
<1>2. b \in [asked: SUBSET Films, left: SUBSET Films]
  BY BatchesAre DEF Pending
<1>3. FeedTypeOK'
  BY <1>1, <1>2, FeedTypes DEF FeedInv, FeedTypeOK, TimerFires
<1> QED
  BY <1>3 DEF TimerFires, FeedInv, WaitingIsMarked, BadgeMatchesCard

\* An answer labels the cards that wait by now, with the video they wait for.
LEMMA AnsweredStep ==
    ASSUME FeedInv, NEW i \in Flushes, NEW items \in SUBSET Films, BatchAnswered(i, items)
    PROVE  FeedInv'
<1> DEFINE labelled == {c \in Cards : \E f \in items : c \in pending[f]}
           known(f) == IF f \in items THEN "item" ELSE IF f \in flush[i].asked THEN "null" ELSE cache[f]
<1>1. /\ items \subseteq flush[i].asked
      /\ cache' = [f \in Films |-> known(f)]
      /\ badge' = [c \in Cards |->
           IF c \in labelled THEN CHOOSE f \in items : c \in pending[f] ELSE badge[c]]
      /\ pending' = [f \in Films |-> IF f \in flush[i].asked THEN {} ELSE pending[f]]
      /\ NextBatch(i)
      /\ UNCHANGED <<href, mark, timer, reuses, rejected>>
  BY DEF BatchAnswered
<1>2. flush[i] \in [asked: SUBSET Films, left: SUBSET Films]
  BY FeedTypes DEF FeedInv
<1>3. PICK b \in Batches(flush[i].left) : flush' = [flush EXCEPT ![i] = b]
  BY <1>1 DEF NextBatch
<1>4. b \in [asked: SUBSET Films, left: SUBSET Films]
  BY <1>2, BatchesAre
<1>5. flush' \in [Flushes -> [asked: SUBSET Films, left: SUBSET Films]]
  BY <1>3, <1>4, FeedTypes DEF FeedInv
<1>6. ASSUME NEW c \in Cards, c \in labelled
      PROVE  badge'[c] = mark[c] /\ mark[c] \in Seen
  <2>1. PICK f \in items : c \in pending[f]
    BY <1>6
  <2>2. badge'[c] = CHOOSE g \in items : c \in pending[g]
    BY <1>1, <1>6
  <2>3. badge'[c] \in items /\ c \in pending[badge'[c]]
    BY <2>1, <2>2
  <2> QED
    BY <2>3 DEF FeedInv, WaitingIsMarked, Seen
<1>7. ASSUME NEW c \in Cards, c \notin labelled
      PROVE  badge'[c] = badge[c]
  BY <1>1, <1>7
<1>8. cache' \in [Films -> {"unknown", "null", "item"}]
  <2>1. ASSUME NEW f \in Films
        PROVE  known(f) \in {"unknown", "null", "item"}
    <3>1. cache[f] \in {"unknown", "null", "item"}
      BY FeedTypes DEF FeedInv
    <3> QED
      BY <3>1
  <2> QED
    BY <1>1, <2>1
<1>9. badge' \in [Cards -> Seen]
  <2>1. \A c \in Cards : badge'[c] \in Seen
    BY <1>6, <1>7, FeedTypes DEF FeedInv
  <2> HIDE DEF labelled
  <2> QED
    BY <1>1, <2>1
<1>10. /\ pending' \in [Films -> SUBSET Cards]
       /\ \A f \in Films : pending'[f] \subseteq pending[f]
  BY <1>1, FeedTypes DEF FeedInv
<1>11. FeedTypeOK'
  BY <1>1, <1>5, <1>8, <1>9, <1>10, FeedTypes DEF FeedInv, FeedTypeOK
<1>12. WaitingIsMarked'
  BY <1>1, <1>10 DEF FeedInv, WaitingIsMarked
<1>13. BadgeMatchesCard'
  BY <1>1, <1>6, <1>7 DEF FeedInv, BadgeMatchesCard
<1> QED
  BY <1>11, <1>12, <1>13 DEF FeedInv

LEMMA FeedStep == FeedInv /\ [FeedNext]_feedVars => FeedInv'
<1> SUFFICES ASSUME FeedInv, [FeedNext]_feedVars PROVE FeedInv'
  OBVIOUS
<1>1. ASSUME NEW c \in Cards, Observe(c)
      PROVE  FeedInv'
  BY <1>1, ObserveStep
<1>2. ASSUME NEW c \in Cards, NEW f \in Seen, Reuse(c, f)
      PROVE  FeedInv'
  <2>1. reuses' \in 0..MaxReuses /\ href' \in [Cards -> Seen]
    BY <1>2, FeedTypes, FeedAssumption DEF Reuse, FeedInv
  <2>2. FeedTypeOK'
    BY <1>2, <2>1, FeedTypes DEF Reuse, FeedInv, FeedTypeOK
  <2> QED
    BY <1>2, <2>2 DEF Reuse, FeedInv, WaitingIsMarked, BadgeMatchesCard
<1>3. ASSUME NEW i \in Flushes, TimerFires(i)
      PROVE  FeedInv'
  BY <1>3, TimerStep
<1>4. ASSUME NEW i \in Flushes, NEW items \in SUBSET Films, BatchAnswered(i, items)
      PROVE  FeedInv'
  BY <1>4, AnsweredStep
<1>5. ASSUME NEW i \in Flushes, BatchRejected(i)
      PROVE  FeedInv'
  <2>1. flush' \in [Flushes -> [asked: SUBSET Films, left: SUBSET Films]]
    BY <1>5, FeedTypes DEF BatchRejected, FeedInv, NoFlush
  <2>2. FeedTypeOK'
    BY <1>5, <2>1, FeedTypes DEF BatchRejected, FeedInv, FeedTypeOK
  <2> QED
    BY <1>5, <2>2 DEF BatchRejected, FeedInv, WaitingIsMarked, BadgeMatchesCard
<1>6. CASE UNCHANGED feedVars
  BY <1>6 DEF feedVars, FeedInv, FeedTypeOK, WaitingIsMarked, BadgeMatchesCard
<1> QED
  BY <1>1, <1>2, <1>3, <1>4, <1>5, <1>6 DEF FeedNext, FlushStep

\* The feed keeps its invariant, for any cards, videos and flushes.
THEOREM FeedKeepsInvariant == FeedSpec => []FeedInv
<1>1. FeedInit => FeedInv
  BY FeedStart
<1>2. FeedInv /\ [FeedNext]_feedVars => FeedInv'
  BY FeedStep
<1> QED
  BY <1>1, <1>2, PTL DEF FeedSpec

\* RecommendationFeed shows on a card the label of the video it was last observed
\* with, however often the page gives it another link while batches are in flight.
THEOREM BadgesMatch == FeedSpec => []BadgeMatchesCard
<1>1. FeedInv => BadgeMatchesCard
  BY DEF FeedInv
<1> QED
  BY <1>1, FeedKeepsInvariant, PTL
----------------------------------------------------------------------------
(* The parts beside one another *)

\* MCReading runs each part as its own specification says: a behaviour of it is
\* one of every part, all but one of them resting.
THEOREM PartsRun == Spec => TokenSpec /\ FactsSpec /\ SessionSpec /\ PageSpec /\ FeedSpec
<1>1. Init => TokenInit /\ FactsInit /\ SessionInit /\ PageInit /\ FeedInit
  BY DEF Init
<1>2. [Next]_allVars => [TokenNext]_tokenVars
  BY DEF Next, allVars, tokenVars
<1>3. [Next]_allVars => [FactsNext]_factVars
  BY DEF Next, allVars, factVars, worldVars
<1>4. [Next]_allVars => [SessionNext]_sessionVars
  BY DEF Next, allVars, sessionVars
<1>5. [Next]_allVars => [PageNext]_pageVars
  BY DEF Next, allVars, pageVars
<1>6. [Next]_allVars => [FeedNext]_feedVars
  BY DEF Next, allVars, feedVars
<1> QED
  BY <1>1, <1>2, <1>3, <1>4, <1>5, <1>6, PTL
     DEF Spec, TokenSpec, FactsSpec, SessionSpec, PageSpec, FeedSpec

\* In every part, every variable is what it is declared to be.
THEOREM TypesKept == Spec => []TypesOK
<1>1. TokenInv /\ FactsInv /\ SessionInv /\ PageInv /\ FeedInv => TypesOK
  BY DEF TokenInv, FactsInv, SessionInv, PageInv, FeedInv, TypesOK
<1> QED
  BY <1>1, PartsRun, TokensKeepInvariant, FactsKeepInvariant, SessionKeepsInvariant,
     PageKeepsInvariant, FeedKeepsInvariant, PTL

\* What the parts promise they promise together.
THEOREM PartsKeepPromises ==
    Spec => [](OneLiveToken /\ UsedStaysUsable /\ ServedWasTrue /\ SecondAttemptIsFresh
                 /\ WatchedVideosOnly /\ BadgeMatchesCard)
BY PartsRun, TokensOneLive, TokensStayUsable, FactsServed, RetriesAreFresh, WatchedOnly,
   BadgesMatch, PTL
=============================================================================
