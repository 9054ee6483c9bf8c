------------------------- MODULE RefreshTokensProofs -------------------------
(***************************************************************************)
(* Theorems about RefreshTokens for any number of requests, users, tokens   *)
(* and pool connections.                                                    *)
(***************************************************************************)
EXTENDS RefreshTokens, TLAPS

USE NoTokenAssumption, NoUserAssumption

(* The handler's record and the row's record, as the provers need them.     *)
LEMMA HandlerTypes ==
  ASSUME TypeOK, NEW r \in Requests
  PROVE  /\ req[r] \in Handler
         /\ req[r].at \in Place
         /\ req[r].token \in Tokens \cup {NoToken}
         /\ req[r].user \in Users \cup {NoUser}
         /\ req[r].new \in Tokens \cup {NoToken}
         /\ req[r].by \in Tokens \cup {NoToken}
         /\ req[r].seen \subseteq Tokens
         /\ req[r].rows \subseteq Tokens
         /\ req[r].updated \subseteq Tokens
         /\ req[r].reuse \in BOOLEAN
         /\ req[r].answer \in Answer
  BY DEF TypeOK, Handler

LEMMA RowTypes ==
  ASSUME TypeOK, NEW t \in Tokens
  PROVE  /\ refresh_tokens[t] \in Row
         /\ refresh_tokens[t].state \in RowState
         /\ refresh_tokens[t].user \in Users \cup {NoUser}
         /\ refresh_tokens[t].issued_at \in Nat
         /\ refresh_tokens[t].replaced_by \in Tokens \cup {NoToken}
         /\ refresh_tokens[t].parent \in Tokens \cup {NoToken}
         /\ refresh_tokens[t].session \in Tokens \cup {NoToken}
  BY DEF TypeOK, Row

(* An UPDATE of revoked_at or replaced_by keeps the row's other columns.     *)
LEMMA RowUpdate ==
  ASSUME NEW row \in Row, NEW x \in RowState
  PROVE  /\ [row EXCEPT !.state = x] \in Row
         /\ [row EXCEPT !.state = x].state = x
         /\ [row EXCEPT !.state = x].user = row.user
         /\ [row EXCEPT !.state = x].issued_at = row.issued_at
         /\ [row EXCEPT !.state = x].parent = row.parent
         /\ [row EXCEPT !.state = x].session = row.session
  BY DEF Row

LEMMA RowRotation ==
  ASSUME NEW row \in Row, NEW b \in Tokens
  PROVE  [row EXCEPT !.state = "revoked", !.replaced_by = b] \in Row
  BY DEF Row, RowState

(* A step of one handler leaves the others where they are.                  *)
LEMMA ContinueStep ==
  ASSUME TypeOK, NEW r \in Requests, NEW h \in Handler, Continue(r, h)
  PROVE  /\ req' \in [Requests -> Handler]
         /\ req'[r] = h
         /\ \A s \in Requests \ {r} : req'[s] = req[s]
  BY DEF Continue, TypeOK

LEMMA AnsweredStep ==
  ASSUME TypeOK, NEW r \in Requests, NEW a \in Answer, Answered(r, a)
  PROVE  /\ req' \in [Requests -> Handler]
         /\ req'[r].at = "done"
         /\ req'[r].answer = a
         /\ req'[r].updated = {}
         /\ req'[r].seen = req[r].seen
         /\ \A s \in Requests \ {r} : req'[s] = req[s]
  <1>1. "done" \in Place
    BY DEF Place
  <1>2. [req[r] EXCEPT !.at = "done", !.answer = a,
                       !.rows = {}, !.updated = {}] \in Handler
    BY <1>1, HandlerTypes DEF Handler
  <1>3. req'[r] = [req[r] EXCEPT !.at = "done", !.answer = a,
                                 !.rows = {}, !.updated = {}]
    BY <1>2, ContinueStep DEF Answered
  <1>4. /\ req'[r].at = "done" /\ req'[r].answer = a
        /\ req'[r].updated = {} /\ req'[r].seen = req[r].seen
    BY <1>3, HandlerTypes DEF Handler
  <1>5. QED
    BY <1>2, <1>4, ContinueStep DEF Answered

(* ROLLBACK takes back the one row the handler was inserting, if any.       *)
LEMMA RollBackStep ==
  ASSUME IInv, NEW r \in Requests, NEW a \in Answer, RollBack(r, a),
         req[r].at \in Holding
  PROVE  /\ TypeOK'
         /\ req'[r].at = "done"
         /\ req'[r].answer = a
         /\ req'[r].updated = {}
         /\ \A s \in Requests \ {r} : req'[s] = req[s]
         /\ \A t \in Tokens : t # req[r].new => refresh_tokens'[t] = refresh_tokens[t]
         /\ req[r].new \in Tokens => /\ refresh_tokens[req[r].new].state = "inserted"
                                     /\ refresh_tokens'[req[r].new] = FreeRow
  <1>1. TypeOK
    BY DEF IInv
  <1>2. refresh_tokens' \in [Tokens -> Row]
    BY <1>1 DEF RollBack, TypeOK, Row, FreeRow, RowState
  <1>3. TypeOK'
    BY <1>1, <1>2, AnsweredStep DEF RollBack, TypeOK
  <1>4. req[r].new \in Tokens => refresh_tokens[req[r].new].state = "inserted"
    BY DEF IInv, HandlerOK, Holding, Rotating
  <1>5. QED
    BY <1>1, <1>3, <1>4, AnsweredStep DEF RollBack

(* Steps that keep the committed rows keep what replaced_by refers to.       *)
LEMMA ReplacementKept ==
  ASSUME LineageOK, ReplacedByIsCurrent,
         \A t \in Tokens : Committed(t)' <=> Committed(t),
         \A t \in Tokens : Committed(t) => refresh_tokens'[t] = refresh_tokens[t]
  PROVE  ReplacedByIsCurrent'
  <1> SUFFICES ASSUME NEW c \in Tokens, NEW p \in Tokens,
                      Committed(c)', refresh_tokens'[c].parent = p
               PROVE  \E b \in Tokens \ {p} :
                        /\ b = refresh_tokens'[p].replaced_by
                        /\ Committed(b)'
                        /\ refresh_tokens'[b].user = refresh_tokens'[p].user
                        /\ refresh_tokens'[b].issued_at >= refresh_tokens'[c].issued_at
    BY DEF ReplacedByIsCurrent
  <1>1. /\ Committed(c)
        /\ refresh_tokens'[c] = refresh_tokens[c]
    OBVIOUS
  <1>2. Committed(p) /\ refresh_tokens'[p] = refresh_tokens[p]
    BY <1>1 DEF LineageOK, Committed, IsLive, IsRevoked
  <1>3. PICK b \in Tokens \ {p} :
          /\ b = refresh_tokens[p].replaced_by
          /\ Committed(b)
          /\ refresh_tokens[b].user = refresh_tokens[p].user
          /\ refresh_tokens[b].issued_at >= refresh_tokens[c].issued_at
    BY <1>1 DEF ReplacedByIsCurrent
  <1>4. Committed(b)' /\ refresh_tokens'[b] = refresh_tokens[b]
    BY <1>3
  <1>5. QED
    BY <1>1, <1>2, <1>3, <1>4

LEMMA RollBackInv ==
  ASSUME IInv, NEW r \in Requests, NEW a \in {"refused", "failed"}, RollBack(r, a),
         req[r].at \in Holding
  PROVE  IInv'
  <1> USE DEF IInv
  <1>1. a \in Answer
    BY DEF Answer
  <1>2. /\ TypeOK'
        /\ req'[r].at = "done"
        /\ req'[r].answer = a
        /\ req'[r].updated = {}
        /\ \A s \in Requests \ {r} : req'[s] = req[s]
        /\ \A t \in Tokens : t # req[r].new => refresh_tokens'[t] = refresh_tokens[t]
        /\ req[r].new \in Tokens => /\ refresh_tokens[req[r].new].state = "inserted"
                                    /\ refresh_tokens'[req[r].new] = FreeRow
    BY <1>1, RollBackStep
  <1>3. \A t \in Tokens : /\ IsLive(t)' <=> IsLive(t)
                          /\ IsRevoked(t)' <=> IsRevoked(t)
    BY <1>2 DEF IsLive, IsRevoked, FreeRow
  <1>4. \A t \in Tokens : Committed(t)' <=> Committed(t)
    BY <1>3 DEF Committed
  <1>5. \A t \in Tokens : Committed(t) => refresh_tokens'[t] = refresh_tokens[t]
    BY <1>2 DEF IsLive, IsRevoked, Committed
  <1>6. \A s \in Requests \ {r} :
          req[s].at \in Inserting => refresh_tokens'[req[s].new] = refresh_tokens[req[s].new]
    <2> SUFFICES ASSUME NEW s \in Requests \ {r}, req[s].at \in Inserting
                 PROVE  refresh_tokens'[req[s].new] = refresh_tokens[req[s].new]
      OBVIOUS
    <2>1. req[s].new \in Tokens
      BY DEF HandlerOK
    <2>2. CASE req[r].at \in Inserting
      BY <1>2, <2>1, <2>2 DEF LocksOK
    <2>3. CASE req[r].at \notin Inserting
      BY <1>2, <2>1, <2>3 DEF HandlerOK, Holding, Rotating
    <2>4. QED
      BY <2>2, <2>3
  <1>7. \A s \in Requests : HandlerOK(s)'
    <2>1. HandlerOK(r)'
      BY <1>2 DEF HandlerOK, Inserting
    <2>2. ASSUME NEW s \in Requests \ {r}
          PROVE  HandlerOK(s)'
      BY <1>2, <1>6 DEF HandlerOK, Inserting
    <2>3. QED
      BY <2>1, <2>2
  <1>8. \A s \in Requests : RotationOK(s)'
    <2>1. RotationOK(r)'
      BY <1>2 DEF RotationOK, Rotating
    <2>2. ASSUME NEW s \in Requests \ {r}
          PROVE  RotationOK(s)'
      <3>1. CASE req[s].at \in Rotating
        <4>1. /\ req[s].token \in Tokens
              /\ refresh_tokens'[req[s].token] = refresh_tokens[req[s].token]
          BY <1>5, <3>1 DEF RotationOK, Committed
        <4>2. CASE req[s].at \in {"rotate", "commit"}
          <5>1. refresh_tokens'[req[s].new] = refresh_tokens[req[s].new]
            BY <1>6, <4>2 DEF Inserting
          <5>2. QED
            BY <1>2, <1>3, <1>4, <1>5, <3>1, <4>1, <4>2, <5>1 DEF RotationOK
        <4>3. QED
          BY <1>2, <1>3, <3>1, <4>1, <4>2 DEF RotationOK
      <3>2. QED
        BY <1>2, <3>1 DEF RotationOK, Rotating
    <2>3. QED
      BY <2>1, <2>2
  <1>9. \A s \in Requests : RevocationOK(s)'
    BY <1>2, <1>3, <1>4, HandlerTypes DEF RevocationOK
  <1>10. LocksOK'
    BY <1>2 DEF LocksOK, ForUpdate, Rotating, Inserting
  <1>11. LineageOK'
    BY <1>2, <1>3, <1>4, RowTypes DEF LineageOK, FreeRow
  <1>12. OneLiveTokenPerSession'
    BY <1>3, <1>5 DEF OneLiveTokenPerSession, Committed
  <1>13. RevocationComplete'
    BY <1>2, <1>3, HandlerTypes DEF RevocationComplete
  <1>14. ReplacedByIsCurrent'
    BY <1>2, <1>4, <1>5, ReplacementKept
  <1>15. OneSuccessor'
    BY <1>4, <1>5 DEF OneSuccessor
  <1>16. QED
    BY <1>2, <1>7, <1>8, <1>9, <1>10, <1>11, <1>12, <1>13, <1>14, <1>15

(* A step that leaves the table alone only has to re-establish what the      *)
(* invariant says of the handler that took it.                              *)
LEMMA LocalStep ==
  ASSUME IInv, NEW r \in Requests, NEW h \in Handler, Continue(r, h),
         UNCHANGED <<refresh_tokens, active, expired, clock>>,
         HandlerOK(r)', RotationOK(r)', RevocationOK(r)', LocksOK',
         h.answer \notin {"reuse", "revoked"}
  PROVE  IInv'
  <1>1. /\ TypeOK
        /\ req' \in [Requests -> Handler]
        /\ req'[r] = h
        /\ \A s \in Requests \ {r} : req'[s] = req[s]
    BY ContinueStep DEF IInv
  <1>2. TypeOK'
    BY <1>1 DEF TypeOK
  <1>3. \A s \in Requests : HandlerOK(s)' /\ RotationOK(s)' /\ RevocationOK(s)'
    <2>1. ASSUME NEW s \in Requests \ {r}
          PROVE  HandlerOK(s)' /\ RotationOK(s)' /\ RevocationOK(s)'
      <3>1. req'[s] = req[s] /\ HandlerOK(s) /\ RotationOK(s) /\ RevocationOK(s)
        BY <1>1 DEF IInv
      <3>2. QED
        BY <3>1 DEF HandlerOK, RotationOK, RevocationOK, IsLive, IsRevoked, Committed
    <2>2. QED
      BY <2>1
  <1>4. /\ LineageOK'
        /\ OneSuccessor'
        /\ OneLiveTokenPerSession'
        /\ ReplacedByIsCurrent'
    BY DEF IInv, LineageOK, OneSuccessor, OneLiveTokenPerSession,
           ReplacedByIsCurrent, IsLive, IsRevoked, Committed
  <1>5. RevocationComplete'
    BY <1>1 DEF IInv, RevocationComplete, IsRevoked
  <1>6. QED
    BY <1>2, <1>3, <1>4, <1>5 DEF IInv

(* Locks stay exclusive when r takes none.                                  *)
LEMMA LocksShrink ==
  ASSUME LocksOK, NEW r \in Requests,
         \A s \in Requests \ {r} : req'[s] = req[s],
         \A t \in Tokens : ForUpdate(r, t)' => ForUpdate(r, t),
         req'[r].updated \subseteq req[r].updated,
         req'[r].at \in Inserting => req[r].at \in Inserting /\ req'[r].new = req[r].new
  PROVE  LocksOK'
  <1>1. \A s \in Requests \ {r}, t \in Tokens : ForUpdate(s, t)' <=> ForUpdate(s, t)
    BY DEF ForUpdate
  <1>2. QED
    BY <1>1 DEF LocksOK

LEMMA LookupUserInv ==
  ASSUME IInv, NEW r \in Requests, NEW u \in Users, LookupUser(r, u)
  PROVE  IInv'
  <1> DEFINE g == [req[r] EXCEPT !.at = "login", !.user = u]
             h == [req[r] EXCEPT !.at = "done", !.answer = "refused",
                                 !.rows = {}, !.updated = {}]
  <1>1. TypeOK /\ req[r] = NewHandler
    BY DEF IInv, LookupUser, HandlerOK
  <1>2. /\ g \in Handler /\ g.at = "login" /\ g.updated = {} /\ g.answer = "none"
        /\ g.token = NoToken /\ g.new = NoToken /\ g.reuse = FALSE
    <2>1. "login" \in Place
      BY DEF Place
    <2>2. g \in Handler
      BY <1>1, <2>1, HandlerTypes DEF Handler
    <2>3. QED
      BY <1>1, <2>2 DEF NewHandler
  <1>3. /\ h \in Handler /\ h.at = "done" /\ h.updated = {} /\ h.answer = "refused"
    <2>1. "done" \in Place /\ "refused" \in Answer
      BY DEF Place, Answer
    <2>2. h \in Handler
      BY <1>1, <2>1, HandlerTypes DEF Handler
    <2>3. QED
      BY <1>1, <2>2 DEF NewHandler
  <1>4. CASE Continue(r, g)
    <2>1. req'[r] = g /\ \A s \in Requests \ {r} : req'[s] = req[s]
      BY <1>1, <1>2, <1>4, ContinueStep
    <2>2. HandlerOK(r)' /\ RotationOK(r)' /\ RevocationOK(r)'
      BY <1>2, <2>1 DEF HandlerOK, RotationOK, RevocationOK, Inserting, Rotating
    <2>3. LocksOK'
      BY <1>2, <2>1, LocksShrink DEF IInv, ForUpdate, Inserting, Rotating
    <2>4. QED
      BY <1>2, <1>4, <2>2, <2>3, LocalStep DEF LookupUser
  <1>5. CASE Continue(r, h)
    <2>1. req'[r] = h /\ \A s \in Requests \ {r} : req'[s] = req[s]
      BY <1>1, <1>3, <1>5, ContinueStep
    <2>2. HandlerOK(r)' /\ RotationOK(r)' /\ RevocationOK(r)'
      BY <1>3, <2>1 DEF HandlerOK, RotationOK, RevocationOK, Inserting, Rotating
    <2>3. LocksOK'
      BY <1>3, <2>1, LocksShrink DEF IInv, ForUpdate, Inserting, Rotating
    <2>4. QED
      BY <1>3, <1>5, <2>2, <2>3, LocalStep DEF LookupUser
  <1>6. QED
    BY <1>4, <1>5 DEF LookupUser, Answered

(* FOR UPDATE on a row nobody else locked or updated.                       *)
LEMMA LockTaken ==
  ASSUME TypeOK, LocksOK, NEW r \in Requests, NEW t \in Tokens,
         ~ForUpdateBlocked(r, t),
         \A s \in Requests \ {r} : req'[s] = req[s],
         req'[r].token = t, req'[r].updated = {}, req'[r].at \notin Inserting
  PROVE  LocksOK'
  <1>1. \A s \in Requests \ {r} : ~ForUpdate(s, t) /\ t \notin req[s].updated
    BY DEF ForUpdateBlocked, UpdateBlocked
  <1>2. \A s \in Requests \ {r}, x \in Tokens : ForUpdate(s, x)' <=> ForUpdate(s, x)
    BY DEF ForUpdate
  <1>3. \A x \in Tokens : ForUpdate(r, x)' => x = t
    BY DEF ForUpdate
  <1>4. QED
    BY <1>1, <1>2, <1>3 DEF LocksOK

LEMMA RefreshInv ==
  ASSUME IInv, NEW r \in Requests, NEW t \in Tokens \cup {NoToken}, Refresh(r, t)
  PROVE  IInv'
  <1> DEFINE h == [req[r] EXCEPT !.at = "lock", !.token = t]
  <1>1. TypeOK /\ req[r] = NewHandler /\ Continue(r, h)
    BY DEF IInv, Refresh, HandlerOK
  <1>2. /\ h \in Handler /\ h.at = "lock" /\ h.updated = {} /\ h.answer = "none"
        /\ h.new = NoToken
    <2>1. "lock" \in Place
      BY DEF Place, Holding
    <2>2. h \in Handler
      BY <1>1, <2>1, HandlerTypes DEF Handler
    <2>3. QED
      BY <1>1, <2>2 DEF NewHandler
  <1>3. req'[r] = h /\ \A s \in Requests \ {r} : req'[s] = req[s]
    BY <1>1, <1>2, ContinueStep
  <1>4. HandlerOK(r)' /\ RotationOK(r)' /\ RevocationOK(r)'
    BY <1>2, <1>3 DEF HandlerOK, RotationOK, RevocationOK, Inserting, Rotating
  <1>5. LocksOK'
    BY <1>2, <1>3, LocksShrink DEF IInv, ForUpdate, Inserting, Rotating
  <1>6. QED
    BY <1>1, <1>2, <1>4, <1>5, LocalStep DEF Refresh

(* The two answers of SELECT ... FOR UPDATE that keep the transaction open. *)
LEMMA LockTokenInv ==
  ASSUME IInv, NEW r \in Requests, NEW t \in Tokens,
         RefreshReuse(r, t) \/ RefreshValid(r, t)
  PROVE  IInv'
  <1> DEFINE u == refresh_tokens[t].user
             g == [req[r] EXCEPT !.at = "reused", !.user = u]
             h == [req[r] EXCEPT !.at = "lookup", !.user = u]
  <1>1. /\ TypeOK /\ LocksOK /\ u \in Users \cup {NoUser}
        /\ req[r].at = "lock" /\ req[r].token = t /\ ~ForUpdateBlocked(r, t)
        /\ req[r].updated = {} /\ req[r].answer = "none" /\ req[r].new = NoToken
    BY RowTypes DEF IInv, HandlerOK, RevocationOK, RefreshReuse, RefreshValid, LockToken,
                    Inserting
  <1>2. \A x \in {g, h} : /\ x \in Handler /\ x.at \in {"reused", "lookup"}
                          /\ x.user = u /\ x.token = t
                          /\ x.updated = {} /\ x.answer = "none" /\ x.new = NoToken
    <2>1. "reused" \in Place /\ "lookup" \in Place
      BY DEF Place, Holding, Rotating
    <2>2. /\ g \in Handler /\ g.at = "reused" /\ g.user = u /\ g.token = t
          /\ g.updated = {} /\ g.answer = "none" /\ g.new = NoToken
      BY ZenonT(60), <1>1, <2>1, HandlerTypes DEF Handler
    <2>3. /\ h \in Handler /\ h.at = "lookup" /\ h.user = u /\ h.token = t
          /\ h.updated = {} /\ h.answer = "none" /\ h.new = NoToken
      BY ZenonT(60), <1>1, <2>1, HandlerTypes DEF Handler
    <2>4. QED
      BY <2>2, <2>3
  <1>3. ASSUME NEW x \in {g, h}, Continue(r, x)
        PROVE  /\ req'[r] = x
               /\ \A s \in Requests \ {r} : req'[s] = req[s]
               /\ LocksOK'
               /\ HandlerOK(r)' /\ RevocationOK(r)'
    <2>1. req'[r] = x /\ \A s \in Requests \ {r} : req'[s] = req[s]
      BY <1>1, <1>2, <1>3, ContinueStep
    <2>2. LocksOK'
      BY <1>1, <1>2, <2>1, LockTaken DEF Inserting
    <2>3. /\ x.at \in {"reused", "lookup"} /\ x.updated = {}
          /\ x.answer = "none" /\ x.new = NoToken
      BY <1>2, <1>3
    <2>4. HandlerOK(r)' /\ RevocationOK(r)'
      BY <2>1, <2>3 DEF HandlerOK, RevocationOK, Inserting
    <2>5. QED
      BY <2>1, <2>2, <2>4
  <1>4. CASE RefreshReuse(r, t)
    <2>1. Continue(r, g) /\ UNCHANGED <<refresh_tokens, active, expired, clock>>
      BY <1>4 DEF RefreshReuse
    <2>2. g.at = "reused"
      BY <1>1, HandlerTypes DEF Handler
    <2>3. RotationOK(r)'
      BY <1>3, <2>1, <2>2 DEF RotationOK, Rotating
    <2>4. QED
      BY <1>2, <1>3, <2>1, <2>3, LocalStep
  <1>5. CASE RefreshValid(r, t)
    <2>1. Continue(r, h) /\ UNCHANGED <<refresh_tokens, active, expired, clock>>
      BY <1>5 DEF RefreshValid
    <2>2. h.at = "lookup" /\ IsLive(t)
      BY <1>1, <1>5, HandlerTypes DEF Handler, RefreshValid
    <2>3. IsLive(t)'
      BY <2>1, <2>2 DEF IsLive
    <2>4. RotationOK(r)'
      BY <1>2, <1>3, <2>1, <2>2, <2>3 DEF RotationOK, Rotating
    <2>5. QED
      BY <1>2, <1>3, <2>1, <2>4, LocalStep
  <1>6. QED
    BY <1>4, <1>5

LEMMA LookupUserByIdInv ==
  ASSUME IInv, NEW r \in Requests, LookupUserById(r)
  PROVE  IInv'
  <1> DEFINE h == [req[r] EXCEPT !.at = "session"]
  <1>1. CASE RollBack(r, "refused")
    BY <1>1, RollBackInv DEF LookupUserById, Holding, Rotating
  <1>2. CASE Continue(r, h) /\ UNCHANGED <<refresh_tokens, active, expired, clock>>
    <2>1. /\ TypeOK /\ req[r].at = "lookup" /\ req[r].updated = {}
          /\ req[r].answer = "none" /\ req[r].new = NoToken
      BY DEF IInv, HandlerOK, RevocationOK, LookupUserById, Inserting
    <2>2. /\ h \in Handler /\ h.at = "session" /\ h.token = req[r].token
          /\ h.user = req[r].user /\ h.updated = {} /\ h.answer = "none"
          /\ h.new = NoToken
      <3>1. "session" \in Place
        BY DEF Place, Holding, Rotating
      <3>2. QED
        BY <2>1, <3>1, HandlerTypes DEF Handler
    <2>3. req'[r] = h /\ \A s \in Requests \ {r} : req'[s] = req[s]
      BY <1>2, <2>1, <2>2, ContinueStep
    <2>4. HandlerOK(r)' /\ RevocationOK(r)'
      BY <2>2, <2>3 DEF HandlerOK, RevocationOK, Inserting
    <2>5. RotationOK(r)'
      <3>1. /\ req[r].token \in Tokens /\ IsLive(req[r].token)
            /\ refresh_tokens[req[r].token].user = req[r].user
        BY <2>1 DEF IInv, RotationOK, Rotating
      <3>2. QED
        BY <1>2, <2>2, <2>3, <3>1 DEF RotationOK, IsLive
    <2>6. LocksOK'
      <3>1. /\ \A t \in Tokens : ForUpdate(r, t)' => ForUpdate(r, t)
            /\ req'[r].at \notin Inserting
            /\ req'[r].updated \subseteq req[r].updated
        BY <2>1, <2>2, <2>3 DEF ForUpdate, Inserting, Rotating
      <3>2. QED
        BY <2>3, <3>1, LocksShrink DEF IInv
    <2>7. QED
      BY <1>2, <2>2, <2>4, <2>5, <2>6, LocalStep
  <1>3. QED
    BY <1>1, <1>2 DEF LookupUserById

LEMMA RotateInv ==
  ASSUME IInv, NEW r \in Requests, NEW b \in Tokens, Rotate(r, b)
  PROVE  IInv'
  <1> DEFINE h == [req[r] EXCEPT !.at = "commit", !.by = b]
  <1>1. /\ TypeOK /\ req[r].at = "rotate" /\ req[r].updated = {}
        /\ req[r].answer = "none" /\ b \in Candidates(r)
        /\ Continue(r, h) /\ UNCHANGED <<refresh_tokens, active, expired, clock>>
    BY DEF IInv, HandlerOK, RevocationOK, Rotate
  <1>2. /\ h \in Handler /\ h.at = "commit" /\ h.token = req[r].token
        /\ h.user = req[r].user /\ h.updated = {} /\ h.answer = "none"
        /\ h.new = req[r].new /\ h.by = b
    <2>1. "commit" \in Place
      BY DEF Place, Holding, Rotating
    <2>2. QED
      BY <1>1, <2>1, HandlerTypes DEF Handler
  <1>3. req'[r] = h /\ \A s \in Requests \ {r} : req'[s] = req[s]
    BY <1>1, <1>2, ContinueStep
  <1>4. /\ req[r].new \in Tokens
        /\ refresh_tokens[req[r].new].state = "inserted"
        /\ refresh_tokens[req[r].new].user = req[r].user
    BY <1>1 DEF IInv, HandlerOK, Inserting
  <1>5. /\ req[r].token \in Tokens
        /\ IsLive(req[r].token)
        /\ refresh_tokens[req[r].token].user = req[r].user
        /\ refresh_tokens[req[r].new].parent = req[r].token
        /\ refresh_tokens[req[r].new].session = refresh_tokens[req[r].token].session
    BY <1>1 DEF IInv, RotationOK, Rotating
  <1>6. /\ b \in Tokens \ {req[r].token}
        /\ b = req[r].new \/ Committed(b)
        /\ refresh_tokens[b].user = req[r].user
    BY <1>1, <1>4 DEF Candidates, LiveTokensOf, Committed
  <1>7. refresh_tokens[b].issued_at >= refresh_tokens[req[r].new].issued_at
    <2>1. req[r].new # req[r].token
      BY <1>4, <1>5 DEF IsLive
    <2>2. req[r].new \in Candidates(r)
      BY <2>1 DEF Candidates
    <2>3. refresh_tokens[req[r].new].issued_at <= refresh_tokens[b].issued_at
      BY <2>2 DEF Rotate
    <2>4. QED
      BY <1>1, <1>4, <2>3, RowTypes
  <1>8. HandlerOK(r)' /\ RevocationOK(r)'
    BY <1>1, <1>2, <1>3, <1>4 DEF HandlerOK, RevocationOK, Inserting
  <1>9. RotationOK(r)'
    BY <1>1, <1>2, <1>3, <1>5, <1>6, <1>7
       DEF RotationOK, IsLive, IsRevoked, Committed
  <1>10. LocksOK'
    <2>1. \A t \in Tokens : ForUpdate(r, t)' => ForUpdate(r, t)
      BY <1>1, <1>2, <1>3 DEF ForUpdate, Rotating
    <2>2. QED
      BY <1>1, <1>2, <1>3, <2>1, LocksShrink DEF IInv, Inserting
  <1>11. QED
    BY <1>1, <1>2, <1>8, <1>9, <1>10, LocalStep

(* The start of a revoking UPDATE.                                          *)
LEMMA StartRevokingInv ==
  ASSUME IInv, NEW r \in Requests, NEW found \in SUBSET Tokens, NEW reuse \in BOOLEAN,
         \A t \in found : Committed(t),
         \/ req[r].at = "new" /\ ~reuse
         \/ req[r].at = "reused" /\ reuse,
         StartRevoking(r, found, reuse)
  PROVE  IInv'
  <1> DEFINE h == [req[r] EXCEPT !.at = "revoke", !.seen = found, !.rows = found,
                                 !.reuse = reuse]
  <1>1. /\ TypeOK /\ req[r].updated = {} /\ req[r].answer = "none"
        /\ req[r].new = NoToken
        /\ Continue(r, h) /\ UNCHANGED <<refresh_tokens, active, expired, clock>>
    BY DEF IInv, HandlerOK, RevocationOK, StartRevoking, Inserting
  <1>2. /\ h \in Handler /\ h.at = "revoke" /\ h.token = req[r].token
        /\ h.updated = {} /\ h.answer = "none" /\ h.new = NoToken
        /\ h.seen = found /\ h.rows = found /\ h.reuse = reuse
    <2>1. "revoke" \in Place
      BY DEF Place, Holding
    <2>2. QED
      BY <1>1, <2>1, HandlerTypes DEF Handler
  <1>3. req'[r] = h /\ \A s \in Requests \ {r} : req'[s] = req[s]
    BY <1>1, <1>2, ContinueStep
  <1>4. HandlerOK(r)' /\ RotationOK(r)' /\ RevocationOK(r)'
    <2>1. \A t \in found : Committed(t)'
      BY <1>1 DEF Committed, IsLive, IsRevoked
    <2>2. QED
      BY <1>2, <1>3, <2>1 DEF HandlerOK, RotationOK, RevocationOK, Inserting, Rotating
  <1>5. LocksOK'
    <2>1. \A t \in Tokens : ForUpdate(r, t)' => ForUpdate(r, t)
      BY <1>2, <1>3 DEF ForUpdate, Rotating
    <2>2. QED
      BY <1>1, <1>2, <1>3, <2>1, LocksShrink DEF IInv, Inserting
  <1>6. QED
    BY <1>1, <1>2, <1>4, <1>5, LocalStep

LEMMA RevokeRowInv ==
  ASSUME IInv, NEW r \in Requests, NEW t \in Tokens, RevokeRow(r, t)
  PROVE  IInv'
  <1> DEFINE up == IF IsLive(t) THEN req[r].updated \cup {t} ELSE req[r].updated
             h == [req[r] EXCEPT !.rows = req[r].rows \ {t}, !.updated = up]
  <1>1. /\ TypeOK /\ req[r].at = "revoke" /\ req[r].answer = "none"
        /\ req[r].new = NoToken /\ ~UpdateBlocked(r, t)
        /\ Continue(r, h) /\ UNCHANGED <<refresh_tokens, active, expired, clock>>
    BY DEF IInv, HandlerOK, RevokeRow, Inserting
  <1>2. /\ h \in Handler /\ h.at = "revoke" /\ h.token = req[r].token
        /\ h.updated = up /\ h.answer = "none" /\ h.new = NoToken
        /\ h.seen = req[r].seen /\ h.rows = req[r].rows \ {t}
        /\ h.reuse = req[r].reuse
    BY <1>1, HandlerTypes DEF Handler
  <1>3. req'[r] = h /\ \A s \in Requests \ {r} : req'[s] = req[s]
    BY <1>1, <1>2, ContinueStep
  <1>4. HandlerOK(r)' /\ RotationOK(r)'
    BY <1>2, <1>3 DEF HandlerOK, RotationOK, Inserting, Rotating
  <1>5. RevocationOK(r)'
    <2>1. /\ \A x \in req[r].updated : IsLive(x)
          /\ \A x \in req[r].seen :
               Committed(x) /\ (x \in req[r].rows \cup req[r].updated \/ IsRevoked(x))
      BY <1>1 DEF IInv, RevocationOK
    <2>2. \A x \in req[r].seen :
            x \in (req[r].rows \ {t}) \cup up \/ IsRevoked(x)
      BY <2>1 DEF Committed
    <2>3. \A x \in Tokens : /\ IsLive(x)' <=> IsLive(x)
                            /\ IsRevoked(x)' <=> IsRevoked(x)
      BY <1>1 DEF IsLive, IsRevoked
    <2>4. QED
      BY <1>1, <1>2, <1>3, <2>1, <2>2, <2>3, HandlerTypes DEF RevocationOK, Committed
  <1>6. LocksOK'
    <2>1. \A s \in Requests \ {r} : ~ForUpdate(s, t) /\ t \notin req[s].updated
      BY <1>1 DEF UpdateBlocked
    <2>2. \A x \in Tokens : ForUpdate(r, x)' <=> ForUpdate(r, x)
      BY <1>1, <1>2, <1>3 DEF ForUpdate, Rotating
    <2>3. \A s \in Requests \ {r}, x \in Tokens : ForUpdate(s, x)' <=> ForUpdate(s, x)
      BY <1>3 DEF ForUpdate
    <2>4. req'[r].updated \subseteq req[r].updated \cup {t} /\ req'[r].at \notin Inserting
      BY <1>2, <1>3 DEF Inserting
    <2>5. /\ LocksOK
          /\ \A s \in Requests : req[s].updated \subseteq Tokens
          /\ \A s \in Requests \ {r} : req'[s] = req[s]
      BY <1>1, <1>3, HandlerTypes DEF IInv
    <2>6. SUFFICES ASSUME NEW p \in Requests, NEW q \in Requests, p # q
                   PROVE  /\ \A x \in Tokens : ForUpdate(p, x)' =>
                                 ~ForUpdate(q, x)' /\ x \notin req'[q].updated
                          /\ req'[p].updated \cap req'[q].updated = {}
                          /\ req'[p].at \in Inserting /\ req'[q].at \in Inserting
                               => req'[p].new # req'[q].new
      BY DEF LocksOK
    <2>7. CASE p = r
      BY <2>1, <2>2, <2>3, <2>4, <2>5, <2>6, <2>7 DEF LocksOK
    <2>8. CASE q = r
      BY <2>1, <2>2, <2>3, <2>4, <2>5, <2>6, <2>8 DEF LocksOK
    <2>9. CASE p # r /\ q # r
      BY <2>3, <2>5, <2>6, <2>9 DEF LocksOK
    <2>10. QED
      BY <2>7, <2>8, <2>9
  <1>7. QED
    BY <1>1, <1>2, <1>4, <1>5, <1>6, LocalStep

(* An INSERT: one free row becomes r's, nothing committed changes.          *)
LEMMA InsertStep ==
  ASSUME IInv, NEW r \in Requests, NEW n \in Tokens,
         NEW p \in Tokens \cup {NoToken}, NEW x \in Tokens, NEW h \in Handler,
         InsertToken(r, n, p, x), Continue(r, h), UNCHANGED <<active, expired>>,
         req[r].at \in {"login", "session"}, h.at \in {"issued", "rotate"},
         h.new = n, h.token = req[r].token, h.updated = {}, h.answer = "none",
         x = n \/ Committed(x),
         HandlerOK(r)', RotationOK(r)'
  PROVE  IInv'
  <1>1. /\ TypeOK
        /\ req' \in [Requests -> Handler]
        /\ req'[r] = h
        /\ \A s \in Requests \ {r} : req'[s] = req[s]
    BY ContinueStep DEF IInv
  <1>2. /\ refresh_tokens[n].state = "free"
        /\ refresh_tokens'[n].state = "inserted"
        /\ refresh_tokens'[n].session = x
        /\ \A t \in Tokens \ {n} : refresh_tokens'[t] = refresh_tokens[t]
    BY <1>1 DEF InsertToken, TypeOK
  <1>3. TypeOK'
    <2>1. refresh_tokens' \in [Tokens -> Row] /\ clock' \in Nat
      BY <1>1, HandlerTypes DEF InsertToken, TypeOK, Row, RowState
    <2>2. QED
      BY <1>1, <2>1 DEF TypeOK
  <1>4. \A t \in Tokens : /\ IsLive(t)' <=> IsLive(t)
                          /\ IsRevoked(t)' <=> IsRevoked(t)
                          /\ Committed(t)' <=> Committed(t)
    BY <1>2 DEF IsLive, IsRevoked, Committed
  <1>5. \A t \in Tokens : refresh_tokens[t].state # "free" =>
          refresh_tokens'[t] = refresh_tokens[t]
    BY <1>2
  <1>6. \A t \in Tokens : Committed(t) => refresh_tokens'[t] = refresh_tokens[t]
    BY <1>5 DEF Committed, IsLive, IsRevoked
  <1>7. \A s \in Requests \ {r} : req[s].at \in Inserting =>
          /\ req[s].new \in Tokens \ {n}
          /\ refresh_tokens'[req[s].new] = refresh_tokens[req[s].new]
    BY <1>2 DEF IInv, HandlerOK
  <1>8. \A s \in Requests \ {r} : HandlerOK(s)'
    BY <1>1, <1>7 DEF IInv, HandlerOK, Inserting
  <1>9. \A s \in Requests \ {r} : RotationOK(s)'
    <2> SUFFICES ASSUME NEW s \in Requests \ {r}
                 PROVE  RotationOK(s)'
      OBVIOUS
    <2>1. RotationOK(s) /\ req'[s] = req[s]
      BY <1>1 DEF IInv
    <2>2. CASE req[s].at \in Rotating
      <3>1. /\ req[s].token \in Tokens
            /\ refresh_tokens'[req[s].token] = refresh_tokens[req[s].token]
        BY <1>6, <2>1, <2>2 DEF RotationOK, Committed
      <3>2. req[s].at \in {"rotate", "commit"} =>
              refresh_tokens'[req[s].new] = refresh_tokens[req[s].new]
        BY <1>7 DEF Inserting
      <3>3. req[s].at = "commit" =>
              refresh_tokens'[req[s].by] = refresh_tokens[req[s].by]
        BY <1>6, <2>1, <3>2 DEF RotationOK
      <3>4. QED
        BY <1>4, <2>1, <2>2, <3>1, <3>2, <3>3 DEF RotationOK
    <2>3. CASE req[s].at \notin Rotating
      BY <2>1, <2>3 DEF RotationOK, Rotating
    <2>4. QED
      BY <2>2, <2>3
  <1>10. \A s \in Requests : RevocationOK(s)'
    <2>1. RevocationOK(r)'
      BY <1>1 DEF RevocationOK
    <2>2. ASSUME NEW s \in Requests \ {r}
          PROVE  RevocationOK(s)'
      <3>1. RevocationOK(s) /\ req'[s] = req[s]
        BY <1>1 DEF IInv
      <3>2. QED
        BY <1>1, <1>4, <3>1, HandlerTypes DEF RevocationOK
    <2>3. QED
      BY <2>1, <2>2
  <1>11. LocksOK'
    <2>1. /\ \A t \in Tokens : ForUpdate(r, t)' => ForUpdate(r, t)
          /\ req'[r].updated = {}
          /\ req'[r].new = n
      BY <1>1 DEF IInv, RotationOK, HandlerOK, ForUpdate, Rotating
    <2>2. \A s \in Requests \ {r}, t \in Tokens : ForUpdate(s, t)' <=> ForUpdate(s, t)
      BY <1>1 DEF ForUpdate
    <2>3. QED
      BY <1>1, <1>7, <2>1, <2>2 DEF IInv, LocksOK
  <1>12. LineageOK'
    BY <1>2, <1>4, RowTypes, <1>1 DEF IInv, LineageOK, Committed, IsLive, IsRevoked
  <1>13. OneLiveTokenPerSession'
    BY <1>4, <1>6 DEF IInv, OneLiveTokenPerSession, Committed
  <1>14. RevocationComplete'
    BY <1>1, <1>4, HandlerTypes DEF IInv, RevocationComplete
  <1>15. ReplacedByIsCurrent'
    BY <1>4, <1>6, ReplacementKept DEF IInv
  <1>16. OneSuccessor'
    BY <1>4, <1>6 DEF IInv, OneSuccessor
  <1>17. QED
    BY <1>3, <1>8, <1>9, <1>10, <1>11, <1>12, <1>13, <1>14, <1>15, <1>16 DEF IInv

LEMMA IssueTokensInv ==
  ASSUME IInv, NEW r \in Requests, NEW n \in Tokens, IssueTokens(r, n)
  PROVE  IInv'
  <1> DEFINE h == [req[r] EXCEPT !.at = "issued", !.new = n]
  <1>1. /\ TypeOK /\ req[r].at = "login" /\ req[r].updated = {}
        /\ req[r].answer = "none" /\ InsertToken(r, n, NoToken, n)
        /\ Continue(r, h) /\ UNCHANGED <<active, expired>>
    BY DEF IInv, HandlerOK, RevocationOK, IssueTokens
  <1>2. /\ h \in Handler /\ h.at = "issued" /\ h.token = req[r].token
        /\ h.user = req[r].user /\ h.updated = {} /\ h.answer = "none" /\ h.new = n
    <2>1. "issued" \in Place
      BY DEF Place, Holding
    <2>2. QED
      BY <1>1, <2>1, HandlerTypes DEF Handler
  <1>3. req'[r] = h
    BY <1>1, <1>2, ContinueStep
  <1>4. /\ refresh_tokens'[n].state = "inserted"
        /\ refresh_tokens'[n].user = req[r].user
        /\ refresh_tokens'[n].parent = NoToken
        /\ refresh_tokens'[n].session = n
    BY <1>1 DEF InsertToken, TypeOK
  <1>5. HandlerOK(r)' /\ RotationOK(r)'
    BY <1>2, <1>3, <1>4 DEF HandlerOK, RotationOK, Inserting, Rotating
  <1>6. QED
    BY <1>1, <1>2, <1>5, InsertStep

LEMMA IssueSuccessorInv ==
  ASSUME IInv, NEW r \in Requests, NEW n \in Tokens, IssueSuccessor(r, n)
  PROVE  IInv'
  <1> DEFINE h == [req[r] EXCEPT !.at = "rotate", !.new = n]
             tok == req[r].token
             x == refresh_tokens[tok].session
  <1>1. /\ TypeOK /\ req[r].at = "session" /\ req[r].updated = {}
        /\ req[r].answer = "none" /\ InsertToken(r, n, tok, x)
        /\ Continue(r, h) /\ UNCHANGED <<active, expired>>
    BY DEF IInv, HandlerOK, RevocationOK, IssueSuccessor
  <1>2. /\ h \in Handler /\ h.at = "rotate" /\ h.token = req[r].token
        /\ h.user = req[r].user /\ h.updated = {} /\ h.answer = "none" /\ h.new = n
    <2>1. "rotate" \in Place
      BY DEF Place, Holding, Rotating
    <2>2. QED
      BY <1>1, <2>1, HandlerTypes DEF Handler
  <1>3. /\ req'[r].at = "rotate" /\ req'[r].token = req[r].token
        /\ req'[r].user = req[r].user /\ req'[r].answer = "none" /\ req'[r].new = n
    BY <1>1, <1>2, ContinueStep
  <1> HIDE DEF h
  <1>4. /\ tok \in Tokens /\ IsLive(tok) /\ refresh_tokens[tok].user = req[r].user
    BY <1>1 DEF IInv, RotationOK, Rotating
  <1>5. /\ x \in Tokens
        /\ Committed(x)
    BY <1>4 DEF IInv, LineageOK, Committed, IsLive
  <1>6. /\ refresh_tokens[n].state = "free"
        /\ refresh_tokens'[n].state = "inserted"
        /\ refresh_tokens'[n].user = req[r].user
        /\ refresh_tokens'[n].parent = tok
        /\ refresh_tokens'[n].session = x
        /\ \A t \in Tokens \ {n} : refresh_tokens'[t] = refresh_tokens[t]
    BY <1>1 DEF InsertToken, TypeOK
  <1>7. refresh_tokens'[tok] = refresh_tokens[tok]
    BY <1>4, <1>6 DEF IsLive
  <1>8. HandlerOK(r)'
    BY <1>3, <1>6 DEF HandlerOK, Inserting
  <1>9. RotationOK(r)'
    <2>1. /\ refresh_tokens'[tok].state = "live"
          /\ refresh_tokens'[tok].user = req[r].user
          /\ refresh_tokens'[n].session = refresh_tokens'[tok].session
      BY <1>4, <1>6, <1>7 DEF IsLive
    <2>2. QED
      BY <1>3, <1>4, <1>6, <2>1 DEF RotationOK, IsLive
  <1>10. QED
    <2>1. tok \in Tokens \cup {NoToken} /\ x \in Tokens
      BY <1>4, <1>5
    <2> HIDE DEF x, tok
    <2>2. QED
      BY <1>1, <1>2, <1>5, <1>8, <1>9, <2>1, InsertStep

(* A COMMIT: r's new row appears and rows r locked are revoked, together.   *)
LEMMA CommitStep ==
  ASSUME IInv, NEW r \in Requests, NEW a \in Answer, Answered(r, a),
         req[r].at \in {"issued", "commit", "revoke"},
         UNCHANGED <<active, expired, clock>>,
         refresh_tokens' \in [Tokens -> Row],
         \A t \in Tokens :
           /\ \/ refresh_tokens'[t] = refresh_tokens[t]
              \/ IsLive(t) /\ IsRevoked(t)' /\ (ForUpdate(r, t) \/ t \in req[r].updated)
              \/ req[r].at # "revoke" /\ t = req[r].new /\ IsLive(t)'
           /\ refresh_tokens'[t].user = refresh_tokens[t].user
           /\ refresh_tokens'[t].issued_at = refresh_tokens[t].issued_at
           /\ refresh_tokens'[t].parent = refresh_tokens[t].parent
           /\ refresh_tokens'[t].session = refresh_tokens[t].session
  PROVE  /\ TypeOK'
         /\ \A t \in Tokens : IsRevoked(t) => refresh_tokens'[t] = refresh_tokens[t]
         /\ \A t \in Tokens : Committed(t) => Committed(t)'
         /\ \A t \in Tokens : Committed(t)' => Committed(t) \/ t = req[r].new
         /\ \A s \in Requests : HandlerOK(s)' /\ RotationOK(s)' /\ RevocationOK(s)'
         /\ LocksOK'
  <1>1. /\ TypeOK
        /\ req' \in [Requests -> Handler]
        /\ req'[r].at = "done"
        /\ req'[r].updated = {}
        /\ \A s \in Requests \ {r} : req'[s] = req[s]
    BY AnsweredStep DEF IInv
  <1>2. TypeOK'
    BY <1>1 DEF TypeOK
  <1>3. /\ req[r].at # "revoke" => /\ req[r].at \in Inserting
                                   /\ req[r].new \in Tokens
                                   /\ refresh_tokens[req[r].new].state = "inserted"
        /\ \A t \in req[r].updated : IsLive(t)
    BY DEF IInv, HandlerOK, RevocationOK, Inserting
  <1>4. \A t \in Tokens : IsRevoked(t) => refresh_tokens'[t] = refresh_tokens[t]
    BY <1>3 DEF IsLive, IsRevoked
  <1>5. \A t \in Tokens : Committed(t) => Committed(t)'
    BY <1>3 DEF IsLive, IsRevoked, Committed
  <1>6. \A t \in Tokens : Committed(t)' => Committed(t) \/ t = req[r].new
    BY DEF IsLive, IsRevoked, Committed
  <1>7. \A s \in Requests \ {r}, t \in Tokens :
          IsLive(t) /\ (ForUpdate(s, t) \/ t \in req[s].updated) =>
            refresh_tokens'[t] = refresh_tokens[t]
    BY <1>3 DEF IInv, LocksOK, IsLive
  <1>8. \A s \in Requests \ {r} : req[s].at \in Inserting =>
          /\ req[s].new \in Tokens
          /\ refresh_tokens'[req[s].new] = refresh_tokens[req[s].new]
    <2> SUFFICES ASSUME NEW s \in Requests \ {r}, req[s].at \in Inserting
                 PROVE  /\ req[s].new \in Tokens
                        /\ refresh_tokens'[req[s].new] = refresh_tokens[req[s].new]
      OBVIOUS
    <2>1. req[s].new \in Tokens /\ refresh_tokens[req[s].new].state = "inserted"
      BY DEF IInv, HandlerOK
    <2>2. req[r].at # "revoke" => req[s].new # req[r].new
      BY <1>3 DEF IInv, LocksOK
    <2>3. QED
      BY <2>1, <2>2 DEF IsLive
  <1>9. \A s \in Requests : HandlerOK(s)'
    <2>1. HandlerOK(r)'
      BY <1>1 DEF HandlerOK, Inserting
    <2>2. ASSUME NEW s \in Requests \ {r}
          PROVE  HandlerOK(s)'
      BY <1>1, <1>8 DEF IInv, HandlerOK, Inserting
    <2>3. QED
      BY <2>1, <2>2
  <1>10. \A s \in Requests : RotationOK(s)'
    <2>1. RotationOK(r)'
      BY <1>1 DEF RotationOK, Rotating
    <2>2. ASSUME NEW s \in Requests \ {r}
          PROVE  RotationOK(s)'
      <3>1. RotationOK(s) /\ req'[s] = req[s]
        BY <1>1 DEF IInv
      <3>2. CASE req[s].at \in Rotating
        <4>1. /\ req[s].token \in Tokens
              /\ refresh_tokens'[req[s].token] = refresh_tokens[req[s].token]
          BY <1>7, <3>1, <3>2 DEF RotationOK, ForUpdate
        <4>2. req[s].at \in {"rotate", "commit"} =>
                refresh_tokens'[req[s].new] = refresh_tokens[req[s].new]
          BY <1>8 DEF Inserting
        <4>3. req[s].at = "commit" =>
                /\ req[s].by \in Tokens
                /\ req[s].by = req[s].new \/ Committed(req[s].by)'
                /\ refresh_tokens'[req[s].by].user = refresh_tokens[req[s].by].user
                /\ refresh_tokens'[req[s].by].issued_at = refresh_tokens[req[s].by].issued_at
          BY <1>5, <3>1 DEF RotationOK
        <4>4. QED
          BY <3>1, <3>2, <4>1, <4>2, <4>3 DEF RotationOK, IsLive
      <3>3. CASE req[s].at \notin Rotating
        BY <3>1, <3>3 DEF RotationOK, Rotating
      <3>4. QED
        BY <3>2, <3>3
    <2>3. QED
      BY <2>1, <2>2
  <1>11. \A s \in Requests : RevocationOK(s)'
    <2>1. RevocationOK(r)'
      BY <1>1 DEF RevocationOK
    <2>2. ASSUME NEW s \in Requests \ {r}
          PROVE  RevocationOK(s)'
      <3>1. RevocationOK(s) /\ req'[s] = req[s]
        BY <1>1 DEF IInv
      <3>2. \A t \in req[s].updated : IsLive(t)'
        BY <1>1, <1>7, <3>1, HandlerTypes DEF RevocationOK, IsLive
      <3>3. \A t \in Tokens : IsRevoked(t) => IsRevoked(t)'
        BY <1>4 DEF IsRevoked
      <3>4. QED
        BY <1>1, <1>5, <3>1, <3>2, <3>3, HandlerTypes DEF RevocationOK
    <2>3. QED
      BY <2>1, <2>2
  <1>12. LocksOK'
    BY <1>1, LocksShrink DEF IInv, ForUpdate, Inserting, Rotating
  <1>13. QED
    BY <1>2, <1>4, <1>5, <1>6, <1>9, <1>10, <1>11, <1>12

(* Commits keep the lineage: what becomes usable was paid for.              *)
LEMMA LineageKept ==
  ASSUME TypeOK, LineageOK,
         \A t \in Tokens :
           /\ Committed(t) => Committed(t)'
           /\ IsRevoked(t) => IsRevoked(t)'
           /\ refresh_tokens[t].state = "free" => refresh_tokens'[t].state = "free"
           /\ refresh_tokens'[t].parent = refresh_tokens[t].parent
           /\ refresh_tokens'[t].session = refresh_tokens[t].session,
         \A t, p \in Tokens :
           Committed(t)' /\ ~Committed(t) /\ refresh_tokens[t].parent = p => IsRevoked(p)'
  PROVE  LineageOK'
  <1> SUFFICES ASSUME NEW c \in Tokens, NEW x, NEW p,
                      x = refresh_tokens'[c].session, p = refresh_tokens'[c].parent,
                      refresh_tokens'[c].state # "free"
               PROVE  /\ x \in Tokens
                      /\ x = c \/ Committed(x)'
                      /\ Committed(c)' /\ p # NoToken => IsRevoked(p)'
    BY DEF LineageOK
  <1>1. /\ x = refresh_tokens[c].session /\ p = refresh_tokens[c].parent
        /\ refresh_tokens[c].state # "free"
    OBVIOUS
  <1>2. /\ x \in Tokens
        /\ x = c \/ Committed(x)
        /\ Committed(c) /\ p # NoToken => IsRevoked(p)
    BY <1>1 DEF LineageOK
  <1>3. p \in Tokens \cup {NoToken}
    BY <1>1, RowTypes
  <1>4. QED
    BY <1>1, <1>2, <1>3

(* Commits leave the replaced_by of spent tokens alone.                     *)
LEMMA ReplacementStands ==
  ASSUME LineageOK, ReplacedByIsCurrent,
         \A t \in Tokens :
           /\ IsRevoked(t) => refresh_tokens'[t] = refresh_tokens[t]
           /\ Committed(t) => Committed(t)'
           /\ refresh_tokens'[t].user = refresh_tokens[t].user
           /\ refresh_tokens'[t].issued_at = refresh_tokens[t].issued_at,
         NEW c \in Tokens, NEW p \in Tokens, Committed(c), refresh_tokens[c].parent = p
  PROVE  \E b \in Tokens \ {p} :
           /\ b = refresh_tokens'[p].replaced_by
           /\ Committed(b)'
           /\ refresh_tokens'[b].user = refresh_tokens'[p].user
           /\ refresh_tokens'[b].issued_at >= refresh_tokens'[c].issued_at
  <1>1. IsRevoked(p)
    BY DEF LineageOK, Committed, IsLive, IsRevoked
  <1>2. PICK b \in Tokens \ {p} :
          /\ b = refresh_tokens[p].replaced_by
          /\ Committed(b)
          /\ refresh_tokens[b].user = refresh_tokens[p].user
          /\ refresh_tokens[b].issued_at >= refresh_tokens[c].issued_at
    BY DEF ReplacedByIsCurrent
  <1>3. QED
    BY <1>1, <1>2

LEMMA CommitTokensInv ==
  ASSUME IInv, NEW r \in Requests, CommitTokens(r)
  PROVE  IInv'
  <1>1. /\ TypeOK /\ req[r].at = "issued" /\ Answered(r, "issued") /\ "issued" \in Answer
        /\ UNCHANGED <<active, expired, clock>>
    BY DEF IInv, CommitTokens, Answer
  <1>2. PICK n \in Tokens : /\ n = req[r].new /\ refresh_tokens[n].state = "inserted"
                            /\ refresh_tokens[n].parent = NoToken
                            /\ refresh_tokens[n].session = n
    BY <1>1 DEF IInv, HandlerOK, Inserting
  <1>3. /\ refresh_tokens' \in [Tokens -> Row]
        /\ refresh_tokens'[n] = [refresh_tokens[n] EXCEPT !.state = "live"]
        /\ \A t \in Tokens \ {n} : refresh_tokens'[t] = refresh_tokens[t]
    BY <1>1, <1>2 DEF CommitTokens, TypeOK, Row, RowState
  <1>4. /\ IsLive(n)' /\ ~IsRevoked(n)'
        /\ refresh_tokens'[n].user = refresh_tokens[n].user
        /\ refresh_tokens'[n].issued_at = refresh_tokens[n].issued_at
        /\ refresh_tokens'[n].parent = NoToken
        /\ refresh_tokens'[n].session = n
    BY <1>1, <1>2, <1>3, RowTypes DEF IsLive, IsRevoked, Row
  <1>5. /\ TypeOK'
        /\ \A t \in Tokens : Committed(t) => Committed(t)'
        /\ \A s \in Requests : HandlerOK(s)' /\ RotationOK(s)' /\ RevocationOK(s)'
        /\ LocksOK'
    <2>1. \A t \in Tokens :
            /\ \/ refresh_tokens'[t] = refresh_tokens[t]
               \/ IsLive(t) /\ IsRevoked(t)' /\ (ForUpdate(r, t) \/ t \in req[r].updated)
               \/ req[r].at # "revoke" /\ t = req[r].new /\ IsLive(t)'
            /\ refresh_tokens'[t].user = refresh_tokens[t].user
            /\ refresh_tokens'[t].issued_at = refresh_tokens[t].issued_at
            /\ refresh_tokens'[t].parent = refresh_tokens[t].parent
            /\ refresh_tokens'[t].session = refresh_tokens[t].session
      BY <1>1, <1>2, <1>3, <1>4
    <2>2. req[r].at \in {"issued", "commit", "revoke"}
      BY <1>1
    <2>3. QED
      BY <1>1, <1>3, <2>1, <2>2, CommitStep
  <1>6. \A t \in Tokens \ {n} : /\ IsLive(t)' <=> IsLive(t)
                                /\ IsRevoked(t)' <=> IsRevoked(t)
                                /\ Committed(t)' <=> Committed(t)
    BY <1>3 DEF IsLive, IsRevoked, Committed
  <1>7. LineageOK'
    <2>1. \A t \in Tokens : /\ refresh_tokens[t].state = "free" => refresh_tokens'[t].state = "free"
                            /\ IsRevoked(t) => IsRevoked(t)'
                            /\ refresh_tokens'[t].parent = refresh_tokens[t].parent
                            /\ refresh_tokens'[t].session = refresh_tokens[t].session
      BY <1>2, <1>3, <1>4 DEF IsRevoked
    <2>2. QED
      BY <1>1, <1>2, <1>5, <1>6, <2>1, LineageKept DEF IInv
  <1>8. OneLiveTokenPerSession'
    <2>1. ASSUME NEW c \in Tokens \ {n}, IsLive(c)
          PROVE  refresh_tokens[c].session # n
      BY <1>2, <2>1 DEF IInv, LineageOK, IsLive, IsRevoked, Committed
    <2>2. QED
      BY <1>3, <1>4, <1>6, <2>1 DEF IInv, OneLiveTokenPerSession
  <1>9. RevocationComplete'
    <2>1. /\ req'[r].answer = "issued"
          /\ \A s \in Requests \ {r} : req'[s] = req[s]
      BY <1>1, AnsweredStep
    <2>2. QED
      BY <1>2, <1>3, <2>1, HandlerTypes, <1>1 DEF IInv, RevocationComplete, IsRevoked
  <1>10. ReplacedByIsCurrent'
    <2> SUFFICES ASSUME NEW c \in Tokens, NEW p \in Tokens,
                        Committed(c)', refresh_tokens'[c].parent = p
                 PROVE  \E b \in Tokens \ {p} :
                          /\ b = refresh_tokens'[p].replaced_by
                          /\ Committed(b)'
                          /\ refresh_tokens'[b].user = refresh_tokens'[p].user
                          /\ refresh_tokens'[b].issued_at >= refresh_tokens'[c].issued_at
      BY DEF ReplacedByIsCurrent
    <2>1. c # n /\ Committed(c) /\ refresh_tokens[c].parent = p
      BY <1>3, <1>4, <1>6
    <2>2. \A t \in Tokens :
            /\ IsRevoked(t) => refresh_tokens'[t] = refresh_tokens[t]
            /\ Committed(t) => Committed(t)'
            /\ refresh_tokens'[t].user = refresh_tokens[t].user
            /\ refresh_tokens'[t].issued_at = refresh_tokens[t].issued_at
      BY <1>2, <1>3, <1>4, <1>5 DEF IsRevoked
    <2>3. QED
      BY <2>1, <2>2, ReplacementStands DEF IInv
  <1>11. OneSuccessor'
    BY <1>3, <1>4, <1>6 DEF IInv, OneSuccessor
  <1>12. QED
    BY <1>5, <1>7, <1>8, <1>9, <1>10, <1>11 DEF IInv

LEMMA CommitRotationInv ==
  ASSUME IInv, NEW r \in Requests, CommitRotation(r)
  PROVE  IInv'
  <1>1. /\ TypeOK /\ req[r].at = "commit" /\ Answered(r, "issued") /\ "issued" \in Answer
        /\ UNCHANGED <<active, expired, clock>>
    BY DEF IInv, CommitRotation, Answer
  <1>2. PICK tok \in Tokens, n \in Tokens, b \in Tokens :
          /\ tok = req[r].token /\ n = req[r].new /\ b = req[r].by
          /\ refresh_tokens[tok].state = "live" /\ refresh_tokens[n].state = "inserted"
          /\ refresh_tokens[n].parent = tok
          /\ refresh_tokens[n].session = refresh_tokens[tok].session
          /\ b # tok /\ (b = n \/ Committed(b))
          /\ refresh_tokens[b].user = refresh_tokens[tok].user
          /\ refresh_tokens[b].issued_at >= refresh_tokens[n].issued_at
    BY <1>1 DEF IInv, HandlerOK, RotationOK, Inserting, Rotating, IsLive
  <1>3. /\ n # tok
        /\ refresh_tokens' \in [Tokens -> Row]
        /\ refresh_tokens'[tok] = [refresh_tokens[tok] EXCEPT !.state = "revoked",
                                                             !.replaced_by = b]
        /\ refresh_tokens'[n] = [refresh_tokens[n] EXCEPT !.state = "live"]
        /\ \A t \in Tokens \ {n, tok} : refresh_tokens'[t] = refresh_tokens[t]
    <2>1. n # tok
      BY <1>2
    <2>2. /\ [refresh_tokens[tok] EXCEPT !.state = "revoked", !.replaced_by = b] \in Row
          /\ [refresh_tokens[n] EXCEPT !.state = "live"] \in Row
      BY <1>1, RowTypes, RowUpdate, RowRotation DEF RowState
    <2>3. /\ refresh_tokens \in [Tokens -> Row]
          /\ refresh_tokens' = [refresh_tokens EXCEPT
                 ![tok] = [@ EXCEPT !.state = "revoked", !.replaced_by = b],
                 ![n] = [@ EXCEPT !.state = "live"]]
      BY <1>1, <1>2 DEF CommitRotation, TypeOK
    <2>4. QED
      BY <2>1, <2>2, <2>3
  <1>4. /\ IsLive(tok) /\ IsRevoked(tok)' /\ ~IsLive(tok)' /\ IsLive(n)'
        /\ refresh_tokens'[tok].replaced_by = b
        /\ \A t \in {n, tok} :
             /\ refresh_tokens'[t].user = refresh_tokens[t].user
             /\ refresh_tokens'[t].issued_at = refresh_tokens[t].issued_at
             /\ refresh_tokens'[t].parent = refresh_tokens[t].parent
             /\ refresh_tokens'[t].session = refresh_tokens[t].session
    <2>1. refresh_tokens[tok] \in Row /\ refresh_tokens[n] \in Row
      BY <1>1, RowTypes
    <2>2. "revoked" \in RowState /\ "live" \in RowState
      BY DEF RowState
    <2>3. /\ refresh_tokens'[n].state = "live"
          /\ refresh_tokens'[n].user = refresh_tokens[n].user
          /\ refresh_tokens'[n].issued_at = refresh_tokens[n].issued_at
          /\ refresh_tokens'[n].parent = refresh_tokens[n].parent
          /\ refresh_tokens'[n].session = refresh_tokens[n].session
      <3>1. refresh_tokens'[n] = [refresh_tokens[n] EXCEPT !.state = "live"]
        BY <1>3
      <3>2. QED
        BY <2>1, <2>2, <3>1, RowUpdate
    <2>4. /\ refresh_tokens'[tok].state = "revoked"
          /\ refresh_tokens'[tok].replaced_by = b
          /\ refresh_tokens'[tok].user = refresh_tokens[tok].user
          /\ refresh_tokens'[tok].issued_at = refresh_tokens[tok].issued_at
          /\ refresh_tokens'[tok].parent = refresh_tokens[tok].parent
          /\ refresh_tokens'[tok].session = refresh_tokens[tok].session
      <3>1. refresh_tokens'[tok] = [refresh_tokens[tok] EXCEPT !.state = "revoked",
                                                               !.replaced_by = b]
        BY <1>3
      <3>2. QED
        BY <2>1, <3>1 DEF Row
    <2>5. QED
      BY <1>2, <2>3, <2>4 DEF IsLive, IsRevoked
  <1>5. \A t \in Tokens :
          /\ refresh_tokens'[t].user = refresh_tokens[t].user
          /\ refresh_tokens'[t].issued_at = refresh_tokens[t].issued_at
          /\ refresh_tokens'[t].parent = refresh_tokens[t].parent
          /\ refresh_tokens'[t].session = refresh_tokens[t].session
    BY <1>3, <1>4
  <1>6. /\ TypeOK'
        /\ \A t \in Tokens : IsRevoked(t) => refresh_tokens'[t] = refresh_tokens[t]
        /\ \A t \in Tokens : Committed(t) => Committed(t)'
        /\ \A t \in Tokens : Committed(t)' => Committed(t) \/ t = n
        /\ \A s \in Requests : HandlerOK(s)' /\ RotationOK(s)' /\ RevocationOK(s)'
        /\ LocksOK'
    <2>1. ForUpdate(r, tok)
      BY <1>1, <1>2 DEF ForUpdate, Rotating
    <2>2. \A t \in Tokens :
            \/ refresh_tokens'[t] = refresh_tokens[t]
            \/ IsLive(t) /\ IsRevoked(t)' /\ (ForUpdate(r, t) \/ t \in req[r].updated)
            \/ req[r].at # "revoke" /\ t = req[r].new /\ IsLive(t)'
      BY <1>1, <1>2, <1>3, <1>4, <2>1
    <2>3. req[r].at \in {"issued", "commit", "revoke"}
      BY <1>1
    <2>4. QED
      BY <1>1, <1>2, <1>3, <1>5, <2>2, <2>3, CommitStep
  <1>7. LineageOK'
    <2>1. \A t \in Tokens :
            /\ refresh_tokens[t].state = "free" => refresh_tokens'[t].state = "free"
            /\ IsRevoked(t) => IsRevoked(t)'
      BY <1>2, <1>3, <1>6 DEF IsRevoked
    <2>2. \A t, p \in Tokens :
            Committed(t)' /\ ~Committed(t) /\ refresh_tokens[t].parent = p => IsRevoked(p)'
      BY <1>2, <1>4, <1>6
    <2>3. QED
      BY <1>1, <1>5, <1>6, <2>1, <2>2, LineageKept DEF IInv
  <1>8. \A t \in Tokens \ {n, tok} : IsLive(t)' <=> IsLive(t)
    BY <1>3 DEF IsLive
  <1>9. OneLiveTokenPerSession'
    BY <1>2, <1>4, <1>5, <1>8 DEF IInv, OneLiveTokenPerSession
  <1>10. OneSuccessor'
    <2>1. \A c \in Tokens : Committed(c) => refresh_tokens[c].parent # tok
      BY <1>2 DEF IInv, LineageOK, Committed, IsLive, IsRevoked
    <2>2. QED
      BY <1>2, <1>5, <1>6, <2>1 DEF IInv, OneSuccessor
  <1>11. RevocationComplete'
    <2>1. /\ req'[r].answer = "issued"
          /\ \A s \in Requests \ {r} : req'[s] = req[s]
      BY <1>1, AnsweredStep
    <2>2. \A t \in Tokens : IsRevoked(t) => IsRevoked(t)'
      BY <1>6 DEF IsRevoked
    <2>3. QED
      BY <1>1, <2>1, <2>2, HandlerTypes DEF IInv, RevocationComplete
  <1>12. ReplacedByIsCurrent'
    <2> SUFFICES ASSUME NEW c \in Tokens, NEW p \in Tokens,
                        Committed(c)', refresh_tokens'[c].parent = p
                 PROVE  \E x \in Tokens \ {p} :
                          /\ x = refresh_tokens'[p].replaced_by
                          /\ Committed(x)'
                          /\ refresh_tokens'[x].user = refresh_tokens'[p].user
                          /\ refresh_tokens'[x].issued_at >= refresh_tokens'[c].issued_at
      BY DEF ReplacedByIsCurrent
    <2>1. CASE Committed(c)
      BY <1>5, <1>6, <2>1, ReplacementStands DEF IInv
    <2>2. CASE ~Committed(c)
      <3>1. c = n /\ p = tok
        BY <1>2, <1>5, <1>6, <2>2
      <3>2. Committed(b)'
        BY <1>2, <1>4, <1>6 DEF Committed
      <3>3. QED
        BY <1>2, <1>4, <1>5, <3>1, <3>2
    <2>3. QED
      BY <2>1, <2>2
  <1>13. QED
    BY <1>6, <1>7, <1>9, <1>10, <1>11, <1>12 DEF IInv

LEMMA CommitRevocationInv ==
  ASSUME IInv, NEW r \in Requests, CommitRevocation(r)
  PROVE  IInv'
  <1> DEFINE a == IF req[r].reuse THEN "reuse" ELSE "revoked"
  <1>1. /\ TypeOK /\ req[r].at = "revoke" /\ Answered(r, a) /\ a \in Answer
        /\ UNCHANGED <<active, expired, clock>>
    BY DEF IInv, CommitRevocation, Answer
  <1>2. PICK S \in SUBSET Tokens : /\ S = req[r].updated
                                  /\ \A t \in S : refresh_tokens[t].state = "live"
    BY <1>1, HandlerTypes DEF IInv, RevocationOK, IsLive
  <1>3. /\ refresh_tokens' \in [Tokens -> Row]
        /\ \A t \in S : refresh_tokens'[t] = [refresh_tokens[t] EXCEPT !.state = "revoked"]
        /\ \A t \in Tokens \ S : refresh_tokens'[t] = refresh_tokens[t]
    BY <1>1, <1>2 DEF CommitRevocation, TypeOK, Row, RowState
  <1>4. \A t \in Tokens :
          /\ t \in S => IsLive(t) /\ IsRevoked(t)' /\ ~IsLive(t)'
          /\ refresh_tokens'[t].user = refresh_tokens[t].user
          /\ refresh_tokens'[t].issued_at = refresh_tokens[t].issued_at
          /\ refresh_tokens'[t].parent = refresh_tokens[t].parent
          /\ refresh_tokens'[t].session = refresh_tokens[t].session
    <2> SUFFICES ASSUME NEW t \in Tokens
                 PROVE  /\ t \in S => IsLive(t) /\ IsRevoked(t)' /\ ~IsLive(t)'
                        /\ refresh_tokens'[t].user = refresh_tokens[t].user
                        /\ refresh_tokens'[t].issued_at = refresh_tokens[t].issued_at
                        /\ refresh_tokens'[t].parent = refresh_tokens[t].parent
                        /\ refresh_tokens'[t].session = refresh_tokens[t].session
      OBVIOUS
    <2>1. CASE t \in S
      <3>1. refresh_tokens[t] \in Row /\ "revoked" \in RowState
        BY <1>1, RowTypes DEF RowState
      <3>2. refresh_tokens'[t] = [refresh_tokens[t] EXCEPT !.state = "revoked"]
        BY <1>3, <2>1
      <3>3. QED
        BY <1>2, <2>1, <3>1, <3>2, RowUpdate DEF IsLive, IsRevoked
    <2>2. CASE t \notin S
      BY <1>3, <2>2
    <2>3. QED
      BY <2>1, <2>2
  <1>5. /\ TypeOK'
        /\ \A t \in Tokens : IsRevoked(t) => refresh_tokens'[t] = refresh_tokens[t]
        /\ \A t \in Tokens : Committed(t) => Committed(t)'
        /\ \A s \in Requests : HandlerOK(s)' /\ RotationOK(s)' /\ RevocationOK(s)'
        /\ LocksOK'
    <2>1. \A t \in Tokens :
            \/ refresh_tokens'[t] = refresh_tokens[t]
            \/ IsLive(t) /\ IsRevoked(t)' /\ (ForUpdate(r, t) \/ t \in req[r].updated)
            \/ req[r].at # "revoke" /\ t = req[r].new /\ IsLive(t)'
      BY <1>2, <1>3, <1>4
    <2>2. req[r].at \in {"issued", "commit", "revoke"}
      BY <1>1
    <2> HIDE DEF a
    <2>3. QED
      BY <1>1, <1>3, <1>4, <2>1, <2>2, CommitStep
  <1>6. \A t \in Tokens : /\ Committed(t)' <=> Committed(t)
                          /\ IsLive(t)' => IsLive(t)
                          /\ IsRevoked(t) => IsRevoked(t)'
    BY <1>3, <1>4 DEF IsLive, IsRevoked, Committed
  <1>7. LineageOK'
    <2>1. \A t \in Tokens :
            refresh_tokens[t].state = "free" => refresh_tokens'[t].state = "free"
      BY <1>2, <1>3
    <2>2. QED
      BY <1>1, <1>4, <1>6, <2>1, LineageKept DEF IInv
  <1>8. OneLiveTokenPerSession'
    BY <1>4, <1>6 DEF IInv, OneLiveTokenPerSession
  <1>9. OneSuccessor'
    BY <1>4, <1>6 DEF IInv, OneSuccessor
  <1>10. RevocationComplete'
    <2>1. /\ req'[r].seen = req[r].seen
          /\ \A s \in Requests \ {r} : req'[s] = req[s]
      <3> HIDE DEF a
      <3>1. QED
        BY <1>1, AnsweredStep
    <2>2. \A t \in req[r].seen : IsRevoked(t)'
      <3>1. \A t \in req[r].seen : t \in S \/ IsRevoked(t)
        BY <1>1, <1>2 DEF IInv, RevocationOK, CommitRevocation
      <3>2. QED
        BY <1>1, <1>4, <1>6, <3>1, HandlerTypes
    <2>3. QED
      BY <1>1, <1>6, <2>1, <2>2, HandlerTypes DEF IInv, RevocationComplete
  <1>11. ReplacedByIsCurrent'
    <2> SUFFICES ASSUME NEW c \in Tokens, NEW p \in Tokens,
                        Committed(c)', refresh_tokens'[c].parent = p
                 PROVE  \E b \in Tokens \ {p} :
                          /\ b = refresh_tokens'[p].replaced_by
                          /\ Committed(b)'
                          /\ refresh_tokens'[b].user = refresh_tokens'[p].user
                          /\ refresh_tokens'[b].issued_at >= refresh_tokens'[c].issued_at
      BY DEF ReplacedByIsCurrent
    <2>1. Committed(c) /\ refresh_tokens[c].parent = p
      BY <1>4, <1>6
    <2>2. QED
      BY <1>4, <1>5, <2>1, ReplacementStands DEF IInv
  <1>12. QED
    BY <1>5, <1>7, <1>8, <1>9, <1>10, <1>11 DEF IInv

(* The three statements that start a revocation find committed rows only.    *)
LEMMA RevokingInv ==
  ASSUME IInv, NEW r \in Requests,
         \/ RevokeChain(r)
         \/ \E u \in Users : LogoutAllDevices(r, u)
         \/ \E t \in Tokens : LogoutToken(r, t)
  PROVE  IInv'
  <1>1. CASE RevokeChain(r)
    <2> DEFINE found == LiveTokensOf(req[r].user)
    <2>1. found \in SUBSET Tokens /\ \A t \in found : Committed(t)
      BY DEF LiveTokensOf, Committed
    <2>2. req[r].at = "reused" /\ StartRevoking(r, found, TRUE)
      BY <1>1 DEF RevokeChain
    <2> HIDE DEF found
    <2>3. QED
      BY <2>1, <2>2, StartRevokingInv
  <1>2. ASSUME NEW u \in Users, LogoutAllDevices(r, u)
        PROVE  IInv'
    <2> DEFINE found == LiveTokensOf(u)
    <2>1. found \in SUBSET Tokens /\ \A t \in found : Committed(t)
      BY DEF LiveTokensOf, Committed
    <2>2. req[r].at = "new" /\ StartRevoking(r, found, FALSE)
      BY <1>2 DEF LogoutAllDevices
    <2> HIDE DEF found
    <2>3. QED
      BY <2>1, <2>2, StartRevokingInv
  <1>3. ASSUME NEW t \in Tokens, LogoutToken(r, t)
        PROVE  IInv'
    <2> DEFINE found == {x \in {t} : IsLive(x)}
    <2>1. found \in SUBSET Tokens /\ \A x \in found : Committed(x)
      BY DEF Committed
    <2>2. req[r].at = "new" /\ StartRevoking(r, found, FALSE)
      BY <1>3 DEF LogoutToken
    <2> HIDE DEF found
    <2>3. QED
      BY <2>1, <2>2, StartRevokingInv
  <1>4. QED
    BY <1>1, <1>2, <1>3

(* Every way out of a transaction but COMMIT.                               *)
LEMMA AbortInv ==
  ASSUME IInv, NEW r \in Requests,
         \/ RefreshNotFound(r)
         \/ \E t \in Tokens : RefreshExpired(r, t)
         \/ StatementCancelled(r)
         \/ ConnectionLost(r)
  PROVE  IInv'
  <1>1. req[r].at \in Holding
    BY DEF RefreshNotFound, RefreshExpired, LockToken, StatementCancelled, WaitsForRow,
           ConnectionLost, Holding, Rotating
  <1>2. RollBack(r, "refused") \/ RollBack(r, "failed")
    BY DEF RefreshNotFound, RefreshExpired, StatementCancelled, ConnectionLost
  <1>3. QED
    BY <1>1, <1>2, RollBackInv

(* Steps that touch neither the table nor a handler.                        *)
LEMMA EnvironmentInv ==
  ASSUME IInv, UNCHANGED <<refresh_tokens, req, clock>>,
         active' \subseteq Users, expired' \subseteq Tokens
  PROVE  IInv'
  <1>1. TypeOK'
    BY DEF IInv, TypeOK
  <1>2. \A r \in Requests : HandlerOK(r)' /\ RotationOK(r)' /\ RevocationOK(r)'
    BY DEF IInv, HandlerOK, RotationOK, RevocationOK, IsLive, IsRevoked, Committed
  <1>3. LocksOK' /\ LineageOK'
    BY DEF IInv, LocksOK, LineageOK, ForUpdate, IsLive, IsRevoked, Committed
  <1>4. /\ OneSuccessor' /\ OneLiveTokenPerSession'
        /\ RevocationComplete' /\ ReplacedByIsCurrent'
    BY DEF IInv, OneSuccessor, OneLiveTokenPerSession, RevocationComplete,
           ReplacedByIsCurrent, IsLive, IsRevoked, Committed
  <1>5. QED
    BY <1>1, <1>2, <1>3, <1>4 DEF IInv

LEMMA InitIInv == Init => IInv
  <1> SUFFICES ASSUME Init PROVE IInv
    OBVIOUS
  <1>1. FreeRow \in Row /\ NewHandler \in Handler
    BY DEF FreeRow, Row, RowState, NewHandler, Handler, Place, Answer
  <1>2. TypeOK
    BY <1>1 DEF Init, TypeOK
  <1>3. \A t \in Tokens : refresh_tokens[t].state = "free"
    BY DEF Init, FreeRow
  <1>4. \A r \in Requests : /\ req[r] = NewHandler /\ req[r].at = "new"
                            /\ req[r].updated = {} /\ req[r].new = NoToken
                            /\ req[r].answer = "none"
    BY DEF Init, NewHandler
  <1>5. \A r \in Requests : HandlerOK(r) /\ RotationOK(r) /\ RevocationOK(r)
    BY <1>4 DEF HandlerOK, RotationOK, RevocationOK, Inserting, Rotating
  <1>6. LocksOK /\ LineageOK
    BY <1>3, <1>4 DEF LocksOK, LineageOK, ForUpdate, Inserting, Rotating
  <1>7. /\ OneSuccessor /\ OneLiveTokenPerSession
        /\ RevocationComplete /\ ReplacedByIsCurrent
    BY <1>3, <1>4 DEF OneSuccessor, OneLiveTokenPerSession, RevocationComplete,
                      ReplacedByIsCurrent, IsLive, IsRevoked, Committed
  <1>8. QED
    BY <1>2, <1>5, <1>6, <1>7 DEF IInv

(* IInv is inductive: one case per action.                                  *)
LEMMA NextIInv == IInv /\ [Next]_vars => IInv'
  <1> SUFFICES ASSUME IInv, [Next]_vars PROVE IInv'
    OBVIOUS
  <1>1. ASSUME NEW r \in Requests, Arrive(r)
        PROVE  IInv'
    BY <1>1, LookupUserInv, RefreshInv, RevokingInv DEF Arrive
  <1>2. ASSUME NEW r \in Requests, Proceed(r)
        PROVE  IInv'
    <2>1. ASSUME NEW n \in Tokens, IssueTokens(r, n) \/ IssueSuccessor(r, n)
          PROVE  IInv'
      BY <2>1, IssueTokensInv, IssueSuccessorInv
    <2>2. ASSUME NEW t \in Tokens, RefreshReuse(r, t) \/ RefreshValid(r, t)
          PROVE  IInv'
      BY <2>2, LockTokenInv
    <2>3. ASSUME NEW t \in Tokens, RevokeRow(r, t) \/ Rotate(r, t)
          PROVE  IInv'
      BY <2>3, RevokeRowInv, RotateInv
    <2>4. CASE RefreshNotFound(r) \/ \E t \in Tokens : RefreshExpired(r, t)
      BY <2>4, AbortInv
    <2>5. CASE CommitTokens(r) \/ CommitRotation(r) \/ CommitRevocation(r)
      BY <2>5, CommitTokensInv, CommitRotationInv, CommitRevocationInv
    <2>6. CASE LookupUserById(r) \/ RevokeChain(r)
      BY <2>6, LookupUserByIdInv, RevokingInv
    <2>7. QED
      BY <1>2, <2>1, <2>2, <2>3, <2>4, <2>5, <2>6 DEF Proceed
  <1>3. ASSUME NEW r \in Requests, StatementCancelled(r) \/ ConnectionLost(r)
        PROVE  IInv'
    BY <1>3, AbortInv
  <1>4. ASSUME NEW t \in Tokens, Expire(t)
        PROVE  IInv'
    BY <1>4, EnvironmentInv DEF Expire, IInv, TypeOK
  <1>5. ASSUME NEW u \in Users, Deactivate(u)
        PROVE  IInv'
    BY <1>5, EnvironmentInv DEF Deactivate, IInv, TypeOK
  <1>6. CASE UNCHANGED vars
    BY <1>6, EnvironmentInv DEF vars, IInv, TypeOK
  <1>7. QED
    BY <1>1, <1>2, <1>3, <1>4, <1>5, <1>6 DEF Next, Quiet

-----------------------------------------------------------------------------
(* The inductive invariant holds in every reachable state.                  *)
THEOREM Invariance == Spec => []IInv
  BY InitIInv, NextIInv, PTL DEF Spec

(* Rows and handlers keep their types.                                      *)
THEOREM TypeCorrect == Spec => []TypeOK
  <1>1. IInv => TypeOK
    BY DEF IInv
  <1>2. QED
    BY <1>1, Invariance, PTL

(* A refresh token buys at most one successor, however many requests        *)
(* present it at once: the FOR UPDATE of refresh().                         *)
THEOREM AtMostOneSuccessor == Spec => []OneSuccessor
  <1>1. IInv => OneSuccessor
    BY DEF IInv
  <1>2. QED
    BY <1>1, Invariance, PTL

(* A login never owns two tokens that both still work.                      *)
THEOREM SessionsDoNotFork == Spec => []OneLiveTokenPerSession
  <1>1. IInv => OneLiveTokenPerSession
    BY DEF IInv
  <1>2. QED
    BY <1>1, Invariance, PTL

(* A revocation that is reported has reached every row it found.            *)
THEOREM RevocationsComplete == Spec => []RevocationComplete
  <1>1. IInv => RevocationComplete
    BY DEF IInv
  <1>2. QED
    BY <1>1, Invariance, PTL

(* replaced_by of a rotated token names a current token of its user.         *)
THEOREM ReplacementsCurrent == Spec => []ReplacedByIsCurrent
  <1>1. IInv => ReplacedByIsCurrent
    BY DEF IInv
  <1>2. QED
    BY <1>1, Invariance, PTL

-----------------------------------------------------------------------------
(* The table implements one-time tokens: what clients may notice.           *)
LEMMA LedgerStutter ==
  ASSUME \A t \in Tokens : /\ IsLive(t)' <=> IsLive(t)
                           /\ IsRevoked(t)' <=> IsRevoked(t)
                           /\ Committed(t) => refresh_tokens'[t].parent = refresh_tokens[t].parent
  PROVE  UNCHANGED Ledger!vars
  <1>1. \A t \in Tokens : Committed(t)' <=> Committed(t)
    BY DEF Committed
  <1>2. {t \in Tokens : IsLive(t)}' = {t \in Tokens : IsLive(t)}
    OBVIOUS
  <1>3. {t \in Tokens : IsRevoked(t)}' = {t \in Tokens : IsRevoked(t)}
    OBVIOUS
  <1>4. [t \in Tokens |-> IF Committed(t) THEN refresh_tokens[t].parent ELSE NoToken]'
        = [t \in Tokens |-> IF Committed(t) THEN refresh_tokens[t].parent ELSE NoToken]
    BY <1>1
  <1>5. QED
    BY <1>2, <1>3, <1>4 DEF Ledger!vars

LEMMA LedgerRollBack ==
  ASSUME IInv, NEW r \in Requests, NEW a \in {"refused", "failed"}, RollBack(r, a),
         req[r].at \in Holding
  PROVE  UNCHANGED Ledger!vars
  <1>1. /\ \A t \in Tokens : t # req[r].new => refresh_tokens'[t] = refresh_tokens[t]
        /\ req[r].new \in Tokens => /\ refresh_tokens[req[r].new].state = "inserted"
                                    /\ refresh_tokens'[req[r].new] = FreeRow
    BY RollBackStep DEF Answer
  <1>2. QED
    BY <1>1, LedgerStutter DEF IsLive, IsRevoked, Committed, FreeRow

LEMMA LedgerInsert ==
  ASSUME IInv, NEW r \in Requests, NEW n \in Tokens,
         IssueTokens(r, n) \/ IssueSuccessor(r, n)
  PROVE  UNCHANGED Ledger!vars
  <1>1. /\ refresh_tokens[n].state = "free"
        /\ refresh_tokens'[n].state = "inserted"
        /\ \A t \in Tokens \ {n} : refresh_tokens'[t] = refresh_tokens[t]
    BY DEF IInv, TypeOK, IssueTokens, IssueSuccessor, InsertToken
  <1>2. QED
    BY <1>1, LedgerStutter DEF IsLive, IsRevoked, Committed

(* The COMMIT of a login opens a session.                                   *)
LEMMA LedgerOpen ==
  ASSUME IInv, NEW r \in Requests, CommitTokens(r)
  PROVE  \E n \in Tokens : Ledger!Open(n)
  <1>1. PICK n \in Tokens : /\ n = req[r].new /\ refresh_tokens[n].state = "inserted"
                           /\ refresh_tokens[n].parent = NoToken
    BY DEF IInv, HandlerOK, Inserting, CommitTokens
  <1>2. /\ refresh_tokens'[n] = [refresh_tokens[n] EXCEPT !.state = "live"]
        /\ \A t \in Tokens \ {n} : refresh_tokens'[t] = refresh_tokens[t]
    BY <1>1 DEF IInv, TypeOK, CommitTokens
  <1>3. refresh_tokens'[n].state = "live" /\ refresh_tokens'[n].parent = NoToken
    BY <1>1, <1>2, RowTypes DEF IInv, Row
  <1>4. /\ ~IsLive(n) /\ ~IsRevoked(n) /\ ~Committed(n)
        /\ IsLive(n)' /\ ~IsRevoked(n)' /\ Committed(n)'
    BY <1>1, <1>3 DEF IsLive, IsRevoked, Committed
  <1>5. \A t \in Tokens \ {n} : /\ IsLive(t)' <=> IsLive(t)
                                /\ IsRevoked(t)' <=> IsRevoked(t)
                                /\ Committed(t)' <=> Committed(t)
    BY <1>2 DEF IsLive, IsRevoked, Committed
  <1>6. {t \in Tokens : IsLive(t)}' = {t \in Tokens : IsLive(t)} \cup {n}
    BY <1>4, <1>5
  <1>7. {t \in Tokens : IsRevoked(t)}' = {t \in Tokens : IsRevoked(t)}
    BY <1>4, <1>5
  <1>8. [t \in Tokens |-> IF Committed(t) THEN refresh_tokens[t].parent ELSE NoToken]'
        = [t \in Tokens |-> IF Committed(t) THEN refresh_tokens[t].parent ELSE NoToken]
    BY <1>2, <1>3, <1>4, <1>5
  <1>9. QED
    BY <1>4, <1>6, <1>7, <1>8 DEF Ledger!Open

(* The COMMIT of a refresh exchanges the presented token.                   *)
LEMMA LedgerExchange ==
  ASSUME IInv, NEW r \in Requests, CommitRotation(r)
  PROVE  \E t, n \in Tokens : Ledger!Exchange(t, n)
  <1>1. PICK tok \in Tokens, n \in Tokens :
          /\ tok = req[r].token /\ n = req[r].new
          /\ refresh_tokens[tok].state = "live" /\ refresh_tokens[n].state = "inserted"
          /\ refresh_tokens[n].parent = tok
    BY DEF IInv, HandlerOK, RotationOK, Inserting, Rotating, IsLive, CommitRotation
  <1>2. /\ refresh_tokens'[tok] = [refresh_tokens[tok] EXCEPT !.state = "revoked",
                                                             !.replaced_by = req[r].by]
        /\ refresh_tokens'[n] = [refresh_tokens[n] EXCEPT !.state = "live"]
        /\ \A t \in Tokens \ {n, tok} : refresh_tokens'[t] = refresh_tokens[t]
    BY <1>1 DEF IInv, TypeOK, CommitRotation
  <1>3. /\ refresh_tokens'[n].state = "live" /\ refresh_tokens'[n].parent = tok
        /\ refresh_tokens'[tok].state = "revoked"
        /\ refresh_tokens'[tok].parent = refresh_tokens[tok].parent
    BY <1>1, <1>2, RowTypes DEF IInv, Row
  <1>4. /\ ~IsLive(n) /\ ~IsRevoked(n) /\ ~Committed(n)
        /\ IsLive(n)' /\ ~IsRevoked(n)' /\ Committed(n)'
        /\ IsLive(tok) /\ Committed(tok)
        /\ ~IsLive(tok)' /\ IsRevoked(tok)' /\ Committed(tok)'
    BY <1>1, <1>3 DEF IsLive, IsRevoked, Committed
  <1>5. \A t \in Tokens \ {n, tok} : /\ IsLive(t)' <=> IsLive(t)
                                     /\ IsRevoked(t)' <=> IsRevoked(t)
                                     /\ Committed(t)' <=> Committed(t)
    BY <1>2 DEF IsLive, IsRevoked, Committed
  <1>6. {t \in Tokens : IsLive(t)}' = ({t \in Tokens : IsLive(t)} \ {tok}) \cup {n}
    BY <1>4, <1>5
  <1>7. {t \in Tokens : IsRevoked(t)}' = {t \in Tokens : IsRevoked(t)} \cup {tok}
    BY <1>4, <1>5
  <1>8. [t \in Tokens |-> IF Committed(t) THEN refresh_tokens[t].parent ELSE NoToken]'
        = [[t \in Tokens |-> IF Committed(t) THEN refresh_tokens[t].parent ELSE NoToken]
             EXCEPT ![n] = tok]
    BY <1>2, <1>3, <1>4, <1>5
  <1>9. QED
    BY <1>4, <1>6, <1>7, <1>8 DEF Ledger!Exchange

(* The COMMIT of a revocation revokes the rows it updated, all at once.      *)
LEMMA LedgerRevoke ==
  ASSUME IInv, NEW r \in Requests, CommitRevocation(r)
  PROVE  \E S \in SUBSET Tokens : Ledger!Revoke(S)
  <1>1. PICK S \in SUBSET Tokens : S = req[r].updated /\ \A t \in S : IsLive(t)
    BY HandlerTypes DEF IInv, RevocationOK, CommitRevocation
  <1>2. /\ \A t \in S : refresh_tokens'[t] = [refresh_tokens[t] EXCEPT !.state = "revoked"]
        /\ \A t \in Tokens \ S : refresh_tokens'[t] = refresh_tokens[t]
    BY <1>1 DEF CommitRevocation
  <1>3. \A t \in S : /\ IsRevoked(t)' /\ ~IsLive(t)'
                     /\ refresh_tokens'[t].parent = refresh_tokens[t].parent
    <2> SUFFICES ASSUME NEW t \in S
                 PROVE  /\ IsRevoked(t)' /\ ~IsLive(t)'
                        /\ refresh_tokens'[t].parent = refresh_tokens[t].parent
      OBVIOUS
    <2>1. refresh_tokens[t] \in Row /\ "revoked" \in RowState
      BY RowTypes DEF IInv, RowState
    <2>2. refresh_tokens'[t] = [refresh_tokens[t] EXCEPT !.state = "revoked"]
      BY <1>2
    <2>3. QED
      BY <2>1, <2>2, RowUpdate DEF IsLive, IsRevoked
  <1>4. \A t \in Tokens \ S : /\ IsLive(t)' <=> IsLive(t)
                              /\ IsRevoked(t)' <=> IsRevoked(t)
                              /\ refresh_tokens'[t].parent = refresh_tokens[t].parent
    BY <1>2 DEF IsLive, IsRevoked
  <1>5. \A t \in Tokens : Committed(t)' <=> Committed(t)
    BY <1>1, <1>3, <1>4 DEF Committed
  <1>6. S \subseteq {t \in Tokens : IsLive(t)}
    BY <1>1
  <1>7. {t \in Tokens : IsLive(t)}' = {t \in Tokens : IsLive(t)} \ S
    BY <1>3, <1>4
  <1>8. {t \in Tokens : IsRevoked(t)}' = {t \in Tokens : IsRevoked(t)} \cup S
    BY <1>3, <1>4
  <1>9. [t \in Tokens |-> IF Committed(t) THEN refresh_tokens[t].parent ELSE NoToken]'
        = [t \in Tokens |-> IF Committed(t) THEN refresh_tokens[t].parent ELSE NoToken]
    BY <1>3, <1>4, <1>5
  <1>10. QED
    BY <1>6, <1>7, <1>8, <1>9 DEF Ledger!Revoke

LEMMA LedgerInit == Init => Ledger!Init
  <1> SUFFICES ASSUME Init PROVE Ledger!Init
    OBVIOUS
  <1>1. \A t \in Tokens : ~IsLive(t) /\ ~IsRevoked(t) /\ ~Committed(t)
    BY DEF Init, FreeRow, IsLive, IsRevoked, Committed
  <1>2. QED
    BY <1>1 DEF Ledger!Init

LEMMA LedgerStep == IInv /\ [Next]_vars => [Ledger!Next]_(Ledger!vars)
  <1> SUFFICES ASSUME IInv, [Next]_vars PROVE [Ledger!Next]_(Ledger!vars)
    OBVIOUS
  <1>1. CASE UNCHANGED refresh_tokens
    BY <1>1, LedgerStutter DEF IsLive, IsRevoked
  <1>2. ASSUME NEW r \in Requests, Proceed(r)
        PROVE  [Ledger!Next]_(Ledger!vars)
    <2>1. ASSUME NEW n \in Tokens, IssueTokens(r, n) \/ IssueSuccessor(r, n)
          PROVE  UNCHANGED Ledger!vars
      BY <2>1, LedgerInsert
    <2>2. ASSUME NEW t \in Tokens,
                 RefreshReuse(r, t) \/ RefreshValid(r, t) \/ RevokeRow(r, t) \/ Rotate(r, t)
          PROVE  UNCHANGED refresh_tokens
      BY <2>2 DEF RefreshReuse, RefreshValid, RevokeRow, Rotate
    <2>3. ASSUME NEW t \in Tokens, RefreshExpired(r, t)
          PROVE  UNCHANGED Ledger!vars
      BY <2>3, LedgerRollBack DEF RefreshExpired, LockToken, Holding
    <2>4. CASE CommitTokens(r)
      BY <2>4, LedgerOpen DEF Ledger!Next
    <2>5. CASE CommitRotation(r)
      BY <2>5, LedgerExchange DEF Ledger!Next
    <2>6. CASE CommitRevocation(r)
      BY <2>6, LedgerRevoke DEF Ledger!Next
    <2>7. CASE RefreshNotFound(r)
      BY <2>7, LedgerRollBack DEF RefreshNotFound, Holding
    <2>8. CASE LookupUserById(r)
      <3>1. UNCHANGED refresh_tokens \/ RollBack(r, "refused")
        BY <2>8 DEF LookupUserById
      <3>2. QED
        BY <1>1, <2>8, <3>1, LedgerRollBack DEF LookupUserById, Holding, Rotating
    <2>9. CASE RevokeChain(r)
      BY <1>1, <2>9 DEF RevokeChain, StartRevoking
    <2>10. QED
      BY <1>1, <1>2, <2>1, <2>2, <2>3, <2>4, <2>5, <2>6, <2>7, <2>8, <2>9 DEF Proceed
  <1>3. ASSUME NEW r \in Requests, Arrive(r)
        PROVE  UNCHANGED refresh_tokens
    BY <1>3 DEF Arrive, LookupUser, LogoutAllDevices, Refresh, LogoutToken, StartRevoking
  <1>4. ASSUME NEW r \in Requests, StatementCancelled(r) \/ ConnectionLost(r)
        PROVE  UNCHANGED Ledger!vars
    BY <1>4, LedgerRollBack DEF StatementCancelled, ConnectionLost, WaitsForRow, Holding,
                                Rotating
  <1>5. ASSUME NEW t \in Tokens, Expire(t)
        PROVE  UNCHANGED refresh_tokens
    BY <1>5 DEF Expire
  <1>6. ASSUME NEW u \in Users, Deactivate(u)
        PROVE  UNCHANGED refresh_tokens
    BY <1>6 DEF Deactivate
  <1>7. CASE UNCHANGED vars
    BY <1>1, <1>7 DEF vars
  <1>8. QED
    BY <1>1, <1>2, <1>3, <1>4, <1>5, <1>6, <1>7 DEF Next, Quiet

(* Every behaviour of the table is one of OneTimeTokens: tokens are issued   *)
(* once, exchanged at most once and revoked for good.                       *)
THEOREM RefinesOneTimeTokens == Spec => ImplementsOneTimeTokens
  BY Invariance, LedgerInit, LedgerStep, PTL DEF Spec, Ledger!Spec, ImplementsOneTimeTokens

(* What the ledger's step says of a token that becomes usable.              *)
LEMMA RotationStep ==
  ASSUME IInv, [Next]_vars, NEW n \in Tokens, NEW p \in Tokens,
         ~IsLive(n), IsLive(n)', refresh_tokens'[n].parent = p
  PROVE  IsLive(p) /\ IsRevoked(p)'
  <1> DEFINE live == {t \in Tokens : IsLive(t)}
             spent == {t \in Tokens : IsRevoked(t)}
             price == [t \in Tokens |->
                         IF Committed(t) THEN refresh_tokens[t].parent ELSE NoToken]
  <1>1. n \notin live /\ n \in live' /\ price'[n] = p
    BY DEF Committed
  <1>2. CASE UNCHANGED Ledger!vars
    BY <1>1, <1>2 DEF Ledger!vars
  <1>3. ASSUME NEW x \in Tokens, Ledger!Open(x)
        PROVE  FALSE
    <2>1. n = x /\ n \notin live \cup spent /\ price' = price
      BY <1>1, <1>3 DEF Ledger!Open
    <2>2. price[n] = NoToken
      BY <2>1 DEF Committed
    <2>3. QED
      BY <1>1, <2>1, <2>2
  <1>4. ASSUME NEW t \in Tokens, NEW x \in Tokens, Ledger!Exchange(t, x)
        PROVE  IsLive(p) /\ IsRevoked(p)'
    <2>1. /\ t \in live /\ live' = (live \ {t}) \cup {x}
          /\ spent' = spent \cup {t} /\ price' = [price EXCEPT ![x] = t]
      BY <1>4 DEF Ledger!Exchange
    <2>2. n = x /\ t = p
      BY <1>1, <2>1
    <2>3. p \in live /\ p \in spent'
      BY <2>1, <2>2
    <2>4. QED
      BY <2>3
  <1>5. ASSUME NEW S \in SUBSET Tokens, Ledger!Revoke(S)
        PROVE  FALSE
    BY <1>1, <1>5 DEF Ledger!Revoke
  <1>6. QED
    BY LedgerStep, <1>2, <1>3, <1>4, <1>5 DEF Ledger!Next

(* A successor becomes usable in the step that spends the token it was       *)
(* bought with, and only while that token was still good.                   *)
THEOREM RotationsAtomic == Spec => RotationIsAtomic
  <1>1. IInv /\ [Next]_vars =>
          [\A n, p \in Tokens :
             /\ ~IsLive(n) /\ IsLive(n)'
             /\ refresh_tokens'[n].parent = p
             => IsLive(p) /\ IsRevoked(p)']_vars
    BY RotationStep
  <1>2. QED
    BY <1>1, Invariance, PTL DEF Spec, RotationIsAtomic
=============================================================================
