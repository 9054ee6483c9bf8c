---------------------------- MODULE RefreshTokens ----------------------------
(***************************************************************************)
(* The refresh-token half of auth-svc (services/auth/src/service.ts): what  *)
(* concurrent logins, refreshes and logouts do to the refresh_tokens table, *)
(* one action per database round trip, under Postgres' READ COMMITTED.      *)
(*                                                                         *)
(*  - A statement sees the rows committed when it starts.  UPDATE then      *)
(*    waits for the lock of each row it found and looks at the row again.   *)
(*  - Rows stay locked until COMMIT or ROLLBACK.  Which locks a request     *)
(*    holds follows from how far it got (ForUpdate, KeyShare, updated).     *)
(*  - A request in a transaction holds a client of the connection pool;     *)
(*    refresh() asks for a second one while it holds the first.             *)
(***************************************************************************)
EXTENDS Naturals, FiniteSets

CONSTANTS
  Requests,    \* requests handled in a behaviour, each once
  Users,       \* rows of users
  Tokens,      \* ids gen_random_uuid() may give out; bounds the tokens issued
  NoToken,     \* SQL NULL, and a refresh token no row has the hash of
  NoUser,      \* a request that has not read its user yet
  PoolMax      \* connections of auth-svc's pool (DATABASE_POOL_MAX)

ASSUME NoTokenAssumption == NoToken \notin Tokens
ASSUME NoUserAssumption == NoUser \notin Users
ASSUME PoolMaxAssumption == PoolMax \in Nat \ {0}

VARIABLES
  refresh_tokens,   \* the table: one record per id, "free" until inserted
  active,           \* users whose status is 'active'
  expired,          \* tokens whose expires_at has passed
  clock,            \* the millisecond new Date() last returned to an INSERT
  req               \* the local variables of each request's handler

vars == <<refresh_tokens, active, expired, clock, req>>

-----------------------------------------------------------------------------
(* Rows, handlers and the locks they hold.                                 *)

RowState == {"free", "inserted", "live", "revoked"}

\* "inserted" is a row of a transaction that has not committed, "live" one
\* with revoked_at NULL.  Two history fields no column holds: parent is the
\* _replacesId that issueTokensWithinTx is given and ignores, session names
\* the first token of the login the row descends from.
Row == [state : RowState, user : Users \cup {NoUser}, issued_at : Nat,
        replaced_by : Tokens \cup {NoToken},
        parent : Tokens \cup {NoToken}, session : Tokens \cup {NoToken}]

FreeRow == [state |-> "free", user |-> NoUser, issued_at |-> 0,
            replaced_by |-> NoToken, parent |-> NoToken, session |-> NoToken]

\* Where a handler is: the await it has reached.
Rotating == {"lookup", "session", "rotate", "commit"}
Holding == {"issued", "lock", "reused", "revoke"} \cup Rotating
Place == {"new", "login", "done"} \cup Holding

Answer == {"none", "issued", "refused", "reuse", "revoked", "failed"}

Handler == [at : Place, token : Tokens \cup {NoToken}, user : Users \cup {NoUser},
            new : Tokens \cup {NoToken}, by : Tokens \cup {NoToken},
            seen : SUBSET Tokens, rows : SUBSET Tokens, updated : SUBSET Tokens,
            reuse : BOOLEAN, answer : Answer]

NewHandler == [at |-> "new", token |-> NoToken, user |-> NoUser, new |-> NoToken,
               by |-> NoToken, seen |-> {}, rows |-> {}, updated |-> {},
               reuse |-> FALSE, answer |-> "none"]

IsLive(t) == refresh_tokens[t].state = "live"
IsRevoked(t) == refresh_tokens[t].state = "revoked"
Committed(t) == IsLive(t) \/ IsRevoked(t)

LiveTokensOf(u) == {t \in Tokens : IsLive(t) /\ refresh_tokens[t].user = u}

\* SELECT ... FOR UPDATE locks the presented token's row from then on.
ForUpdate(r, t) ==
  /\ t = req[r].token
  /\ \/ req[r].at \in Rotating \cup {"reused"}
     \/ req[r].at = "revoke" /\ req[r].reuse

\* The foreign key of replaced_by locks the referenced row FOR KEY SHARE.
KeyShare(r, t) == req[r].at = "commit" /\ req[r].by = t

\* An UPDATE of row t by r waits for a transaction that locked or updated it.
UpdateBlocked(r, t) ==
  \E s \in Requests \ {r} : ForUpdate(s, t) \/ t \in req[s].updated

\* The strongest lock, FOR UPDATE, waits for KEY SHARE too.
ForUpdateBlocked(r, t) ==
  \/ UpdateBlocked(r, t)
  \/ \E s \in Requests \ {r} : KeyShare(s, t)

\* KEY SHARE waits for FOR UPDATE alone.
KeyShareBlocked(r, t) == \E s \in Requests \ {r} : ForUpdate(s, t)

\* Clients of the pool in use; a query needs a free one.
Busy == {r \in Requests : req[r].at \in Holding}
FreeClient == Cardinality(Busy) < PoolMax

\* r's handler goes on with its local variables as in h.
Continue(r, h) == req' = [req EXCEPT ![r] = h]

Answered(r, answer) ==
  Continue(r, [req[r] EXCEPT !.at = "done", !.answer = answer,
                             !.rows = {}, !.updated = {}])

\* ROLLBACK: locks go, and so does a row the transaction inserted.
RollBack(r, answer) ==
  /\ refresh_tokens' = [t \in Tokens |->
       IF t = req[r].new THEN FreeRow ELSE refresh_tokens[t]]
  /\ Answered(r, answer)
  /\ UNCHANGED <<active, expired, clock>>

-----------------------------------------------------------------------------
(* passwordLogin: check the user, then issue the first token of a session.  *)

LookupUser(r, u) ==
  /\ req[r].at = "new"
  /\ FreeClient
  /\ \/ /\ u \in active
        /\ Continue(r, [req[r] EXCEPT !.at = "login", !.user = u])
     \/ /\ u \notin active
        /\ Answered(r, "refused")
  /\ UNCHANGED <<refresh_tokens, active, expired, clock>>

\* INSERT INTO refresh_tokens, as part of r's transaction.  Two of them may
\* fall into one millisecond.
InsertToken(r, n, parent, session) ==
  /\ refresh_tokens[n].state = "free"
  /\ clock' \in {clock, clock + 1}
  /\ refresh_tokens' = [refresh_tokens EXCEPT ![n] =
       [state |-> "inserted", user |-> req[r].user, issued_at |-> clock',
        replaced_by |-> NoToken, parent |-> parent, session |-> session]]

IssueTokens(r, n) ==
  /\ req[r].at = "login"
  /\ FreeClient
  /\ InsertToken(r, n, NoToken, n)
  /\ Continue(r, [req[r] EXCEPT !.at = "issued", !.new = n])
  /\ UNCHANGED <<active, expired>>

CommitTokens(r) ==
  /\ req[r].at = "issued"
  /\ refresh_tokens' = [refresh_tokens EXCEPT ![req[r].new].state = "live"]
  /\ Answered(r, "issued")
  /\ UNCHANGED <<active, expired, clock>>

-----------------------------------------------------------------------------
(* refresh: lock the presented token, then rotate it or revoke everything.  *)

\* connect() and BEGIN.  A client knows a token once its row is committed.
Refresh(r, t) ==
  /\ req[r].at = "new"
  /\ FreeClient
  /\ t # NoToken => Committed(t)
  /\ Continue(r, [req[r] EXCEPT !.at = "lock", !.token = t])
  /\ UNCHANGED <<refresh_tokens, active, expired, clock>>

\* Mutant: the handler goes on with the row it did not find.
RefreshNotFoundIgnored(r) ==
  /\ req[r].at = "lock"
  /\ req[r].token = NoToken
  /\ Continue(r, [req[r] EXCEPT !.at = "lookup", !.user = NoToken])
  /\ UNCHANGED <<refresh_tokens, active, expired, clock>>

RefreshNotFound(r) ==
  /\ req[r].at = "lock"
  /\ req[r].token = NoToken
  /\ RollBack(r, "refused")

\* Mutant: a plain SELECT, which reads the row without waiting for its lock.
PlainSelect(r, t) ==
  /\ req[r].at = "lock"
  /\ req[r].token = t

\* SELECT ... FOR UPDATE returns the row as its last writer committed it.
LockToken(r, t) ==
  /\ req[r].at = "lock"
  /\ req[r].token = t
  /\ ~ForUpdateBlocked(r, t)

RefreshReuse(r, t) ==
  /\ LockToken(r, t)
  /\ IsRevoked(t)
  /\ Continue(r, [req[r] EXCEPT !.at = "reused", !.user = refresh_tokens[t].user])
  /\ UNCHANGED <<refresh_tokens, active, expired, clock>>

RefreshExpired(r, t) ==
  /\ LockToken(r, t)
  /\ IsLive(t)
  /\ t \in expired
  /\ RollBack(r, "refused")

RefreshValid(r, t) ==
  /\ LockToken(r, t)
  /\ IsLive(t)
  /\ t \notin expired
  /\ Continue(r, [req[r] EXCEPT !.at = "lookup", !.user = refresh_tokens[t].user])
  /\ UNCHANGED <<refresh_tokens, active, expired, clock>>

\* lookupUserById goes through the pool: it needs a second client.
LookupUserById(r) ==
  /\ req[r].at = "lookup"
  /\ FreeClient
  /\ \/ /\ req[r].user \in active
        /\ Continue(r, [req[r] EXCEPT !.at = "session"])
        /\ UNCHANGED <<refresh_tokens, active, expired, clock>>
     \/ /\ req[r].user \notin active
        /\ RollBack(r, "refused")

\* Mutant: the successor is inserted through the pool, outside the transaction.
IssueSuccessorAtOnce(r, n) ==
  /\ req[r].at = "session"
  /\ FreeClient
  /\ refresh_tokens[n].state = "free"
  /\ clock' = clock + 1
  /\ refresh_tokens' = [refresh_tokens EXCEPT ![n] =
       [state |-> "live", user |-> req[r].user, issued_at |-> clock',
        replaced_by |-> NoToken, parent |-> req[r].token,
        session |-> refresh_tokens[req[r].token].session]]
  /\ Continue(r, [req[r] EXCEPT !.at = "rotate", !.new = n])
  /\ UNCHANGED <<active, expired>>

\* buildSession, through the pool again, and the INSERT of the successor.
IssueSuccessor(r, n) ==
  /\ req[r].at = "session"
  /\ FreeClient
  /\ InsertToken(r, n, req[r].token, refresh_tokens[req[r].token].session)
  /\ Continue(r, [req[r] EXCEPT !.at = "rotate", !.new = n])
  /\ UNCHANGED <<active, expired>>

\* Mutant: the sub-select without "id != $2".
CandidatesWithSelf(r) == LiveTokensOf(req[r].user) \cup {req[r].new}

\* The unrevoked tokens of the user the rotating UPDATE's sub-select sees.
Candidates(r) == (LiveTokensOf(req[r].user) \cup {req[r].new}) \ {req[r].token}

\* replaced_by becomes the candidate issued last, whichever login it is from.
Rotate(r, b) ==
  /\ req[r].at = "rotate"
  /\ b \in Candidates(r)
  /\ \A t \in Candidates(r) :
       refresh_tokens[t].issued_at <= refresh_tokens[b].issued_at
  /\ ~KeyShareBlocked(r, b)
  /\ Continue(r, [req[r] EXCEPT !.at = "commit", !.by = b])
  /\ UNCHANGED <<refresh_tokens, active, expired, clock>>

\* Mutant: the rotating UPDATE sets replaced_by and forgets revoked_at.
CommitRotationUnrevoked(r) ==
  /\ req[r].at = "commit"
  /\ refresh_tokens' = [refresh_tokens EXCEPT
       ![req[r].token] = [@ EXCEPT !.replaced_by = req[r].by],
       ![req[r].new].state = "live"]
  /\ Answered(r, "issued")
  /\ UNCHANGED <<active, expired, clock>>

CommitRotation(r) ==
  /\ req[r].at = "commit"
  /\ refresh_tokens' = [refresh_tokens EXCEPT
       ![req[r].token] = [@ EXCEPT !.state = "revoked", !.replaced_by = req[r].by],
       ![req[r].new].state = "live"]
  /\ Answered(r, "issued")
  /\ UNCHANGED <<active, expired, clock>>

-----------------------------------------------------------------------------
(* UPDATE refresh_tokens SET revoked_at = now() ... AND revoked_at IS NULL, *)
(* for a detected re-use, logout(allDevices) and logout(refreshToken).      *)

\* The statement's snapshot: the rows it found and will visit.
StartRevoking(r, found, reuse) ==
  /\ Continue(r, [req[r] EXCEPT !.at = "revoke", !.seen = found, !.rows = found,
                                !.reuse = reuse])
  /\ UNCHANGED <<refresh_tokens, active, expired, clock>>

RevokeChain(r) ==
  /\ req[r].at = "reused"
  /\ StartRevoking(r, LiveTokensOf(req[r].user), TRUE)

LogoutAllDevices(r, u) ==
  /\ req[r].at = "new"
  /\ FreeClient
  /\ StartRevoking(r, LiveTokensOf(u), FALSE)

LogoutToken(r, t) ==
  /\ req[r].at = "new"
  /\ FreeClient
  /\ Committed(t)
  /\ StartRevoking(r, {x \in {t} : IsLive(x)}, FALSE)

\* Mutant: rows locked by another transaction are skipped (SKIP LOCKED).
RevokeRowSkipLocked(r, t) ==
  /\ req[r].at = "revoke"
  /\ t \in req[r].rows
  /\ Continue(r, [req[r] EXCEPT
       !.rows = @ \ {t},
       !.updated = IF IsLive(t) /\ ~UpdateBlocked(r, t) THEN @ \cup {t} ELSE @])
  /\ UNCHANGED <<refresh_tokens, active, expired, clock>>

\* One row: wait for its lock, then look again whether it is still unrevoked.
RevokeRow(r, t) ==
  /\ req[r].at = "revoke"
  /\ t \in req[r].rows
  /\ ~UpdateBlocked(r, t)
  /\ Continue(r, [req[r] EXCEPT !.rows = @ \ {t},
                                !.updated = IF IsLive(t) THEN @ \cup {t} ELSE @])
  /\ UNCHANGED <<refresh_tokens, active, expired, clock>>

CommitRevocation(r) ==
  /\ req[r].at = "revoke"
  /\ req[r].rows = {}
  /\ refresh_tokens' = [t \in Tokens |->
       IF t \in req[r].updated
       THEN [refresh_tokens[t] EXCEPT !.state = "revoked"]
       ELSE refresh_tokens[t]]
  /\ Answered(r, IF req[r].reuse THEN "reuse" ELSE "revoked")
  /\ UNCHANGED <<active, expired, clock>>

-----------------------------------------------------------------------------
(* Failures and the environment.                                           *)

\* A statement of r that waits for the row lock of another request.
WaitsForRow(r) ==
  \/ req[r].at = "lock" /\ req[r].token \in Tokens /\ ForUpdateBlocked(r, req[r].token)
  \/ /\ req[r].at = "rotate"
     /\ \E b \in Candidates(r) : KeyShareBlocked(r, b)
  \/ req[r].at = "revoke" /\ \E t \in req[r].rows : UpdateBlocked(r, t)

\* Mutant: no statement_timeout is set and no deadlock is broken.
NeverCancelled(r) == FALSE

\* Postgres cancels a waiting statement: statement_timeout or deadlock victim.
StatementCancelled(r) ==
  /\ WaitsForRow(r)
  /\ RollBack(r, "failed")

\* The connection breaks (the service or the server restarts): the same
\* ROLLBACK, from anywhere in a transaction.  An answer is the outcome of the
\* transaction; whether it reaches the client makes no difference here.
ConnectionLost(r) ==
  /\ req[r].at \in Holding
  /\ RollBack(r, "failed")

\* expires_at passes.
Expire(t) ==
  /\ Committed(t)
  /\ t \notin expired
  /\ expired' = expired \cup {t}
  /\ UNCHANGED <<refresh_tokens, active, clock, req>>

\* users.status changes outside auth-svc.
Deactivate(u) ==
  /\ u \in active
  /\ active' = active \ {u}
  /\ UNCHANGED <<refresh_tokens, expired, clock, req>>

-----------------------------------------------------------------------------
Init ==
  /\ refresh_tokens = [t \in Tokens |-> FreeRow]
  /\ active = Users
  /\ expired = {}
  /\ clock = 0
  /\ req = [r \in Requests |-> NewHandler]

\* The steps a request takes once it has arrived.
Proceed(r) ==
  \/ \E n \in Tokens : IssueTokens(r, n) \/ IssueSuccessor(r, n)
  \/ \E t \in Tokens : \/ RefreshReuse(r, t) \/ RefreshExpired(r, t)
                       \/ RefreshValid(r, t) \/ RevokeRow(r, t) \/ Rotate(r, t)
  \/ CommitTokens(r) \/ RefreshNotFound(r) \/ LookupUserById(r)
  \/ CommitRotation(r) \/ RevokeChain(r) \/ CommitRevocation(r)

Arrive(r) ==
  \/ \E u \in Users : LookupUser(r, u) \/ LogoutAllDevices(r, u)
  \/ \E t \in Tokens : Refresh(r, t) \/ LogoutToken(r, t)
  \/ Refresh(r, NoToken)

\* Every request was answered: the only way the service may come to rest.
Quiet ==
  /\ \A r \in Requests : req[r].at = "done"
  /\ UNCHANGED vars

Next ==
  \/ \E r \in Requests :
       Arrive(r) \/ Proceed(r) \/ StatementCancelled(r) \/ ConnectionLost(r)
  \/ \E t \in Tokens : Expire(t)
  \/ \E u \in Users : Deactivate(u)
  \/ Quiet

Spec == Init /\ [][Next]_vars

\* Node runs every handler whose await has settled and Postgres every
\* statement that does not wait; a statement that waits too long is cancelled.
\* Nothing makes a request arrive or a connection break.
Fairness ==
  \A r \in Requests : WF_vars(Proceed(r)) /\ WF_vars(StatementCancelled(r))

FairSpec == Spec /\ Fairness

-----------------------------------------------------------------------------
(* Correctness.                                                            *)

\* Every variable keeps its type; a row that was never inserted is blank.
TypeOK ==
  /\ refresh_tokens \in [Tokens -> Row]
  /\ active \subseteq Users
  /\ expired \subseteq Tokens
  /\ clock \in Nat
  /\ req \in [Requests -> Handler]

\* Two requests presenting one token never both buy a successor with it: the
\* SELECT ... FOR UPDATE of refresh() serialises them (service.ts:185-191).
OneSuccessor ==
  \A a, b \in Tokens :
    /\ Committed(a) /\ Committed(b)
    /\ refresh_tokens[a].parent = refresh_tokens[b].parent
    /\ refresh_tokens[a].parent # NoToken
    => a = b

\* However refreshes, logouts and failures interleave, a login never owns two
\* tokens a client could still exchange.
OneLiveTokenPerSession ==
  \A a, b \in Tokens :
    IsLive(a) /\ IsLive(b) /\ refresh_tokens[a].session = refresh_tokens[b].session
    => a = b

\* A revoke-everything UPDATE that reports success has revoked every token
\* that was unrevoked when it started, also those it had to wait for.
RevocationComplete ==
  \A r \in Requests :
    req[r].answer \in {"reuse", "revoked"} => \A t \in req[r].seen : IsRevoked(t)

\* A successor becomes usable in the very step that invalidates the token it
\* was bought with, and only while that token was still good: no logout or
\* re-use detection slips in between the check and the rotation.
RotationIsAtomic ==
  [][\A n, p \in Tokens :
       /\ ~IsLive(n) /\ IsLive(n)'
       /\ refresh_tokens'[n].parent = p
       => IsLive(p) /\ IsRevoked(p)']_vars

\* replaced_by names a token of the same user that was issued no earlier than
\* the successor: it may be another login's, never an older one or itself.
ReplacedByIsCurrent ==
  \A c, p \in Tokens :
    Committed(c) /\ refresh_tokens[c].parent = p =>
      \E b \in Tokens \ {p} :
        /\ b = refresh_tokens[p].replaced_by
        /\ Committed(b)
        /\ refresh_tokens[b].user = refresh_tokens[p].user
        /\ refresh_tokens[b].issued_at >= refresh_tokens[c].issued_at

\* A client that was told its session is over has no usable token of that login
\* left: not after a detected re-use (service.ts:195 "revoke the whole chain", :201
\* "all sessions revoked"), nor after a logout with the login's current token.
EndedSessionsStayEnded ==
  \A r \in Requests, t \in Tokens : IsLive(t) =>
    /\ req[r].answer = "reuse" =>
         refresh_tokens[t].session # refresh_tokens[req[r].token].session
    /\ req[r].answer = "revoked" =>
         \A s \in req[r].seen : refresh_tokens[t].session # refresh_tokens[s].session

\* Every request that reached auth-svc is answered: no set of handlers ends up
\* waiting for each other's rows (service.ts:197, :212), for a client that one
\* of them holds (:206), or for both.
EveryRequestAnswered ==
  \A r \in Requests : (req[r].at # "new") ~> (req[r].at = "done")

-----------------------------------------------------------------------------
(* Why the safety properties hold: the inductive invariant.                 *)

Inserting == {"issued", "rotate", "commit"}

\* What a handler's progress says of its local variables.
HandlerOK(r) ==
  LET h == req[r] IN
  /\ h.at = "new" => h = NewHandler
  /\ h.at = "login" => h.token = NoToken
  /\ h.at \notin Inserting \cup {"done"} => h.new = NoToken
  /\ h.at \in Inserting =>
       /\ h.new \in Tokens
       /\ refresh_tokens[h.new].state = "inserted"
       /\ refresh_tokens[h.new].user = h.user
  /\ h.at = "issued" => /\ refresh_tokens[h.new].parent = NoToken
                        /\ refresh_tokens[h.new].session = h.new
  /\ h.at # "done" => h.answer = "none"

\* A rotating request works on a token that stays live under its lock.
RotationOK(r) ==
  LET h == req[r] IN
  /\ h.at \in Rotating =>
       /\ h.token \in Tokens
       /\ IsLive(h.token)
       /\ refresh_tokens[h.token].user = h.user
  /\ h.at \in {"rotate", "commit"} =>
       /\ refresh_tokens[h.new].parent = h.token
       /\ refresh_tokens[h.new].session = refresh_tokens[h.token].session
  /\ h.at = "commit" =>
       /\ h.by \in Tokens \ {h.token}
       /\ h.by = h.new \/ Committed(h.by)
       /\ refresh_tokens[h.by].user = h.user
       /\ refresh_tokens[h.by].issued_at >= refresh_tokens[h.new].issued_at

\* A revoking statement has dealt with every row of its snapshot it left.
RevocationOK(r) ==
  LET h == req[r] IN
  /\ h.at # "revoke" => h.updated = {}
  /\ \A t \in h.updated : IsLive(t)
  /\ h.at = "revoke" =>
       \A t \in h.seen : /\ Committed(t)
                         /\ t \in h.rows \cup h.updated \/ IsRevoked(t)

\* Row locks exclude each other, and so do rows being inserted.
LocksOK ==
  \A r, s \in Requests :
    r # s =>
      /\ \A t \in Tokens : ForUpdate(r, t) => ~ForUpdate(s, t) /\ t \notin req[s].updated
      /\ req[r].updated \cap req[s].updated = {}
      /\ req[r].at \in Inserting /\ req[s].at \in Inserting => req[r].new # req[s].new

\* A row refers to committed rows, and a committed successor to a spent token.
LineageOK ==
  \A c \in Tokens :
    refresh_tokens[c].state # "free" =>
      /\ refresh_tokens[c].session \in Tokens
      /\ refresh_tokens[c].session = c \/ Committed(refresh_tokens[c].session)
      /\ Committed(c) /\ refresh_tokens[c].parent # NoToken
           => IsRevoked(refresh_tokens[c].parent)

IInv ==
  /\ TypeOK
  /\ \A r \in Requests : HandlerOK(r) /\ RotationOK(r) /\ RevocationOK(r)
  /\ LocksOK
  /\ LineageOK
  /\ OneSuccessor
  /\ OneLiveTokenPerSession
  /\ RevocationComplete
  /\ ReplacedByIsCurrent

-----------------------------------------------------------------------------
(* The table implements one-time tokens.                                   *)

Ledger == INSTANCE OneTimeTokens WITH
  live <- {t \in Tokens : IsLive(t)},
  spent <- {t \in Tokens : IsRevoked(t)},
  price <- [t \in Tokens |->
    IF Committed(t) THEN refresh_tokens[t].parent ELSE NoToken]

\* Whatever the interleaving, clients see tokens issued once, exchanged at
\* most once and revoked for good.
ImplementsOneTimeTokens == Ledger!Spec
=============================================================================
