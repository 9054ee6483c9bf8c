----------------------------- MODULE LoginLockout -----------------------------
(***************************************************************************)
(* passwordLogin and verifyMfa of auth-svc (services/auth/src/service.ts):  *)
(* the failed-login counter, the temporary lock and the MFA step of one     *)
(* user, with requests interleaving at every await.                         *)
(*                                                                         *)
(* Neither handler opens a transaction around what it reads and what it     *)
(* writes: recordFailedLogin writes the counter it read before bcrypt ran,  *)
(* plus one, and with it a lock or NULL.                                    *)
(***************************************************************************)
EXTENDS Integers, FiniteSets

CONSTANTS
  Requests,    \* requests handled in a behaviour, each once
  MaxFailed,   \* cfg.maxFailedLogins
  Lockout,     \* cfg.lockoutDurationSeconds
  MfaTtl,      \* life of an MFA token, '5m' in the code
  MaxClock     \* bound: time stops there

ASSUME RequestsAssumption == IsFiniteSet(Requests)
ASSUME LockAssumption == MaxFailed \in Nat \ {0} /\ Lockout \in Nat \ {0}
ASSUME TimeAssumption == MfaTtl \in Nat /\ MaxClock \in Nat \ {0}

VARIABLES
  user,        \* the row of users
  clock,       \* Date.now()
  req,         \* the local variables of each request's handler
  overtaken,   \* history: the requests past their check of the lock when it was last set
  failures,    \* history: wrong passwords recorded, in a row while none overlapped
  overlapped   \* history: a login began while another was under way

vars == <<user, clock, req, overtaken, failures, overlapped>>
history == <<overtaken, failures, overlapped>>

-----------------------------------------------------------------------------
\* A time of 0 is SQL NULL.
Time == 0 .. (MaxClock + Lockout + MfaTtl)

User == [active : BOOLEAN, password : BOOLEAN, mfa : BOOLEAN,
         failed_login_count : Nat, locked_until : Time]

Place == {"new", "compare", "record", "clear", "code", "issue", "done"}
Answer == {"none", "refused", "locked", "invalid", "mfa_required", "session"}

\* seen is the failed_login_count the handler read, until the lock it computed
\* from it, expires the end of the MFA token it was answered with.
Handler == [at : Place, right : BOOLEAN, seen : Nat, until : Time,
            expires : Time, answer : Answer]

NewHandler == [at |-> "new", right |-> FALSE, seen |-> 0, until |-> 0,
               expires |-> 0, answer |-> "none"]

Locked == user.locked_until > clock

\* Logins past the check of the lock that have yet to write the row.
Underway == {r \in Requests : req[r].at \in {"compare", "record", "clear"}}

Continue(r, h) == req' = [req EXCEPT ![r] = h]

Answered(r, answer) == Continue(r, [req[r] EXCEPT !.at = "done", !.answer = answer])

-----------------------------------------------------------------------------
(* passwordLogin.                                                          *)

\* No user has the address, or users of several tenants do.
LookupNobody(r) ==
  /\ req[r].at = "new"
  /\ Answered(r, "refused")
  /\ UNCHANGED <<user, clock, history>>

LookupRefused(r) ==
  /\ req[r].at = "new"
  /\ \/ ~user.active /\ Answered(r, "refused")
     \/ user.active /\ Locked /\ Answered(r, "locked")
     \/ user.active /\ ~Locked /\ ~user.password /\ Answered(r, "refused")
  /\ UNCHANGED <<user, clock, history>>

\* Mutant: the lock is compared with the wrong sign.
MayTryLockBackwards == user.active /\ user.password /\ user.locked_until <= clock + Lockout

MayTry == user.active /\ user.password /\ ~Locked

\* lookupUser returned a user who may try a password.
LookupUser(r) ==
  /\ req[r].at = "new"
  /\ MayTry
  /\ Continue(r, [req[r] EXCEPT !.at = "compare", !.seen = user.failed_login_count])
  /\ overlapped' = (overlapped \/ Underway # {})
  /\ UNCHANGED <<user, clock, overtaken, failures>>

\* Mutant: one failure too few locks the account.
LockUntilTooSoon(r) == IF req[r].seen + 2 >= MaxFailed THEN clock + Lockout ELSE 0

LockUntil(r) == IF req[r].seen + 1 >= MaxFailed THEN clock + Lockout ELSE 0

\* bcrypt's compare; on a wrong password recordFailedLogin computes its values.
ComparePassword(r, right) ==
  /\ req[r].at = "compare"
  /\ \/ /\ right
        /\ Continue(r, [req[r] EXCEPT !.at = "clear", !.right = TRUE])
     \/ /\ ~right
        /\ Continue(r, [req[r] EXCEPT !.at = "record", !.until = LockUntil(r)])
  /\ UNCHANGED <<user, clock, history>>

\* The UPDATE overwrites counter and lock, whatever they have become.
RecordFailedLogin(r) ==
  /\ req[r].at = "record"
  /\ user' = [user EXCEPT !.failed_login_count = req[r].seen + 1,
                          !.locked_until = req[r].until]
  /\ Answered(r, "invalid")
  /\ overtaken' = IF req[r].until > clock THEN Underway \ {r} ELSE overtaken
  /\ failures' = failures + 1
  /\ UNCHANGED <<clock, overlapped>>

\* An MFA user gets a token to present with a code; the handler may also fail
\* when the acknowledgement of its UPDATE is lost.
AfterPassword(r) ==
  \/ /\ user.mfa
     /\ Continue(r, [req[r] EXCEPT !.at = "done", !.answer = "mfa_required",
                                   !.expires = clock + MfaTtl])
  \/ /\ ~user.mfa
     /\ Continue(r, [req[r] EXCEPT !.at = "issue"])
  \/ Answered(r, "refused")

\* Mutant: a successful login lifts the lock and keeps the counter.
ClearLockOnly(r) ==
  /\ req[r].at = "clear"
  /\ user' = [user EXCEPT !.locked_until = 0]
  /\ AfterPassword(r)
  /\ failures' = 0
  /\ UNCHANGED <<clock, overtaken, overlapped>>

ClearFailedLogins(r) ==
  /\ req[r].at = "clear"
  /\ user' = [user EXCEPT !.failed_login_count = 0, !.locked_until = 0]
  /\ AfterPassword(r)
  /\ failures' = 0
  /\ UNCHANGED <<clock, overtaken, overlapped>>
-----------------------------------------------------------------------------
(* verifyMfa: it looks neither at the status nor at the lock again, and does *)
(* not remember the tokens it has seen.                                      *)

\* Mutant: any token is taken, also one that has expired.
PresentMfaUnchecked(r, m) ==
  /\ req[r].at = "new"
  /\ Continue(r, [req[r] EXCEPT !.at = "code"])
  /\ UNCHANGED <<user, clock, history>>

\* A client presents the token request m was answered with.
PresentMfa(r, m) ==
  /\ req[r].at = "new"
  /\ req[m].answer = "mfa_required"
  /\ \/ /\ clock < req[m].expires
        /\ Continue(r, [req[r] EXCEPT !.at = "code"])
     \/ /\ clock >= req[m].expires
        /\ Answered(r, "refused")
  /\ UNCHANGED <<user, clock, history>>

\* lookupUserById returned and the code is compared.
CheckCode(r, right) ==
  /\ req[r].at = "code"
  /\ IF right /\ user.mfa
     THEN Continue(r, [req[r] EXCEPT !.at = "issue"])
     ELSE Answered(r, "refused")
  /\ UNCHANGED <<user, clock, history>>

\* buildSession and issueTokens; RefreshTokens has their details.
IssueSession(r) ==
  /\ req[r].at = "issue"
  /\ Answered(r, "session")
  /\ UNCHANGED <<user, clock, history>>

-----------------------------------------------------------------------------
(* Failures and the environment.                                           *)

\* The query in flight fails without an effect and the handler throws.
QueryFails(r) ==
  /\ req[r].at \notin {"new", "compare", "done"}
  /\ Answered(r, "refused")
  /\ UNCHANGED <<user, clock, history>>

Tick ==
  /\ clock < MaxClock
  /\ clock' = clock + 1
  /\ UNCHANGED <<user, req, history>>

\* users.status changes outside auth-svc.
SetStatus ==
  /\ user' = [user EXCEPT !.active = ~@]
  /\ UNCHANGED <<clock, req, history>>

-----------------------------------------------------------------------------
Init ==
  /\ user \in [active : BOOLEAN, password : BOOLEAN, mfa : BOOLEAN,
              failed_login_count : {0}, locked_until : {0}]
  /\ clock = 0
  /\ req = [r \in Requests |-> NewHandler]
  /\ overtaken = {}
  /\ failures = 0
  /\ overlapped = FALSE

Handle(r) ==
  \/ LookupNobody(r) \/ LookupRefused(r) \/ LookupUser(r)
  \/ \E right \in BOOLEAN : ComparePassword(r, right) \/ CheckCode(r, right)
  \/ RecordFailedLogin(r) \/ ClearFailedLogins(r)
  \/ \E m \in Requests : PresentMfa(r, m)
  \/ IssueSession(r) \/ QueryFails(r)

Next == (\E r \in Requests : Handle(r)) \/ Tick \/ SetStatus

Spec == Init /\ [][Next]_vars

-----------------------------------------------------------------------------
(* Correctness.                                                            *)

\* Every variable keeps its type.
TypeOK ==
  /\ user \in User
  /\ clock \in 0 .. MaxClock
  /\ req \in [Requests -> Handler]
  /\ overtaken \subseteq Requests
  /\ failures \in Nat
  /\ overlapped \in BOOLEAN

Recorded == {r \in Requests : req[r].answer = "invalid"}

\* However attempts interleave and whatever stale counters they write back, an
\* account is never locked before MaxFailed wrong passwords were recorded.
LockNeedsFailures == user.locked_until # 0 => Cardinality(Recorded) >= MaxFailed

\* While the account is locked, the only logins that can still succeed or lift
\* the lock are those that were past the check when it was set.
LockStopsNewcomers == Locked => Underway \subseteq overtaken

\* As long as no two logins overlapped, the stale counter is exact: it counts
\* the wrong passwords since the last success, and enough of them lock.
SerialCountExact ==
  ~overlapped =>
    /\ user.failed_login_count = failures
    /\ failures >= MaxFailed => user.locked_until # 0

\* A user enrolled in MFA gets a session only after some login gave the right
\* password, and only from the end of that login on.
MfaNeedsPassword ==
  user.mfa /\ (\E r \in Requests : req[r].answer = "session") =>
    \E m \in Requests : req[m].answer = "mfa_required" /\ req[m].right

-----------------------------------------------------------------------------
(* The inductive invariant.                                                *)

\* A counter, in the row or in a handler, is backed by that many recorded
\* failures, and a lock by a counter that reached MaxFailed.
CountersOK ==
  /\ user.failed_login_count <= Cardinality(Recorded)
  /\ user.locked_until # 0 => user.failed_login_count >= MaxFailed
  /\ \A r \in Underway :
       /\ req[r].seen <= Cardinality(Recorded)
       /\ req[r].until # 0 => req[r].seen + 1 >= MaxFailed
       /\ req[r].at = "record" /\ req[r].seen + 1 >= MaxFailed => req[r].until # 0

\* Without overlap at most one login is under way, and its counter is fresh.
SerialOK ==
  ~overlapped =>
    \A r, s \in Underway : r = s /\ req[r].seen = user.failed_login_count

\* What a handler's progress says of its local variables.
HandlersOK ==
  \A r \in Requests :
    /\ req[r].at # "done" => req[r].answer = "none"
    /\ req[r].at \in {"new", "compare"} => req[r].until = 0
    /\ req[r].at = "clear" \/ req[r].answer = "mfa_required" => req[r].right
    /\ user.mfa /\ (req[r].at \in {"code", "issue"} \/ req[r].answer = "session") =>
         \E m \in Requests : req[m].answer = "mfa_required"

IInv ==
  /\ TypeOK
  /\ HandlersOK
  /\ CountersOK
  /\ SerialOK
  /\ LockStopsNewcomers
  /\ SerialCountExact
=============================================================================
