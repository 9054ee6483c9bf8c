------------------------- MODULE LoginLockoutProofs --------------------------
(***************************************************************************)
(* Theorems about LoginLockout for any number of requests, any threshold    *)
(* and any duration of the lock.                                            *)
(***************************************************************************)
EXTENDS LoginLockout, FiniteSetTheorems, TLAPS

USE RequestsAssumption, LockAssumption, TimeAssumption

(* The handler's record, as the provers need it.                            *)
LEMMA HandlerTypes ==
  ASSUME TypeOK, NEW r \in Requests
  PROVE  /\ req[r] \in Handler
         /\ req[r].at \in Place
         /\ req[r].right \in BOOLEAN
         /\ req[r].seen \in Nat
         /\ req[r].until \in Time
         /\ req[r].expires \in Time
         /\ req[r].answer \in Answer
  BY DEF TypeOK, Handler

LEMMA UserTypes ==
  ASSUME TypeOK
  PROVE  /\ user.failed_login_count \in Nat
         /\ user.locked_until \in Time
         /\ clock \in Time
         /\ clock + Lockout \in Time
         /\ clock + Lockout > clock
         /\ clock + Lockout > 0
         /\ clock + MfaTtl \in Time
  BY DEF TypeOK, User, Time

(* A step of one handler leaves the others where they are.                  *)
LEMMA ContinueStep ==
  ASSUME TypeOK, NEW r \in Requests, NEW h \in Handler, Continue(r, h)
  PROVE  /\ req' \in [Requests -> Handler]
         /\ req'[r] = h
         /\ \A s \in Requests \ {r} : req'[s] = req[s]
  BY DEF Continue, TypeOK

(* The handler a request ends with.                                         *)
LEMMA AnsweredHandler ==
  ASSUME NEW h \in Handler, NEW a \in Answer
  PROVE  LET g == [h EXCEPT !.at = "done", !.answer = a] IN
         /\ g \in Handler
         /\ g.at = "done" /\ g.answer = a
         /\ g.right = h.right /\ g.seen = h.seen /\ g.until = h.until
  BY DEF Handler, Place

(* The recorded failures are counted, and one more is one more.             *)
LEMMA RecordedCount ==
  /\ IsFiniteSet(Recorded)
  /\ Cardinality(Recorded) \in Nat
  <1>1. Recorded \subseteq Requests
    BY DEF Recorded
  <1>2. IsFiniteSet(Recorded)
    BY <1>1, FS_Subset
  <1>3. QED
    BY <1>2, FS_CardinalityType

LEMMA RecordedKept ==
  ASSUME NEW r \in Requests, \A s \in Requests \ {r} : req'[s] = req[s],
         req[r].answer # "invalid", req'[r].answer # "invalid"
  PROVE  Recorded' = Recorded
  BY DEF Recorded

LEMMA RecordedGrows ==
  ASSUME NEW r \in Requests, \A s \in Requests \ {r} : req'[s] = req[s],
         req[r].answer # "invalid", req'[r].answer = "invalid"
  PROVE  Cardinality(Recorded') = Cardinality(Recorded) + 1
  <1>1. Recorded' = Recorded \cup {r}
    BY DEF Recorded
  <1>2. r \notin Recorded
    BY DEF Recorded
  <1>3. QED
    BY <1>1, <1>2, RecordedCount, FS_AddElement

(* Steps of requests that are not about to write the row.                   *)
LEMMA QuietStep ==
  ASSUME IInv, NEW r \in Requests, NEW h \in Handler, Continue(r, h),
         UNCHANGED <<user, clock, history>>,
         req[r].at # "done",
         h.at \in {"code", "issue", "done"},
         h.answer \in {"none", "refused", "locked", "session"},
         h.at # "done" => h.answer = "none",
         user.mfa /\ (h.at \in {"code", "issue"} \/ h.answer = "session") =>
           \E m \in Requests : req[m].answer = "mfa_required"
  PROVE  IInv'
  <1>1. TypeOK
    BY DEF IInv
  <1>2. /\ req' \in [Requests -> Handler]
        /\ req'[r] = h
        /\ \A s \in Requests \ {r} : req'[s] = req[s]
    BY <1>1, ContinueStep
  <1>3. /\ user' = user /\ clock' = clock /\ overtaken' = overtaken
        /\ failures' = failures /\ overlapped' = overlapped
    BY DEF history
  <1>4. req[r].answer = "none"
    BY DEF IInv, HandlersOK
  <1>5. Recorded' = Recorded
    BY <1>2, <1>4, RecordedKept
  <1>6. /\ Underway' \subseteq Underway
        /\ \A s \in Underway' : s \in Requests \ {r} /\ req'[s] = req[s]
    BY <1>2 DEF Underway
  <1>7. TypeOK'
    BY <1>1, <1>2, <1>3 DEF TypeOK
  <1>8. HandlersOK'
    <2> SUFFICES ASSUME NEW s \in Requests
                 PROVE  HandlersOK!(s)'
      BY DEF HandlersOK
    <2>1. user.mfa /\ (req'[s].at \in {"code", "issue"} \/ req'[s].answer = "session") =>
            \E m \in Requests : req[m].answer = "mfa_required"
      BY <1>2 DEF IInv, HandlersOK
    <2>2. \A m \in Requests : req[m].answer = "mfa_required" => req'[m].answer = "mfa_required"
      BY <1>2, <1>4
    <2>3. QED
      BY <1>2, <1>3, <2>1, <2>2 DEF IInv, HandlersOK
  <1>9. CountersOK'
    BY <1>3, <1>5, <1>6 DEF IInv, CountersOK
  <1>10. SerialOK'
    BY <1>3, <1>6 DEF IInv, SerialOK
  <1>11. LockStopsNewcomers' /\ SerialCountExact'
    BY <1>3, <1>6 DEF IInv, LockStopsNewcomers, SerialCountExact, Locked
  <1>12. QED
    BY <1>7, <1>8, <1>9, <1>10, <1>11 DEF IInv

LEMMA Begin ==
  ASSUME IInv, NEW r \in Requests, LookupUser(r)
  PROVE  IInv'
  <1> DEFINE h == [req[r] EXCEPT !.at = "compare", !.seen = user.failed_login_count]
  <1>1. TypeOK /\ req[r].at = "new" /\ ~Locked
    BY DEF IInv, LookupUser, MayTry
  <1>2. h \in Handler /\ h.at = "compare" /\ h.seen = user.failed_login_count
        /\ h.until = req[r].until /\ h.answer = req[r].answer
    BY <1>1, HandlerTypes, UserTypes DEF Handler, Place
  <1>3. /\ req' \in [Requests -> Handler]
        /\ req'[r] = h
        /\ \A s \in Requests \ {r} : req'[s] = req[s]
    BY <1>1, <1>2, ContinueStep DEF LookupUser
  <1> HIDE DEF h
  <1>4. /\ user' = user /\ clock' = clock /\ overtaken' = overtaken
        /\ failures' = failures /\ overlapped' = (overlapped \/ Underway # {})
    BY DEF LookupUser
  <1>5. req[r].answer = "none" /\ req[r].until = 0
    BY <1>1 DEF IInv, HandlersOK
  <1>6. Recorded' = Recorded
    BY <1>2, <1>3, <1>5, RecordedKept
  <1>7. Underway' = Underway \cup {r}
    BY <1>2, <1>3 DEF Underway
  <1>8. TypeOK'
    BY <1>1, <1>3, <1>4 DEF TypeOK
  <1>9. HandlersOK'
    BY <1>2, <1>3, <1>4, <1>5 DEF IInv, HandlersOK
  <1>10. CountersOK'
    BY <1>2, <1>3, <1>4, <1>5, <1>6, <1>7 DEF IInv, CountersOK, Underway
  <1>11. SerialOK'
    BY <1>2, <1>3, <1>4, <1>7 DEF IInv, SerialOK
  <1>12. LockStopsNewcomers'
    BY <1>1, <1>4 DEF LockStopsNewcomers, Locked
  <1>13. SerialCountExact'
    BY <1>4 DEF IInv, SerialCountExact
  <1>14. QED
    BY <1>8, <1>9, <1>10, <1>11, <1>12, <1>13 DEF IInv

LEMMA Compare ==
  ASSUME IInv, NEW r \in Requests, NEW right \in BOOLEAN, ComparePassword(r, right)
  PROVE  IInv'
  <1>1. TypeOK /\ req[r].at = "compare" /\ req[r].answer = "none" /\ req[r].until = 0
    BY DEF IInv, HandlersOK, ComparePassword
  <1>2. PICK h \in Handler :
          /\ Continue(r, h)
          /\ h.answer = "none" /\ h.seen = req[r].seen
          /\ \/ h.at = "clear" /\ h.right /\ h.until = 0
             \/ h.at = "record" /\ h.until = LockUntil(r)
    <2>1. LockUntil(r) \in Time
      BY <1>1, UserTypes DEF LockUntil, Time
    <2>2. CASE right
      <3> DEFINE h == [req[r] EXCEPT !.at = "clear", !.right = TRUE]
      <3>1. h \in Handler /\ h.at = "clear" /\ h.right /\ h.until = 0
            /\ h.answer = "none" /\ h.seen = req[r].seen
        BY <1>1, HandlerTypes DEF Handler, Place
      <3>2. QED
        BY <2>2, <3>1 DEF ComparePassword
    <2>3. CASE ~right
      <3> DEFINE h == [req[r] EXCEPT !.at = "record", !.until = LockUntil(r)]
      <3>1. h \in Handler /\ h.at = "record" /\ h.until = LockUntil(r)
            /\ h.answer = "none" /\ h.seen = req[r].seen
        BY <1>1, <2>1, HandlerTypes DEF Handler, Place
      <3>2. QED
        BY <2>3, <3>1 DEF ComparePassword
    <2>4. QED
      BY <2>2, <2>3
  <1>3. /\ req' \in [Requests -> Handler]
        /\ req'[r] = h
        /\ \A s \in Requests \ {r} : req'[s] = req[s]
    BY <1>1, <1>2, ContinueStep
  <1>4. /\ user' = user /\ clock' = clock /\ overtaken' = overtaken
        /\ failures' = failures /\ overlapped' = overlapped
    BY DEF ComparePassword, history
  <1>5. Recorded' = Recorded
    BY <1>1, <1>2, <1>3, RecordedKept
  <1>6. Underway' = Underway /\ r \in Underway
    BY <1>1, <1>2, <1>3 DEF Underway
  <1>7. TypeOK'
    BY <1>1, <1>3, <1>4 DEF TypeOK
  <1>8. HandlersOK'
    BY <1>1, <1>2, <1>3, <1>4 DEF IInv, HandlersOK
  <1>9. CountersOK'
    <2>1. LockUntil(r) # 0 <=> req[r].seen + 1 >= MaxFailed
      BY <1>1, UserTypes DEF LockUntil
    <2>2. \A s \in Underway \ {r} : req'[s] = req[s]
      BY <1>3 DEF Underway
    <2>3. /\ h.seen <= Cardinality(Recorded)
          /\ h.until # 0 => h.seen + 1 >= MaxFailed
          /\ h.at = "record" /\ h.seen + 1 >= MaxFailed => h.until # 0
      BY <1>2, <1>6, <2>1 DEF IInv, CountersOK
    <2>4. QED
      BY <1>3, <1>4, <1>5, <1>6, <2>2, <2>3 DEF IInv, CountersOK
  <1>10. SerialOK'
    <2>1. \A s \in Underway : req'[s].seen = req[s].seen
      BY <1>2, <1>3 DEF Underway
    <2>2. QED
      BY <1>4, <1>6, <2>1 DEF IInv, SerialOK
  <1>11. LockStopsNewcomers' /\ SerialCountExact'
    BY <1>4, <1>6 DEF IInv, LockStopsNewcomers, SerialCountExact, Locked
  <1>12. QED
    BY <1>7, <1>8, <1>9, <1>10, <1>11 DEF IInv

LEMMA Record ==
  ASSUME IInv, NEW r \in Requests, RecordFailedLogin(r)
  PROVE  IInv'
  <1> DEFINE h == [req[r] EXCEPT !.at = "done", !.answer = "invalid"]
  <1>1. TypeOK /\ req[r].at = "record" /\ req[r].answer = "none" /\ r \in Underway
    BY DEF IInv, HandlersOK, RecordFailedLogin, Underway
  <1>2. h \in Handler /\ h.at = "done" /\ h.answer = "invalid"
    BY <1>1, HandlerTypes, AnsweredHandler DEF Answer
  <1>3. /\ req' \in [Requests -> Handler]
        /\ req'[r] = h
        /\ \A s \in Requests \ {r} : req'[s] = req[s]
    BY <1>1, <1>2, ContinueStep DEF RecordFailedLogin, Answered
  <1> HIDE DEF h
  <1>4. /\ clock' = clock /\ overlapped' = overlapped /\ failures' = failures + 1
        /\ overtaken' = IF req[r].until > clock THEN Underway \ {r} ELSE overtaken
    BY DEF RecordFailedLogin
  <1>5. /\ user' \in User
        /\ user'.failed_login_count = req[r].seen + 1
        /\ user'.locked_until = req[r].until
        /\ user'.mfa = user.mfa
    <2>1. user \in User /\ req[r].until \in Time /\ req[r].seen + 1 \in Nat
      BY <1>1, HandlerTypes DEF TypeOK
    <2>2. QED
      BY <2>1 DEF RecordFailedLogin, User
  <1>6. Cardinality(Recorded') = Cardinality(Recorded) + 1
    BY <1>1, <1>2, <1>3, RecordedGrows
  <1>7. Underway' = Underway \ {r}
    BY <1>1, <1>2, <1>3 DEF Underway
  <1>8. TypeOK'
    BY <1>1, <1>3, <1>4, <1>5 DEF TypeOK, Underway
  <1>9. HandlersOK'
    BY <1>1, <1>2, <1>3, <1>5 DEF IInv, HandlersOK
  <1>10. CountersOK'
    <2>1. /\ req[r].seen + 1 <= Cardinality(Recorded')
          /\ req[r].until # 0 => req[r].seen + 1 >= MaxFailed
      BY <1>1, <1>6, RecordedCount, HandlerTypes DEF IInv, CountersOK
    <2>2. \A s \in Underway' :
            /\ req'[s].seen <= Cardinality(Recorded')
            /\ req'[s].until # 0 => req'[s].seen + 1 >= MaxFailed
            /\ req'[s].at = "record" /\ req'[s].seen + 1 >= MaxFailed => req'[s].until # 0
      <3> SUFFICES ASSUME NEW s \in Underway'
                   PROVE  /\ req'[s].seen <= Cardinality(Recorded')
                          /\ req'[s].until # 0 => req'[s].seen + 1 >= MaxFailed
                          /\ req'[s].at = "record" /\ req'[s].seen + 1 >= MaxFailed
                               => req'[s].until # 0
        OBVIOUS
      <3>1. s \in Underway /\ s \in Requests /\ req'[s] = req[s] /\ req[s].seen \in Nat
        BY <1>1, <1>3, <1>7, HandlerTypes DEF Underway
      <3>2. QED
        BY <1>6, <3>1, RecordedCount DEF IInv, CountersOK
    <2>3. QED
      BY <1>5, <2>1, <2>2 DEF CountersOK
  <1>11. SerialOK'
    BY <1>1, <1>4, <1>7 DEF IInv, SerialOK
  <1>12. LockStopsNewcomers'
    BY <1>4, <1>5, <1>7 DEF LockStopsNewcomers, Locked
  <1>13. SerialCountExact'
    <2> SUFFICES ASSUME ~overlapped
                 PROVE  /\ req[r].seen + 1 = failures + 1
                        /\ failures + 1 >= MaxFailed => req[r].until # 0
      BY <1>4, <1>5 DEF SerialCountExact
    <2>1. req[r].seen = user.failed_login_count /\ user.failed_login_count = failures
      BY <1>1 DEF IInv, SerialOK, SerialCountExact
    <2>2. QED
      BY <1>1, <2>1 DEF IInv, CountersOK
  <1>14. QED
    BY <1>8, <1>9, <1>10, <1>11, <1>12, <1>13 DEF IInv

LEMMA Clear ==
  ASSUME IInv, NEW r \in Requests, ClearFailedLogins(r)
  PROVE  IInv'
  <1>1. TypeOK /\ req[r].at = "clear" /\ req[r].right /\ req[r].answer = "none"
        /\ r \in Underway
    BY DEF IInv, HandlersOK, ClearFailedLogins, Underway
  <1>2. PICK h \in Handler :
          /\ Continue(r, h)
          /\ h.right
          /\ \/ h.at = "done" /\ h.answer \in {"mfa_required", "refused"}
             \/ ~user.mfa /\ h.at = "issue" /\ h.answer = "none"
    <2> AfterPassword(r)
      BY DEF ClearFailedLogins
    <2>1. CASE user.mfa /\ Continue(r, [req[r] EXCEPT !.at = "done",
                 !.answer = "mfa_required", !.expires = clock + MfaTtl])
      <3> DEFINE h == [req[r] EXCEPT !.at = "done",
                 !.answer = "mfa_required", !.expires = clock + MfaTtl]
      <3>1. h \in Handler /\ h.right /\ h.at = "done" /\ h.answer = "mfa_required"
        BY <1>1, HandlerTypes, UserTypes DEF Handler, Place, Answer
      <3>2. QED
        BY <2>1, <3>1
    <2>2. CASE ~user.mfa /\ Continue(r, [req[r] EXCEPT !.at = "issue"])
      <3> DEFINE h == [req[r] EXCEPT !.at = "issue"]
      <3>1. h \in Handler /\ h.right /\ h.at = "issue" /\ h.answer = "none"
        BY <1>1, HandlerTypes DEF Handler, Place
      <3>2. QED
        BY <2>2, <3>1
    <2>3. CASE Answered(r, "refused")
      <3> DEFINE h == [req[r] EXCEPT !.at = "done", !.answer = "refused"]
      <3>1. h \in Handler /\ h.right /\ h.at = "done" /\ h.answer = "refused"
        BY <1>1, HandlerTypes DEF Handler, Place, Answer
      <3>2. QED
        BY <2>3, <3>1 DEF Answered
    <2>4. QED
      BY <2>1, <2>2, <2>3 DEF AfterPassword
  <1>3. /\ req' \in [Requests -> Handler]
        /\ req'[r] = h
        /\ \A s \in Requests \ {r} : req'[s] = req[s]
    BY <1>1, <1>2, ContinueStep
  <1>4. /\ clock' = clock /\ overlapped' = overlapped /\ failures' = 0
        /\ overtaken' = overtaken
    BY DEF ClearFailedLogins
  <1>5. /\ user' \in User
        /\ user'.failed_login_count = 0
        /\ user'.locked_until = 0
        /\ user'.mfa = user.mfa
    <2>1. user \in User /\ 0 \in Time
      BY <1>1 DEF TypeOK, Time
    <2>2. user' = [user EXCEPT !.failed_login_count = 0, !.locked_until = 0]
      BY DEF ClearFailedLogins
    <2>3. QED
      BY <2>1, <2>2 DEF User
  <1>6. Recorded' = Recorded
    BY <1>1, <1>2, <1>3, RecordedKept
  <1>7. Underway' = Underway \ {r}
    BY <1>1, <1>2, <1>3 DEF Underway
  <1>8. TypeOK'
    BY <1>1, <1>3, <1>4, <1>5 DEF TypeOK
  <1>9. HandlersOK'
    BY <1>1, <1>2, <1>3, <1>5 DEF IInv, HandlersOK
  <1>10. CountersOK'
    BY <1>3, <1>5, <1>6, <1>7, RecordedCount DEF IInv, CountersOK, Underway
  <1>11. SerialOK'
    BY <1>1, <1>4, <1>7 DEF IInv, SerialOK
  <1>12. LockStopsNewcomers' /\ SerialCountExact'
    BY <1>1, <1>4, <1>5 DEF LockStopsNewcomers, SerialCountExact, Locked, TypeOK
  <1>13. QED
    BY <1>8, <1>9, <1>10, <1>11, <1>12 DEF IInv

(* Time passes, or the status changes.                                      *)
LEMMA Outside ==
  ASSUME IInv, Tick \/ SetStatus
  PROVE  IInv'
  <1>1. /\ req' = req /\ overtaken' = overtaken
        /\ failures' = failures /\ overlapped' = overlapped
        /\ clock' \in 0 .. MaxClock /\ clock' >= clock
        /\ user' \in User
        /\ user'.failed_login_count = user.failed_login_count
        /\ user'.locked_until = user.locked_until
        /\ user'.mfa = user.mfa
    <2>1. user \in User /\ user.active \in BOOLEAN /\ clock \in 0 .. MaxClock
      BY DEF IInv, TypeOK, User
    <2>2. CASE Tick
      BY <2>1, <2>2 DEF Tick, history
    <2>3. CASE SetStatus
      <3>1. user' = [user EXCEPT !.active = ~user.active] /\ (~user.active) \in BOOLEAN
        BY <2>1, <2>3 DEF SetStatus
      <3>2. user' \in User /\ user'.mfa = user.mfa
            /\ user'.failed_login_count = user.failed_login_count
            /\ user'.locked_until = user.locked_until
        BY <2>1, <3>1 DEF User
      <3>3. QED
        BY <2>1, <2>3, <3>2 DEF SetStatus, history
    <2>4. QED
      BY <2>2, <2>3
  <1>2. Recorded' = Recorded /\ Underway' = Underway
    BY <1>1 DEF Recorded, Underway
  <1>3. TypeOK' /\ HandlersOK'
    BY <1>1 DEF IInv, TypeOK, HandlersOK
  <1>4. CountersOK' /\ SerialOK' /\ SerialCountExact'
    BY <1>1, <1>2 DEF IInv, CountersOK, SerialOK, SerialCountExact
  <1>5. LockStopsNewcomers'
    BY <1>1, <1>2, UserTypes DEF IInv, LockStopsNewcomers, Locked, TypeOK, Time
  <1>6. QED
    BY <1>3, <1>4, <1>5 DEF IInv

(* The other steps of a handler write nothing.                              *)
LEMMA QuietActions ==
  ASSUME IInv, NEW r \in Requests, NEW m \in Requests, NEW right \in BOOLEAN,
         \/ LookupNobody(r) \/ LookupRefused(r) \/ PresentMfa(r, m)
         \/ CheckCode(r, right) \/ IssueSession(r)
         \/ QueryFails(r)
  PROVE  IInv'
  <1>1. TypeOK /\ req[r] \in Handler
    BY HandlerTypes DEF IInv
  <1>2. CASE \E a \in {"refused", "locked"} :
               /\ req[r].at # "done" /\ Answered(r, a)
               /\ UNCHANGED <<user, clock, history>>
    <2> PICK a \in {"refused", "locked"} :
               /\ req[r].at # "done" /\ Answered(r, a)
               /\ UNCHANGED <<user, clock, history>>
      BY <1>2
    <2> DEFINE h == [req[r] EXCEPT !.at = "done", !.answer = a]
    <2>1. h \in Handler /\ h.at = "done" /\ h.answer = a
      BY <1>1 DEF Handler, Place, Answer
    <2>2. Continue(r, h)
      BY DEF Answered
    <2> HIDE DEF h
    <2>3. QED
      BY <2>1, <2>2, QuietStep
  <1>3. CASE PresentMfa(r, m) /\ clock < req[m].expires
    <2> DEFINE h == [req[r] EXCEPT !.at = "code"]
    <2>1. req[r].at = "new" /\ req[r].answer = "none"
      BY <1>3 DEF PresentMfa, IInv, HandlersOK
    <2>2. h \in Handler /\ h.at = "code" /\ h.answer = "none"
      BY <1>1, <2>1 DEF Handler, Place
    <2>3. Continue(r, h) /\ UNCHANGED <<user, clock, history>>
          /\ req[m].answer = "mfa_required"
      BY <1>1, <1>3, HandlerTypes, UserTypes DEF PresentMfa, Time
    <2> HIDE DEF h
    <2>4. QED
      BY <2>1, <2>2, <2>3, QuietStep
  <1>4. CASE CheckCode(r, right) /\ right /\ user.mfa
    <2> DEFINE h == [req[r] EXCEPT !.at = "issue"]
    <2>1. /\ req[r].at = "code" /\ req[r].answer = "none"
          /\ user.mfa => \E x \in Requests : req[x].answer = "mfa_required"
      BY <1>4 DEF CheckCode, IInv, HandlersOK
    <2>2. h \in Handler /\ h.at = "issue" /\ h.answer = "none"
      BY <1>1, <2>1 DEF Handler, Place
    <2>3. Continue(r, h) /\ UNCHANGED <<user, clock, history>>
      BY <1>4 DEF CheckCode
    <2> HIDE DEF h
    <2>4. QED
      BY <2>1, <2>2, <2>3, QuietStep
  <1>5. CASE IssueSession(r)
    <2> DEFINE h == [req[r] EXCEPT !.at = "done", !.answer = "session"]
    <2>1. /\ req[r].at = "issue"
          /\ user.mfa => \E x \in Requests : req[x].answer = "mfa_required"
      BY <1>5 DEF IssueSession, IInv, HandlersOK
    <2>2. h \in Handler /\ h.at = "done" /\ h.answer = "session"
      BY <1>1, AnsweredHandler DEF Answer
    <2>3. Continue(r, h) /\ UNCHANGED <<user, clock, history>>
      BY <1>5 DEF IssueSession, Answered
    <2> HIDE DEF h
    <2>4. QED
      BY <2>1, <2>2, <2>3, QuietStep
  <1>6. CASE LookupNobody(r) \/ LookupRefused(r) \/ QueryFails(r)
    BY <1>2, <1>6 DEF LookupNobody, LookupRefused, QueryFails
  <1>7. CASE PresentMfa(r, m) /\ ~(clock < req[m].expires)
    BY <1>2, <1>7 DEF PresentMfa
  <1>8. CASE CheckCode(r, right) /\ ~(right /\ user.mfa)
    BY <1>2, <1>8 DEF CheckCode
  <1>9. QED
    BY <1>3, <1>4, <1>5, <1>6, <1>7, <1>8

LEMMA Stuttering ==
  ASSUME IInv, UNCHANGED vars
  PROVE  IInv'
  BY DEF IInv, vars, TypeOK, HandlersOK, CountersOK, SerialOK, LockStopsNewcomers,
         SerialCountExact, Recorded, Underway, Locked

LEMMA InitIInv == Init => IInv
  <1> SUFFICES ASSUME Init PROVE IInv
    OBVIOUS
  <1>1. NewHandler \in Handler /\ user \in User
    BY DEF Init, NewHandler, Handler, Place, Answer, User, Time
  <1>2. \A r \in Requests : req[r].at = "new" /\ req[r].answer = "none" /\ req[r].until = 0
    BY DEF Init, NewHandler
  <1>3. user.failed_login_count = 0 /\ user.locked_until = 0 /\ clock = 0
    BY DEF Init
  <1>4. Underway = {}
    BY <1>2 DEF Underway
  <1>5. TypeOK
    <2>1. clock \in 0 .. MaxClock /\ req \in [Requests -> Handler]
      BY <1>1, <1>3 DEF Init
    <2>2. QED
      BY <1>1, <2>1 DEF Init, TypeOK
  <1>6. HandlersOK /\ SerialOK
    BY <1>2, <1>4 DEF HandlersOK, SerialOK
  <1>7. CountersOK
    BY <1>3, <1>4, RecordedCount DEF CountersOK
  <1>8. LockStopsNewcomers /\ SerialCountExact
    BY <1>3 DEF Init, LockStopsNewcomers, SerialCountExact, Locked
  <1>9. QED
    BY <1>5, <1>6, <1>7, <1>8 DEF IInv

(* However many requests interleave, the inductive invariant holds: counters *)
(* are backed by recorded failures and locks by counters.                    *)
THEOREM LockoutInvariance == Spec => []IInv
  <1>1. IInv /\ [Next]_vars => IInv'
    <2> SUFFICES ASSUME IInv, [Next]_vars PROVE IInv'
      OBVIOUS
    <2>1. CASE Next
      <3>1. CASE Tick \/ SetStatus
        BY <3>1, Outside
      <3>2. ASSUME NEW r \in Requests, Handle(r) PROVE IInv'
        BY <3>2, QuietActions, Begin, Compare, Record, Clear DEF Handle
      <3>3. QED
        BY <2>1, <3>1, <3>2 DEF Next
    <2>2. CASE UNCHANGED vars
      BY <2>2, Stuttering
    <2>3. QED
      BY <2>1, <2>2
  <1>2. QED
    BY InitIInv, <1>1, PTL DEF Spec

(* recordFailedLogin (service.ts:295) never locks an account that has not    *)
(* seen MaxFailed recorded wrong passwords, for any number of requests.      *)
THEOREM NoPrematureLock == Spec => []LockNeedsFailures
  <1>1. IInv => LockNeedsFailures
    <2> SUFFICES ASSUME IInv, user.locked_until # 0
                 PROVE  Cardinality(Recorded) >= MaxFailed
      BY DEF LockNeedsFailures
    <2>1. /\ user.failed_login_count <= Cardinality(Recorded)
          /\ user.failed_login_count >= MaxFailed
          /\ user.failed_login_count \in Nat
      BY UserTypes DEF IInv, CountersOK
    <2>2. QED
      BY <2>1, RecordedCount
  <1>2. QED
    BY LockoutInvariance, <1>1, PTL

(* The check of the lock (service.ts:115) keeps every later login out.       *)
THEOREM LockKeepsOut == Spec => []LockStopsNewcomers
  <1>1. IInv => LockStopsNewcomers
    BY DEF IInv
  <1>2. QED
    BY LockoutInvariance, <1>1, PTL

(* Without overlap the counter read before bcrypt is still the row's.        *)
THEOREM SerialCounting == Spec => []SerialCountExact
  <1>1. IInv => SerialCountExact
    BY DEF IInv
  <1>2. QED
    BY LockoutInvariance, <1>1, PTL

(* A session of an MFA user goes back to a right password.                   *)
THEOREM PasswordBeforeMfa == Spec => []MfaNeedsPassword
  <1>1. IInv => MfaNeedsPassword
    BY DEF IInv, HandlersOK, MfaNeedsPassword
  <1>2. QED
    BY LockoutInvariance, <1>1, PTL
=============================================================================
