---------------------------- MODULE ArrivalsProofs ----------------------------
(* Guests, stays, briefs and prep cards, alone and composed, for any requests,  *)
(* rows, e-mails and order of steps: a stay keeps its guest, a POST adds no     *)
(* second guest to an e-mail it could see, a brief is of one generation, and a  *)
(* generation of prep cards lands as a whole or not at all.                     *)
EXTENDS Arrivals, FiniteSetTheorems, TLAPS

\* A webhook that reached the stay has a guest.
HooksKnowGuest == \A h \in Hooks : request[h].at = "stay" => request[h].guest \in Guests

\* A guest that a POST inserted has the e-mail of that POST until it is patched.
OwnEmail(c) ==
  request[c].guest # None =>
    /\ guests[request[c].guest].live
    /\ guests[request[c].guest].edited \/ guests[request[c].guest].email = request[c].email

\* What the look-up of a POST found nobody with, nobody it saw has since, but by a
\* PATCH.
SeenDiffer(c) ==
  \A g \in request[c].seen :
    /\ guests[g].live
    /\ request[c].email # None => guests[g].edited \/ guests[g].email # request[c].email

\* A POST that has not looked yet has seen and inserted nothing.
Unborn(c) ==
  /\ request[c].at = "new" => request[c].guest = None /\ request[c].seen = {}
  /\ request[c].at = "insert" => request[c].guest = None

\* The inductive invariant.
GuestInv ==
  /\ GuestTypeOK
  /\ HooksKnowGuest
  /\ \A c \in Creates : OwnEmail(c) /\ SeenDiffer(c) /\ Unborn(c)

-----------------------------------------------------------------------------
LEMMA NewHandlerIs ==
  /\ NewHandler \in Handler /\ NewHandler.at = "new" /\ NewHandler.guest = None
  /\ NewHandler.seen = {} /\ NewHandler.email = None
  BY DEF NewHandler, Handler, Answer

LEMMA GuestInitInv == GuestInit => GuestInv
<1> SUFFICES ASSUME GuestInit PROVE GuestInv
  OBVIOUS
<1>1. guests \in [Guests -> Guest]
  <2>1. \A l \in BOOLEAN, m \in MewsIds \cup {None} :
          [live |-> l, email |-> None, mews |-> m, edited |-> FALSE] \in Guest
    BY DEF Guest
  <2>2. {[live |-> l, email |-> None, mews |-> m, edited |-> FALSE] :
            l \in BOOLEAN, m \in MewsIds \cup {None}} \subseteq Guest
    BY <2>1
  <2>3. QED
    BY <2>2 DEF GuestInit
<1>2. stays \in [Bookings -> Stay \cup {None}]
  <2>1. [guest : Live, day : Days, status : StayStatus] \subseteq Stay
    BY DEF Live, Stay
  <2>2. QED
    BY <2>1 DEF GuestInit
<1>3. request \in [Requests -> Handler] /\ \A r \in Requests : request[r] = NewHandler
  BY NewHandlerIs DEF GuestInit
<1>4. Creates \subseteq Requests /\ Hooks \subseteq Requests
  BY DEF Requests
<1>5. HooksKnowGuest
  BY <1>3, <1>4, NewHandlerIs DEF HooksKnowGuest
<1>6. \A c \in Creates : OwnEmail(c) /\ SeenDiffer(c) /\ Unborn(c)
  BY <1>3, <1>4, NewHandlerIs DEF OwnEmail, SeenDiffer, Unborn
<1>7. QED
  BY <1>1, <1>2, <1>3, <1>5, <1>6 DEF GuestInv, GuestTypeOK

\* What one request's step may do: its own handler, one row of guests that was not
\* there or is patched, one stay.
LEMMA StepKeeps ==
  ASSUME GuestInv, NEW r \in Requests, NEW rec \in Handler,
         request' = [request EXCEPT ![r] = rec],
         guests' \in [Guests -> Guest], stays' \in [Bookings -> Stay \cup {None}],
         r \in Hooks /\ rec.at = "stay" => rec.guest \in Guests,
         r \in Creates => OwnEmail(r)' /\ SeenDiffer(r)' /\ Unborn(r)',
         \A g \in Live : /\ guests'[g].live
                         /\ ~guests'[g].edited => ~guests[g].edited /\ guests'[g].email = guests[g].email
  PROVE  GuestInv'
<1>1. /\ request' \in [Requests -> Handler] /\ request'[r] = rec
      /\ \A q \in Requests \ {r} : request'[q] = request[q]
  BY DEF GuestInv, GuestTypeOK
<1>2. GuestTypeOK'
  BY <1>1 DEF GuestTypeOK
<1>3. HooksKnowGuest'
  BY <1>1 DEF GuestInv, HooksKnowGuest, Requests
<1>4. ASSUME NEW c \in Creates PROVE OwnEmail(c)' /\ SeenDiffer(c)' /\ Unborn(c)'
  <2>1. CASE c = r
    BY <2>1
  <2>2. CASE c # r
    <3>1. request'[c] = request[c] /\ request[c] \in Handler
      BY <1>1, <2>2 DEF Requests, GuestInv, GuestTypeOK
    <3>2. OwnEmail(c) /\ SeenDiffer(c) /\ Unborn(c)
      BY DEF GuestInv
    <3>3. request[c].guest \in Guests \cup {None} /\ request[c].seen \subseteq Guests
      BY <3>1 DEF Handler
    <3>4. OwnEmail(c)'
      <4> SUFFICES ASSUME request[c].guest # None
                   PROVE  /\ guests'[request[c].guest].live
                          /\ \/ guests'[request[c].guest].edited
                             \/ guests'[request[c].guest].email = request[c].email
        BY <3>1 DEF OwnEmail
      <4>1. PICK g \in Guests : g = request[c].guest
        BY <3>3
      <4>2. g \in Live /\ (guests[g].edited \/ guests[g].email = request[c].email)
        BY <3>2, <4>1 DEF OwnEmail, Live
      <4>3. QED
        BY <4>1, <4>2
    <3>5. SeenDiffer(c)'
      <4> SUFFICES ASSUME NEW g \in request[c].seen
                   PROVE  /\ guests'[g].live
                          /\ request[c].email # None =>
                               guests'[g].edited \/ guests'[g].email # request[c].email
        BY <3>1 DEF SeenDiffer
      <4>1. /\ g \in Live
            /\ request[c].email # None => guests[g].edited \/ guests[g].email # request[c].email
        BY <3>2, <3>3 DEF SeenDiffer, Live
      <4>2. QED
        BY <4>1
    <3>6. Unborn(c)'
      BY <3>1, <3>2 DEF Unborn
    <3>7. QED
      BY <3>4, <3>5, <3>6
  <2>3. QED
    BY <2>1, <2>2
<1>5. QED
  BY <1>2, <1>3, <1>4 DEF GuestInv

\* A request is answered: its handler keeps what it knew.
LEMMA AnsweredIs ==
  ASSUME GuestInv, NEW r \in Requests, NEW code \in Answer, Answered(r, code)
  PROVE  \E rec \in Handler :
           /\ request' = [request EXCEPT ![r] = rec]
           /\ rec.at = "done" /\ rec.guest = request[r].guest
           /\ rec.email = request[r].email /\ rec.seen = request[r].seen
<1>1. PICK rec : rec = [request[r] EXCEPT !.at = "done", !.answer = code]
  OBVIOUS
<1>2. request[r] \in Handler
  BY DEF GuestInv, GuestTypeOK
<1>3. /\ rec \in Handler /\ rec.at = "done" /\ rec.guest = request[r].guest
      /\ rec.email = request[r].email /\ rec.seen = request[r].seen
  BY <1>1, <1>2 DEF Handler
<1>4. request' = [request EXCEPT ![r] = rec]
  BY <1>1, <1>2 DEF Answered, GuestInv, GuestTypeOK
<1>5. QED
  BY <1>3, <1>4

\* An answer that writes nothing but, at most, a stay.
LEMMA AnswerKeeps ==
  ASSUME GuestInv, NEW r \in Requests, NEW code \in Answer, Answered(r, code),
         guests' = guests, stays' \in [Bookings -> Stay \cup {None}]
  PROVE  GuestInv'
<1>1. PICK rec \in Handler :
        /\ request' = [request EXCEPT ![r] = rec]
        /\ rec.at = "done" /\ rec.guest = request[r].guest
        /\ rec.email = request[r].email /\ rec.seen = request[r].seen
  BY AnsweredIs
<1>2. request'[r] = rec
  BY <1>1 DEF GuestInv, GuestTypeOK
<1>3. r \in Creates => OwnEmail(r)' /\ SeenDiffer(r)' /\ Unborn(r)'
  BY <1>1, <1>2 DEF GuestInv, OwnEmail, SeenDiffer, Unborn
<1>4. guests' \in [Guests -> Guest]
  BY DEF GuestInv, GuestTypeOK
<1>5. \A g \in Live : /\ guests'[g].live
                      /\ ~guests'[g].edited => ~guests[g].edited /\ guests'[g].email = guests[g].email
  BY <1>4 DEF Live, Guest
<1>6. QED
  BY <1>1, <1>3, <1>4, <1>5, StepKeeps

LEMMA GuestsStand ==
  ASSUME GuestInv, guests' = guests
  PROVE  /\ guests' \in [Guests -> Guest]
         /\ \A g \in Live :
              /\ guests'[g].live
              /\ ~guests'[g].edited => ~guests[g].edited /\ guests'[g].email = guests[g].email
<1>1. guests' \in [Guests -> Guest] /\ \A g \in Live : guests[g].live
  BY DEF GuestInv, GuestTypeOK, Live
<1>2. \A g \in Live : guests[g].edited \in BOOLEAN
  BY DEF GuestInv, GuestTypeOK, Live, Guest
<1>3. QED
  BY <1>1, <1>2

-----------------------------------------------------------------------------
LEMMA FindDuplicateKeeps ==
  ASSUME GuestInv, NEW c \in Creates, NEW e \in Emails \cup {None},
         NEW m \in MewsIds \cup {None}, FindDuplicate(c, e, m)
  PROVE  GuestInv'
<1>1. guests' = guests /\ stays' = stays /\ request[c].at = "new" /\ c \in Requests
  BY DEF FindDuplicate, Requests
<1>2. stays' \in [Bookings -> Stay \cup {None}]
  BY <1>1 DEF GuestInv, GuestTypeOK
<1>3. CASE e # None /\ \E g \in Live : guests[g].email = e
  <2>1. Answered(c, 409) /\ 409 \in Answer
    BY <1>3 DEF FindDuplicate, Answer
  <2>2. QED
    BY <1>1, <1>2, <2>1, AnswerKeeps
<1>4. CASE ~(e # None /\ \E g \in Live : guests[g].email = e)
  <2>1. PICK rec : rec = [request[c] EXCEPT !.at = "insert", !.email = e, !.mews = m,
                                           !.seen = Live]
    OBVIOUS
  <2>2. request[c] \in Handler /\ Live \subseteq Guests
    BY <1>1 DEF GuestInv, GuestTypeOK, Live
  <2>3. /\ rec \in Handler /\ rec.at = "insert" /\ rec.email = e /\ rec.seen = Live
        /\ rec.guest = request[c].guest
    BY <2>1, <2>2 DEF Handler
  <2>4. request' = [request EXCEPT ![c] = rec]
    BY <1>4, <2>1 DEF FindDuplicate
  <2>5. request'[c] = rec
    BY <1>1, <2>4 DEF GuestInv, GuestTypeOK
  <2>6. request[c].guest = None
    BY <1>1 DEF GuestInv, Unborn
  <2>7. OwnEmail(c)' /\ Unborn(c)'
    BY <2>3, <2>5, <2>6 DEF OwnEmail, Unborn
  <2>8. SeenDiffer(c)'
    BY <1>1, <1>4, <2>3, <2>5 DEF SeenDiffer, Live
  <2>9. c \notin Hooks
    BY GuestRequestsAssumption
  <2>10. QED
    BY <1>1, <1>2, <2>3, <2>4, <2>7, <2>8, <2>9, GuestsStand, StepKeeps
<1>5. QED
  BY <1>3, <1>4

LEMMA InsertGuestKeeps ==
  ASSUME GuestInv, NEW c \in Creates, NEW g \in Guests, InsertGuest(c, g)
  PROVE  GuestInv'
<1>1. /\ request[c].at = "insert" /\ g \notin Live /\ stays' = stays
      /\ c \in Requests /\ c \notin Hooks
  BY GuestRequestsAssumption DEF InsertGuest, Requests
<1>2. request[c] \in Handler
  BY <1>1 DEF GuestInv, GuestTypeOK
<1>3. PICK row : row = [live |-> TRUE, email |-> request[c].email, mews |-> request[c].mews,
                        edited |-> FALSE]
  OBVIOUS
<1>4. row \in Guest /\ row.live /\ ~row.edited /\ row.email = request[c].email
  BY <1>2, <1>3 DEF Guest, Handler
<1>5. guests' = [guests EXCEPT ![g] = row]
  BY <1>3 DEF InsertGuest, Write
<1>6. /\ guests' \in [Guests -> Guest] /\ guests'[g] = row
      /\ \A x \in Guests \ {g} : guests'[x] = guests[x]
  BY <1>4, <1>5 DEF GuestInv, GuestTypeOK
<1>7. PICK rec : rec = [request[c] EXCEPT !.at = "done", !.answer = 201, !.guest = g]
  OBVIOUS
<1>8. /\ rec \in Handler /\ rec.at = "done" /\ rec.guest = g
      /\ rec.email = request[c].email /\ rec.seen = request[c].seen
  <2>1. 201 \in Answer
    BY DEF Answer
  <2>2. QED
    BY <1>2, <1>7, <2>1 DEF Handler
<1>9. request' = [request EXCEPT ![c] = rec]
  BY <1>7 DEF InsertGuest
<1>10. request'[c] = rec
  BY <1>1, <1>9 DEF GuestInv, GuestTypeOK
<1>11. OwnEmail(c)' /\ Unborn(c)'
  BY <1>4, <1>6, <1>8, <1>10 DEF OwnEmail, Unborn
<1>12. SeenDiffer(c)'
  <2>1. SeenDiffer(c) /\ request[c].seen \subseteq Guests
    BY <1>2 DEF GuestInv, Handler
  <2>2. \A x \in request[c].seen : x \in Live
    BY <2>1 DEF SeenDiffer, Live
  <2>3. \A x \in request[c].seen : guests'[x] = guests[x]
    BY <1>1, <1>6, <2>1, <2>2
  <2>4. QED
    BY <1>8, <1>10, <2>1, <2>3 DEF SeenDiffer
<1>13. \A x \in Live :
         /\ guests'[x].live
         /\ ~guests'[x].edited => ~guests[x].edited /\ guests'[x].email = guests[x].email
  <2>1. \A x \in Live : guests'[x] = guests[x] /\ guests[x].live /\ guests[x].edited \in BOOLEAN
    BY <1>1, <1>6 DEF Live, GuestInv, GuestTypeOK, Guest
  <2>2. QED
    BY <2>1
<1>14. stays' \in [Bookings -> Stay \cup {None}]
  BY <1>1 DEF GuestInv, GuestTypeOK
<1>15. QED
  BY <1>1, <1>6, <1>8, <1>9, <1>11, <1>12, <1>13, <1>14, StepKeeps

LEMMA PatchGuestKeeps ==
  ASSUME GuestInv, NEW p \in Patches, NEW g \in Guests, NEW e \in Emails \cup {None},
         NEW m \in MewsIds \cup {None},
         PatchGuest(p, g, [guests[g] EXCEPT !.email = e, !.mews = m])
  PROVE  GuestInv'
<1>1. PICK new : new = [guests[g] EXCEPT !.email = e, !.mews = m]
  OBVIOUS
<1>2. guests[g] \in Guest
  BY DEF GuestInv, GuestTypeOK
<1>3. new \in Guest /\ new.live = guests[g].live /\ new.email = e
  BY <1>1, <1>2 DEF Guest
<1>4. PICK edited \in BOOLEAN : edited = (guests[g].edited \/ new.email # guests[g].email)
  OBVIOUS
<1>5. PICK row : row = [new EXCEPT !.edited = edited]
  OBVIOUS
<1>6. /\ row \in Guest /\ row.live = guests[g].live
      /\ row.email = new.email /\ row.edited = edited
  BY <1>3, <1>5 DEF Guest
<1>7. guests' = [guests EXCEPT ![g] = row] /\ g \in Live /\ Answered(p, 200) /\ stays' = stays
  BY <1>1, <1>4, <1>5 DEF PatchGuest, Write
<1>8. /\ guests' \in [Guests -> Guest] /\ guests'[g] = row
      /\ \A x \in Guests \ {g} : guests'[x] = guests[x]
  BY <1>6, <1>7 DEF GuestInv, GuestTypeOK
<1>9. \A x \in Live :
         /\ guests'[x].live
         /\ ~guests'[x].edited => ~guests[x].edited /\ guests'[x].email = guests[x].email
  <2> SUFFICES ASSUME NEW x \in Live
               PROVE  /\ guests'[x].live
                      /\ ~guests'[x].edited => ~guests[x].edited /\ guests'[x].email = guests[x].email
    OBVIOUS
  <2>1. x \in Guests /\ guests[x].live /\ guests[x].edited \in BOOLEAN
    BY DEF Live, GuestInv, GuestTypeOK, Guest
  <2>2. CASE x = g
    <3>1. ~edited => ~guests[g].edited /\ new.email = guests[g].email
      BY <1>4
    <3>2. QED
      BY <1>6, <1>8, <2>1, <2>2, <3>1
  <2>3. CASE x # g
    BY <1>8, <2>1, <2>3
  <2>4. QED
    BY <2>2, <2>3
<1>10. p \in Requests /\ p \notin Creates /\ p \notin Hooks /\ 200 \in Answer
  BY GuestRequestsAssumption DEF Requests, Answer
<1>11. PICK rec \in Handler : request' = [request EXCEPT ![p] = rec]
  BY <1>7, <1>10, AnsweredIs
<1>12. stays' \in [Bookings -> Stay \cup {None}]
  BY <1>7 DEF GuestInv, GuestTypeOK
<1>13. QED
  BY <1>8, <1>9, <1>10, <1>11, <1>12, StepKeeps

LEMMA FindGuestKeeps ==
  ASSUME GuestInv, NEW h \in Hooks, NEW m \in MewsIds, FindGuest(h, m) PROVE GuestInv'
<1>1. guests' = guests /\ stays' = stays /\ h \in Requests /\ h \notin Creates
  BY GuestRequestsAssumption DEF FindGuest, Requests
<1>2. stays' \in [Bookings -> Stay \cup {None}]
  BY <1>1 DEF GuestInv, GuestTypeOK
<1>3. CASE \E g \in Live : guests[g].mews = m
  <2>1. PICK g \in Live :
          request' = [request EXCEPT ![h] = [@ EXCEPT !.at = "stay", !.mews = m, !.guest = g]]
    BY <1>3 DEF FindGuest
  <2>2. PICK rec : rec = [request[h] EXCEPT !.at = "stay", !.mews = m, !.guest = g]
    OBVIOUS
  <2>3. request[h] \in Handler /\ g \in Guests
    BY <1>1 DEF GuestInv, GuestTypeOK, Live
  <2>4. rec \in Handler /\ rec.guest = g
    BY <2>2, <2>3 DEF Handler
  <2>5. request' = [request EXCEPT ![h] = rec]
    BY <2>1, <2>2
  <2>6. QED
    BY <1>1, <1>2, <2>3, <2>4, <2>5, GuestsStand, StepKeeps
<1>4. CASE ~\E g \in Live : guests[g].mews = m
  <2>1. Answered(h, 500) /\ 500 \in Answer
    BY <1>4 DEF FindGuest, Answer
  <2>2. QED
    BY <1>1, <1>2, <2>1, AnswerKeeps
<1>5. QED
  BY <1>3, <1>4

\* What the webhook writes of a stay.
LEMMA UpsertStayWrites ==
  ASSUME GuestInv, NEW h \in Hooks, NEW b \in Bookings, NEW day \in Days,
         NEW status \in HookStatus, NEW inOrder \in BOOLEAN,
         UpsertStay(h, b, day, status, inOrder)
  PROVE  /\ stays' \in [Bookings -> Stay \cup {None}]
         /\ \A x \in Bookings : stays[x] # None =>
              stays'[x] # None /\ stays'[x].guest = stays[x].guest
         /\ \E code \in Answer : Answered(h, code)
<1>1. stays \in [Bookings -> Stay \cup {None}] /\ None \notin Stay
  BY NoStayAssumption DEF GuestInv, GuestTypeOK, Stay, StayStatus
<1>2. 200 \in Answer /\ 500 \in Answer
  BY DEF Answer
<1>3. CASE stays' = stays /\ Answered(h, 500)
  BY <1>1, <1>2, <1>3
<1>4. CASE status \in StayStatus /\ inOrder
  <2>1. PICK guest : guest = IF stays[b] = None THEN request[h].guest ELSE stays[b].guest
    OBVIOUS
  <2>2. request[h].guest \in Guests
    BY DEF UpsertStay, GuestInv, HooksKnowGuest
  <2>3. guest \in Guests
    BY <1>1, <2>1, <2>2 DEF Stay
  <2>4. PICK row : row = [guest |-> guest, day |-> day, status |-> status]
    OBVIOUS
  <2>5. row \in Stay /\ row.guest = guest
    BY <1>4, <2>3, <2>4 DEF Stay
  <2>6. stays' = [stays EXCEPT ![b] = row] /\ Answered(h, 200)
    BY <1>1, <1>4, <2>1, <2>4 DEF UpsertStay
  <2>7. stays' \in [Bookings -> Stay \cup {None}]
    BY <1>1, <2>5, <2>6
  <2>8. stays'[b] = row /\ \A x \in Bookings \ {b} : stays'[x] = stays[x]
    BY <1>1, <2>6
  <2>9. \A x \in Bookings : stays[x] # None =>
          stays'[x] # None /\ stays'[x].guest = stays[x].guest
    BY <1>1, <2>1, <2>5, <2>8
  <2>10. QED
    BY <1>2, <2>6, <2>7, <2>9
<1>5. QED
  BY <1>3, <1>4 DEF UpsertStay

LEMMA UpsertStayKeeps ==
  ASSUME GuestInv, NEW h \in Hooks, NEW b \in Bookings, NEW day \in Days,
         NEW status \in HookStatus, NEW inOrder \in BOOLEAN,
         UpsertStay(h, b, day, status, inOrder)
  PROVE  GuestInv'
<1>1. guests' = guests /\ h \in Requests
  BY DEF UpsertStay, Requests
<1>2. stays' \in [Bookings -> Stay \cup {None}]
  BY UpsertStayWrites
<1>3. PICK code \in Answer : Answered(h, code)
  BY UpsertStayWrites
<1>4. QED
  BY <1>1, <1>2, <1>3, AnswerKeeps

\* Every other step answers and writes nothing.
LEMMA RefusalKeeps ==
  ASSUME GuestInv, NEW r \in Requests, NEW code \in Answer, Answered(r, code),
         UNCHANGED <<guests, stays>>
  PROVE  GuestInv'
<1>1. guests' = guests /\ stays' \in [Bookings -> Stay \cup {None}]
  BY DEF GuestInv, GuestTypeOK
<1>2. QED
  BY <1>1, AnswerKeeps

LEMMA GuestNextKeeps == GuestInv /\ [GuestNext]_guestVars => GuestInv'
<1> SUFFICES ASSUME GuestInv, [GuestNext]_guestVars PROVE GuestInv'
  OBVIOUS
<1>1. CASE UNCHANGED guestVars
  BY <1>1 DEF guestVars, GuestInv, GuestTypeOK, HooksKnowGuest, OwnEmail, SeenDiffer, Unborn
<1>2. ASSUME NEW c \in Creates, Create(c) PROVE GuestInv'
  BY <1>2, FindDuplicateKeeps, InsertGuestKeeps DEF Create
<1>3. ASSUME NEW p \in Patches, Patch(p) PROVE GuestInv'
  <2>1. ASSUME NEW code \in {400, 404, 500}, PatchRefused(p, code) PROVE GuestInv'
    <3>1. /\ Answered(p, code) /\ UNCHANGED <<guests, stays>>
          /\ p \in Requests /\ code \in Answer
      BY <2>1 DEF PatchRefused, Requests, Answer
    <3>2. QED
      BY <3>1, RefusalKeeps
  <2>2. QED
    BY <1>3, <2>1, PatchGuestKeeps DEF Patch
<1>4. ASSUME NEW h \in Hooks, Hook(h) PROVE GuestInv'
  <2>1. CASE SecretMissing(h) \/ Unauthentic(h) \/ InvalidPayload(h) \/ UnknownProperty(h)
    <3>1. PICK code \in {400, 401, 404, 500, 502} : Answered(h, code)
      BY <2>1 DEF SecretMissing, Unauthentic, InvalidPayload, UnknownProperty
    <3>2. UNCHANGED <<guests, stays>> /\ h \in Requests /\ code \in Answer
      BY <2>1 DEF SecretMissing, Unauthentic, InvalidPayload, UnknownProperty, Requests, Answer
    <3>3. QED
      BY <3>1, <3>2, RefusalKeeps
  <2>2. QED
    BY <1>4, <2>1, FindGuestKeeps, UpsertStayKeeps DEF Hook
<1>5. QED
  BY <1>1, <1>2, <1>3, <1>4 DEF GuestNext

\* What a POST has seen and inserted stays true of the rows (GuestRepo.create and
\* patch of service.ts, ingestMewsReservation of server.ts).
THEOREM GuestInvariant == GuestSpec => []GuestInv
<1>1. QED
  BY GuestInitInv, GuestNextKeeps, PTL DEF GuestSpec

\* No POST adds a second guest to an e-mail that it could see: for any number of
\* creates, patches and webhooks in any order (GuestRepo.create, service.ts:58).
THEOREM DuplicatesNeedARace == GuestSpec => []NoSerialDuplicate
<1>1. GuestInv => NoSerialDuplicate
  <2> SUFFICES ASSUME GuestInv, NEW c \in Creates, NEW d \in Creates,
                      request[c].guest # None, request[c].email = request[d].email,
                      request[c].email # None, ~guests[request[c].guest].edited,
                      request[c].guest \in request[d].seen
               PROVE  FALSE
    BY DEF NoSerialDuplicate
  <2>1. guests[request[c].guest].email = request[c].email
    BY DEF GuestInv, OwnEmail
  <2>2. guests[request[c].guest].email # request[d].email
    BY DEF GuestInv, SeenDiffer
  <2>3. QED
    BY <2>1, <2>2
<1>2. QED
  BY <1>1, GuestInvariant, PTL

-----------------------------------------------------------------------------
LEMMA LeastOf ==
  ASSUME NEW S \in SUBSET Nat, S # {}
  PROVE  \E m \in S : \A n \in S : m <= n
<1>1. \E m \in S : \A n \in S : ~ (<<n, m>> \in OpToRel(<, Nat))
  BY NatLessThanWellFounded, WFMin
<1>2. PICK m \in S : \A n \in S : ~ (<<n, m>> \in OpToRel(<, Nat))
  BY <1>1
<1>3. ASSUME NEW n \in S PROVE m <= n
  <2>1. n \in Nat /\ m \in Nat
    BY <1>2
  <2>2. ~ (n < m)
    BY <1>2, <2>1, Zenon DEF OpToRel
  <2>3. QED
    BY <2>1, <2>2
<1>4. QED
  BY <1>2, <1>3

-----------------------------------------------------------------------------
LEMMA BriefCardinality ==
  ASSUME NEW S
  PROVE  B!Cardinality(S) = Cardinality(S)
  BY DEF B!Cardinality, Cardinality

LEMMA OrderIs ==
  ASSUME NEW p \in B!Priority
  PROVE  /\ B!order[p] \in Nat
         /\ \A q \in B!Priority : B!order[q] = B!order[p] => q = p
<1>1. B!order["vip"] = 0 /\ B!order["attention"] = 1 /\ B!order["standard"] = 2
  BY DEF B!order
<1>2. QED
  BY <1>1 DEF B!Priority

LEMMA AnswerIs ==
  ASSUME NEW answer \in B!AiItems
  PROVE  /\ IsFiniteSet(DOMAIN answer)
         /\ \A i \in DOMAIN answer : i \in Nat /\ answer[i][1] \in Guests /\ answer[i][2] \in B!Priority
<1>1. PICK n \in 0 .. MaxItems : answer \in [1 .. n -> Guests \X B!Priority]
  BY DEF B!AiItems
<1>2. DOMAIN answer = 1 .. n /\ n \in Int
  BY <1>1, GeneratorsAssumption
<1>3. IsFiniteSet(DOMAIN answer)
  BY <1>2, FS_Interval
<1>4. QED
  BY <1>1, <1>2, <1>3

\* The places before a place.
LEMMA SoonerIs ==
  ASSUME NEW answer \in B!AiItems, NEW i \in DOMAIN answer, NEW j \in DOMAIN answer
  PROVE  /\ ~ B!Sooner(answer, i, i)
         /\ i # j => B!Sooner(answer, i, j) \/ B!Sooner(answer, j, i)
         /\ B!Sooner(answer, i, j) => B!order[answer[i][2]] <= B!order[answer[j][2]]
  BY AnswerIs, OrderIs DEF B!Sooner

LEMMA SoonerTransitive ==
  ASSUME NEW answer \in B!AiItems, NEW i \in DOMAIN answer, NEW j \in DOMAIN answer,
         NEW k \in DOMAIN answer, B!Sooner(answer, i, j), B!Sooner(answer, j, k)
  PROVE  B!Sooner(answer, i, k)
<1>1. /\ B!order[answer[i][2]] \in Nat /\ B!order[answer[j][2]] \in Nat /\ B!order[answer[k][2]] \in Nat
      /\ i \in Nat /\ j \in Nat /\ k \in Nat
  BY AnswerIs, OrderIs
<1>2. QED
  BY <1>1 DEF B!Sooner

\* A sooner place has a smaller index.
LEMMA IndexIs ==
  ASSUME NEW answer \in B!AiItems, NEW i \in DOMAIN answer
  PROVE  /\ B!SortIndex(answer, i) \in Nat
         /\ \A j \in DOMAIN answer :
              B!Sooner(answer, j, i) => B!SortIndex(answer, j) < B!SortIndex(answer, i)
<1> DEFINE Before(j) == {k \in DOMAIN answer : B!Sooner(answer, k, j)}
<1>1. ASSUME NEW j \in DOMAIN answer
      PROVE  /\ IsFiniteSet(Before(j)) /\ Cardinality(Before(j)) \in Nat
             /\ B!SortIndex(answer, j) = Cardinality(Before(j))
  <2>1. Before(j) \subseteq DOMAIN answer
    OBVIOUS
  <2>2. IsFiniteSet(Before(j))
    BY <2>1, AnswerIs, FS_Subset
  <2>3. B!SortIndex(answer, j) = Cardinality(Before(j))
    BY BriefCardinality DEF B!SortIndex
  <2>4. QED
    BY <2>2, <2>3, FS_CardinalityType
<1>2. ASSUME NEW j \in DOMAIN answer, B!Sooner(answer, j, i)
      PROVE  B!SortIndex(answer, j) < B!SortIndex(answer, i)
  <2>1. Before(j) \subseteq Before(i)
    BY <1>2, SoonerTransitive
  <2>2. j \in Before(i) /\ j \notin Before(j)
    BY <1>2, SoonerIs
  <2>3. Before(j) # Before(i)
    BY <2>2
  <2>4. /\ IsFiniteSet(Before(i)) /\ Cardinality(Before(i)) \in Nat
        /\ Cardinality(Before(j)) \in Nat
    BY <1>1
  <2>5. Cardinality(Before(j)) <= Cardinality(Before(i)) /\ Cardinality(Before(j)) # Cardinality(Before(i))
    <3> HIDE DEF Before
    <3>1. QED
      BY <2>1, <2>3, <2>4, FS_Subset
  <2>6. Cardinality(Before(j)) < Cardinality(Before(i))
    <3> HIDE DEF Before
    <3>1. QED
      BY <2>4, <2>5
  <2>7. QED
    BY <1>1, <2>6
<1>3. QED
  BY <1>1, <1>2

\* The first stay of a guest.
LEMMA FirstStayIs ==
  ASSUME NEW loaded \in B!ArrivalSets, NEW guest, B!StaysOf(guest, loaded) # {}
  PROVE  /\ B!FirstOf(B!StaysOf(guest, loaded)) \in DOMAIN loaded
         /\ loaded[B!FirstOf(B!StaysOf(guest, loaded))] = guest
         /\ B!FirstOf(B!StaysOf(guest, loaded)) \in Bookings
<1>1. PICK S \in SUBSET Bookings : loaded \in [S -> Guests]
  BY DEF B!ArrivalSets
<1>2. PICK mine : mine = B!StaysOf(guest, loaded)
  OBVIOUS
<1>3. mine \subseteq DOMAIN loaded /\ mine \subseteq Bookings /\ mine # {} /\ \A s \in mine : loaded[s] = guest
  BY <1>1, <1>2 DEF B!StaysOf
<1>4. mine \in SUBSET Nat
  BY <1>3, BookingsAssumption
<1>5. \E s \in mine : \A u \in mine : s <= u
  BY <1>3, <1>4, LeastOf
<1>6. B!FirstOf(mine) = CHOOSE s \in mine : \A u \in mine : s <= u
  BY DEF B!FirstOf
<1>7. B!FirstOf(mine) \in mine
  BY <1>5, <1>6
<1>8. QED
  BY <1>2, <1>3, <1>7

\* The item of a place.
LEMMA ItemAtIs ==
  ASSUME NEW answer \in B!AiItems, NEW loaded \in B!ArrivalSets, NEW i \in B!Known(answer, loaded)
  PROVE  /\ i \in DOMAIN answer /\ B!ItemAt(answer, loaded, i) \in B!Item
         /\ B!ItemAt(answer, loaded, i).stay \in DOMAIN loaded
         /\ loaded[B!ItemAt(answer, loaded, i).stay] = B!ItemAt(answer, loaded, i).guest
         /\ B!ItemAt(answer, loaded, i).priority = answer[i][2]
         /\ B!ItemAt(answer, loaded, i).sort_index = B!SortIndex(answer, i)
<1>1. i \in DOMAIN answer /\ B!StaysOf(answer[i][1], loaded) # {}
  BY DEF B!Known
<1>2. PICK stay : stay = B!FirstOf(B!StaysOf(answer[i][1], loaded))
  OBVIOUS
<1>3. stay \in DOMAIN loaded /\ stay \in Bookings /\ loaded[stay] = answer[i][1]
  BY <1>1, <1>2, FirstStayIs
<1>4. PICK index \in Nat : index = B!SortIndex(answer, i)
  BY <1>1, IndexIs
<1>5. PICK rec : rec = [guest |-> answer[i][1], stay |-> stay, priority |-> answer[i][2],
                        sort_index |-> index]
  OBVIOUS
<1>6. rec = B!ItemAt(answer, loaded, i)
  BY <1>2, <1>4, <1>5 DEF B!ItemAt
<1>7. rec \in B!Item
  BY <1>1, <1>3, <1>5, AnswerIs DEF B!Item
<1>8. QED
  BY <1>1, <1>3, <1>4, <1>5, <1>6, <1>7

\* Two places never make the same item.
LEMMA ItemsDiffer ==
  ASSUME NEW answer \in B!AiItems, NEW loaded \in B!ArrivalSets,
         NEW i \in B!Known(answer, loaded), NEW j \in B!Known(answer, loaded),
         B!ItemAt(answer, loaded, i).sort_index <= B!ItemAt(answer, loaded, j).sort_index
  PROVE  i = j \/ B!Sooner(answer, i, j)
<1>1. SUFFICES ASSUME i # j, ~ B!Sooner(answer, i, j) PROVE FALSE
  OBVIOUS
<1>2. i \in DOMAIN answer /\ j \in DOMAIN answer /\ B!SortIndex(answer, i) <= B!SortIndex(answer, j)
  BY ItemAtIs
<1>3. B!Sooner(answer, j, i)
  BY <1>1, <1>2, SoonerIs
<1>4. B!SortIndex(answer, j) < B!SortIndex(answer, i)
  BY <1>2, <1>3, IndexIs
<1>5. B!SortIndex(answer, i) \in Nat /\ B!SortIndex(answer, j) \in Nat
  BY <1>2, IndexIs
<1>6. QED
  BY <1>2, <1>4, <1>5

\* What the loop counts is what it inserts.
LEMMA CountsAre ==
  ASSUME NEW answer \in B!AiItems, NEW loaded \in B!ArrivalSets, NEW p \in B!Priority
  PROVE  /\ B!CountOf(answer, loaded, p) = Cardinality(B!OfPriority(B!ItemsOf(answer, loaded), p))
         /\ B!CountOf(answer, loaded, p) \in Nat
<1> DEFINE Counted == {i \in B!Known(answer, loaded) : answer[i][2] = p}
           Rows == B!OfPriority(B!ItemsOf(answer, loaded), p)
           RowOf == [i \in Counted |-> B!ItemAt(answer, loaded, i)]
<1>1. IsFiniteSet(Counted)
  <2>1. Counted \subseteq DOMAIN answer
    BY DEF B!Known
  <2>2. QED
    BY <2>1, AnswerIs, FS_Subset
<1>2. ASSUME NEW x \in Rows PROVE \E i \in Counted : RowOf[i] = x
  <2>1. PICK i \in B!Known(answer, loaded) : x = B!ItemAt(answer, loaded, i)
    BY DEF B!OfPriority, B!ItemsOf
  <2>2. x.priority = p
    BY DEF B!OfPriority
  <2>3. i \in Counted
    BY <2>1, <2>2, ItemAtIs
  <2>4. QED
    BY <2>1, <2>3
<1>3. ASSUME NEW i \in Counted PROVE RowOf[i] \in Rows
  BY ItemAtIs DEF B!OfPriority, B!ItemsOf
<1>4. ASSUME NEW i \in Counted, NEW j \in Counted, RowOf[i] = RowOf[j] PROVE i = j
  <2>1. B!ItemAt(answer, loaded, i) = B!ItemAt(answer, loaded, j)
    BY <1>4
  <2>2. i \in DOMAIN answer /\ j \in DOMAIN answer
    BY DEF B!Known
  <2>3. B!ItemAt(answer, loaded, i).sort_index \in Nat
    BY <2>2, IndexIs, ItemAtIs
  <2>4. (i = j \/ B!Sooner(answer, i, j)) /\ (i = j \/ B!Sooner(answer, j, i))
    BY <2>1, <2>3, ItemsDiffer
  <2>5. CASE i # j
    BY <2>2, <2>4, <2>5, SoonerIs, SoonerTransitive
  <2>6. QED
    BY <2>5
<1>5. RowOf \in Bijection(Counted, Rows)
  <2>1. RowOf \in [Counted -> Rows]
    BY <1>3
  <2> HIDE DEF RowOf, Counted, Rows
  <2>2. RowOf \in Injection(Counted, Rows)
    BY <1>4, <2>1 DEF Injection, IsInjective
  <2>3. RowOf \in Surjection(Counted, Rows)
    BY <1>2, <2>1 DEF Surjection
  <2>4. QED
    BY <2>2, <2>3 DEF Bijection
<1>6. Cardinality(Counted) = Cardinality(Rows)
  BY <1>1, <1>5, FS_Bijection DEF ExistsBijection
<1>7. B!CountOf(answer, loaded, p) = Cardinality(Counted)
  BY BriefCardinality DEF B!CountOf
<1>8. QED
  BY <1>1, <1>6, <1>7, FS_CardinalityType

\* What a generation writes.
LEMMA ItemsAre ==
  ASSUME NEW answer \in B!AiItems, NEW loaded \in B!ArrivalSets, NEW row \in B!Brief,
         row.source = loaded, row.items = B!ItemsOf(answer, loaded),
         row.vip_count = B!CountOf(answer, loaded, "vip"),
         row.attention_count = B!CountOf(answer, loaded, "attention"),
         row.item_count = B!Cardinality(DOMAIN loaded)
  PROVE  B!OneGeneration(row, row.items)
<1>1. ASSUME NEW x \in row.items
      PROVE  x.stay \in DOMAIN row.source /\ row.source[x.stay] = x.guest
  <2>1. PICK i \in B!Known(answer, loaded) : x = B!ItemAt(answer, loaded, i)
    BY <1>1 DEF B!ItemsOf
  <2>2. QED
    BY <2>1, ItemAtIs
<1>2. ASSUME NEW x \in row.items, NEW y \in row.items, x.sort_index <= y.sort_index
      PROVE  x = y \/ B!order[x.priority] <= B!order[y.priority]
  <2>1. PICK i \in B!Known(answer, loaded) : x = B!ItemAt(answer, loaded, i)
    BY <1>2 DEF B!ItemsOf
  <2>2. PICK j \in B!Known(answer, loaded) : y = B!ItemAt(answer, loaded, j)
    BY <1>2 DEF B!ItemsOf
  <2>3. i = j \/ B!Sooner(answer, i, j)
    BY <1>2, <2>1, <2>2, ItemsDiffer
  <2>4. i \in DOMAIN answer /\ j \in DOMAIN answer /\ x.priority = answer[i][2] /\ y.priority = answer[j][2]
    BY <2>1, <2>2, ItemAtIs
  <2>5. QED
    BY <2>1, <2>2, <2>3, <2>4, SoonerIs
<1>3. row.vip_count = B!Cardinality(B!OfPriority(row.items, "vip"))
  <2>1. "vip" \in B!Priority
    BY DEF B!Priority
  <2>2. QED
    BY <2>1, CountsAre, BriefCardinality
<1>4. row.attention_count = B!Cardinality(B!OfPriority(row.items, "attention"))
  <2>1. "attention" \in B!Priority
    BY DEF B!Priority
  <2>2. QED
    BY <2>1, CountsAre, BriefCardinality
<1>5. QED
  BY <1>1, <1>2, <1>3, <1>4 DEF B!OneGeneration

-----------------------------------------------------------------------------
\* A reader between its SELECTs has the committed row, unless a generation has
\* committed since.
ReaderOK(v, row) ==
  /\ v.row.status # "generating"
  /\ v.at = "new" => v.items = {}
  /\ v.at = "items" /\ v.between = FALSE => v.row = row
  /\ v.at = "done" /\ v.between = FALSE => B!OneGeneration(v.row, v.items)

RowOK(row) ==
  /\ row.status # "generating" /\ (row.status = "absent" => row.items = {})
  /\ B!OneGeneration(row, row.items)

\* The inductive invariant of briefs.
BriefInv ==
  /\ B!BriefTypeOK
  /\ RowOK(brief)
  /\ \A v \in Readers : ReaderOK(read[v], brief)
  /\ \A g \in Generators : gen[g].answer # "in_progress"

LEMMA ArrivingIs ==
  ASSUME GuestTypeOK, NEW day
  PROVE  ArrivingOn(day) \in B!ArrivalSets
<1>1. PICK S \in SUBSET Bookings : S = {x \in Bookings : Expected(x) /\ stays[x].day = day}
  OBVIOUS
<1>2. ASSUME NEW b \in S PROVE stays[b].guest \in Guests
  <2>1. stays[b] \in Stay /\ stays[b] # None
    BY <1>1 DEF GuestTypeOK, Expected
  <2>2. QED
    BY <2>1 DEF Stay
<1>3. ArrivingOn(day) = [b \in S |-> stays[b].guest]
  BY <1>1 DEF ArrivingOn
<1>4. ArrivingOn(day) \in [S -> Guests]
  BY <1>2, <1>3
<1>5. QED
  BY <1>4 DEF B!ArrivalSets

LEMMA GenIs ==
  ASSUME BriefInv, NEW g \in Generators
  PROVE  /\ gen[g] \in B!Generation /\ gen[g].answer # "in_progress" /\ gen[g].loaded \in B!ArrivalSets
         /\ held \in Generators \cup {0} /\ brief \in B!Brief
  BY DEF BriefInv, B!BriefTypeOK, B!Generation

\* A generation goes on, or ends without a commit.
LEMMA GenMoves ==
  ASSUME BriefInv, NEW g \in Generators, NEW rec \in B!Generation, rec.answer # "in_progress",
         gen' = [gen EXCEPT ![g] = rec], held' \in Generators \cup {0}, UNCHANGED <<brief, read>>
  PROVE  BriefInv'
<1>1. gen \in [Generators -> B!Generation]
  BY DEF BriefInv, B!BriefTypeOK
<1>2. gen' \in [Generators -> B!Generation]
  BY <1>1
<1>3. \A o \in Generators : gen'[o].answer # "in_progress"
  BY <1>1 DEF BriefInv
<1>4. QED
  BY <1>2, <1>3 DEF BriefInv, B!BriefTypeOK

LEMMA ReplyIs ==
  ASSUME BriefInv, NEW g \in Generators, NEW answer \in B!Answer, answer # "in_progress",
         B!Reply(g, answer)
  PROVE  \E rec \in B!Generation : gen' = [gen EXCEPT ![g] = rec] /\ rec.answer # "in_progress"
<1>1. PICK old \in B!Generation : old = gen[g]
  BY GenIs
<1>2. PICK rec : rec = [old EXCEPT !.at = "done", !.answer = answer]
  OBVIOUS
<1>3. rec \in B!Generation /\ rec.answer = answer
  BY <1>1, <1>2 DEF B!Generation
<1>4. gen' = [gen EXCEPT ![g] = rec]
  BY <1>1, <1>2 DEF B!Reply
<1>5. QED
  BY <1>3, <1>4

LEMMA ReleaseIs ==
  ASSUME BriefInv, NEW g \in Generators, B!Release(g)
  PROVE  held' \in Generators \cup {0}
  BY GenIs DEF B!Release

\* A generation commits a row of its own: whoever has read the old row is told.
LEMMA GenCommits ==
  ASSUME BriefInv, NEW g \in Generators, B!Reply(g, "ready") \/ B!Reply(g, "no_arrivals"),
         B!Release(g), B!Crossed, NEW row \in B!Brief, brief' = row, RowOK(row)
  PROVE  BriefInv'
<1>1. PICK rec \in B!Generation : gen' = [gen EXCEPT ![g] = rec] /\ rec.answer # "in_progress"
  <2>1. "ready" \in B!Answer /\ "no_arrivals" \in B!Answer
    BY DEF B!Answer
  <2>2. QED
    BY <2>1, ReplyIs
<1>2. gen \in [Generators -> B!Generation] /\ read \in [Readers -> B!Reading]
  BY DEF BriefInv, B!BriefTypeOK
<1>3. gen' \in [Generators -> B!Generation] /\ \A o \in Generators : gen'[o].answer # "in_progress"
  BY <1>1, <1>2 DEF BriefInv
<1>4. ASSUME NEW v \in Readers PROVE read'[v] \in B!Reading /\ ReaderOK(read'[v], row)
  <2>1. PICK old \in B!Reading : old = read[v]
    BY <1>2
  <2>2. ReaderOK(old, brief)
    BY <2>1 DEF BriefInv
  <2>3. PICK between \in BOOLEAN : between = (old.between \/ old.at = "items")
    OBVIOUS
  <2>4. PICK new : new = [old EXCEPT !.between = between]
    OBVIOUS
  <2>5. read'[v] = new
    BY <2>1, <2>3, <2>4 DEF B!Crossed
  <2>6. /\ new \in B!Reading /\ new.at = old.at /\ new.row = old.row /\ new.items = old.items
        /\ new.between = between
    BY <2>4 DEF B!Reading
  <2>7. new.at = "items" => new.between = TRUE
    BY <2>3, <2>6
  <2>8. new.between = FALSE => old.between = FALSE
    <3>1. old.between \in BOOLEAN
      BY DEF B!Reading
    <3>2. QED
      BY <2>3, <2>6, <3>1
  <2>9. ReaderOK(new, row)
    BY <2>2, <2>6, <2>7, <2>8 DEF ReaderOK
  <2>10. QED
    BY <2>5, <2>6, <2>9
<1>5. read' \in [Readers -> B!Reading]
  BY <1>4 DEF B!Crossed
<1>6. held' \in Generators \cup {0}
  BY ReleaseIs
<1>7. QED
  BY <1>3, <1>4, <1>5, <1>6 DEF BriefInv, B!BriefTypeOK

LEMMA CheckExistingKeeps ==
  ASSUME BriefInv, NEW g \in Generators, NEW force \in BOOLEAN, B!CheckExisting(g, force)
  PROVE  BriefInv'
<1>1. UNCHANGED <<brief, read>> /\ held' \in Generators \cup {0}
  BY GenIs DEF B!CheckExisting
<1>2. brief.status # "generating"
  BY DEF BriefInv, RowOK
<1>3. CASE B!Reply(g, "existing")
  <2>1. "existing" \in B!Answer
    BY DEF B!Answer
  <2>2. QED
    BY <1>1, <1>3, <2>1, ReplyIs, GenMoves
<1>4. CASE gen' = [gen EXCEPT ![g].at = "upsert"]
  <2>1. PICK old \in B!Generation : old = gen[g] /\ old.answer # "in_progress"
    BY GenIs
  <2>2. PICK rec : rec = [old EXCEPT !.at = "upsert"]
    OBVIOUS
  <2>3. rec \in B!Generation /\ rec.answer # "in_progress"
    BY <2>1, <2>2 DEF B!Generation
  <2>4. gen' = [gen EXCEPT ![g] = rec]
    BY <1>4, <2>1, <2>2
  <2>5. QED
    BY <1>1, <2>3, <2>4, GenMoves
<1>5. QED
  BY <1>2, <1>3, <1>4 DEF B!CheckExisting

LEMMA UpsertGeneratingKeeps ==
  ASSUME BriefInv, NEW g \in Generators, B!UpsertGenerating(g)
  PROVE  BriefInv'
<1>1. PICK old \in B!Generation : old = gen[g] /\ old.answer # "in_progress"
  BY GenIs
<1>2. PICK rec : rec = [old EXCEPT !.at = "load"]
  OBVIOUS
<1>3. rec \in B!Generation /\ rec.answer # "in_progress"
  BY <1>1, <1>2 DEF B!Generation
<1>4. gen' = [gen EXCEPT ![g] = rec] /\ held' = g /\ UNCHANGED <<brief, read>>
  BY <1>1, <1>2 DEF B!UpsertGenerating
<1>5. QED
  BY <1>3, <1>4, GenMoves

\* Without arrivals the items and their counts stay.
LEMMA LoadArrivalsKeeps ==
  ASSUME BriefInv, GuestTypeOK, NEW g \in Generators, B!LoadArrivals(g)
  PROVE  BriefInv'
<1>1. CASE DOMAIN ArrivingOn(BriefDay) = {}
  <2>1. B!Reply(g, "no_arrivals") /\ B!Release(g) /\ B!Crossed
    BY <1>1 DEF B!LoadArrivals
  <2>2. PICK old \in B!Brief : old = brief /\ RowOK(old)
    BY GenIs DEF BriefInv
  <2>3. PICK row : row = [old EXCEPT !.status = "ready", !.item_count = 0]
    OBVIOUS
  <2>4. brief' = row
    BY <1>1, <2>2, <2>3 DEF B!LoadArrivals
  <2>5. /\ row \in B!Brief /\ row.status = "ready" /\ row.items = old.items /\ row.source = old.source
        /\ row.vip_count = old.vip_count /\ row.attention_count = old.attention_count
        /\ row.item_count = 0
    BY <2>2, <2>3 DEF B!Brief
  <2>6. B!OneGeneration(row, row.items)
    BY <2>2, <2>5 DEF RowOK, B!OneGeneration
  <2>7. RowOK(row)
    BY <2>5, <2>6 DEF RowOK
  <2>8. QED
    BY <2>1, <2>4, <2>5, <2>7, GenCommits
<1>2. CASE DOMAIN ArrivingOn(BriefDay) # {}
  <2>1. PICK arriving \in B!ArrivalSets : arriving = ArrivingOn(BriefDay)
    BY ArrivingIs
  <2>2. PICK old \in B!Generation : old = gen[g] /\ old.answer # "in_progress"
    BY GenIs
  <2>3. PICK rec : rec = [old EXCEPT !.at = "ai", !.loaded = arriving]
    OBVIOUS
  <2>4. rec \in B!Generation /\ rec.answer # "in_progress"
    BY <2>2, <2>3 DEF B!Generation
  <2>5. gen' = [gen EXCEPT ![g] = rec] /\ UNCHANGED <<brief, held, read>>
    BY <1>2, <2>1, <2>2, <2>3 DEF B!LoadArrivals
  <2>6. QED
    BY <2>4, <2>5, GenIs, GenMoves
<1>3. QED
  BY <1>1, <1>2

\* The new items, their counts and their arrivals.
LEMMA WriteItemsKeeps ==
  ASSUME BriefInv, NEW g \in Generators, NEW answer \in B!AiItems, B!WriteItems(g, answer)
  PROVE  BriefInv'
<1>1. PICK loaded \in B!ArrivalSets : loaded = gen[g].loaded
  BY GenIs
<1>2. PICK vips \in Nat, attentions \in Nat, stays_ \in Nat, items \in SUBSET B!Item :
        /\ vips = B!CountOf(answer, loaded, "vip")
        /\ attentions = B!CountOf(answer, loaded, "attention")
        /\ stays_ = B!Cardinality(DOMAIN loaded)
        /\ items = B!ItemsOf(answer, loaded)
  <2>1. "vip" \in B!Priority /\ "attention" \in B!Priority
    BY DEF B!Priority
  <2>2. B!CountOf(answer, loaded, "vip") \in Nat /\ B!CountOf(answer, loaded, "attention") \in Nat
    BY <2>1, CountsAre
  <2>3. B!Cardinality(DOMAIN loaded) \in Nat
    <3>1. DOMAIN loaded \subseteq Bookings
      BY DEF B!ArrivalSets
    <3>2. QED
      BY <3>1, BookingsAssumption, BriefCardinality, FS_Subset, FS_CardinalityType
  <2>4. B!ItemsOf(answer, loaded) \in SUBSET B!Item
    BY ItemAtIs DEF B!ItemsOf
  <2>5. QED
    BY <2>2, <2>3, <2>4
<1>3. PICK row : row = [status |-> "ready", item_count |-> stays_, vip_count |-> vips,
                        attention_count |-> attentions, items |-> items, source |-> loaded]
  OBVIOUS
<1>4. brief' = row
  BY <1>1, <1>2, <1>3 DEF B!WriteItems
<1>5. row \in B!Brief
  BY <1>3 DEF B!Brief
<1>6. /\ row.status = "ready" /\ row.items = items /\ row.source = loaded /\ row.vip_count = vips
      /\ row.attention_count = attentions /\ row.item_count = stays_
  BY <1>3
<1>7. RowOK(row)
  BY <1>2, <1>5, <1>6, ItemsAre DEF RowOK
<1>8. B!Reply(g, "ready") /\ B!Release(g) /\ B!Crossed
  BY DEF B!WriteItems
<1>9. QED
  BY <1>4, <1>5, <1>7, <1>8, GenCommits

LEMMA GenerationFailsKeeps ==
  ASSUME BriefInv, NEW g \in Generators, B!GenerationFails(g)
  PROVE  BriefInv'
<1>1. "error" \in B!Answer
  BY DEF B!Answer
<1>2. B!Reply(g, "error") /\ B!Release(g) /\ UNCHANGED <<brief, read>>
  BY DEF B!GenerationFails
<1>3. QED
  BY <1>1, <1>2, ReplyIs, ReleaseIs, GenMoves

LEMMA ReaderMoves ==
  ASSUME BriefInv, NEW v \in Readers, NEW rec \in B!Reading, ReaderOK(rec, brief),
         read' = [read EXCEPT ![v] = rec], UNCHANGED <<brief, held, gen>>
  PROVE  BriefInv'
<1>1. read \in [Readers -> B!Reading]
  BY DEF BriefInv, B!BriefTypeOK
<1>2. read' \in [Readers -> B!Reading] /\ \A o \in Readers : ReaderOK(read'[o], brief)
  BY <1>1 DEF BriefInv
<1>3. QED
  BY <1>2 DEF BriefInv, B!BriefTypeOK

LEMMA ShowBriefKeeps ==
  ASSUME BriefInv, NEW v \in Readers, B!ShowBrief(v)
  PROVE  BriefInv'
<1>1. PICK old \in B!Reading : old = read[v] /\ ReaderOK(old, brief)
  BY DEF BriefInv, B!BriefTypeOK
<1>2. PICK row \in B!Brief : row = brief /\ RowOK(row)
  BY DEF BriefInv, B!BriefTypeOK
<1>3. CASE B!ReadRow(v)
  <2>1. old.at = "new" /\ old.items = {} /\ UNCHANGED <<brief, held, gen>>
    BY <1>1, <1>3 DEF B!ReadRow, ReaderOK
  <2>2. PICK at \in {"items", "done"} : at = (IF row.status = "absent" THEN "done" ELSE "items")
    OBVIOUS
  <2>3. PICK rec : rec = [old EXCEPT !.at = at, !.row = row]
    OBVIOUS
  <2>4. read' = [read EXCEPT ![v] = rec]
    BY <1>1, <1>2, <1>3, <2>2, <2>3 DEF B!ReadRow
  <2>5. rec \in B!Reading /\ rec.at = at /\ rec.row = row /\ rec.items = {}
    BY <2>1, <2>3 DEF B!Reading
  <2>6. at = "done" => B!OneGeneration(rec.row, rec.items)
    BY <1>2, <2>2, <2>5 DEF RowOK
  <2>7. ReaderOK(rec, brief)
    BY <1>2, <2>2, <2>5, <2>6 DEF ReaderOK, RowOK
  <2>8. QED
    BY <2>1, <2>4, <2>5, <2>7, ReaderMoves
<1>4. CASE B!ReadItems(v)
  <2>1. old.at = "items" /\ UNCHANGED <<brief, held, gen>>
    BY <1>1, <1>4 DEF B!ReadItems
  <2>2. PICK items \in SUBSET B!Item : items = row.items
    BY <1>2 DEF B!Brief
  <2>3. PICK rec : rec = [old EXCEPT !.at = "done", !.items = items]
    OBVIOUS
  <2>4. read' = [read EXCEPT ![v] = rec]
    BY <1>1, <1>2, <1>4, <2>2, <2>3 DEF B!ReadItems
  <2>5. /\ rec \in B!Reading /\ rec.at = "done" /\ rec.row = old.row /\ rec.items = items
        /\ rec.between = old.between
    BY <2>3 DEF B!Reading
  <2>6. old.between = FALSE => B!OneGeneration(rec.row, rec.items)
    BY <1>1, <1>2, <2>1, <2>2, <2>5 DEF ReaderOK, RowOK
  <2>7. ReaderOK(rec, brief)
    BY <1>1, <2>5, <2>6 DEF ReaderOK
  <2>8. QED
    BY <2>1, <2>4, <2>5, <2>7, ReaderMoves
<1>5. QED
  BY <1>3, <1>4 DEF B!ShowBrief

LEMMA BriefInitInv == B!BriefInit => BriefInv
<1> SUFFICES ASSUME B!BriefInit PROVE BriefInv
  OBVIOUS
<1>1. brief = B!NoBrief /\ held = 0 /\ gen = [g \in Generators |-> B!NewGeneration]
      /\ read = [v \in Readers |-> B!NewReading]
  BY DEF B!BriefInit
<1>2. <<>> \in B!ArrivalSets
  <2>1. <<>> \in [{} -> Guests]
    OBVIOUS
  <2>2. {} \in SUBSET Bookings
    OBVIOUS
  <2>3. QED
    BY <2>1, <2>2 DEF B!ArrivalSets
<1>3. B!NoBrief \in B!Brief /\ RowOK(B!NoBrief)
  <2>1. B!NoBrief \in B!Brief
    BY <1>2 DEF B!NoBrief, B!Brief
  <2>2. /\ B!NoBrief.status = "absent" /\ B!NoBrief.items = {} /\ B!NoBrief.item_count = 0
        /\ B!NoBrief.vip_count = 0 /\ B!NoBrief.attention_count = 0
    BY DEF B!NoBrief
  <2>3. B!Cardinality(B!OfPriority({}, "vip")) = 0 /\ B!Cardinality(B!OfPriority({}, "attention")) = 0
    <3>1. B!OfPriority({}, "vip") = {} /\ B!OfPriority({}, "attention") = {}
      BY DEF B!OfPriority
    <3>2. QED
      BY <3>1, BriefCardinality, FS_EmptySet
  <2>4. B!OneGeneration(B!NoBrief, {})
    BY <2>2, <2>3 DEF B!OneGeneration
  <2>5. QED
    BY <2>1, <2>2, <2>4 DEF RowOK
<1>4. B!NewGeneration \in B!Generation /\ B!NewGeneration.answer = "none"
  BY <1>2 DEF B!NewGeneration, B!Generation, B!Answer
<1>5. B!NewReading \in B!Reading /\ ReaderOK(B!NewReading, B!NoBrief)
  <2>1. B!NewReading.at = "new" /\ B!NewReading.row = B!NoBrief /\ B!NewReading.items = {}
    BY DEF B!NewReading
  <2>2. B!NewReading \in B!Reading
    BY <1>3 DEF B!NewReading, B!Reading
  <2>3. QED
    BY <1>3, <2>1, <2>2 DEF ReaderOK, RowOK
<1>6. B!BriefTypeOK
  BY <1>1, <1>3, <1>4, <1>5 DEF B!BriefTypeOK
<1>7. QED
  BY <1>1, <1>3, <1>4, <1>5, <1>6 DEF BriefInv

LEMMA BriefStepKeeps ==
  ASSUME BriefInv, GuestTypeOK, \/ \E g \in Generators : B!Generate(g)
                                \/ \E v \in Readers : B!ShowBrief(v)
  PROVE  BriefInv'
<1>1. ASSUME NEW g \in Generators, B!Generate(g) PROVE BriefInv'
  <2>1. ASSUME NEW force \in BOOLEAN, B!CheckExisting(g, force) PROVE BriefInv'
    BY <2>1, CheckExistingKeeps
  <2>2. CASE B!UpsertGenerating(g)
    BY <2>2, UpsertGeneratingKeeps
  <2>3. CASE B!LoadArrivals(g)
    BY <2>3, LoadArrivalsKeeps
  <2>4. ASSUME NEW answer \in B!AiItems, B!WriteItems(g, answer) PROVE BriefInv'
    BY <2>4, WriteItemsKeeps
  <2>5. CASE B!GenerationFails(g)
    BY <2>5, GenerationFailsKeeps
  <2>6. QED
    BY <1>1, <2>1, <2>2, <2>3, <2>4, <2>5 DEF B!Generate
<1>2. QED
  BY <1>1, ShowBriefKeeps

-----------------------------------------------------------------------------
\* A generation under way has written the stays done, each by force or unseen,
\* unless an error has taken all of it away.
UnderWay(h) ==
  /\ h.answer = 0 /\ h.landed = {} /\ h.todo \subseteq h.all \ h.skipped
  /\ \A s \in h.made : h.force \/ s \in h.unseen
  /\ h.aborted => h.at = "loop" /\ h.made = {} /\ h.errors # 0
  /\ ~h.aborted => /\ h.errors = 0 /\ h.made = (h.all \ h.skipped) \ h.todo
                   /\ h.cardsCreated + h.cardsUpdated = Cardinality(h.made)

Summed(h) ==
  IF h.errors = 0
  THEN /\ h.landed = h.all \ h.skipped
       /\ h.cardsCreated + h.cardsUpdated = Cardinality(h.landed)
  ELSE h.landed = {}

HandlerOK(h) ==
  /\ h.at = "new" => h = P!NewHandler
  /\ h.at \in {"loop", "upsert"} => UnderWay(h)
  /\ h.at = "upsert" => h.stay \in h.todo /\ (h.force \/ h.stay \in h.unseen)
  /\ h.answer = 201 => Summed(h)

PrepInv == P!PrepTypeOK /\ \A p \in Preps : HandlerOK(prep[p])

-----------------------------------------------------------------------------
LEMMA HandlerIs ==
  ASSUME PrepInv, NEW p \in Preps
  PROVE  prep[p] \in P!Handler /\ HandlerOK(prep[p])
  BY DEF PrepInv, P!PrepTypeOK

\* Sets of stays are finite.
LEMMA StaysFinite ==
  ASSUME NEW S \in SUBSET Bookings
  PROVE  IsFiniteSet(S) /\ Cardinality(S) \in Nat
  BY BookingsAssumption, FS_Subset, FS_CardinalityType

LEMMA PrepCardinality ==
  ASSUME NEW S
  PROVE  P!Cardinality(S) = Cardinality(S)
  BY DEF P!Cardinality, Cardinality

LEMMA HandlerMoves ==
  ASSUME PrepInv, NEW p \in Preps, NEW rec \in P!Handler, HandlerOK(rec),
         prep' = [prep EXCEPT ![p] = rec], cards' \in [Bookings -> P!Card],
         completion' = completion
  PROVE  PrepInv'
<1>1. prep \in [Preps -> P!Handler]
  BY DEF PrepInv, P!PrepTypeOK
<1>2. prep'[p] = rec /\ \A q \in Preps \ {p} : prep'[q] = prep[q]
  BY <1>1
<1>3. prep' \in [Preps -> P!Handler]
  BY <1>1
<1>4. P!PrepTypeOK'
  BY <1>3 DEF PrepInv, P!PrepTypeOK
<1>5. \A q \in Preps : HandlerOK(prep'[q])
  BY <1>2 DEF PrepInv
<1>6. QED
  BY <1>4, <1>5 DEF PrepInv

LEMMA HandlerOnly ==
  ASSUME PrepInv, NEW p \in Preps, NEW rec \in P!Handler, HandlerOK(rec),
         prep' = [prep EXCEPT ![p] = rec], UNCHANGED <<cards, completion>>
  PROVE  PrepInv'
<1>1. cards' \in [Bookings -> P!Card]
  BY DEF PrepInv, P!PrepTypeOK
<1>2. QED
  BY <1>1, HandlerMoves

LEMMA NewPrepIs ==
  /\ P!NewHandler \in P!Handler /\ P!NewHandler.answer = 0 /\ P!NewHandler.at = "new"
  /\ P!NewHandler.made = {} /\ P!NewHandler.noted = {} /\ P!NewHandler.aborted = FALSE
  /\ P!NewHandler.errors = 0 /\ P!NewHandler.cardsCreated = 0 /\ P!NewHandler.cardsUpdated = 0
  /\ P!NewHandler.skipped = {} /\ P!NewHandler.landed = {} /\ P!NewHandler.unseen = {}
<1>1. 0 \in P!Answers /\ 0 \in Nat
  BY DEF P!Answers
<1>2. P!NewHandler \in P!Handler
  BY <1>1 DEF P!NewHandler, P!Handler
<1>3. QED
  BY <1>2 DEF P!NewHandler

LEMMA BeginPrepKeeps ==
  ASSUME PrepInv, NEW p \in Preps, NEW force \in BOOLEAN, P!BeginPrep(p, force)
  PROVE  PrepInv'
<1>1. prep[p].at = "new" /\ prep[p] = P!NewHandler /\ UNCHANGED <<cards, completion>>
  BY HandlerIs DEF P!BeginPrep, P!PrepBecomes, HandlerOK
<1>2. PICK todo \in SUBSET Bookings : todo = DOMAIN ArrivingOn(PrepDay)
  BY DEF ArrivingOn
<1>3. PICK h \in P!Handler : h = prep[p] /\ h = P!NewHandler
  BY <1>1, HandlerIs
<1>4. PICK rec : rec = [h EXCEPT !.at = "loop", !.force = force, !.todo = todo, !.all = todo]
  OBVIOUS
<1>5. prep' = [prep EXCEPT ![p] = rec]
  BY <1>2, <1>3, <1>4 DEF P!BeginPrep, P!PrepBecomes
<1>6. /\ rec.at = "loop" /\ rec.force = force /\ rec.todo = todo /\ rec.all = todo
      /\ rec.made = {} /\ rec.aborted = FALSE /\ rec.errors = 0 /\ rec.cardsCreated = 0
      /\ rec.cardsUpdated = 0 /\ rec.skipped = {} /\ rec.landed = {} /\ rec.answer = 0
  BY <1>3, <1>4, NewPrepIs DEF P!Handler
<1>7. rec \in P!Handler
  BY <1>3, <1>4 DEF P!Handler
<1>8. 0 + 0 = Cardinality({})
  BY FS_EmptySet
<1>9. UnderWay(rec)
  BY <1>6, <1>8 DEF UnderWay
<1>10. HandlerOK(rec)
  BY <1>6, <1>9 DEF HandlerOK
<1>11. QED
  BY <1>1, <1>5, <1>7, <1>10, HandlerOnly

\* The fields of a handler, for steps that change some of them.
LEMMA UnderWayIs ==
  ASSUME PrepInv, NEW p \in Preps, NEW h, h = prep[p], h.at \in {"loop", "upsert"}
  PROVE  /\ h \in P!Handler /\ HandlerOK(h) /\ UnderWay(h)
         /\ h.todo \in SUBSET Bookings /\ h.made \in SUBSET Bookings /\ h.skipped \in SUBSET Bookings
         /\ h.unseen \in SUBSET Bookings /\ h.noted \in SUBSET Bookings
         /\ h.cardsCreated \in Nat /\ h.cardsUpdated \in Nat /\ h.errors \in Nat
         /\ h.aborted \in BOOLEAN /\ h.force \in BOOLEAN
  BY HandlerIs DEF HandlerOK, P!Handler

LEMMA LookForCardKeeps ==
  ASSUME PrepInv, NEW p \in Preps, NEW s \in Bookings, P!LookForCard(p, s)
  PROVE  PrepInv'
<1>1. PICK h : h = prep[p]
  OBVIOUS
<1>2. h.at = "loop" /\ ~h.aborted /\ s \in h.todo /\ UNCHANGED <<cards, completion>>
  BY <1>1 DEF P!LookForCard, P!PrepBecomes, P!NextStays
<1>3. /\ h \in P!Handler /\ UnderWay(h) /\ h.todo \in SUBSET Bookings
      /\ h.skipped \in SUBSET Bookings /\ h.unseen \in SUBSET Bookings
      /\ h.aborted = FALSE
  BY <1>1, <1>2, UnderWayIs
<1>4. CASE P!Exists(s) /\ ~h.force
  <2>1. PICK rec : rec = [h EXCEPT !.todo = h.todo \ {s}, !.skipped = h.skipped \cup {s}]
    OBVIOUS
  <2>2. prep' = [prep EXCEPT ![p] = rec]
    BY <1>1, <1>4, <2>1 DEF P!LookForCard, P!PrepBecomes
  <2>3. /\ rec.todo = h.todo \ {s} /\ rec.skipped = h.skipped \cup {s} /\ rec.at = "loop"
        /\ rec.answer = h.answer /\ rec.landed = h.landed /\ rec.all = h.all
        /\ rec.made = h.made /\ rec.force = h.force /\ rec.unseen = h.unseen
        /\ rec.aborted = FALSE /\ rec.errors = h.errors
        /\ rec.cardsCreated = h.cardsCreated /\ rec.cardsUpdated = h.cardsUpdated
    BY <1>2, <1>3, <2>1 DEF P!Handler
  <2>4. rec \in P!Handler
    BY <1>3, <2>1 DEF P!Handler
  <2>5. UnderWay(rec)
    <3>1. /\ h.answer = 0 /\ h.landed = {} /\ h.todo \subseteq h.all \ h.skipped
          /\ \A u \in h.made : h.force \/ u \in h.unseen
          /\ h.errors = 0 /\ h.made = (h.all \ h.skipped) \ h.todo
          /\ h.cardsCreated + h.cardsUpdated = Cardinality(h.made)
      BY <1>3 DEF UnderWay
    <3>2. rec.made = (rec.all \ rec.skipped) \ rec.todo /\ rec.todo \subseteq rec.all \ rec.skipped
      BY <1>2, <2>3, <3>1
    <3>3. QED
      BY <2>3, <3>1, <3>2 DEF UnderWay
  <2>6. HandlerOK(rec)
    BY <2>3, <2>5 DEF HandlerOK, UnderWay
  <2>7. QED
    BY <1>2, <2>2, <2>4, <2>6, HandlerOnly
<1>5. CASE ~ (P!Exists(s) /\ ~h.force)
  <2>1. PICK unseen \in SUBSET Bookings :
          /\ unseen = (IF P!Exists(s) THEN h.unseen ELSE h.unseen \cup {s})
          /\ h.unseen \subseteq unseen /\ (h.force \/ s \in unseen)
    BY <1>3, <1>5
  <2>2. PICK rec : rec = [h EXCEPT !.at = "upsert", !.stay = s, !.unseen = unseen]
    OBVIOUS
  <2>3. prep' = [prep EXCEPT ![p] = rec]
    BY <1>1, <1>5, <2>1, <2>2 DEF P!LookForCard, P!PrepBecomes
  <2>4. /\ rec.todo = h.todo /\ rec.skipped = h.skipped /\ rec.at = "upsert" /\ rec.stay = s
        /\ rec.answer = h.answer /\ rec.landed = h.landed /\ rec.all = h.all
        /\ rec.made = h.made /\ rec.force = h.force /\ rec.unseen = unseen
        /\ rec.aborted = FALSE /\ rec.errors = h.errors
        /\ rec.cardsCreated = h.cardsCreated /\ rec.cardsUpdated = h.cardsUpdated
    BY <1>2, <1>3, <2>2 DEF P!Handler
  <2>5. rec \in P!Handler
    BY <1>3, <2>2 DEF P!Handler
  <2>6. UnderWay(rec)
    BY <1>3, <2>1, <2>4 DEF UnderWay
  <2>7. HandlerOK(rec)
    BY <1>2, <2>1, <2>4, <2>6 DEF HandlerOK, UnderWay
  <2>8. QED
    BY <1>2, <2>3, <2>5, <2>7, HandlerOnly
<1>6. QED
  BY <1>4, <1>5

LEMMA UpsertCardKeeps ==
  ASSUME PrepInv, NEW p \in Preps, NEW note \in BOOLEAN, P!UpsertCard(p, note)
  PROVE  PrepInv'
<1>1. PICK h : h = prep[p]
  OBVIOUS
<1>2. h.at = "upsert" /\ UNCHANGED <<cards, completion>>
  BY <1>1 DEF P!UpsertCard, P!PrepBecomes
<1>3. /\ h \in P!Handler /\ UnderWay(h) /\ HandlerOK(h)
      /\ h.todo \in SUBSET Bookings /\ h.made \in SUBSET Bookings /\ h.noted \in SUBSET Bookings
      /\ h.cardsCreated \in Nat /\ h.cardsUpdated \in Nat /\ h.aborted = FALSE
  <2>1. UnderWay(h)
    BY <1>1, <1>2, UnderWayIs
  <2>2. ~h.aborted
    BY <1>2, <2>1 DEF UnderWay
  <2>3. QED
    BY <1>1, <1>2, <2>2, UnderWayIs
<1>4. PICK s : s = h.stay
  OBVIOUS
<1>5. s \in h.todo /\ (h.force \/ s \in h.unseen)
  BY <1>2, <1>3, <1>4 DEF HandlerOK
<1>6. PICK noted \in SUBSET Bookings : noted = (IF note THEN h.noted \cup {s} ELSE h.noted)
  BY <1>3, <1>5
<1>7. PICK created \in Nat, updated \in Nat :
        /\ created = (IF P!Exists(s) THEN h.cardsCreated ELSE h.cardsCreated + 1)
        /\ updated = (IF P!Exists(s) THEN h.cardsUpdated + 1 ELSE h.cardsUpdated)
        /\ created + updated = h.cardsCreated + h.cardsUpdated + 1
  BY <1>3
<1>8. PICK rec : rec = [h EXCEPT !.at = "loop", !.todo = h.todo \ {s}, !.made = h.made \cup {s},
                                !.noted = noted, !.cardsCreated = created, !.cardsUpdated = updated]
  OBVIOUS
<1>9. prep' = [prep EXCEPT ![p] = rec]
  BY <1>1, <1>4, <1>6, <1>7, <1>8 DEF P!UpsertCard, P!PrepBecomes
<1>10. /\ rec.todo = h.todo \ {s} /\ rec.skipped = h.skipped /\ rec.at = "loop"
       /\ rec.answer = h.answer /\ rec.landed = h.landed /\ rec.all = h.all
       /\ rec.made = h.made \cup {s} /\ rec.force = h.force /\ rec.unseen = h.unseen
       /\ rec.aborted = FALSE /\ rec.errors = h.errors
       /\ rec.cardsCreated = created /\ rec.cardsUpdated = updated
  BY <1>2, <1>3, <1>8 DEF P!Handler
<1>11. rec \in P!Handler
  <2>1. h.todo \ {s} \in SUBSET Bookings /\ h.made \cup {s} \in SUBSET Bookings
    BY <1>3, <1>5
  <2>2. PICK todo \in SUBSET Bookings, made \in SUBSET Bookings :
          todo = h.todo \ {s} /\ made = h.made \cup {s}
    BY <2>1
  <2>3. PICK half : half = [h EXCEPT !.at = "loop", !.todo = todo, !.made = made]
    OBVIOUS
  <2>4. half \in P!Handler
    BY <1>3, <2>3 DEF P!Handler
  <2>5. rec = [half EXCEPT !.noted = noted, !.cardsCreated = created, !.cardsUpdated = updated]
    BY <1>3, <1>8, <2>2, <2>3 DEF P!Handler
  <2>6. QED
    BY <2>4, <2>5 DEF P!Handler
<1>12. UnderWay(rec)
  <2>1. /\ h.answer = 0 /\ h.landed = {} /\ h.todo \subseteq h.all \ h.skipped
        /\ \A u \in h.made : h.force \/ u \in h.unseen
        /\ h.errors = 0 /\ h.made = (h.all \ h.skipped) \ h.todo
        /\ h.cardsCreated + h.cardsUpdated = Cardinality(h.made)
    BY <1>3 DEF UnderWay
  <2>2. rec.made = (rec.all \ rec.skipped) \ rec.todo /\ rec.todo \subseteq rec.all \ rec.skipped
    BY <1>5, <1>10, <2>1
  <2>3. \A u \in rec.made : rec.force \/ u \in rec.unseen
    BY <1>5, <1>10, <2>1
  <2>4. s \notin h.made
    BY <1>5, <2>1
  <2>5. Cardinality(h.made \cup {s}) = Cardinality(h.made) + 1
    BY <1>3, <2>4, StaysFinite, FS_AddElement
  <2>6. rec.cardsCreated + rec.cardsUpdated = Cardinality(rec.made)
    BY <1>7, <1>10, <2>1, <2>5
  <2>7. QED
    BY <1>10, <2>1, <2>2, <2>3, <2>6 DEF UnderWay
<1>13. HandlerOK(rec)
  BY <1>10, <1>12 DEF HandlerOK, UnderWay
<1>14. QED
  BY <1>2, <1>9, <1>11, <1>13, HandlerOnly

\* The transaction is aborted.
LEMMA StayFailsKeeps ==
  ASSUME PrepInv, NEW p \in Preps, P!StayFails(p)
  PROVE  PrepInv'
<1>1. PICK h : h = prep[p]
  OBVIOUS
<1>2. h.at \in {"loop", "upsert"} /\ UNCHANGED <<cards, completion>>
  BY <1>1 DEF P!StayFails, P!PrepBecomes
<1>3. PICK s : prep' = [prep EXCEPT ![p] = [h EXCEPT !.at = "loop", !.aborted = TRUE, !.made = {},
                                              !.todo = h.todo \ {s}, !.errors = h.errors + 1]]
  BY <1>1 DEF P!StayFails, P!PrepBecomes
<1>4. h \in P!Handler /\ UnderWay(h) /\ h.todo \in SUBSET Bookings /\ h.errors \in Nat
  BY <1>1, <1>2, UnderWayIs
<1>5. PICK errors \in Nat : errors = h.errors + 1 /\ errors # 0
  BY <1>4
<1>6. PICK rec : rec = [h EXCEPT !.at = "loop", !.aborted = TRUE, !.made = {},
                                 !.todo = h.todo \ {s}, !.errors = errors]
  OBVIOUS
<1>7. prep' = [prep EXCEPT ![p] = rec]
  BY <1>3, <1>5, <1>6
<1>8. /\ rec.at = "loop" /\ rec.aborted = TRUE /\ rec.made = {} /\ rec.todo = h.todo \ {s}
      /\ rec.errors = errors /\ rec.answer = h.answer /\ rec.landed = h.landed
      /\ rec.all = h.all /\ rec.skipped = h.skipped
  BY <1>4, <1>6 DEF P!Handler
<1>9. rec \in P!Handler
  BY <1>4, <1>6 DEF P!Handler
<1>10. UnderWay(rec)
  BY <1>4, <1>5, <1>8 DEF UnderWay
<1>11. HandlerOK(rec)
  BY <1>8, <1>10 DEF HandlerOK, UnderWay
<1>12. QED
  BY <1>2, <1>7, <1>9, <1>11, HandlerOnly

LEMMA RestFailsKeeps ==
  ASSUME PrepInv, NEW p \in Preps, P!RestFails(p)
  PROVE  PrepInv'
<1>1. PICK h : h = prep[p]
  OBVIOUS
<1>2. h.at = "loop" /\ h.aborted /\ UNCHANGED <<cards, completion>>
  BY <1>1 DEF P!RestFails, P!PrepBecomes
<1>3. /\ h \in P!Handler /\ UnderWay(h) /\ h.todo \in SUBSET Bookings /\ h.errors \in Nat
      /\ h.aborted = TRUE
  BY <1>1, <1>2, UnderWayIs
<1>4. h.errors # 0 /\ h.made = {} /\ h.answer = 0 /\ h.landed = {}
  BY <1>2, <1>3 DEF UnderWay
<1>5. PICK left \in Nat : left = Cardinality(h.todo)
  BY <1>3, StaysFinite
<1>6. PICK errors \in Nat : errors = h.errors + left /\ errors # 0
  BY <1>3, <1>4
<1>7. PICK rec : rec = [h EXCEPT !.todo = {}, !.errors = errors]
  OBVIOUS
<1>8. prep' = [prep EXCEPT ![p] = rec]
  <2>1. prep' = [prep EXCEPT ![p] = [h EXCEPT !.todo = {}, !.errors = h.errors + Cardinality(h.todo)]]
    BY <1>1, PrepCardinality DEF P!RestFails, P!PrepBecomes
  <2>2. errors = h.errors + Cardinality(h.todo)
    BY <1>5, <1>6
  <2>3. rec = [h EXCEPT !.todo = {}, !.errors = h.errors + Cardinality(h.todo)]
    BY <1>7, <2>2, Zenon
  <2>4. QED
    BY <2>1, <2>3
<1>9. /\ rec.at = "loop" /\ rec.aborted = TRUE /\ rec.made = {} /\ rec.todo = {}
      /\ rec.errors = errors /\ rec.answer = 0 /\ rec.landed = {}
  BY <1>2, <1>3, <1>4, <1>7 DEF P!Handler
<1>10. rec \in P!Handler
  BY <1>3, <1>7 DEF P!Handler
<1>11. UnderWay(rec)
  BY <1>6, <1>9 DEF UnderWay
<1>12. HandlerOK(rec)
  BY <1>9, <1>11 DEF HandlerOK
<1>13. QED
  BY <1>2, <1>8, <1>10, <1>12, HandlerOnly

LEMMA CommitPrepKeeps ==
  ASSUME PrepInv, NEW p \in Preps, P!CommitPrep(p)
  PROVE  PrepInv'
<1>1. PICK h : h = prep[p]
  OBVIOUS
<1>2. h.at = "loop" /\ h.todo = {} /\ completion' = completion
  BY <1>1 DEF P!CommitPrep, P!PrepBecomes
<1>3. /\ h \in P!Handler /\ UnderWay(h) /\ h.made \in SUBSET Bookings /\ h.aborted \in BOOLEAN
  BY <1>1, <1>2, UnderWayIs
<1>4. 201 \in P!Answers
  BY DEF P!Answers
<1>5. PICK rec : rec = [h EXCEPT !.at = "done", !.answer = 201, !.made = {}, !.landed = h.made]
  OBVIOUS
<1>6. prep' = [prep EXCEPT ![p] = rec]
  BY <1>1, <1>5 DEF P!CommitPrep, P!PrepBecomes
<1>7. /\ rec.at = "done" /\ rec.answer = 201 /\ rec.landed = h.made /\ rec.errors = h.errors
      /\ rec.all = h.all /\ rec.skipped = h.skipped
      /\ rec.cardsCreated = h.cardsCreated /\ rec.cardsUpdated = h.cardsUpdated
  BY <1>3, <1>5 DEF P!Handler
<1>8. rec \in P!Handler
  <2>1. PICK code \in P!Answers : code = 201
    BY <1>4
  <2>2. PICK half : half = [h EXCEPT !.at = "done", !.answer = code]
    OBVIOUS
  <2>3. half \in P!Handler
    BY <1>3, <2>2 DEF P!Handler
  <2>4. rec = [half EXCEPT !.made = {}, !.landed = h.made]
    BY <1>3, <1>5, <2>1, <2>2 DEF P!Handler
  <2>5. QED
    BY <1>3, <2>3, <2>4 DEF P!Handler
<1>9. Summed(rec)
  BY <1>2, <1>3, <1>7 DEF UnderWay, Summed
<1>10. HandlerOK(rec)
  BY <1>7, <1>9 DEF HandlerOK
<1>11. cards' \in [Bookings -> P!Card]
  <2>1. ASSUME NEW s \in Bookings PROVE P!Upserted(p, s) \in P!Card
    <3>1. cards[s] \in P!Card
      BY DEF PrepInv, P!PrepTypeOK
    <3>2. QED
      BY <3>1 DEF P!Upserted, P!Card
  <2>2. ASSUME NEW s \in Bookings PROVE cards[s] \in P!Card
    BY DEF PrepInv, P!PrepTypeOK
  <2>3. QED
    BY <2>1, <2>2 DEF P!CommitPrep, P!PrepBecomes
<1>12. QED
  BY <1>2, <1>6, <1>8, <1>10, <1>11, HandlerMoves

LEMMA PrepFailsKeeps ==
  ASSUME PrepInv, NEW p \in Preps, NEW code \in {404, 500}, P!PrepFails(p, code)
  PROVE  PrepInv'
<1>1. PICK h \in P!Handler : h = prep[p]
  BY HandlerIs
<1>2. code \in P!Answers /\ code # 201
  BY DEF P!Answers
<1>3. PICK rec : rec = [h EXCEPT !.at = "done", !.answer = code, !.made = {}]
  OBVIOUS
<1>4. prep' = [prep EXCEPT ![p] = rec] /\ UNCHANGED <<cards, completion>>
  BY <1>1, <1>3 DEF P!PrepFails, P!PrepBecomes
<1>5. rec.at = "done" /\ rec.answer = code
  BY <1>1, <1>3 DEF P!Handler
<1>6. rec \in P!Handler
  BY <1>1, <1>2, <1>3 DEF P!Handler
<1>7. HandlerOK(rec)
  BY <1>2, <1>5 DEF HandlerOK
<1>8. QED
  BY <1>4, <1>6, <1>7, HandlerOnly

LEMMA CompleteCardKeeps ==
  ASSUME PrepInv, NEW c \in Completions, NEW s \in Bookings, P!CompleteCard(c, s)
  PROVE  PrepInv'
<1>1. cards \in [Bookings -> P!Card] /\ completion \in [Completions -> {0, 200, 404}]
  BY DEF PrepInv, P!PrepTypeOK
<1>2. prep' = prep
  BY DEF P!CompleteCard
<1>3. completion' \in [Completions -> {0, 200, 404}]
  BY <1>1 DEF P!CompleteCard
<1>4. cards' \in [Bookings -> P!Card]
  <2>1. PICK old \in P!Card : old = cards[s]
    BY <1>1
  <2>2. PICK card : card = [old EXCEPT !.status = "completed", !.signed = TRUE]
    OBVIOUS
  <2>3. card \in P!Card
    BY <2>2 DEF P!Card
  <2>4. cards' = cards \/ cards' = [cards EXCEPT ![s] = card]
    BY <2>1, <2>2 DEF P!CompleteCard
  <2>5. QED
    BY <1>1, <2>3, <2>4
<1>5. QED
  BY <1>2, <1>3, <1>4 DEF PrepInv, P!PrepTypeOK

LEMMA PrepInitInv == P!PrepInit => PrepInv
<1> SUFFICES ASSUME P!PrepInit PROVE PrepInv
  OBVIOUS
<1>1. P!NoCard \in P!Card
  BY DEF P!NoCard, P!Card
<1>2. P!PrepTypeOK
  BY <1>1, NewPrepIs DEF P!PrepInit, P!PrepTypeOK
<1>3. HandlerOK(P!NewHandler)
  BY NewPrepIs DEF HandlerOK
<1>4. QED
  BY <1>2, <1>3 DEF P!PrepInit, PrepInv

\* A step of a generation or of a completion.
LEMMA PrepStepKeeps ==
  ASSUME PrepInv, \/ \E p \in Preps : P!Prepare(p)
                  \/ \E c \in Completions : P!Complete(c)
  PROVE  PrepInv'
<1>1. ASSUME NEW p \in Preps, P!Prepare(p) PROVE PrepInv'
  <2>1. ASSUME NEW force \in BOOLEAN, P!BeginPrep(p, force) PROVE PrepInv'
    BY <2>1, BeginPrepKeeps
  <2>2. ASSUME NEW s \in Bookings, P!LookForCard(p, s) PROVE PrepInv'
    BY <2>2, LookForCardKeeps
  <2>3. ASSUME NEW note \in BOOLEAN, P!UpsertCard(p, note) PROVE PrepInv'
    BY <2>3, UpsertCardKeeps
  <2>4. CASE P!StayFails(p)
    BY <2>4, StayFailsKeeps
  <2>5. CASE P!RestFails(p)
    BY <2>5, RestFailsKeeps
  <2>6. CASE P!CommitPrep(p)
    BY <2>6, CommitPrepKeeps
  <2>7. ASSUME NEW code \in {404, 500}, P!PrepFails(p, code) PROVE PrepInv'
    BY <2>7, PrepFailsKeeps
  <2>8. QED
    BY <1>1, <2>1, <2>2, <2>3, <2>4, <2>5, <2>6, <2>7 DEF P!Prepare
<1>2. ASSUME NEW c \in Completions, P!Complete(c) PROVE PrepInv'
  BY <1>2, CompleteCardKeeps DEF P!Complete
<1>3. QED
  BY <1>1, <1>2

-----------------------------------------------------------------------------
\* The composition.
ArrivalsInv == GuestInv /\ BriefInv /\ PrepInv

GuestsStep(r) ==
  \/ r \in Creates /\ Create(r)
  \/ r \in Patches /\ Patch(r)
  \/ r \in Hooks /\ Hook(r)

\* What another component's step leaves of a component.
LEMMA GuestsUntouched ==
  ASSUME GuestInv, UNCHANGED guestVars
  PROVE  GuestInv'
  BY GuestNextKeeps

LEMMA BriefUntouched ==
  ASSUME BriefInv, UNCHANGED <<brief, held, gen, read>>
  PROVE  BriefInv'
  BY DEF BriefInv, B!BriefTypeOK

LEMMA PrepUntouched ==
  ASSUME PrepInv, UNCHANGED <<cards, prep, completion>>
  PROVE  PrepInv'
  BY DEF PrepInv, P!PrepTypeOK

\* A step is one of a component, and leaves the variables of the others alone.
LEMMA StepIs ==
  ASSUME NEW r, Step(r)
  PROVE  \/ GuestNext /\ UNCHANGED <<brief, held, gen, read, cards, prep, completion>>
         \/ /\ \/ \E g \in Generators : B!Generate(g)
               \/ \E v \in Readers : B!ShowBrief(v)
            /\ UNCHANGED <<guests, stays, request, cards, prep, completion>>
         \/ /\ \/ \E p \in Preps : P!Prepare(p)
               \/ \E c \in Completions : P!Complete(c)
            /\ UNCHANGED <<guests, stays, request, brief, held, gen, read>>
<1>1. CASE GuestsStep(r) /\ UNCHANGED <<brief, held, gen, read, cards, prep, completion>>
  BY <1>1 DEF GuestsStep, GuestNext
<1>2. CASE /\ \/ r \in Generators /\ B!Generate(r)
              \/ r \in Readers /\ B!ShowBrief(r)
           /\ UNCHANGED <<guests, stays, request, cards, prep, completion>>
  BY <1>2
<1>3. CASE /\ \/ r \in Preps /\ P!Prepare(r)
              \/ r \in Completions /\ P!Complete(r)
           /\ UNCHANGED <<guests, stays, request, brief, held, gen, read>>
  BY <1>3
<1>4. QED
  BY <1>1, <1>2, <1>3 DEF Step, GuestsStep

LEMMA ArrivalsNextKeeps == ArrivalsInv /\ [Next]_vars => ArrivalsInv'
<1> SUFFICES ASSUME ArrivalsInv, [Next]_vars PROVE ArrivalsInv'
  OBVIOUS
<1>1. GuestInv /\ BriefInv /\ PrepInv /\ GuestTypeOK
  BY DEF ArrivalsInv, GuestInv
<1>2. CASE GuestNext /\ UNCHANGED <<brief, held, gen, read, cards, prep, completion>>
  BY <1>1, <1>2, GuestNextKeeps, BriefUntouched, PrepUntouched DEF ArrivalsInv
<1>3. CASE /\ \/ \E g \in Generators : B!Generate(g)
              \/ \E v \in Readers : B!ShowBrief(v)
           /\ UNCHANGED <<guests, stays, request, cards, prep, completion>>
  <2>1. UNCHANGED guestVars /\ UNCHANGED <<cards, prep, completion>>
    BY <1>3 DEF guestVars
  <2>2. QED
    BY <1>1, <1>3, <2>1, GuestsUntouched, BriefStepKeeps, PrepUntouched DEF ArrivalsInv
<1>4. CASE /\ \/ \E p \in Preps : P!Prepare(p)
              \/ \E c \in Completions : P!Complete(c)
           /\ UNCHANGED <<guests, stays, request, brief, held, gen, read>>
  <2>1. UNCHANGED guestVars /\ UNCHANGED <<brief, held, gen, read>>
    BY <1>4 DEF guestVars
  <2>2. QED
    BY <1>1, <1>4, <2>1, GuestsUntouched, BriefUntouched, PrepStepKeeps DEF ArrivalsInv
<1>5. CASE UNCHANGED vars
  <2>1. UNCHANGED guestVars /\ UNCHANGED <<brief, held, gen, read>>
        /\ UNCHANGED <<cards, prep, completion>>
    BY <1>5 DEF vars, guestVars
  <2>2. QED
    BY <1>1, <2>1, GuestsUntouched, BriefUntouched, PrepUntouched DEF ArrivalsInv
<1>6. QED
  BY <1>2, <1>3, <1>4, <1>5, StepIs DEF Next

\* In every state of the composition the three inductive invariants hold: what
\* one component reads of the rows of another never breaks its own
\* (services/brief/src/pipeline.ts:79-220, prep-cards.ts:96-180).
THEOREM ArrivalsInvariant == Spec => []ArrivalsInv
<1>1. Init => ArrivalsInv
  BY GuestInitInv, BriefInitInv, PrepInitInv DEF Init, ArrivalsInv
<1>2. ArrivalsInv /\ [Next]_vars => ArrivalsInv'
  BY ArrivalsNextKeeps
<1>3. QED
  BY <1>1, <1>2, PTL DEF Spec

\* Every variable of guests, briefs and prep cards keeps its type: what
\* loadArrivals returns is always a map of stays to guests (pipeline.ts:241-265).
THEOREM ArrivalsTypes == Spec => []ArrivalsTypeOK
<1>1. ArrivalsInv => ArrivalsTypeOK
  BY DEF ArrivalsInv, GuestInv, BriefInv, PrepInv, ArrivalsTypeOK
<1>2. QED
  BY <1>1, ArrivalsInvariant, PTL

\* The items of a brief all come from one generation and its arrivals, the vip
\* ones first, with the counts of its row, and so does what a reader is shown
\* unless a generation committed between its SELECTs (pipeline.ts:150, :204).
THEOREM BriefsOfOneGeneration == Spec => []BriefIsOneGeneration
<1>1. ArrivalsInv => BriefIsOneGeneration
  <2> SUFFICES ASSUME ArrivalsInv PROVE BriefIsOneGeneration
    OBVIOUS
  <2>1. B!BriefTypeOK /\ RowOK(brief) /\ \A g \in Generators : gen[g].answer # "in_progress"
    BY DEF ArrivalsInv, BriefInv
  <2>2. ASSUME NEW v \in Readers
        PROVE  /\ read[v].row.status # "generating"
               /\ read[v].at = "done" /\ ~read[v].between =>
                    B!OneGeneration(read[v].row, read[v].items)
    <3>1. ReaderOK(read[v], brief) /\ read[v].between \in BOOLEAN
      BY <2>1 DEF ArrivalsInv, BriefInv, B!BriefTypeOK, B!Reading
    <3>2. QED
      BY <3>1 DEF ReaderOK
  <2>3. B!OneGeneration(brief, brief.items)
    BY <2>1 DEF RowOK
  <2>4. QED
    BY <2>1, <2>2, <2>3 DEF BriefIsOneGeneration, B!BriefIsOneGeneration
<1>2. QED
  BY <1>1, ArrivalsInvariant, PTL

\* A generation of prep cards answered 201 has given every stay it found a card,
\* or none, and then its summary lists an error (prep-cards.ts:162).
THEOREM PrepLandsAsAWhole == Spec => []PrepAllOrNothing
<1>1. ArrivalsInv => PrepAllOrNothing
  <2> SUFFICES ASSUME ArrivalsInv PROVE PrepAllOrNothing
    OBVIOUS
  <2>1. ASSUME NEW p \in Preps, prep[p].answer = 201 PROVE Summed(prep[p])
    BY <2>1 DEF ArrivalsInv, PrepInv, HandlerOK
  <2>2. QED
    BY <2>1, PrepCardinality DEF Summed, PrepAllOrNothing, P!PrepAllOrNothing
<1>2. QED
  BY <1>1, ArrivalsInvariant, PTL

\* What a step does to the listed cards.
CardStep ==
  \A s \in P!Listed :
    /\ s \in (P!Listed)' /\ (cards[s].signed => cards'[s].signed)
    /\ cards'[s] # cards[s] /\ cards'[s].status = "ready" =>
         \E p \in Preps : /\ prep[p].at # "done" /\ prep'[p].answer = 201
                          /\ prep[p].force \/ s \in prep[p].unseen

LEMMA CardsAlone ==
  ASSUME cards' = cards
  PROVE  CardStep
  BY DEF CardStep, P!Listed, P!Exists

LEMMA CommitOverwrites ==
  ASSUME PrepInv, NEW p \in Preps, P!CommitPrep(p)
  PROVE  CardStep
<1>1. PICK h : h = prep[p]
  OBVIOUS
<1>2. h.at = "loop" /\ cards' = [s \in Bookings |-> IF s \in h.made THEN P!Upserted(p, s) ELSE cards[s]]
  BY <1>1 DEF P!CommitPrep
<1>3. /\ h \in P!Handler /\ \A s \in h.made : h.force \/ s \in h.unseen
  BY <1>1, <1>2, UnderWayIs DEF UnderWay
<1>4. prep'[p].answer = 201
  <2>1. PICK rec : rec = [h EXCEPT !.at = "done", !.answer = 201, !.made = {}, !.landed = h.made]
    OBVIOUS
  <2>2. prep' = [prep EXCEPT ![p] = rec] /\ prep \in [Preps -> P!Handler]
    BY <1>1, <2>1 DEF P!CommitPrep, P!PrepBecomes, PrepInv, P!PrepTypeOK
  <2>3. rec.answer = 201
    BY <1>3, <2>1 DEF P!Handler
  <2>4. QED
    BY <2>2, <2>3
<1>5. ASSUME NEW s \in P!Listed
      PROVE  /\ s \in (P!Listed)' /\ (cards[s].signed => cards'[s].signed)
             /\ cards'[s] # cards[s] => s \in h.made
  <2>1. s \in Bookings /\ cards[s].status # "absent"
    BY DEF P!Listed, P!Exists
  <2>2. CASE s \in h.made
    <3>1. cards'[s] = P!Upserted(p, s)
      BY <1>2, <2>1, <2>2
    <3>2. cards'[s].status = "ready" /\ cards'[s].signed = cards[s].signed
      BY <3>1 DEF P!Upserted
    <3>3. QED
      BY <2>1, <2>2, <3>2 DEF P!Listed, P!Exists
  <2>3. CASE s \notin h.made
    <3>1. cards'[s] = cards[s]
      BY <1>2, <2>1, <2>3
    <3>2. QED
      BY <2>1, <3>1 DEF P!Listed, P!Exists
  <2>4. QED
    BY <2>2, <2>3
<1>6. ASSUME NEW s \in P!Listed, cards'[s] # cards[s]
      PROVE  \E q \in Preps : /\ prep[q].at # "done" /\ prep'[q].answer = 201
                              /\ prep[q].force \/ s \in prep[q].unseen
  BY <1>1, <1>2, <1>3, <1>4, <1>5, <1>6
<1>7. QED
  BY <1>5, <1>6 DEF CardStep

LEMMA CompletionSigns ==
  ASSUME PrepInv, NEW c \in Completions, NEW x \in Bookings, P!CompleteCard(c, x)
  PROVE  CardStep
<1>1. CASE cards[x].status = "ready"
  <2>1. PICK old \in P!Card : old = cards[x]
    BY DEF PrepInv, P!PrepTypeOK
  <2>2. PICK card : card = [old EXCEPT !.status = "completed", !.signed = TRUE]
    OBVIOUS
  <2>3. card.status = "completed" /\ card.signed = TRUE
    BY <2>2 DEF P!Card
  <2>4. cards' = [cards EXCEPT ![x] = card] /\ cards \in [Bookings -> P!Card]
    BY <1>1, <2>1, <2>2 DEF P!CompleteCard, PrepInv, P!PrepTypeOK
  <2>5. cards'[x] = card /\ \A s \in Bookings \ {x} : cards'[s] = cards[s]
    BY <2>4
  <2>6. QED
    BY <2>3, <2>5 DEF CardStep, P!Listed, P!Exists
<1>2. CASE cards[x].status # "ready"
  BY <1>2, CardsAlone DEF P!CompleteCard
<1>3. QED
  BY <1>1, <1>2

LEMMA PrepStepOverwrites ==
  ASSUME PrepInv, \/ \E p \in Preps : P!Prepare(p)
                  \/ \E c \in Completions : P!Complete(c)
  PROVE  CardStep
<1>1. ASSUME NEW p \in Preps, P!Prepare(p), ~ P!CommitPrep(p) PROVE cards' = cards
  BY <1>1 DEF P!Prepare, P!BeginPrep, P!LookForCard, P!UpsertCard, P!StayFails, P!RestFails, P!PrepFails
<1>2. ASSUME NEW c \in Completions, P!Complete(c) PROVE CardStep
  BY <1>2, CompletionSigns DEF P!Complete
<1>3. QED
  BY <1>1, <1>2, CardsAlone, CommitOverwrites

\* A listed card stays listed with its sign-off, and changes under a generation
\* only by force or when the card was not there yet when the generation looked
\* (prep-cards.ts:285).
THEOREM CardsOverwrittenUnseen == Spec => OverwrittenOnlyUnseen
<1>1. ArrivalsInv /\ [Next]_vars => [CardStep]_(P!prepVars)
  <2> SUFFICES ASSUME ArrivalsInv, [Next]_vars PROVE CardStep
    OBVIOUS
  <2>1. PrepInv
    BY DEF ArrivalsInv
  <2>2. CASE Next
    BY <2>1, <2>2, StepIs, CardsAlone, PrepStepOverwrites DEF Next
  <2>3. CASE UNCHANGED vars
    BY <2>3, CardsAlone DEF vars
  <2>4. QED
    BY <2>2, <2>3
<1>2. CardStep =>
        \A s \in P!Listed :
          /\ s \in (P!Listed)' /\ (cards[s].signed => cards'[s].signed)
          /\ cards'[s] # cards[s] /\ cards'[s].status = "ready" =>
               \E p \in Preps : /\ prep[p].at # "done" /\ prep'[p].answer = 201
                                /\ prep[p].force \/ s \in prep[p].unseen
  BY DEF CardStep
<1>3. QED
  BY <1>1, <1>2, ArrivalsInvariant, PTL DEF Spec, OverwrittenOnlyUnseen, P!OverwrittenOnlyUnseen

\* Seen from the rows of guests and stays the composition is what Guests
\* describes: briefs and prep cards only read them.
THEOREM ArrivalsIsGuests == Spec => GuestSpec
<1>1. Init => GuestInit
  BY DEF Init
<1>2. [Next]_vars => [GuestNext]_guestVars
  <2> SUFFICES ASSUME [Next]_vars PROVE [GuestNext]_guestVars
    OBVIOUS
  <2>1. CASE UNCHANGED vars
    BY <2>1 DEF vars, guestVars
  <2>2. ASSUME NEW r, Step(r) PROVE GuestNext \/ UNCHANGED guestVars
    BY <2>2, StepIs DEF guestVars
  <2>3. QED
    BY <2>1, <2>2 DEF Next
<1>3. QED
  BY <1>1, <1>2, PTL DEF Spec, GuestSpec

\* What loadArrivals returns.
ArrivingTyped == ArrivingOn(BriefDay) \in B!ArrivalSets

\* Seen from the brief of a day the composition is what Briefs describes, a
\* component whose arrivals change at any time (pipeline.ts:116).
THEOREM ArrivalsIsBriefs == Spec => B!Spec
<1>1. Init => B!Init
  <2> SUFFICES ASSUME Init PROVE B!Init
    OBVIOUS
  <2>1. GuestTypeOK
    BY GuestInitInv DEF Init, GuestInv
  <2>2. QED
    BY <2>1, ArrivingIs DEF Init, B!Init
<1>2. ArrivalsInv => ArrivingTyped
  BY ArrivingIs DEF ArrivalsInv, GuestInv, ArrivingTyped
<1>3. ArrivingTyped' /\ [Next]_vars => [B!Next]_<<B!briefVars, ArrivingOn(BriefDay)>>
  <2> SUFFICES ASSUME ArrivingTyped', [Next]_vars
               PROVE  [B!Next]_<<B!briefVars, ArrivingOn(BriefDay)>>
    OBVIOUS
  <2>1. (ArrivingOn(BriefDay))' \in B!ArrivalSets
    BY DEF ArrivingTyped
  <2>2. CASE UNCHANGED <<brief, held, gen, read>>
    BY <2>1, <2>2 DEF B!Next, B!briefVars
  <2>3. CASE /\ \/ \E g \in Generators : B!Generate(g)
                \/ \E v \in Readers : B!ShowBrief(v)
             /\ UNCHANGED <<guests, stays, request, cards, prep, completion>>
    <3>1. UNCHANGED ArrivingOn(BriefDay)
      BY <2>3 DEF ArrivingOn, Expected
    <3>2. QED
      BY <2>3, <3>1 DEF B!Next
  <2>4. QED
    BY <2>2, <2>3, StepIs DEF Next, vars
<1>4. QED
  BY <1>1, <1>2, <1>3, ArrivalsInvariant, PTL DEF Spec, B!Spec

\* Seen from the prep cards of a day the composition is what PrepCards describes,
\* a component whose stays change at any time (prep-cards.ts:105).
THEOREM ArrivalsIsPrepCards == Spec => P!Spec
<1>1. Init => P!Init
  BY DEF Init, P!Init, ArrivingOn
<1>2. [Next]_vars => [P!Next]_<<P!prepVars, DOMAIN ArrivingOn(PrepDay)>>
  <2> SUFFICES ASSUME [Next]_vars PROVE [P!Next]_<<P!prepVars, DOMAIN ArrivingOn(PrepDay)>>
    OBVIOUS
  <2>1. (DOMAIN ArrivingOn(PrepDay))' \in SUBSET Bookings
    BY DEF ArrivingOn
  <2>2. CASE UNCHANGED <<cards, prep, completion>>
    BY <2>1, <2>2 DEF P!Next, P!prepVars
  <2>3. CASE /\ \/ \E p \in Preps : P!Prepare(p)
                \/ \E c \in Completions : P!Complete(c)
             /\ UNCHANGED <<guests, stays, request, brief, held, gen, read>>
    <3>1. UNCHANGED DOMAIN ArrivingOn(PrepDay)
      BY <2>3 DEF ArrivingOn, Expected
    <3>2. QED
      BY <2>3, <3>1 DEF P!Next
  <2>4. QED
    BY <2>2, <2>3, StepIs DEF Next, vars
<1>3. QED
  BY <1>1, <1>2, PTL DEF Spec, P!Spec

\* Whatever briefs and prep cards do meanwhile, no POST adds a second guest to an
\* e-mail it could see (services/guest/src/service.ts:58).
THEOREM ComposedNoDuplicates == Spec => []NoSerialDuplicate
<1>1. QED
  BY ArrivalsIsGuests, DuplicatesNeedARace, PTL
=============================================================================
