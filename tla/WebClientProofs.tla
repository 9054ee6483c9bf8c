---------------------------- MODULE WebClientProofs ----------------------------
(* A page sends a refresh token once, and a capture it has promised to upload  *)
(* is queued or uploaded, for any number of replays and of captures.           *)
EXTENDS WebClient, TLAPS

\* A token this page has sent is one whose answer it awaits: the answer replaces or
\* forgets it, and a new page does not know what the old one sent.
SessionInv ==
  /\ session \in Session
  /\ session.refresh = "sent" => flight
  /\ ~resent

\* What is about to leave the queue is stored.
ActorsInv ==
  /\ actor \in [Actors -> Actor]
  /\ \A a \in Actors : actor[a].at = "remove" => actor[a].items \subseteq stored

\* The rows, and that no promised capture is lost.
RowsInv ==
  /\ queue \in [Captures -> Nat \cup {NoRow}]
  /\ promised \subseteq Captures
  /\ QueuedKept

-----------------------------------------------------------------------------
LEMMA SessionInit == ClientInit => SessionInv
  BY DEF ClientInit, SessionInv, Session, LoggedIn

\* What an answer to a call does to the session.
LEMMA ReplyKeepsSession ==
  ASSUME SessionInv, NEW a \in Actors, Reply(a) PROVE SessionInv'
<1>1. ASSUME NEW arrives \in BOOLEAN, Answered2xx(a, arrives) PROVE SessionInv'
  BY <1>1 DEF Answered2xx, SessionInv
<1>2. ASSUME NEW status \in {0, 400, 500}, AnsweredError(a, status) PROVE SessionInv'
  BY <1>2 DEF AnsweredError, SessionInv
<1>3. ASSUME Answered401(a) PROVE SessionInv'
  <2>1. CASE IsFlying
    <3>1. UNCHANGED <<session, flight, resent>>
      BY <1>3, <2>1 DEF Answered401
    <3>2. QED
      BY <3>1 DEF SessionInv
  <2>2. CASE ~IsFlying /\ session.refresh = "none"
    <3>1. session' = LoggedOut /\ flight' = flight /\ resent' = resent
      BY <1>3, <2>2 DEF Answered401
    <3>2. QED
      BY <3>1 DEF SessionInv, Session, LoggedOut
  <2>3. CASE ~IsFlying /\ session.refresh # "none"
    <3>1. session.refresh = "kept"
      BY <2>3 DEF SessionInv, Session, IsFlying
    <3>2. flight' = TRUE /\ resent' = (resent \/ session.refresh = "sent")
      BY <1>3, <2>3 DEF Answered401
    <3>3. session' = [session EXCEPT !.refresh = "sent"]
      BY <1>3, <2>3 DEF Answered401
    <3>4. session' \in Session
      BY <3>3 DEF SessionInv, Session
    <3>5. QED
      BY <3>1, <3>2, <3>4 DEF SessionInv
  <2>4. QED
    BY <2>1, <2>2, <2>3
<1>4. QED
  BY <1>1, <1>2, <1>3 DEF Reply

LEMMA SessionStep == SessionInv /\ [ClientNext]_clientVars => SessionInv'
<1> SUFFICES ASSUME SessionInv, [ClientNext]_clientVars PROVE SessionInv'
  OBVIOUS
<1>1. CASE UNCHANGED clientVars
  BY <1>1 DEF clientVars, SessionInv
<1>2. ASSUME NEW c \in Captures, Submit(c) PROVE SessionInv'
  BY <1>2 DEF Submit, SessionInv
<1>3. CASE Query
  BY <1>3 DEF Query, SessionInv
<1>4. CASE RefreshAnswered
  BY <1>4 DEF RefreshAnswered, SessionInv, Session, LoggedIn
<1>5. CASE RefreshFails
  BY <1>5 DEF RefreshFails, SessionInv, Session, LoggedOut
<1>6. CASE Enqueue
  BY <1>6 DEF Enqueue, SessionInv
<1>7. ASSUME NEW l \in Loops, Replay(l) PROVE SessionInv'
  <2>1. session' = session /\ flight' = flight /\ resent' = resent
    <3>1. CASE ListQueued(l)
      BY <3>1 DEF ListQueued
    <3>2. CASE ReplayNext(l)
      BY <3>2 DEF ReplayNext
    <3>3. CASE RemoveCapture(l)
      BY <3>3 DEF RemoveCapture
    <3>4. CASE GetRow(l)
      BY <3>4 DEF GetRow
    <3>5. CASE PutRow(l)
      BY <3>5 DEF PutRow
    <3>6. QED
      BY <1>7, <3>1, <3>2, <3>3, <3>4, <3>5 DEF Replay
  <2>2. QED
    BY <2>1 DEF SessionInv
<1>8. CASE GoOffline
  BY <1>8 DEF GoOffline, SessionInv
<1>9. CASE ComeOnline
  BY <1>9 DEF ComeOnline, SessionInv
<1>10. CASE Logout
  BY <1>10 DEF Logout, SessionInv, Session, LoggedOut
<1>11. CASE Login
  BY <1>11 DEF Login, SessionInv, Session, LoggedIn
<1>12. CASE Reload
  <2>1. CASE session.refresh = "sent"
    <3>1. session' = [session EXCEPT !.refresh = "kept"] /\ resent' = resent
      BY <1>12, <2>1 DEF Reload
    <3>2. QED
      BY <3>1 DEF SessionInv, Session
  <2>2. CASE session.refresh # "sent"
    <3>1. session' = session /\ resent' = resent
      BY <1>12, <2>2 DEF Reload
    <3>2. QED
      BY <2>2, <3>1 DEF SessionInv
  <2>3. QED
    BY <2>1, <2>2
<1>13. QED
  BY <1>1, <1>2, <1>3, <1>4, <1>5, <1>6, <1>7, <1>8, <1>9, <1>10, <1>11, <1>12,
     ReplyKeepsSession DEF ClientNext

\* Single flight is enough: whatever calls fail at once, and whoever signs out and in
\* while a refresh is under way, one page never sends a refresh token twice
\* (refreshAccessToken and inFlightRefresh of api.ts).
THEOREM RefreshSentOnce == ClientSpec => []TokenSentOnce
<1>1. SessionInv => TokenSentOnce
  BY DEF SessionInv, TokenSentOnce
<1>2. QED
  BY <1>1, SessionInit, SessionStep, PTL DEF ClientSpec

-----------------------------------------------------------------------------
LEMMA Idles == IdleActor \in Actor /\ IdleActor.at = "idle" /\ IdleActor.items = {}
  BY DEF IdleActor, Actor

\* One actor moves.
LEMMA ActorMoves ==
  ASSUME ActorsInv, NEW a \in Actors, NEW rec \in Actor,
         actor' = [actor EXCEPT ![a] = rec],
         rec.at = "remove" => rec.items \subseteq stored', stored \subseteq stored'
  PROVE  ActorsInv'
<1>1. actor' \in [Actors -> Actor]
  BY DEF ActorsInv
<1>2. actor'[a] = rec /\ \A b \in Actors \ {a} : actor'[b] = actor[b]
  BY DEF ActorsInv
<1>3. QED
  BY <1>1, <1>2 DEF ActorsInv

\* An error takes nobody to the removal of a row.
LEMMA FailedIs ==
  ASSUME ActorsInv, NEW a \in Actors, NEW status
  PROVE  Failed(a, status) \in Actor /\ Failed(a, status).at # "remove"
<1>1. actor[a] \in Actor
  BY DEF ActorsInv
<1>2. \A at \in {"get", "enqueue"} : /\ [actor[a] EXCEPT !.at = at] \in Actor
                                     /\ [actor[a] EXCEPT !.at = at].at = at
  BY <1>1 DEF Actor
<1>3. CASE Failed(a, status) = IdleActor
  BY <1>3, Idles
<1>4. CASE Failed(a, status) = [actor[a] EXCEPT !.at = "get"]
  BY <1>4, <1>2
<1>5. CASE Failed(a, status) = [actor[a] EXCEPT !.at = "enqueue"]
  BY <1>5, <1>2
<1>6. QED
  BY <1>3, <1>4, <1>5 DEF Failed

LEMMA FailedMoves ==
  ASSUME ActorsInv, NEW a \in Actors, NEW status,
         actor' = [actor EXCEPT ![a] = Failed(a, status)], stored' = stored
  PROVE  ActorsInv'
<1>1. PICK rec \in Actor : rec = Failed(a, status) /\ rec.at # "remove"
  BY FailedIs
<1>2. actor' = [actor EXCEPT ![a] = rec]
  BY <1>1
<1>3. QED
  BY <1>1, <1>2, ActorMoves

LEMMA DoneIs ==
  ASSUME ActorsInv, NEW l \in Loops, actor' = Done(l), stored' = stored PROVE ActorsInv'
<1>1. PICK rec : rec = [IdleActor EXCEPT !.at = "next", !.todo = actor[l].todo]
  OBVIOUS
<1>2. l \in Actors /\ actor[l] \in Actor
  BY DEF Actors, ActorsInv
<1>3. rec \in Actor /\ rec.at = "next"
  BY <1>1, <1>2 DEF Actor, IdleActor
<1>4. actor' = [actor EXCEPT ![l] = rec]
  BY <1>1 DEF Done
<1>5. QED
  BY <1>2, <1>3, <1>4, ActorMoves

LEMMA FetchingIs ==
  ASSUME SessionInv, NEW rec \in Actor
  PROVE  /\ Fetching(rec) \in Actor /\ Fetching(rec).at = "fetch"
  BY DEF Fetching, Actor, SessionInv, Session

LEMMA GoesIs ==
  ASSUME ActorsInv, NEW a \in Actors, NEW at \in {"wait", "list"}, stored' = stored,
         actor' = Goes(a, at)
  PROVE  ActorsInv'
<1>1. PICK rec : rec = [actor[a] EXCEPT !.at = at]
  OBVIOUS
<1>2. rec \in Actor /\ rec.at = at
  BY <1>1 DEF Actor, ActorsInv
<1>3. actor' = [actor EXCEPT ![a] = rec]
  BY <1>1 DEF Goes
<1>4. QED
  BY <1>2, <1>3, ActorMoves

\* The conjuncts of ActorsInv are about actors and stored only.
LEMMA ActorsRest ==
  ASSUME ActorsInv, actor' = actor, stored' = stored PROVE ActorsInv'
  BY DEF ActorsInv

LEMMA RowsRest ==
  ASSUME RowsInv, queue' = queue, promised' = promised, stored \subseteq stored' PROVE RowsInv'
  BY DEF RowsInv, QueuedKept

LEMMA ReplyKeepsRows ==
  ASSUME SessionInv, ActorsInv, RowsInv, NEW a \in Actors, Reply(a)
  PROVE  ActorsInv' /\ RowsInv'
<1>1. ASSUME NEW arrives \in BOOLEAN, Answered2xx(a, arrives) PROVE ActorsInv' /\ RowsInv'
  <2>1. /\ stored' = stored \cup actor[a].items /\ queue' = queue /\ promised' = promised
        /\ actor' = [actor EXCEPT ![a] = IF arrives THEN Succeeded(a) ELSE Failed(a, 0)]
    BY <1>1 DEF Answered2xx
  <2>2. PICK rec : rec = IF arrives THEN Succeeded(a) ELSE Failed(a, 0)
    OBVIOUS
  <2>3. Succeeded(a) \in Actor /\ Succeeded(a).items \subseteq actor[a].items
    BY Idles DEF Succeeded, ActorsInv, Actor
  <2>4. rec \in Actor /\ (rec.at = "remove" => rec.items \subseteq stored')
    BY <2>1, <2>2, <2>3, FailedIs
  <2>5. ActorsInv'
    BY <2>1, <2>2, <2>4, ActorMoves
  <2>6. QED
    BY <2>1, <2>5, RowsRest
<1>2. ASSUME NEW status \in {0, 400, 500}, AnsweredError(a, status)
      PROVE  ActorsInv' /\ RowsInv'
  <2>1. /\ stored' = stored /\ queue' = queue /\ promised' = promised
        /\ actor' = [actor EXCEPT ![a] = Failed(a, status)]
    BY <1>2 DEF AnsweredError
  <2>2. QED
    BY <2>1, FailedMoves, RowsRest
<1>3. ASSUME Answered401(a) PROVE ActorsInv' /\ RowsInv'
  <2>1. stored' = stored /\ queue' = queue /\ promised' = promised
    BY <1>3 DEF Answered401
  <2>2. actor' = Goes(a, "wait") \/ actor' = [actor EXCEPT ![a] = Failed(a, 401)]
    BY <1>3 DEF Answered401
  <2>3. CASE actor' = Goes(a, "wait")
    BY <2>1, <2>3, GoesIs, RowsRest
  <2>4. CASE actor' = [actor EXCEPT ![a] = Failed(a, 401)]
    BY <2>1, <2>4, FailedMoves, RowsRest
  <2>5. QED
    BY <2>2, <2>3, <2>4
<1>4. QED
  BY <1>1, <1>2, <1>3 DEF Reply

LEMMA ReplayKeepsRows ==
  ASSUME SessionInv, ActorsInv, RowsInv, NEW l \in Loops, Replay(l)
  PROVE  ActorsInv' /\ RowsInv'
<1>0. l \in Actors /\ actor[l] \in Actor
  BY DEF Actors, ActorsInv
<1>1. CASE ListQueued(l)
  <2>1. PICK todo \in SUBSET Captures : todo = {c \in Captures : queue[c] \in 0 .. (MaxAttempts - 1)}
    OBVIOUS
  <2>2. PICK rec : rec = [IdleActor EXCEPT !.at = "next", !.todo = todo]
    OBVIOUS
  <2>3. rec \in Actor /\ rec.at = "next"
    BY <2>2 DEF Actor, IdleActor
  <2>4. /\ actor' = [actor EXCEPT ![l] = rec]
        /\ stored' = stored /\ queue' = queue /\ promised' = promised
    BY <1>1, <2>1, <2>2 DEF ListQueued
  <2>5. QED
    BY <1>0, <2>3, <2>4, ActorMoves, RowsRest
<1>2. CASE ReplayNext(l)
  <2>1. stored' = stored /\ queue' = queue /\ promised' = promised
    BY <1>2 DEF ReplayNext
  <2>2. CASE actor[l].todo = {}
    <3>1. actor' = [actor EXCEPT ![l] = IdleActor]
      BY <1>2, <2>2 DEF ReplayNext
    <3>2. QED
      BY <1>0, <2>1, <3>1, Idles, ActorMoves, RowsRest
  <2>3. CASE actor[l].todo # {}
    <3>1. PICK c \in actor[l].todo :
            actor' = [actor EXCEPT ![l] = [Fetching(actor[l]) EXCEPT !.items = {c}, !.todo = @ \ {c}]]
      BY <1>2, <2>3 DEF ReplayNext
    <3>2. PICK rec : rec = [Fetching(actor[l]) EXCEPT !.items = {c}, !.todo = @ \ {c}]
      OBVIOUS
    <3>3. c \in Captures /\ Fetching(actor[l]) \in Actor /\ Fetching(actor[l]).at = "fetch"
      BY <1>0, <3>1, FetchingIs DEF Actor
    <3>4. rec \in Actor /\ rec.at = "fetch"
      BY <3>2, <3>3 DEF Actor
    <3>5. actor' = [actor EXCEPT ![l] = rec]
      BY <3>1, <3>2
    <3>6. QED
      BY <1>0, <2>1, <3>4, <3>5, ActorMoves, RowsRest
  <2>4. QED
    BY <2>2, <2>3
<1>3. CASE RemoveCapture(l)
  <2>1. /\ queue' = [c \in Captures |-> IF c \in actor[l].items THEN NoRow ELSE queue[c]]
        /\ actor' = Done(l) /\ stored' = stored /\ promised' = promised
        /\ actor[l].items \subseteq stored
    BY <1>0, <1>3 DEF RemoveCapture, ActorsInv
  <2>2. RowsInv'
    BY <2>1 DEF RowsInv, QueuedKept
  <2>3. QED
    BY <2>1, <2>2, DoneIs
<1>4. CASE GetRow(l)
  <2>1. /\ stored' = stored /\ queue' = queue /\ promised' = promised
        /\ \E c \in actor[l].items :
             actor' = IF queue[c] = NoRow THEN Done(l)
                      ELSE [actor EXCEPT ![l].at = "put", ![l].attempts = queue[c]]
    BY <1>4 DEF GetRow
  <2>2. PICK c \in actor[l].items :
             actor' = IF queue[c] = NoRow THEN Done(l)
                      ELSE [actor EXCEPT ![l].at = "put", ![l].attempts = queue[c]]
    BY <2>1
  <2>3. CASE queue[c] = NoRow
    BY <2>1, <2>2, <2>3, DoneIs, RowsRest
  <2>4. CASE queue[c] # NoRow
    <3>1. PICK n \in Nat : n = queue[c]
      BY <1>0, <2>4 DEF RowsInv, Actor
    <3>2. PICK rec : rec = [actor[l] EXCEPT !.at = "put", !.attempts = n]
      OBVIOUS
    <3>3. rec \in Actor /\ rec.at = "put"
      BY <1>0, <3>2 DEF Actor
    <3>4. actor' = [actor EXCEPT ![l] = rec]
      BY <1>0, <2>2, <2>4, <3>1, <3>2 DEF ActorsInv
    <3>5. QED
      BY <1>0, <2>1, <3>3, <3>4, ActorMoves, RowsRest
  <2>5. QED
    BY <2>3, <2>4
<1>5. CASE PutRow(l)
  <2>1. PICK n \in Nat : n = actor[l].attempts
    BY <1>0 DEF Actor
  <2>2. /\ queue' = [c \in Captures |-> IF c \in actor[l].items THEN n + 1 ELSE queue[c]]
        /\ actor' = Done(l) /\ stored' = stored /\ promised' = promised
    BY <1>5, <2>1 DEF PutRow
  <2>3. n + 1 \in Nat /\ n + 1 # NoRow
    BY DEF NoRow
  <2>4. RowsInv'
    BY <2>2, <2>3 DEF RowsInv, QueuedKept
  <2>5. QED
    BY <2>2, <2>4, DoneIs
<1>6. QED
  BY <1>1, <1>2, <1>3, <1>4, <1>5 DEF Replay

LEMMA EnqueueKeepsRows ==
  ASSUME ActorsInv, RowsInv, Enqueue PROVE ActorsInv' /\ RowsInv'
<1>1. Form \in Actors /\ actor[Form] \in Actor /\ actor[Form].items \subseteq Captures
  BY DEF Actors, ActorsInv, Actor
<1>2. /\ queue' = [c \in Captures |-> IF c \in actor[Form].items THEN 0 ELSE queue[c]]
      /\ promised' = promised \cup actor[Form].items /\ stored' = stored
      /\ actor' = [actor EXCEPT ![Form] = IdleActor]
  BY DEF Enqueue
<1>3. 0 \in Nat /\ 0 # NoRow
  BY DEF NoRow
<1>4. RowsInv'
  BY <1>1, <1>2, <1>3 DEF RowsInv, QueuedKept
<1>5. QED
  BY <1>1, <1>2, <1>4, Idles, ActorMoves

\* A page that begins or ends its refresh, or starts a replay.
LEMMA StartKeepsActors ==
  ASSUME ActorsInv, NEW acting \in [Actors -> Actor], NEW isOnline,
         \A a \in Actors : acting[a].at = "remove" => acting[a].items \subseteq stored,
         StartsReplay(acting, isOnline), stored' = stored
  PROVE  ActorsInv'
<1>1. CASE actor' = acting
  BY <1>1 DEF ActorsInv
<1>2. ASSUME NEW l \in Loops, actor' = [acting EXCEPT ![l].at = "list"] PROVE ActorsInv'
  <2>1. PICK rec : rec = [acting[l] EXCEPT !.at = "list"]
    OBVIOUS
  <2>2. l \in Actors /\ acting[l] \in Actor
    BY DEF Actors
  <2>3. rec \in Actor /\ rec.at = "list"
    BY <2>1, <2>2 DEF Actor
  <2>4. actor' = [acting EXCEPT ![l] = rec]
    BY <1>2, <2>1
  <2>5. QED
    BY <2>2, <2>3, <2>4 DEF ActorsInv
<1>3. QED
  BY <1>1, <1>2 DEF StartsReplay

LEMMA RefreshKeepsRows ==
  ASSUME ActorsInv, RowsInv, RefreshAnswered \/ RefreshFails PROVE ActorsInv' /\ RowsInv'
<1>1. stored' = stored /\ queue' = queue /\ promised' = promised
  BY DEF RefreshAnswered, RefreshFails
<1>2. ASSUME RefreshAnswered, NEW a \in Actors
      PROVE  actor'[a] \in Actor /\ (actor'[a].at = "remove" => actor'[a] = actor[a])
  <2>1. actor'[a] = IF actor[a].at = "wait"
                    THEN [actor[a] EXCEPT !.at = "again", !.bearer = TRUE] ELSE actor[a]
    BY <1>2 DEF RefreshAnswered
  <2>2. actor[a] \in Actor
    BY DEF ActorsInv
  <2>3. QED
    BY <2>1, <2>2 DEF Actor
<1>3. ASSUME RefreshFails, NEW a \in Actors
      PROVE  actor'[a] \in Actor /\ (actor'[a].at = "remove" => actor'[a] = actor[a])
  <2>1. actor'[a] = IF actor[a].at = "wait" THEN Failed(a, 401) ELSE actor[a]
    BY <1>3 DEF RefreshFails
  <2>2. QED
    BY <2>1, FailedIs DEF ActorsInv
<1>4. actor' = [a \in Actors |-> actor'[a]]
  BY DEF RefreshAnswered, RefreshFails
<1>5. \A a \in Actors : actor'[a] \in Actor /\ (actor'[a].at = "remove" => actor'[a] = actor[a])
  BY <1>2, <1>3
<1>6. actor' \in [Actors -> Actor]
  BY <1>4, <1>5
<1>7. ActorsInv'
  BY <1>1, <1>5, <1>6 DEF ActorsInv
<1>8. QED
  BY <1>1, <1>7, RowsRest

LEMMA ClientInitRows == ClientInit => ActorsInv /\ RowsInv
<1> SUFFICES ASSUME ClientInit PROVE ActorsInv /\ RowsInv
  OBVIOUS
<1>1. PICK at \in {"idle", "absent"} :
        actor = [a \in Actors |-> IF a \in Loops THEN [IdleActor EXCEPT !.at = at] ELSE IdleActor]
  BY DEF ClientInit
<1>2. PICK rec : rec = [IdleActor EXCEPT !.at = at]
  OBVIOUS
<1>3. rec \in Actor /\ rec.at # "remove"
  BY <1>2 DEF Actor, IdleActor
<1>4. actor \in [Actors -> Actor] /\ \A a \in Actors : actor[a] \in {rec, IdleActor}
  BY <1>1, <1>2, <1>3, Idles
<1>5. ActorsInv
  BY <1>3, <1>4, Idles DEF ActorsInv
<1>6. queue = [c \in Captures |-> NoRow] /\ promised = {}
  BY DEF ClientInit
<1>7. QED
  BY <1>5, <1>6 DEF RowsInv, QueuedKept

LEMMA RowsStep ==
  SessionInv /\ ActorsInv /\ RowsInv /\ [ClientNext]_clientVars => ActorsInv' /\ RowsInv'
<1> SUFFICES ASSUME SessionInv, ActorsInv, RowsInv, [ClientNext]_clientVars
             PROVE  ActorsInv' /\ RowsInv'
  OBVIOUS
<1>1. CASE actor' = actor /\ stored' = stored /\ queue' = queue /\ promised' = promised
  BY <1>1, ActorsRest, RowsRest
<1>2. Form \in Actors
  BY DEF Actors
<1>3. ASSUME NEW c \in Captures, Submit(c) PROVE ActorsInv' /\ RowsInv'
  <2>1. PICK rec : rec = [Fetching(IdleActor) EXCEPT !.items = {c}]
    OBVIOUS
  <2>2. rec \in Actor /\ rec.at = "fetch"
    BY <2>1, Idles, FetchingIs DEF Actor
  <2>3. /\ actor' = [actor EXCEPT ![Form] = rec]
        /\ stored' = stored /\ queue' = queue /\ promised' = promised
    BY <1>3, <2>1 DEF Submit
  <2>4. QED
    BY <1>2, <2>2, <2>3, ActorMoves, RowsRest
<1>4. CASE Query
  <2>1. PICK rec : rec = Fetching(IdleActor)
    OBVIOUS
  <2>2. rec \in Actor /\ rec.at = "fetch"
    BY <2>1, Idles, FetchingIs
  <2>3. /\ actor' = [actor EXCEPT ![Form] = rec]
        /\ stored' = stored /\ queue' = queue /\ promised' = promised
    BY <1>4, <2>1 DEF Query
  <2>4. QED
    BY <1>2, <2>2, <2>3, ActorMoves, RowsRest
<1>5. CASE ComeOnline
  <2>1. /\ StartsReplay(actor, TRUE) /\ stored' = stored /\ queue' = queue
        /\ promised' = promised
    BY <1>5 DEF ComeOnline
  <2>2. QED
    BY <2>1, StartKeepsActors, RowsRest DEF ActorsInv
<1>6. CASE Reload
  <2>1. PICK acting : acting = [a \in Actors |-> IF actor[a].at = "absent" THEN actor[a] ELSE IdleActor]
    OBVIOUS
  <2>2. acting \in [Actors -> Actor] /\ \A a \in Actors : acting[a].at # "remove"
    BY <2>1, Idles DEF ActorsInv
  <2>3. StartsReplay(acting, online) /\ stored' = stored /\ queue' = queue
          /\ promised' = promised
    BY <1>6, <2>1 DEF Reload
  <2>4. QED
    BY <2>2, <2>3, StartKeepsActors, RowsRest
<1>7. CASE UNCHANGED clientVars
  BY <1>1, <1>7 DEF clientVars
<1>8. CASE GoOffline
  BY <1>1, <1>8 DEF GoOffline
<1>9. CASE Logout
  BY <1>1, <1>9 DEF Logout
<1>10. CASE Login
  BY <1>1, <1>10 DEF Login
<1>11. ASSUME NEW a \in Actors, Reply(a) PROVE ActorsInv' /\ RowsInv'
  BY <1>11, ReplyKeepsRows
<1>12. ASSUME NEW l \in Loops, Replay(l) PROVE ActorsInv' /\ RowsInv'
  BY <1>12, ReplayKeepsRows
<1>13. QED
  BY <1>3, <1>4, <1>5, <1>6, <1>7, <1>8, <1>9, <1>10, <1>11, <1>12, EnqueueKeepsRows,
     RefreshKeepsRows DEF ClientNext

\* A row leaves the queue only for a capture the service has stored, however many
\* replays overlap, fail, or are cut off by a reload: what the agent was told is saved
\* is never lost (enqueueCapture, removeCapture and markCaptureFailure of
\* offline-queue.ts, replayQueued of useOfflineReplay.ts).
THEOREM PromisedCapturesKept == ClientSpec => []QueuedKept
<1>1. SessionInv /\ [ClientNext]_clientVars => SessionInv'
  BY SessionStep
<1>2. RowsInv => QueuedKept
  BY DEF RowsInv
<1>3. QED
  BY <1>1, <1>2, SessionInit, ClientInitRows, RowsStep, PTL DEF ClientSpec

-----------------------------------------------------------------------------
\* The rest of the state of a page.
PageInv ==
  /\ {online, flight, resent} \subseteq BOOLEAN
  /\ stored \subseteq Captures /\ reloads \in 0 .. MaxReloads

LEMMA PageInit == ClientInit => PageInv
<1>1. 0 \in 0 .. MaxReloads
  BY LimitsAssumption
<1>2. QED
  BY <1>1, Zenon DEF ClientInit, PageInv

LEMMA ReplyKeepsPage ==
  ASSUME PageInv, SessionInv, ActorsInv, NEW a \in Actors, Reply(a) PROVE PageInv'
<1>1. online' = online /\ reloads' = reloads
  BY DEF Reply, Answered2xx, AnsweredError, Answered401
<1>2. actor[a].items \subseteq Captures
  BY DEF ActorsInv, Actor
<1>3. stored' \subseteq Captures
  BY <1>2 DEF PageInv, Reply, Answered2xx, AnsweredError, Answered401
<1>4. flight' \in BOOLEAN /\ resent' \in BOOLEAN
  <2>1. flight \in BOOLEAN /\ resent \in BOOLEAN
    BY DEF PageInv
  <2>2. ASSUME NEW arrives \in BOOLEAN, Answered2xx(a, arrives)
        PROVE  flight' \in BOOLEAN /\ resent' \in BOOLEAN
    BY <2>1, <2>2 DEF Answered2xx
  <2>3. ASSUME NEW status \in {0, 400, 500}, AnsweredError(a, status)
        PROVE  flight' \in BOOLEAN /\ resent' \in BOOLEAN
    BY <2>1, <2>3 DEF AnsweredError
  <2>4. ASSUME Answered401(a) PROVE flight' \in BOOLEAN /\ resent' \in BOOLEAN
    BY <2>1, <2>4, Zenon DEF Answered401
  <2>5. QED
    BY <2>2, <2>3, <2>4 DEF Reply
<1>5. QED
  BY <1>1, <1>3, <1>4 DEF PageInv

LEMMA PageStep ==
  PageInv /\ SessionInv /\ ActorsInv /\ [ClientNext]_clientVars => PageInv'
<1> SUFFICES ASSUME PageInv, SessionInv, ActorsInv, [ClientNext]_clientVars PROVE PageInv'
  OBVIOUS
<1>1. ASSUME online' \in BOOLEAN, flight' \in BOOLEAN, resent' = resent, stored' = stored,
             reloads' \in 0 .. MaxReloads
      PROVE  PageInv'
  BY <1>1 DEF PageInv
<1>2. /\ online \in BOOLEAN /\ flight \in BOOLEAN /\ reloads \in 0 .. MaxReloads
      /\ FALSE \in BOOLEAN /\ TRUE \in BOOLEAN
  BY DEF PageInv
<1>3. ASSUME NEW c \in Captures, Submit(c) PROVE PageInv'
  BY <1>1, <1>2, <1>3 DEF Submit
<1>4. CASE Query
  BY <1>1, <1>2, <1>4 DEF Query
<1>5. CASE RefreshAnswered \/ RefreshFails
  BY <1>1, <1>2, <1>5 DEF RefreshAnswered, RefreshFails
<1>6. CASE Enqueue
  BY <1>1, <1>2, <1>6 DEF Enqueue
<1>7. ASSUME NEW l \in Loops, Replay(l) PROVE PageInv'
  BY <1>1, <1>2, <1>7 DEF Replay, ListQueued, ReplayNext, RemoveCapture, GetRow, PutRow
<1>8. CASE GoOffline \/ ComeOnline
  BY <1>1, <1>2, <1>8 DEF GoOffline, ComeOnline
<1>9. CASE Logout \/ Login
  BY <1>1, <1>2, <1>9 DEF Logout, Login
<1>10. CASE Reload
  <2>1. reloads + 1 \in 0 .. MaxReloads
    BY <1>2, <1>10, LimitsAssumption DEF Reload
  <2>2. QED
    BY <1>1, <1>2, <1>10, <2>1 DEF Reload
<1>11. CASE UNCHANGED clientVars
  BY <1>1, <1>2, <1>11 DEF clientVars
<1>12. QED
  BY <1>3, <1>4, <1>5, <1>6, <1>7, <1>8, <1>9, <1>10, <1>11, ReplyKeepsPage DEF ClientNext

\* What a page is in holds whatever its calls are answered, and whoever its replays
\* overlap with: the attempts of a capture have no bound that holds of any number of
\* replays, each may put back a count another has since passed.
LEMMA ClientKeepsTypes == ClientInit /\ [][ClientNext]_clientVars => []ClientTypeOK
<1>1. SessionInv /\ [ClientNext]_clientVars => SessionInv'
  BY SessionStep
<1>2. PageInv /\ SessionInv /\ ActorsInv /\ RowsInv => ClientTypeOK
  BY DEF PageInv, SessionInv, ActorsInv, RowsInv, ClientTypeOK
<1>3. QED
  BY <1>1, <1>2, SessionInit, ClientInitRows, PageInit, RowsStep, PageStep, PTL

\* Every variable of the client keeps its type, for any number of replays and of
\* captures (stores/auth.ts, lib/api.ts, lib/offline-queue.ts).
THEOREM ClientTypes == ClientSpec => []ClientTypeOK
  BY ClientKeepsTypes, PTL DEF ClientSpec
=============================================================================
