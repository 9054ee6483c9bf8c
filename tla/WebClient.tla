------------------------------ MODULE WebClient ------------------------------
(***************************************************************************)
(* The web client: the session of stores/auth.ts, apiFetch with its single- *)
(* flight refresh (lib/api.ts), the capture form, and the queue of captures *)
(* in IndexedDB with the replay of hooks/useOfflineReplay.ts.               *)
(*                                                                         *)
(* A step is what JavaScript does between two awaits. The service stores a   *)
(* capture or not and its answer arrives or not; a token may be refused at   *)
(* any time. One page is open; opening it again keeps what is stored.       *)
(***************************************************************************)
EXTENDS Integers

CONSTANTS
  Loops,          \* replays that may run at once: one starts at every `online` event
  Form,           \* the capture form, and the queries of the page
  Captures,
  MaxAttempts,    \* MAX_ATTEMPTS, 5 in the code
  MaxReloads      \* bound: how often the page is opened again

ASSUME ActorsAssumption == Form \notin Loops
ASSUME LimitsAssumption == MaxAttempts \in Nat \ {0} /\ MaxReloads \in Nat

VARIABLES
  online,     \* navigator.onLine
  session,    \* the auth store
  flight,     \* inFlightRefresh
  resent,     \* a page has sent one refresh token twice
  queue,      \* IndexedDB: the attempts of each capture, -1: no row
  promised,   \* captures the agent was told "will upload automatically"
  stored,     \* captures the service has stored
  actor,      \* the form and the replays
  reloads

clientVars == <<online, session, flight, resent, queue, promised, stored, actor, reloads>>

-----------------------------------------------------------------------------
Actors == Loops \cup {Form}
NoRow == -1

\* The refresh token of the store: none, not sent by this page, or sent by it.
Session == [access : BOOLEAN, refresh : {"none", "kept", "sent"}]
LoggedIn == [access |-> TRUE, refresh |-> "kept"]
LoggedOut == [access |-> FALSE, refresh |-> "none"]

\* todo: the captures a replay has listed and not yet reached. items: the capture
\* in hand. bearer: the request carries a token. attempts: read by the `get` of
\* markCaptureFailure; replays that overlap count more of them than the limit.
\* Replays are absent from a page without a component that uses useOfflineReplay.
Actor == [at : {"absent", "idle", "list", "next", "fetch", "wait", "again", "remove", "get", "put", "enqueue"},
          todo : SUBSET Captures, items : SUBSET Captures, bearer : BOOLEAN,
          attempts : Nat]
IdleActor == [at |-> "idle", todo |-> {}, items |-> {}, bearer |-> FALSE, attempts |-> 0]

Goes(a, at) == [actor EXCEPT ![a].at = at]

\* A replay has done with the capture in hand.
Done(l) == [actor EXCEPT ![l] = [IdleActor EXCEPT !.at = "next", !.todo = actor[l].todo]]

\* The fetch of apiFetch leaves with the access token of the store.
Fetching(rec) == [rec EXCEPT !.at = "fetch", !.bearer = session.access]

\* An error leaves apiFetch. A replay counts a failed attempt; the form queues the
\* capture when the device is offline or the status is 5xx, or shows the error.
Failed(a, status) ==
  IF a \in Loops THEN [actor[a] EXCEPT !.at = "get"]
  ELSE IF actor[a].items # {} /\ (~online \/ status >= 500) THEN [actor[a] EXCEPT !.at = "enqueue"]
  ELSE IdleActor

\* An answer in the 2xx: the form shows it, a replay removes the row.
Succeeded(a) == IF a \in Loops THEN [actor[a] EXCEPT !.at = "remove"] ELSE IdleActor

-----------------------------------------------------------------------------
\* onSubmit, of a capture that is neither queued nor uploaded.
Submit(c) ==
  /\ actor[Form].at = "idle" /\ c \notin stored \cup promised
  /\ actor' = [actor EXCEPT ![Form] = [Fetching(IdleActor) EXCEPT !.items = {c}]]
  /\ UNCHANGED <<online, session, flight, resent, queue, promised, stored, reloads>>

\* Any other call of the page, such as a query.
Query ==
  /\ actor[Form].at = "idle"
  /\ actor' = [actor EXCEPT ![Form] = Fetching(IdleActor)]
  /\ UNCHANGED <<online, session, flight, resent, queue, promised, stored, reloads>>

\* The service stores the capture; its answer arrives, or is lost.
Answered2xx(a, arrives) ==
  /\ online /\ actor[a].at \in {"fetch", "again"} /\ actor[a].bearer
  /\ stored' = stored \cup actor[a].items
  /\ actor' = [actor EXCEPT ![a] = IF arrives THEN Succeeded(a) ELSE Failed(a, 0)]
  /\ UNCHANGED <<online, session, flight, resent, queue, promised, reloads>>

\* No connection (0), a 4xx other than the first 401, or a 5xx.
AnsweredError(a, status) ==
  /\ actor[a].at \in {"fetch", "again"}
  /\ status # 0 => online
  /\ actor' = [actor EXCEPT ![a] = Failed(a, status)]
  /\ UNCHANGED <<online, session, flight, resent, queue, promised, stored, reloads>>

\* Mutant: every 401 sends a refresh of its own.
FliesAlone == FALSE

\* A refresh is under way: its answer is awaited.
IsFlying == flight

\* The first 401 of a call, which calls refreshAccessToken. No refresh token: the
\* session ends and the call fails.
Answered401(a) ==
  /\ online /\ actor[a].at = "fetch"
  /\ IF IsFlying THEN
       /\ actor' = Goes(a, "wait")
       /\ UNCHANGED <<session, flight, resent>>
     ELSE IF session.refresh = "none" THEN
       /\ session' = LoggedOut
       /\ actor' = [actor EXCEPT ![a] = Failed(a, 401)]
       /\ UNCHANGED <<flight, resent>>
     ELSE
       /\ flight' = TRUE
       /\ resent' = (resent \/ session.refresh = "sent")
       /\ session' = [session EXCEPT !.refresh = "sent"]
       /\ actor' = Goes(a, "wait")
  /\ UNCHANGED <<online, queue, promised, stored, reloads>>

\* The new tokens are stored, whatever happened to the session since, and every
\* call that waits is sent again.
RefreshAnswered ==
  /\ flight /\ online
  /\ flight' = FALSE
  /\ session' = LoggedIn
  /\ actor' = [a \in Actors |->
       IF actor[a].at = "wait" THEN [actor[a] EXCEPT !.at = "again", !.bearer = TRUE]
       ELSE actor[a]]
  /\ UNCHANGED <<online, resent, queue, promised, stored, reloads>>

\* Refused, lost or offline: every call that waits ends the session and fails.
RefreshFails ==
  /\ flight
  /\ flight' = FALSE
  /\ session' = LoggedOut
  /\ actor' = [a \in Actors |-> IF actor[a].at = "wait" THEN Failed(a, 401) ELSE actor[a]]
  /\ UNCHANGED <<online, resent, queue, promised, stored, reloads>>

\* enqueueCapture, and the banner.
Enqueue ==
  /\ actor[Form].at = "enqueue"
  /\ queue' = [c \in Captures |-> IF c \in actor[Form].items THEN 0 ELSE queue[c]]
  /\ promised' = promised \cup actor[Form].items
  /\ actor' = [actor EXCEPT ![Form] = IdleActor]
  /\ UNCHANGED <<online, session, flight, resent, stored, reloads>>

-----------------------------------------------------------------------------
\* A replay begins, on the `online` event or when its component is mounted.
StartsReplay(acting, isOnline) ==
  \/ \E l \in Loops : /\ isOnline /\ acting[l].at = "idle"
                      /\ actor' = [acting EXCEPT ![l].at = "list"]
  \/ /\ isOnline => \A l \in Loops : acting[l].at # "idle"
     /\ actor' = acting

ListQueued(l) ==
  /\ actor[l].at = "list"
  /\ actor' = [actor EXCEPT ![l] = [IdleActor EXCEPT !.at = "next",
                 !.todo = {c \in Captures : queue[c] \in 0 .. (MaxAttempts - 1)}]]
  /\ UNCHANGED <<online, session, flight, resent, queue, promised, stored, reloads>>

ReplayNext(l) ==
  /\ actor[l].at = "next"
  /\ IF actor[l].todo = {} THEN actor' = [actor EXCEPT ![l] = IdleActor]
     ELSE \E c \in actor[l].todo :
            actor' = [actor EXCEPT ![l] = [Fetching(actor[l]) EXCEPT !.items = {c}, !.todo = @ \ {c}]]
  /\ UNCHANGED <<online, session, flight, resent, queue, promised, stored, reloads>>

RemoveCapture(l) ==
  /\ actor[l].at = "remove"
  /\ queue' = [c \in Captures |-> IF c \in actor[l].items THEN NoRow ELSE queue[c]]
  /\ actor' = Done(l)
  /\ UNCHANGED <<online, session, flight, resent, promised, stored, reloads>>

\* Mutant: the row leaves the queue before the attempt is counted.
GetRowAndRemove(l) ==
  /\ actor[l].at = "get"
  /\ queue' = [c \in Captures |-> IF c \in actor[l].items THEN NoRow ELSE queue[c]]
  /\ actor' = Done(l)
  /\ UNCHANGED <<online, session, flight, resent, promised, stored, reloads>>

\* Mutant: that the row is gone goes unnoticed.
GetRowUnchecked(l) ==
  /\ actor[l].at = "get"
  /\ \E c \in actor[l].items : actor' = [actor EXCEPT ![l].at = "put", ![l].attempts = queue[c]]
  /\ UNCHANGED <<online, session, flight, resent, queue, promised, stored, reloads>>

\* markCaptureFailure: a get and a put, two transactions.
GetRow(l) ==
  /\ actor[l].at = "get"
  /\ \E c \in actor[l].items :
       actor' = IF queue[c] = NoRow THEN Done(l)
                ELSE [actor EXCEPT ![l].at = "put", ![l].attempts = queue[c]]
  /\ UNCHANGED <<online, session, flight, resent, queue, promised, stored, reloads>>

\* Mutant: the row is put back as it was read.
PutRowUncounted(l) ==
  /\ actor[l].at = "put"
  /\ queue' = [c \in Captures |-> IF c \in actor[l].items THEN actor[l].attempts ELSE queue[c]]
  /\ actor' = Done(l)
  /\ UNCHANGED <<online, session, flight, resent, promised, stored, reloads>>

\* A row that another replay has removed since comes back.
PutRow(l) ==
  /\ actor[l].at = "put"
  /\ queue' = [c \in Captures |-> IF c \in actor[l].items THEN actor[l].attempts + 1 ELSE queue[c]]
  /\ actor' = Done(l)
  /\ UNCHANGED <<online, session, flight, resent, promised, stored, reloads>>

-----------------------------------------------------------------------------
GoOffline ==
  /\ online /\ online' = FALSE
  /\ UNCHANGED <<session, flight, resent, queue, promised, stored, actor, reloads>>

ComeOnline ==
  /\ ~online /\ online' = TRUE
  /\ StartsReplay(actor, TRUE)
  /\ UNCHANGED <<session, flight, resent, queue, promised, stored, reloads>>

\* "Sign out", also while a refresh is under way.
Logout ==
  /\ session.refresh # "none"
  /\ session' = LoggedOut
  /\ UNCHANGED <<online, flight, resent, queue, promised, stored, actor, reloads>>

\* onLogin and onMfa.
Login ==
  /\ online /\ session = LoggedOut
  /\ session' = LoggedIn
  /\ UNCHANGED <<online, flight, resent, queue, promised, stored, actor, reloads>>

\* The page is opened again: localStorage and IndexedDB are kept, calls are not.
Reload ==
  /\ reloads < MaxReloads /\ reloads' = reloads + 1
  /\ flight' = FALSE
  /\ session' = IF session.refresh = "sent" THEN [session EXCEPT !.refresh = "kept"] ELSE session
  /\ StartsReplay([a \in Actors |-> IF actor[a].at = "absent" THEN actor[a] ELSE IdleActor], online)
  /\ UNCHANGED <<online, resent, queue, promised, stored>>

ClientInit ==
  /\ online \in BOOLEAN /\ session = LoggedIn
  /\ flight = FALSE /\ resent = FALSE
  /\ queue = [c \in Captures |-> NoRow]
  /\ promised = {} /\ stored = {}
  /\ \E at \in {"idle", "absent"} :
       actor = [a \in Actors |-> IF a \in Loops THEN [IdleActor EXCEPT !.at = at] ELSE IdleActor]
  /\ reloads = 0

\* The answer to a call of apiFetch.
Reply(a) ==
  \/ \E arrives \in BOOLEAN : Answered2xx(a, arrives)
  \/ \E status \in {0, 400, 500} : AnsweredError(a, status)
  \/ Answered401(a)

\* What a replay does between two awaits.
Replay(l) ==
  ListQueued(l) \/ ReplayNext(l) \/ RemoveCapture(l) \/ GetRow(l) \/ PutRow(l)

ClientNext ==
  \/ \E c \in Captures : Submit(c)
  \/ Query
  \/ \E a \in Actors : Reply(a)
  \/ RefreshAnswered \/ RefreshFails \/ Enqueue
  \/ \E l \in Loops : Replay(l)
  \/ GoOffline \/ ComeOnline \/ Logout \/ Login \/ Reload

\* JavaScript runs on and a call is answered or fails. Nobody has to sign in, to
\* submit or to open the page again, and the connection may stay as it is.
ClientFairness ==
  /\ \A a \in Actors : WF_clientVars(Reply(a))
  /\ WF_clientVars(RefreshAnswered \/ RefreshFails)
  /\ \A l \in Loops : WF_clientVars(Replay(l))

ClientSpec == ClientInit /\ [][ClientNext]_clientVars /\ ClientFairness

\* The device goes out of reach and comes back, again and again: what the banner
\* ("once you reconnect") waits for.
FlakySpec == ClientSpec /\ WF_clientVars(GoOffline) /\ WF_clientVars(ComeOnline)

-----------------------------------------------------------------------------
ClientTypeOK ==
  /\ {online, flight, resent} \subseteq BOOLEAN /\ session \in Session
  /\ queue \in [Captures -> Nat \cup {NoRow}]
  /\ promised \subseteq Captures /\ stored \subseteq Captures
  /\ actor \in [Actors -> Actor] /\ reloads \in 0 .. MaxReloads

\* However many calls get a 401 at once, and whoever signs out and in meanwhile, a
\* page sends a refresh token once: the service takes a second use for theft and
\* ends the session. A page opened again may send what the last one sent (api.ts:12).
TokenSentOnce == ~resent

\* A capture the agent was told is saved is in the queue or at the service, while
\* replays overlap, fail and are cut off by a reload (useOfflineReplay.ts:27).
QueuedKept == \A c \in promised : queue[c] # NoRow \/ c \in stored

\* A capture that a replay has listed is uploaded or the attempt shows in its count,
\* while replays overlap, wait for a refresh and fail; only a page opened again may
\* forget it. That two replays which read one count write it once (a lost attempt,
\* offline-queue.ts:66) does not keep either from getting there.
ReplaysAttend ==
  \A c \in Captures, k \in 0 .. (MaxAttempts - 1), n \in 0 .. MaxReloads :
    (\E l \in Loops : c \in actor[l].todo) /\ queue[c] = k /\ reloads = n
      ~> c \in stored \/ queue[c] # k \/ reloads # n

\* A promised capture is uploaded, or was tried MaxAttempts times, as long as the
\* connection keeps coming back: captures.new.tsx:125, docs/adr/009:29.
QueuedCapturesArrive ==
  \A c \in Captures : c \in promised ~> c \in stored \/ queue[c] >= MaxAttempts
=============================================================================
