----------------------------- MODULE CaptureReview -----------------------------
(***************************************************************************)
(* Preference cards of one guest: captures (services/capture/src/pipeline.ts) *)
(* and the review of those OCR could not read well                          *)
(* (services/exception/src/server.ts). Every request is one READ COMMITTED  *)
(* transaction that holds its row locks until it ends; what it wrote into    *)
(* evidence and exception_queue_items shows when it commits.                *)
(***************************************************************************)
EXTENDS Integers, Sequences, FiniteSets

CONSTANTS
  Captures,   \* POST /v1/captures, each with one card
  Patches,    \* PATCH /v1/exceptions/:id
  Keys,       \* preferences a field may name: kind and lower(detail)
  Readings,   \* what OCR may read off a card or a reviewer correct it to
  Rows,       \* ids of preferences
  None        \* NULL, undefined, no transaction

Requests == Captures \cup Patches

Field == [key : Keys, sure : BOOLEAN]

ASSUME DisjointAssumption == Captures \cap Patches = {}
ASSUME ReadingsAssumption == Readings \subseteq Seq(Field)
ASSUME NoneAssumption ==
  None \notin Requests \cup Keys \cup Readings \cup {"open", "in_progress", "resolved", "dismissed"}

VARIABLES
  objects,    \* photos in the object store
  evidence,   \* evidence, one row per capture
  exception,  \* exception_queue_items, one row per capture
  prefs,      \* preferences
  req,        \* the requests
  persisted   \* history: fields persisted under each key

vars == <<objects, evidence, exception, prefs, req, persisted>>

-----------------------------------------------------------------------------
EvidenceStatus == {"none", "pending", "processed"}

ExceptionStatus == {"open", "in_progress", "resolved", "dismissed"}

\* confirmed is history: the keys a committed resolution was about.
Exception == [status : ExceptionStatus \cup {"none"}, fields : Seq(Field),
              holder : Requests \cup {None}, confirmed : SUBSET Keys]

\* added is what the holder has put on top of reinforcement_count, source the
\* evidence preference_evidence links the row to.
Preference == [state : {"free", "pending", "active"}, key : Keys \cup {None}, count : Nat,
               added : Nat, source : Captures \cup {None}, holder : Requests \cup {None}]

FreeRow == [state |-> "free", key |-> None, count |-> 0, added |-> 0, source |-> None,
            holder |-> None]

Place == {"new", "ocr", "persist", "upsert", "commit", "done"}

\* of is the evidence a request is about, next the index of the field to
\* persist, todo the rows its UPDATE has still to lock, hit that it found one.
Request == [at : Place, of : Captures \cup {None}, guest : BOOLEAN, status : ExceptionStatus \cup {None},
            fields : Seq(Field), next : Nat, todo : SUBSET Rows, hit : BOOLEAN,
            answer : {"none", "accepted", "pending_review", "patched", "failed"}]

\* aggregateConfidence(fields) >= ACCEPT_CONFIDENCE: the least of them, 0 of none.
Accepted(fields) == fields # <<>> /\ \A i \in DOMAIN fields : fields[i].sure

KeysOf(fields) == {fields[i].key : i \in DOMAIN fields}

\* The fields of a request that go into preferences.
Persists(t) ==
  /\ req[t].guest
  /\ IF t \in Captures THEN Accepted(req[t].fields) ELSE req[t].status = "resolved"

-----------------------------------------------------------------------------
(* A transaction's end.                                                    *)

\* A row after t has committed, and after it was rolled back.
Kept(row) ==
  [row EXCEPT !.state = "active", !.count = row.count + row.added, !.added = 0,
              !.holder = None]

\* Mutant: a rolled back update leaves its row locked.
StillHeld(row) == IF row.state = "pending" THEN FreeRow ELSE [row EXCEPT !.added = 0]

Undone(row) ==
  IF row.state = "pending" THEN FreeRow ELSE [row EXCEPT !.added = 0, !.holder = None]

Ended(h, answer) ==
  [h EXCEPT !.at = "done", !.todo = {}, !.hit = FALSE, !.answer = answer]

Times(k, fields) == Cardinality({i \in DOMAIN fields : fields[i].key = k})

\* Mutant: the card of an unknown guest is not queued.
WrittenForGuests(t, e) ==
  LET h == req[t] IN
  IF t \in Captures
  THEN [e EXCEPT !.status = IF Accepted(h.fields) \/ ~h.guest THEN "none" ELSE "open",
                 !.fields = h.fields]
  ELSE [e EXCEPT !.status = IF h.status = None THEN e.status ELSE h.status,
                 !.fields = h.fields, !.holder = None,
                 !.confirmed = IF Persists(t) THEN e.confirmed \cup KeysOf(h.fields)
                               ELSE e.confirmed]

\* What a request leaves in exception_queue_items.
Written(t, e) ==
  LET h == req[t] IN
  IF t \in Captures
  THEN [e EXCEPT !.status = IF Accepted(h.fields) THEN "none" ELSE "open",
                 !.fields = h.fields]
  ELSE [e EXCEPT !.status = IF h.status = None THEN e.status ELSE h.status,
                 !.fields = h.fields, !.holder = None,
                 !.confirmed = IF Persists(t) THEN e.confirmed \cup KeysOf(h.fields)
                               ELSE e.confirmed]

\* Mutant: the loop over the fields ends one early.
ReadyOneEarly(t) ==
  \/ req[t].at = "commit"
  \/ req[t].at = "persist" /\ req[t].next >= Len(req[t].fields)

ReadyToCommit(t) ==
  \/ req[t].at = "commit"
  \/ req[t].at = "persist" /\ req[t].next > Len(req[t].fields)

Commit(t) ==
  LET h == req[t]
      accepted == Accepted(h.fields)
  IN
  /\ ReadyToCommit(t)
  /\ prefs' = [r \in Rows |-> IF prefs[r].holder = t THEN Kept(prefs[r]) ELSE prefs[r]]
  /\ exception' = [exception EXCEPT ![h.of] = Written(t, @)]
  /\ evidence' = IF t \in Captures
                 THEN [evidence EXCEPT ![t] = IF accepted THEN "processed" ELSE "pending"]
                 ELSE evidence
  /\ persisted' = [k \in Keys |->
       persisted[k] + IF Persists(t) THEN Times(k, h.fields) ELSE 0]
  /\ req' = [req EXCEPT ![t] = Ended(@,
       IF t \in Patches THEN "patched"
       ELSE IF accepted THEN "accepted" ELSE "pending_review")]
  /\ UNCHANGED objects

\* A refused request, a failing statement, the gateway's error, a crash: the
\* transaction is rolled back, the photo stays where it is.
Fail(t) ==
  /\ req[t].at # "done"
  /\ prefs' = [r \in Rows |-> IF prefs[r].holder = t THEN Undone(prefs[r]) ELSE prefs[r]]
  /\ exception' = [c \in Captures |->
       IF exception[c].holder = t THEN [exception[c] EXCEPT !.holder = None]
       ELSE exception[c]]
  /\ req' = [req EXCEPT ![t] = Ended(@, "failed")]
  /\ UNCHANGED <<objects, evidence, persisted>>

-----------------------------------------------------------------------------
(* Up to the preferences.                                                  *)

\* The photo goes to the object store, then evidence gets its row.
PutPhoto(c) ==
  /\ req[c].at = "new"
  /\ objects' = objects \cup {c}
  /\ req' = [req EXCEPT ![c].at = "ocr"]
  /\ UNCHANGED <<evidence, exception, prefs, persisted>>

\* The answer of the AI gateway: a sure reading of a guest's card is persisted,
\* of nobody's card it is only kept, any other goes to the queue.
Recognise(c, fields) ==
  /\ req[c].at = "ocr"
  /\ req' = [req EXCEPT ![c].fields = fields,
       ![c].at = IF req[c].guest /\ Accepted(fields) THEN "persist" ELSE "commit"]
  /\ UNCHANGED <<objects, evidence, exception, prefs, persisted>>

\* Mutant: the item is read and updated without its row lock.
Unlocked(c) == exception[c].status # "none"

\* UPDATE exception_queue_items waits until no other transaction holds the row.
Available(c) == exception[c].status # "none" /\ exception[c].holder = None

\* Mutant: an item that is closed in any way persists its fields.
ConfirmsOnClosing(status) == status \in {"resolved", "dismissed"}

Confirms(status) == status = "resolved"

\* ExceptionRepo.patch up to its decision to persist. A patch that gives neither
\* a status nor fields changes the assignment or the notes.
Patch(q, c, status, payload) ==
  LET fields == IF payload = None THEN exception[c].fields ELSE payload IN
  /\ req[q].at = "new"
  /\ Available(c)
  /\ exception' = [exception EXCEPT ![c].holder = q]
  /\ req' = [req EXCEPT ![q].of = c, ![q].guest = req[c].guest, ![q].status = status,
       ![q].fields = fields,
       ![q].at = IF req[c].guest /\ Confirms(status) THEN "persist" ELSE "commit"]
  /\ UNCHANGED <<objects, evidence, prefs, persisted>>

-----------------------------------------------------------------------------
(* WITH upsert AS (UPDATE ...) INSERT ... WHERE NOT EXISTS.                *)

\* Mutant: the statement does not see what its transaction has inserted.
CommittedRows(t, k) == {r \in Rows : prefs[r].state = "active" /\ prefs[r].key = k}

\* What the statement's snapshot shows of a key.
Matching(t, k) ==
  {r \in Rows :
     /\ prefs[r].key = k
     /\ prefs[r].state = "active" \/ (prefs[r].state = "pending" /\ prefs[r].holder = t)}

CurrentKey(t) == req[t].fields[req[t].next].key

\* The statement starts, with its snapshot.
StartUpsert(t) ==
  /\ req[t].at = "persist"
  /\ req[t].next <= Len(req[t].fields)
  /\ req' = [req EXCEPT ![t].at = "upsert", ![t].todo = Matching(t, CurrentKey(t)),
                        ![t].hit = FALSE]
  /\ UNCHANGED <<objects, evidence, exception, prefs, persisted>>

\* Mutant: rows are updated without waiting for whoever holds them.
LockIgnored(t, r) == TRUE

MayLock(t, r) == prefs[r].holder \in {None, t}

\* UPDATE ... SET reinforcement_count = reinforcement_count + 1, row by row.
Reinforce(t, r) ==
  /\ req[t].at = "upsert"
  /\ r \in req[t].todo
  /\ MayLock(t, r)
  /\ prefs' = [prefs EXCEPT ![r].holder = t, ![r].added = @ + 1]
  /\ req' = [req EXCEPT ![t].todo = @ \ {r}, ![t].hit = TRUE]
  /\ UNCHANGED <<objects, evidence, exception, persisted>>

NextField(h) == [h EXCEPT !.at = "persist", !.next = @ + 1]

\* The rows are updated: nothing is inserted, RETURNING id is empty and no
\* evidence is linked.
Reinforced(t) ==
  /\ req[t].at = "upsert"
  /\ req[t].todo = {}
  /\ req[t].hit
  /\ req' = [req EXCEPT ![t] = NextField(@)]
  /\ UNCHANGED <<objects, evidence, exception, prefs, persisted>>

\* No row was there: one is inserted and linked to the evidence.
InsertPreference(t, r) ==
  /\ req[t].at = "upsert"
  /\ req[t].todo = {}
  /\ ~req[t].hit
  /\ prefs[r].state = "free"
  /\ prefs' = [prefs EXCEPT ![r] =
       [state |-> "pending", key |-> CurrentKey(t), count |-> 1, added |-> 0,
        source |-> req[t].of, holder |-> t]]
  /\ req' = [req EXCEPT ![t] = NextField(@)]
  /\ UNCHANGED <<objects, evidence, exception, persisted>>

-----------------------------------------------------------------------------
(* Transactions that wait for each other's rows.                           *)

Blockers(t) == {prefs[r].holder : r \in req[t].todo} \ {None, t}

\* t can lock none of the rows it still needs.
Stuck(t) ==
  /\ req[t].at = "upsert"
  /\ req[t].todo # {}
  /\ \A r \in req[t].todo : ~MayLock(t, r)

Deadlocked(t) ==
  \E S \in SUBSET Requests : t \in S /\ \A u \in S : Stuck(u) /\ Blockers(u) \subseteq S

\* PostgreSQL finds the cycle and cancels one of its transactions.
BreakDeadlock(t) == Deadlocked(t) /\ Fail(t)

-----------------------------------------------------------------------------
NewRequest(c, guest) ==
  [at |-> "new", of |-> c, guest |-> guest, status |-> None, fields |-> <<>>, next |-> 1,
   todo |-> {}, hit |-> FALSE, answer |-> "none"]

KnownRow(k) ==
  [state |-> "active", key |-> k, count |-> 1, added |-> 0, source |-> None, holder |-> None]

\* The guest may have preferences that came without evidence (seeded, imported).
Init ==
  /\ objects = {}
  /\ evidence = [c \in Captures |-> "none"]
  /\ exception = [c \in Captures |->
       [status |-> "none", fields |-> <<>>, holder |-> None, confirmed |-> {}]]
  /\ \E known \in [Rows -> Keys \cup {None}] :
       /\ \A r, s \in Rows : known[r] = known[s] /\ known[r] # None => r = s
       /\ prefs = [r \in Rows |-> IF known[r] = None THEN FreeRow ELSE KnownRow(known[r])]
       /\ persisted = [k \in Keys |-> IF \E r \in Rows : known[r] = k THEN 1 ELSE 0]
  /\ \E guest \in [Captures -> BOOLEAN] :
       req = [t \in Requests |->
         IF t \in Captures THEN NewRequest(t, guest[t]) ELSE NewRequest(None, FALSE)]

Step(t) ==
  \/ StartUpsert(t)
  \/ \E r \in Rows : Reinforce(t, r) \/ InsertPreference(t, r)
  \/ Reinforced(t)
  \/ Commit(t)

Next ==
  \/ \E c \in Captures : PutPhoto(c) \/ \E fields \in Readings : Recognise(c, fields)
  \/ \E q \in Patches, c \in Captures, status \in ExceptionStatus \cup {None},
        payload \in Readings \cup {None} : Patch(q, c, status, payload)
  \/ \E t \in Requests : Step(t) \/ Fail(t)

Spec == Init /\ [][Next]_vars

\* The gateway answers or its request times out, statements end, PostgreSQL
\* breaks deadlocks.
Fairness ==
  /\ \A c \in Captures : WF_vars(\E fields \in Readings : Recognise(c, fields))
  /\ \A t \in Requests : WF_vars(Step(t)) /\ WF_vars(BreakDeadlock(t))

FairSpec == Spec /\ Fairness

-----------------------------------------------------------------------------
(* Correctness.                                                            *)

\* Every variable keeps its type.
TypeOK ==
  /\ objects \subseteq Captures
  /\ evidence \in [Captures -> EvidenceStatus]
  /\ exception \in [Captures -> Exception]
  /\ prefs \in [Rows -> Preference]
  /\ req \in [Requests -> Request]
  /\ persisted \in [Keys -> Nat]

Active == {r \in Rows : prefs[r].state = "active"}

Used == {r \in Rows : prefs[r].state # "free"}

\* One card never gives a guest the same preference twice, however often its
\* item is resolved and by whom (exception server.ts:191, "re-resolving will not
\* duplicate an existing active preference").
OneRowPerEvidence ==
  \A r, s \in Used :
    prefs[r].key = prefs[s].key /\ prefs[r].source = prefs[s].source /\ prefs[r].source # None
    => r = s

\* A card OCR was not sure of adds nothing to a guest before a person has
\* confirmed it (exception server.ts:163).
UnsureCardsWait ==
  \A r \in Active :
    \/ prefs[r].source = None
    \/ evidence[prefs[r].source] = "processed"
    \/ prefs[r].key \in exception[prefs[r].source].confirmed

\* What a person has confirmed is among the guest's preferences, and so is what
\* a capture reported as accepted.
ConfirmedDataLands ==
  /\ \A c \in Captures : exception[c].confirmed \subseteq {prefs[r].key : r \in Active}
  /\ \A c \in Captures :
       req[c].answer = "accepted" /\ req[c].guest =>
         KeysOf(req[c].fields) \subseteq {prefs[r].key : r \in Active}

\* As long as a preference has one row, its reinforcement_count is the number of
\* fields that named it, concurrent reinforcements included.
NoLostReinforcement ==
  \A r \in Active :
    (\A s \in Used \ {r} : prefs[s].key # prefs[r].key)
    => prefs[r].count = persisted[prefs[r].key]

\* Evidence has its photo, and a queue item says so when nobody has read it.
EvidenceIsBacked ==
  \A c \in Captures :
    /\ evidence[c] # "none" => c \in objects
    /\ evidence[c] = "pending" <=> exception[c].status # "none"

\* Every request is answered, those that wait for each other's rows included.
EveryRequestEnds == \A t \in Requests : req[t].at # "new" ~> req[t].at = "done"

-----------------------------------------------------------------------------
(* The inductive invariant.                                                *)

\* t is writing preferences.
Writing(t) == req[t].at \in {"persist", "upsert"}

\* t sees the row: it is committed, or t's own.
Seen(t, r) ==
  \/ prefs[r].state = "active"
  \/ prefs[r].state = "pending" /\ prefs[r].holder = t

\* Rows are held by requests that are writing, inserted rows by the request
\* whose evidence and fields they come from.
RowOK(r) ==
  LET row == prefs[r] IN
  /\ row.holder # None => Writing(row.holder)
  /\ row.state = "free" => row.holder = None
  /\ row.state # "free" => row.key \in Keys
  /\ row.state = "pending" =>
       /\ row.holder # None
       /\ row.source = req[row.holder].of
       /\ row.key \in KeysOf(req[row.holder].fields)

\* A queue item is there once its capture has committed, and is held by the one
\* patch that is at work on it.
ItemOK(c) ==
  LET item == exception[c] IN
  /\ item.status # "none" => req[c].at = "done" /\ evidence[c] = "pending"
  /\ item.holder # None =>
       /\ item.status # "none"
       /\ item.holder \in Patches
       /\ req[item.holder].of = c
       /\ req[item.holder].at \in {"persist", "upsert", "commit"}

\* What a request has persisted is there.
ProgressOK(t) ==
  \A i \in DOMAIN req[t].fields :
    i < req[t].next => \E r \in Rows : Seen(t, r) /\ prefs[r].key = req[t].fields[i].key

\* What its statement found is still to be locked or has been.
UpsertOK(t) ==
  /\ req[t].next <= Len(req[t].fields)
  /\ \A r \in req[t].todo : Seen(t, r) /\ prefs[r].key = CurrentKey(t)
  /\ req[t].hit => \E r \in Rows : Seen(t, r) /\ prefs[r].key = CurrentKey(t)
  /\ \A r \in Used :
       prefs[r].key = CurrentKey(t) /\ prefs[r].source = req[t].of
       => r \in req[t].todo \/ req[t].hit

RequestOK(t) ==
  LET h == req[t] IN
  /\ t \in Captures =>
       /\ h.of = t
       /\ h.at # "done" => evidence[t] = "none"
       /\ h.at \notin {"new", "done"} => t \in objects
  /\ t \in Patches =>
       /\ h.at # "ocr"
       /\ h.at \in {"persist", "upsert", "commit"} =>
            h.of \in Captures /\ exception[h.of].holder = t
  /\ h.at \in {"new", "ocr"} => h.next = 1
  /\ h.answer # "none" => h.at = "done"
  /\ h.at = "commit" => ~Persists(t)
  /\ Writing(t) => Persists(t) /\ h.next >= 1 /\ ProgressOK(t)
  /\ h.at = "upsert" => UpsertOK(t)

IInv ==
  /\ TypeOK
  /\ \A r \in Rows : RowOK(r)
  /\ \A c \in Captures : ItemOK(c)
  /\ \A t \in Requests : RequestOK(t)
  /\ OneRowPerEvidence /\ UnsureCardsWait /\ ConfirmedDataLands /\ EvidenceIsBacked

\* How often the fields before the n-th name a preference.
TimesBefore(n, k, fields) == Cardinality({i \in DOMAIN fields : i < n /\ fields[i].key = k})

\* The statement t is at has counted its field on the row.
Locked(t, r) ==
  /\ req[t].at = "upsert" /\ req[t].hit
  /\ CurrentKey(t) = prefs[r].key /\ r \notin req[t].todo

\* What t should have put on a row it has found for every field it has persisted.
Counted(t, r) ==
  TimesBefore(req[t].next, prefs[r].key, req[t].fields) + (IF Locked(t, r) THEN 1 ELSE 0)

\* The row is the only committed one of its preference.
Alone(r) == r \in Active /\ \A s \in Active : prefs[s].key = prefs[r].key => s = r

\* t has inserted a row of the preference, and found it for its later fields.
Inserts(t, k) ==
  \E s \in Rows : prefs[s].state = "pending" /\ prefs[s].holder = t /\ prefs[s].key = k

Put(t, r) == IF prefs[r].holder = t THEN prefs[r].added ELSE 0

CountsOf(t, r) ==
  /\ prefs[r].state = "pending" /\ prefs[r].holder = t
     => prefs[r].count + prefs[r].added = Counted(t, r)
  /\ Alone(r) /\ ~Inserts(t, prefs[r].key) => Put(t, r) = Counted(t, r)

\* A statement that has found no row is about a key its request has not yet met.
FirstOfKey(t) ==
  req[t].at = "upsert" /\ req[t].todo = {} /\ ~req[t].hit =>
    \A i \in DOMAIN req[t].fields : i < req[t].next => req[t].fields[i].key # CurrentKey(t)

\* What is committed and what is under way add up, row by row.
CountInv ==
  /\ \A r \in Rows : prefs[r].holder = None => prefs[r].added = 0
  /\ \A t \in Requests : FirstOfKey(t) /\ (Writing(t) => \A r \in Rows : CountsOf(t, r))
  /\ \A r \in Rows : Alone(r) => prefs[r].count = persisted[prefs[r].key]
  /\ \A k \in Keys : (\A r \in Active : prefs[r].key # k) => persisted[k] = 0

ReviewInv == IInv /\ CountInv
=============================================================================
