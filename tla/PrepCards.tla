------------------------------- MODULE PrepCards -------------------------------
(***************************************************************************)
(* The housekeeping prep cards of one property and day                      *)
(* (services/brief/src/prep-cards.ts). A generation is one transaction that *)
(* loops over the stays arriving the day after: look for a card, ask the AI *)
(* for a note, upsert. An error of one stay is caught and the loop goes on, *)
(* but PostgreSQL has aborted the transaction: every later statement fails, *)
(* the COMMIT rolls back and reports no error. Rows a transaction has       *)
(* written stay locked until it ends or aborts.                             *)
(***************************************************************************)
EXTENDS Integers, FiniteSets

CONSTANTS
  Preps,         \* requests to generate
  Completions,   \* requests to complete a card
  PrepStays,     \* stays
  TimeOf,        \* arrival_at by stay: the order of the loop, any among equals
  NoStay

VARIABLES
  arrivingStays,   \* stays expected on the day after, guests and bookings decide
  cards,           \* committed rows of housekeeping_prep_cards by stay
  prep,            \* the handlers' local variables
  completion       \* answers of the requests to complete

prepVars == <<cards, prep, completion>>

-----------------------------------------------------------------------------
\* signed: completed_at, completed_by and completion_notes are set.
Card == [status : {"absent", "ready", "completed"}, signed : BOOLEAN, note : BOOLEAN]
NoCard == [status |-> "absent", signed |-> FALSE, note |-> FALSE]

\* made: the stays whose card the open transaction has written, noted: those
\* with a warm note. unseen, skipped, landed are history: the stays without a
\* card when looked for, those left alone, those whose card the COMMIT kept.
Answers == {0, 201, 404, 500}
Handler == [at : {"new", "loop", "upsert", "done"}, force : BOOLEAN, todo : SUBSET PrepStays,
            stay : PrepStays \cup {NoStay}, all : SUBSET PrepStays, made : SUBSET PrepStays,
            noted : SUBSET PrepStays, aborted : BOOLEAN, cardsCreated : Nat, cardsUpdated : Nat,
            errors : Nat, answer : Answers, unseen : SUBSET PrepStays,
            skipped : SUBSET PrepStays, landed : SUBSET PrepStays]
NewHandler ==
  [at |-> "new", force |-> FALSE, todo |-> {}, stay |-> NoStay, all |-> {}, made |-> {},
   noted |-> {}, aborted |-> FALSE, cardsCreated |-> 0, cardsUpdated |-> 0, errors |-> 0,
   answer |-> 0, unseen |-> {}, skipped |-> {}, landed |-> {}]

Exists(s) == cards[s].status # "absent"

\* The stays whose card the housekeepers' list of the day shows.
Listed == {s \in PrepStays : Exists(s)}

\* Another transaction has written the card and not ended.
Locked(p, s) == \E q \in Preps \ {p} : prep[q].at # "done" /\ s \in prep[q].made

PrepBecomes(p, rec) == prep' = [prep EXCEPT ![p] = rec]

\* The stays the loop may come to next.
NextStays(p) == {s \in prep[p].todo : \A u \in prep[p].todo : TimeOf[s] <= TimeOf[u]}

-----------------------------------------------------------------------------
\* The property and the arrivals are read; without arrivals the summary is empty.
BeginPrep(p, force) ==
  /\ prep[p].at = "new"
  /\ PrepBecomes(p, [prep[p] EXCEPT !.at = "loop", !.force = force,
                                     !.todo = arrivingStays, !.all = arrivingStays])
  /\ UNCHANGED <<cards, completion>>

\* Mutant: every stay is upserted, with or without force.
LookForNoCard(p, s) ==
  /\ prep[p].at = "loop" /\ ~prep[p].aborted /\ s \in NextStays(p)
  /\ PrepBecomes(p, [prep[p] EXCEPT !.at = "upsert", !.stay = s,
                                     !.unseen = IF Exists(s) THEN @ ELSE @ \cup {s}])
  /\ UNCHANGED <<cards, completion>>

\* Without force a stay with a card is skipped.
LookForCard(p, s) ==
  /\ prep[p].at = "loop" /\ ~prep[p].aborted /\ s \in NextStays(p)
  /\ IF Exists(s) /\ ~prep[p].force
     THEN PrepBecomes(p, [prep[p] EXCEPT !.todo = @ \ {s}, !.skipped = @ \cup {s}])
     ELSE PrepBecomes(p, [prep[p] EXCEPT !.at = "upsert", !.stay = s,
                                         !.unseen = IF Exists(s) THEN @ ELSE @ \cup {s}])
  /\ UNCHANGED <<cards, completion>>

\* The note, missing when it is not asked for or the AI fails, and the upsert,
\* which waits for the row's lock.
UpsertCard(p, note) ==
  /\ prep[p].at = "upsert" /\ ~Locked(p, prep[p].stay)
  /\ LET s == prep[p].stay
     IN  PrepBecomes(p, [prep[p] EXCEPT
           !.at = "loop", !.todo = @ \ {s}, !.made = @ \cup {s},
           !.noted = IF note THEN @ \cup {s} ELSE @,
           !.cardsCreated = IF Exists(s) THEN @ ELSE @ + 1,
           !.cardsUpdated = IF Exists(s) THEN @ + 1 ELSE @])
  /\ UNCHANGED <<cards, completion>>

\* Mutant: the failing stay is rolled back to a savepoint of its own.
StayFailsAlone(p) ==
  /\ prep[p].at \in {"loop", "upsert"} /\ prep[p].todo # {}
  /\ \E s \in (IF prep[p].at = "upsert" THEN {prep[p].stay} ELSE NextStays(p)) :
       PrepBecomes(p, [prep[p] EXCEPT !.at = "loop", !.todo = @ \ {s}, !.errors = @ + 1])
  /\ UNCHANGED <<cards, completion>>

\* A statement of one stay fails (one of two transactions that wait for each
\* other, a violated constraint): the error joins the summary, the transaction
\* is aborted and its locks are gone.
StayFails(p) ==
  /\ prep[p].at \in {"loop", "upsert"} /\ ~prep[p].aborted /\ prep[p].todo # {}
  /\ \E s \in (IF prep[p].at = "upsert" THEN {prep[p].stay} ELSE NextStays(p)) :
       PrepBecomes(p, [prep[p] EXCEPT !.at = "loop", !.aborted = TRUE, !.made = {},
                                      !.todo = @ \ {s}, !.errors = @ + 1])
  /\ UNCHANGED <<cards, completion>>

\* In the aborted transaction each stay left is one more error.
RestFails(p) ==
  /\ prep[p].at = "loop" /\ prep[p].aborted /\ prep[p].todo # {}
  /\ PrepBecomes(p, [prep[p] EXCEPT !.todo = {}, !.errors = @ + Cardinality(prep[p].todo)])
  /\ UNCHANGED <<cards, completion>>

\* The upsert makes the card ready and leaves the sign-off alone.
Upserted(p, s) ==
  [status |-> "ready", signed |-> cards[s].signed, note |-> s \in prep[p].noted]

\* COMMIT and 201 with the summary.
CommitPrep(p) ==
  /\ prep[p].at = "loop" /\ prep[p].todo = {}
  /\ cards' = [s \in PrepStays |-> IF s \in prep[p].made THEN Upserted(p, s) ELSE cards[s]]
  /\ PrepBecomes(p, [prep[p] EXCEPT !.at = "done", !.answer = 201, !.made = {},
                                     !.landed = prep[p].made])
  /\ UNCHANGED completion

\* No such property, or the connection is lost: ROLLBACK.
PrepFails(p, code) ==
  /\ prep[p].at # "done" /\ (code = 404 => prep[p].at = "new")
  /\ PrepBecomes(p, [prep[p] EXCEPT !.at = "done", !.answer = code, !.made = {}])
  /\ UNCHANGED <<cards, completion>>

\* completePrepCard: an UPDATE of the card if it is not completed yet.
CompleteCard(c, s) ==
  /\ completion[c] = 0 /\ (\A p \in Preps : prep[p].at # "done" => s \notin prep[p].made)
  /\ IF cards[s].status = "ready"
     THEN /\ cards' = [cards EXCEPT ![s] = [@ EXCEPT !.status = "completed", !.signed = TRUE]]
          /\ completion' = [completion EXCEPT ![c] = 200]
     ELSE /\ completion' = [completion EXCEPT ![c] = 404]
          /\ UNCHANGED cards
  /\ UNCHANGED prep

Prepare(p) ==
  \/ \E force \in BOOLEAN : BeginPrep(p, force)
  \/ \E s \in PrepStays : LookForCard(p, s)
  \/ \E note \in BOOLEAN : UpsertCard(p, note)
  \/ StayFails(p) \/ RestFails(p) \/ CommitPrep(p)
  \/ \E code \in {404, 500} : PrepFails(p, code)

Complete(c) == \E s \in PrepStays : CompleteCard(c, s)

PrepInit ==
  /\ cards = [s \in PrepStays |-> NoCard]
  /\ prep = [p \in Preps |-> NewHandler]
  /\ completion = [c \in Completions |-> 0]

\* On its own the module lets the arrivals change at any time.
Init == PrepInit /\ arrivingStays \in SUBSET PrepStays
Next ==
  \/ ((\E p \in Preps : Prepare(p)) \/ \E c \in Completions : Complete(c)) /\ UNCHANGED arrivingStays
  \/ arrivingStays' \in SUBSET PrepStays /\ UNCHANGED prepVars

Spec == Init /\ [][Next]_<<prepVars, arrivingStays>>

-----------------------------------------------------------------------------
PrepTypeOK ==
  /\ cards \in [PrepStays -> Card]
  /\ prep \in [Preps -> Handler]
  /\ completion \in [Completions -> {0, 200, 404}]

\* A generation answered 201 has either given every stay it found a card or
\* left every card alone, and in the second case the summary lists an error:
\* one failing stay costs the whole day (prep-cards.ts:162).
PrepAllOrNothing ==
  \A p \in Preps :
    prep[p].answer = 201 =>
      IF prep[p].errors = 0
      THEN /\ prep[p].landed = prep[p].all \ prep[p].skipped
           /\ prep[p].cardsCreated + prep[p].cardsUpdated = Cardinality(prep[p].landed)
      ELSE prep[p].landed = {}

\* A listed card stays listed with its sign-off, and changes under a generation
\* only by force or when the card was not there yet when the generation looked:
\* whoever completed it in between finds it ready again (prep-cards.ts:285).
OverwrittenOnlyUnseen ==
  [][\A s \in Listed :
       /\ s \in Listed' /\ (cards[s].signed => cards'[s].signed)
       /\ cards'[s] # cards[s] /\ cards'[s].status = "ready" =>
            \E p \in Preps : /\ prep[p].at # "done" /\ prep'[p].answer = 201
                             /\ prep[p].force \/ s \in prep[p].unseen]_prepVars
=============================================================================
