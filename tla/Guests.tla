-------------------------------- MODULE Guests --------------------------------
(***************************************************************************)
(* The guests and stays of one tenant: POST and PATCH /v1/guests of         *)
(* guest-svc (services/guest/src/service.ts) and the Mews webhook of        *)
(* ingest-svc (services/ingest/src/server.ts), which share both tables.     *)
(*                                                                         *)
(* Every request is one transaction (withTenantContext, READ COMMITTED).    *)
(* The columns are those of migration 0005: no index makes an e-mail or a   *)
(* PMS id unique, guests has no column "email", which the webhook's INSERT  *)
(* names, and attention_flags = n::jsonb casts a number, which PostgreSQL   *)
(* refuses. Statements that fail answer 500 and roll back.                  *)
(***************************************************************************)
EXTENDS Integers, FiniteSets

CONSTANTS
  Creates, Patches, Hooks,  \* requests: POST, PATCH, webhook deliveries
  Guests, Bookings,         \* rows of guests, reservations of the PMS
  Emails, MewsIds, Days,    \* e-mails, the PMS's guest ids, days of arrival
  Lookups,                  \* what webhookSecretLookup may do
  None

Requests == Creates \cup Patches \cup Hooks

ASSUME GuestRequestsAssumption ==
  Creates \cap Patches = {} /\ Creates \cap Hooks = {} /\ Patches \cap Hooks = {}
ASSUME GuestNoneAssumption == None \notin Guests \cup Emails \cup MewsIds
ASSUME NoStayAssumption ==
  None \notin [guest : Guests, day : Days,
               status : {"confirmed", "checked_in", "checked_out", "no_show", "cancelled"}]
ASSUME LookupsAssumption == Lookups \subseteq {"found", "none", "error"}

VARIABLES
  guests,   \* rows of guests, live once inserted
  stays,    \* rows of stays by (tenant, 'mews', booking), None before the first
  request   \* the handlers' local variables

guestVars == <<guests, stays, request>>

-----------------------------------------------------------------------------
\* The values the webhook's schema accepts and those of the type stay_status.
HookStatus == {"booked", "expected", "checked_in", "checked_out", "cancelled"}
StayStatus == {"confirmed", "checked_in", "checked_out", "no_show", "cancelled"}

\* edited is history: a PATCH has set the e-mail since.
Guest == [live : BOOLEAN, email : Emails \cup {None}, mews : MewsIds \cup {None},
          edited : BOOLEAN]
Stay == [guest : Guests, day : Days, status : StayStatus]

Answer == {0, 200, 201, 400, 401, 404, 409, 500, 502}

\* seen is history: the guests that were there when the e-mail was looked up.
Handler == [at : {"new", "insert", "stay", "done"}, answer : Answer,
            email : Emails \cup {None}, mews : MewsIds \cup {None},
            guest : Guests \cup {None}, seen : SUBSET Guests]

NewHandler == [at |-> "new", answer |-> 0, email |-> None, mews |-> None,
               guest |-> None, seen |-> {}]

Live == {g \in Guests : guests[g].live}

\* A stay the day's brief and prep cards count as an arrival.
Expected(b) == stays[b] # None /\ stays[b].status \in {"confirmed", "checked_in"}

Answered(r, code) ==
  request' = [request EXCEPT ![r].at = "done", ![r].answer = code]

Write(g, row) == guests' = [guests EXCEPT ![g] = row]

-----------------------------------------------------------------------------
(* GuestRepo.create: an e-mail is looked up, then the row inserted.          *)

\* Mutant: the e-mail is not looked up.
FindNoDuplicate(c, e, m) ==
  /\ request[c].at = "new"
  /\ request' = [request EXCEPT ![c] = [@ EXCEPT !.at = "insert", !.email = e,
                                                !.mews = m, !.seen = Live]]
  /\ UNCHANGED <<guests, stays>>

FindDuplicate(c, e, m) ==
  /\ request[c].at = "new"
  /\ IF e # None /\ \E g \in Live : guests[g].email = e
     THEN Answered(c, 409)
     ELSE request' = [request EXCEPT ![c] = [@ EXCEPT !.at = "insert", !.email = e,
                                                      !.mews = m, !.seen = Live]]
  /\ UNCHANGED <<guests, stays>>

InsertGuest(c, g) ==
  /\ request[c].at = "insert"
  /\ g \notin Live
  /\ Write(g, [live |-> TRUE, email |-> request[c].email, mews |-> request[c].mews,
               edited |-> FALSE])
  /\ request' = [request EXCEPT ![c] = [@ EXCEPT !.at = "done", !.answer = 201, !.guest = g]]
  /\ UNCHANGED stays

-----------------------------------------------------------------------------
(* GuestRepo.patch: one UPDATE of the columns the body names. The e-mail is  *)
(* not looked up, pms_guest_ids is replaced as a whole.                      *)

PatchGuest(p, g, new) ==
  /\ request[p].at = "new"
  /\ g \in Live
  /\ Write(g, [new EXCEPT !.edited = guests[g].edited \/ new.email # guests[g].email])
  /\ Answered(p, 200)
  /\ UNCHANGED stays

\* No field, no such guest, or the attention flags among the fields.
PatchRefused(p, code) ==
  /\ request[p].at = "new"
  /\ code = 404 => Live # Guests
  /\ Answered(p, code)
  /\ UNCHANGED <<guests, stays>>

-----------------------------------------------------------------------------
(* POST /webhooks/mews: authentication, the schema, then the transaction of  *)
(* ingestMewsReservation.                                                    *)

\* The tenant has no secret (502) or the lookup fails (500): the default lookup
\* casts 'mews' to integration_kind, which has no such value.
SecretMissing(h) ==
  /\ request[h].at = "new"
  /\ \/ "none" \in Lookups /\ Answered(h, 502)
     \/ "error" \in Lookups /\ Answered(h, 500)
  /\ UNCHANGED <<guests, stays>>

\* A header is missing or the signature is not the secret's.
Unauthentic(h) ==
  /\ request[h].at = "new"
  /\ Answered(h, 401)
  /\ UNCHANGED <<guests, stays>>

InvalidPayload(h) ==
  /\ request[h].at = "new" /\ "found" \in Lookups
  /\ Answered(h, 400)
  /\ UNCHANGED <<guests, stays>>

UnknownProperty(h) ==
  /\ request[h].at = "new" /\ "found" \in Lookups
  /\ Answered(h, 404)
  /\ UNCHANGED <<guests, stays>>

\* The SELECT takes any guest with the PMS id; for none the INSERT names the
\* column that is not there.
FindGuest(h, m) ==
  /\ request[h].at = "new" /\ "found" \in Lookups
  /\ IF \E g \in Live : guests[g].mews = m
     THEN \E g \in Live :
            /\ guests[g].mews = m
            /\ request' = [request EXCEPT ![h] = [@ EXCEPT !.at = "stay", !.mews = m, !.guest = g]]
     ELSE Answered(h, 500)
  /\ UNCHANGED <<guests, stays>>

\* Mutant: the status is stored as the PMS names it.
UpsertStayVerbatim(h, b, day, status, inOrder) ==
  /\ request[h].at = "stay"
  /\ stays' = [stays EXCEPT ![b] = [guest |-> IF @ = None THEN request[h].guest ELSE @.guest,
                                    day |-> day, status |-> status]]
  /\ Answered(h, 200)
  /\ UNCHANGED guests

\* The UPDATE of the guest's name (its row locked to the end), the upsert of the
\* stay and the COMMIT: nothing of them shows before the COMMIT and none reads
\* what another transaction writes, so they are one step. A conflicting row
\* keeps its guest. A status the type does not know, or a departure before the
\* arrival, fails.
UpsertStay(h, b, day, status, inOrder) ==
  /\ request[h].at = "stay"
  /\ IF status \in StayStatus /\ inOrder
     THEN /\ stays' = [stays EXCEPT ![b] =
                         [guest |-> IF @ = None THEN request[h].guest ELSE @.guest,
                          day |-> day, status |-> status]]
          /\ Answered(h, 200)
     ELSE Answered(h, 500) /\ UNCHANGED stays
  /\ UNCHANGED guests

-----------------------------------------------------------------------------
GuestInit ==
  /\ guests \in [Guests -> {[live |-> l, email |-> None, mews |-> m, edited |-> FALSE] :
                              l \in BOOLEAN, m \in MewsIds \cup {None}}]
  /\ stays \in [Bookings -> {None} \cup [guest : Live, day : Days, status : StayStatus]]
  /\ request = [r \in Requests |-> NewHandler]

Create(c) ==
  \/ \E e \in Emails \cup {None}, m \in MewsIds \cup {None} : FindDuplicate(c, e, m)
  \/ \E g \in Guests : InsertGuest(c, g)

Patch(p) ==
  \/ \E g \in Guests, e \in Emails \cup {None}, m \in MewsIds \cup {None} :
       PatchGuest(p, g, [guests[g] EXCEPT !.email = e, !.mews = m])
  \/ \E code \in {400, 404, 500} : PatchRefused(p, code)

Hook(h) ==
  \/ SecretMissing(h) \/ Unauthentic(h) \/ InvalidPayload(h) \/ UnknownProperty(h)
  \/ \E m \in MewsIds : FindGuest(h, m)
  \/ \E b \in Bookings, day \in Days, status \in HookStatus, inOrder \in BOOLEAN :
       UpsertStay(h, b, day, status, inOrder)

GuestNext == (\E c \in Creates : Create(c)) \/ (\E p \in Patches : Patch(p)) \/ (\E h \in Hooks : Hook(h))

GuestSpec == GuestInit /\ [][GuestNext]_guestVars
-----------------------------------------------------------------------------
GuestTypeOK ==
  /\ guests \in [Guests -> Guest]
  /\ stays \in [Bookings -> Stay \cup {None}]
  /\ request \in [Requests -> Handler]

\* Two guests get one e-mail only while neither POST saw the other's row, or by
\* a PATCH: no POST adds a second guest to an e-mail it could see (service.ts:58).
NoSerialDuplicate ==
  \A c, d \in Creates :
    /\ c # d /\ request[c].guest # None /\ request[d].guest # None
    /\ request[c].email = request[d].email /\ request[c].email # None
    /\ ~guests[request[c].guest].edited
    => request[c].guest \notin request[d].seen
=============================================================================
