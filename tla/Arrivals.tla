------------------------------- MODULE Arrivals -------------------------------
(***************************************************************************)
(* What front desk and housekeeping see of the bookings: the webhook and    *)
(* guest-svc write guests and stays (Guests), brief-svc turns the stays of  *)
(* a day into a brief (Briefs) and into prep cards (PrepCards). The three   *)
(* share the table of stays; every request of each interleaves with all     *)
(* others between its statements.                                           *)
(***************************************************************************)
EXTENDS Guests

CONSTANTS Generators, Readers, MaxItems, Preps, Completions, TimeOf,
          BriefDay, PrepDay  \* the day of the brief, the day after prep_date

ASSUME BookingsAssumption == IsFiniteSet(Bookings) /\ Bookings \subseteq Nat /\ None \notin Bookings
ASSUME GeneratorsAssumption == 0 \notin Generators /\ MaxItems \in Nat
ASSUME TimeOfAssumption == TimeOf \in [Bookings -> Nat]
ASSUME DaysAssumption == {BriefDay, PrepDay} \subseteq Days

VARIABLES brief, held, gen, read, cards, prep, completion

vars == <<guests, stays, request, brief, held, gen, read, cards, prep, completion>>

\* The guests of the stays that loadArrivals and generatePrepCardsForDate select.
ArrivingOn(day) ==
  [b \in {x \in Bookings : Expected(x) /\ stays[x].day = day} |-> stays[b].guest]

B == INSTANCE Briefs WITH Arrivals <- Bookings, BriefGuests <- Guests,
                          arriving <- ArrivingOn(BriefDay)
P == INSTANCE PrepCards WITH PrepStays <- Bookings, NoStay <- None,
                             arrivingStays <- DOMAIN ArrivingOn(PrepDay)

Init == GuestInit /\ B!BriefInit /\ P!PrepInit

Step(r) ==
  \/ /\ \/ r \in Creates /\ Create(r)
        \/ r \in Patches /\ Patch(r)
        \/ r \in Hooks /\ Hook(r)
     /\ UNCHANGED <<brief, held, gen, read, cards, prep, completion>>
  \/ /\ \/ r \in Generators /\ B!Generate(r)
        \/ r \in Readers /\ B!ShowBrief(r)
     /\ UNCHANGED <<guests, stays, request, cards, prep, completion>>
  \/ /\ \/ r \in Preps /\ P!Prepare(r)
        \/ r \in Completions /\ P!Complete(r)
     /\ UNCHANGED <<guests, stays, request, brief, held, gen, read>>

Next == \E r \in Requests \cup Generators \cup Readers \cup Preps \cup Completions : Step(r)

Spec == Init /\ [][Next]_vars

-----------------------------------------------------------------------------
\* The variables of the three components have their types.
ArrivalsTypeOK == GuestTypeOK /\ B!BriefTypeOK /\ P!PrepTypeOK

\* Items and counts of a brief come from one generation (pipeline.ts:150).
BriefIsOneGeneration == B!BriefIsOneGeneration
\* A generation of prep cards lands as a whole or not at all (prep-cards.ts:162).
PrepAllOrNothing == P!PrepAllOrNothing
\* Cards are overwritten by force, or when unseen (prep-cards.ts:285).
OverwrittenOnlyUnseen == P!OverwrittenOnlyUnseen
=============================================================================
