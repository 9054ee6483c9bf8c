------------------------------ MODULE MCArrivals ------------------------------
(* Instances of Arrivals for TLC. Every behaviour has one cast of requests;   *)
(* the others never arrive.                                                   *)
EXTENDS Arrivals

CONSTANTS Casts, g1, g2, g3, m1

VARIABLE cast

SameTime == [b \in Bookings |-> 0]

\* Bound on the first state: g1 came from the PMS, g2 may be there too, g3
\* is not; each booking is new or expected on the day of the brief.
Start ==
  /\ guests[g1].live /\ guests[g1].mews = m1
  /\ guests[g2].mews = None /\ ~guests[g3].live /\ guests[g3].mews = None
  /\ \A b \in Bookings :
       stays[b] # None => (stays[b].day = BriefDay /\ stays[b].status = "confirmed")

MCInit == Init /\ Start /\ cast \in Casts
MCNext == (\E r \in cast : Step(r)) /\ UNCHANGED cast
MCSpec == MCInit /\ [][MCNext]_<<vars, cast>>

=============================================================================
