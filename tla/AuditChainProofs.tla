--------------------------- MODULE AuditChainProofs ---------------------------
(***************************************************************************)
(* Theorems about AuditChain for any number of transactions and events.     *)
(***************************************************************************)
EXTENDS AuditChain, WellFoundedInduction, TLAPS

USE MaxIdAssumption, NoEventAssumption, NoTransactionAssumption

-----------------------------------------------------------------------------
(* The order of the log.                                                   *)

LEMMA LeastNatural ==
  ASSUME NEW T \in SUBSET Nat, T # {}
  PROVE  \E m \in T : \A k \in T : m <= k
  <1> DEFINE R == OpToRel(<, Nat)
  <1>1. IsWellFoundedOn(R, Nat)
    BY NatLessThanWellFounded
  <1>2. \A j, k \in Nat : j < k => <<j, k>> \in R
    BY DEF OpToRel
  <1> HIDE DEF R
  <1>3. PICK m \in T : \A k \in T : ~ (<<k, m>> \in R)
    BY <1>1, WFMin
  <1>4. \A k \in T : ~(k < m)
    BY <1>2, <1>3
  <1>5. QED
    BY <1>3, <1>4

\* Of events with times one is first: the order of the log has no infinite descent.
LEMMA FirstOfTimes ==
  ASSUME NEW S \in SUBSET Ids, S # {}, NEW at, \A e \in S : at[e] \in Nat
  PROVE  \E e \in S : \A f \in S \ {e} : at[e] < at[f] \/ (at[e] = at[f] /\ e < f)
  <1>1. \A e \in S : e \in Nat
    BY DEF Ids
  <1> DEFINE T == {at[e] : e \in S}
  <1>2. T \in SUBSET Nat /\ T # {}
    OBVIOUS
  <1>3. PICK t \in T : \A u \in T : t <= u
    <2> HIDE DEF T
    <2>1. QED
      BY <1>2, LeastNatural
  <1> DEFINE U == {e \in S : at[e] = t}
  <1>4. PICK e \in U : \A f \in U : e <= f
    <2>1. U \in SUBSET Nat /\ U # {}
      BY <1>1, <1>3
    <2>2. QED
      BY <2>1, LeastNatural
  <1>5. QED
    BY <1>1, <1>3, <1>4

\* Any non-empty set of events has a first and a last.
LEMMA FirstAndLast ==
  TypeOK => \A S \in SUBSET Ids :
    S # {} => /\ \E e \in S : \A f \in S \ {e} : Before(e, f)
              /\ \E e \in S : \A f \in S \ {e} : Before(f, e)
  <1> SUFFICES ASSUME TypeOK, NEW S \in SUBSET Ids, S # {}
               PROVE  /\ \E e \in S : \A f \in S \ {e} : Before(e, f)
                      /\ \E e \in S : \A f \in S \ {e} : Before(f, e)
    OBVIOUS
  <1> DEFINE at(e) == log[e].occurred_at
  <1>1. clock \in Nat /\ \A e \in Ids : at(e) \in 0 .. clock /\ e \in 1 .. MaxId
    BY DEF TypeOK, Event, Ids
  <1>2. \E e \in S : \A f \in S \ {e} : Before(e, f)
    <2> DEFINE time == [e \in S |-> at(e)]
    <2>1. \A e \in S : time[e] = at(e) /\ time[e] \in Nat
      BY <1>1
    <2> HIDE DEF time
    <2>2. PICK e \in S : \A f \in S \ {e} : time[e] < time[f] \/ (time[e] = time[f] /\ e < f)
      BY <2>1, FirstOfTimes
    <2>3. QED
      BY <2>1, <2>2 DEF Before, SortsBefore
  <1>3. \E e \in S : \A f \in S \ {e} : Before(f, e)
    <2> DEFINE T == {clock - at(e) : e \in S}
    <2>1. PICK t \in T : \A u \in T : t <= u
      <3>1. T \in SUBSET Nat /\ T # {}
        BY <1>1
      <3>2. QED
        BY <3>1, LeastNatural
    <2> DEFINE U == {e \in S : clock - at(e) = t}
    <2> DEFINE V == {MaxId - e : e \in U}
    <2>2. PICK v \in V : \A w \in V : v <= w
      <3>1. V \in SUBSET Nat /\ V # {}
        BY <1>1, <2>1
      <3>2. QED
        BY <3>1, LeastNatural
    <2>3. PICK e \in U : v = MaxId - e
      BY <2>2
    <2>4. \A f \in U : MaxId - e <= MaxId - f
      BY <2>2, <2>3
    <2>5. \A f \in S : clock - at(e) <= clock - at(f)
      BY <2>1, <2>3
    <2>6. \A f \in S \ {e} : at(f) < at(e) \/ (at(f) = at(e) /\ f < e)
      <3> SUFFICES ASSUME NEW f \in S \ {e}
                   PROVE  at(f) < at(e) \/ (at(f) = at(e) /\ f < e)
        OBVIOUS
      <3>1. CASE at(f) = at(e)
        BY <3>1, <1>1, <2>3, <2>4
      <3>2. CASE at(f) # at(e)
        BY <3>2, <1>1, <2>5
      <3>3. QED
        BY <3>1, <3>2
    <2>7. QED
      BY <2>3, <2>6 DEF Before, SortsBefore
  <1>4. QED
    BY <1>2, <1>3

TotalOrder ==
  /\ \A e, f \in Ids : ~(Before(e, f) /\ Before(f, e))
  /\ \A e, f \in Ids : e # f => Before(e, f) \/ Before(f, e)
  /\ \A e, f, g \in Ids : Before(e, f) /\ Before(f, g) => Before(e, g)

LEMMA BeforeIsOrder == TypeOK => TotalOrder
  <1> SUFFICES ASSUME TypeOK
               PROVE  TotalOrder
    OBVIOUS
  <1>1. \A e \in Ids : log[e].occurred_at \in Nat /\ e \in Nat
    BY DEF TypeOK, Event, Ids
  <1>2. QED
    BY <1>1 DEF TotalOrder, Before, SortsBefore

LEMMA BeforeIsOrderNext == TypeOK' => TotalOrder'
  BY BeforeIsOrder, PTL

\* Latest is what it is said to be, and only the last event of a set is.
LatestFacts ==
  \A S \in SUBSET Ids :
    /\ S = {} => Latest(S) = NoEvent
    /\ S # {} => Latest(S) \in S /\ \A f \in S \ {Latest(S)} : Before(f, Latest(S))
    /\ \A e \in S : (\A f \in S \ {e} : Before(f, e)) => Latest(S) = e

LEMMA LatestIsLast == TypeOK => LatestFacts
  <1> SUFFICES ASSUME TypeOK, NEW S \in SUBSET Ids
               PROVE  LatestFacts!(S)
    BY DEF LatestFacts
  <1>1. S = {} => Latest(S) = NoEvent
    BY DEF Latest
  <1>2. S # {} => Latest(S) \in S /\ \A f \in S \ {Latest(S)} : Before(f, Latest(S))
    BY FirstAndLast DEF Latest
  <1>3. ASSUME NEW e \in S, \A f \in S \ {e} : Before(f, e)
        PROVE  Latest(S) = e
    BY <1>2, <1>3, BeforeIsOrder DEF TotalOrder
  <1>4. QED
    BY <1>1, <1>2, <1>3

LEMMA LatestIsLastNext == TypeOK' => LatestFacts'
  BY LatestIsLast, PTL

\* It stays the last as long as no time of the set changes.
LEMMA LatestKept ==
  ASSUME TypeOK, TypeOK', NEW S \in SUBSET Ids,
         \A e \in S : log'[e].occurred_at = log[e].occurred_at
  PROVE  Latest(S)' = Latest(S)
  <1>1. \A e, f \in S : Before(e, f)' <=> Before(e, f)
    BY DEF Before, SortsBefore
  <1>2. CASE S = {}
    BY <1>2, LatestIsLast, LatestIsLastNext DEF LatestFacts
  <1>3. CASE S # {}
    <2>1. PICK m \in S : m = Latest(S) /\ \A f \in S \ {m} : Before(f, m)
      BY <1>3, LatestIsLast DEF LatestFacts
    <2>2. \A f \in S \ {m} : Before(f, m)'
      BY <1>1, <2>1
    <2>3. QED
      BY <2>1, <2>2, LatestIsLastNext DEF LatestFacts
  <1>4. QED
    BY <1>2, <1>3

-----------------------------------------------------------------------------
(* Types.                                                                  *)

LEMMA Types ==
  ASSUME TypeOK
  PROVE  /\ clock \in Nat /\ disorder \in BOOLEAN /\ changes \in Nat
         /\ \A e \in Ids :
              /\ log[e] \in Event
              /\ log[e].state \in {"free", "pending", "stored", "removed"}
              /\ log[e].occurred_at \in 0 .. clock
              /\ log[e].chained \in Ids \cup {NoEvent}
              /\ log[e].intact \in BOOLEAN
              /\ log[e].by \in Transactions \cup {NoTransaction}
         /\ \A x \in Transactions : tx[x].now \in 0 .. clock
  BY DEF TypeOK, Event, Transaction

LEMMA VisibleEvents ==
  ASSUME TypeOK, NEW x \in Transactions
  PROVE  /\ Visible(x) \in SUBSET Ids
         /\ Latest(Visible(x)) \in Visible(x) \cup {NoEvent}
         /\ Latest(Visible(x)) \in Ids \cup {NoEvent}
  <1>1. Visible(x) \in SUBSET Ids
    BY DEF Visible, Stored
  <1>2. QED
    BY <1>1, LatestIsLast DEF LatestFacts

\* The event Emit inserts; the others are left alone.
LEMMA Emitted ==
  ASSUME TypeOK, NEW x \in Transactions, NEW e \in Ids, Emit(x, e)
  PROVE  /\ log' \in [Ids -> Event] /\ log'[e] \in Event
         /\ log'[e].state = "pending" /\ log'[e].by = x
         /\ log'[e].occurred_at = tx[x].now
         /\ log'[e].chained = Latest(Visible(x)) /\ log'[e].intact
         /\ \A f \in Ids \ {e} : log'[f] = log[f]
  <1> DEFINE last == Latest(Visible(x))
             new == [state |-> "pending", occurred_at |-> tx[x].now, intact |-> TRUE,
                     chained |-> last, by |-> x]
  <1>1. last \in Ids \cup {NoEvent} /\ tx[x].now \in 0 .. clock
    BY VisibleEvents, Types
  <1>2. log' = [log EXCEPT ![e] = new] /\ log \in [Ids -> Event] /\ clock' = clock
    BY DEF Emit, TypeOK
  <1> HIDE DEF last
  <1>3. new \in Event
    BY <1>1 DEF Event
  <1>4. /\ new.state = "pending" /\ new.by = x /\ new.occurred_at = tx[x].now
        /\ new.chained = last /\ new.intact
    OBVIOUS
  <1> HIDE DEF new
  <1>5. QED
    BY <1>2, <1>3, <1>4 DEF last

\* What Commit and RollBack do to the events of their transaction.
LEMMA Committed ==
  ASSUME TypeOK, NEW x \in Transactions, Commit(x)
  PROVE  /\ log' \in [Ids -> Event]
         /\ \A e \in Ids :
              IF log[e].state = "pending" /\ log[e].by = x
              THEN /\ log'[e].state = "stored"
                   /\ log'[e].chained = log[e].chained
                   /\ log'[e].occurred_at = log[e].occurred_at
                   /\ log'[e].intact = log[e].intact
              ELSE log'[e] = log[e]
  <1>1. \A e \in Ids : log[e] \in Event /\ [log[e] EXCEPT !.state = "stored"] \in Event
    BY DEF TypeOK, Event
  <1>2. \A e \in Ids : LET g == [log[e] EXCEPT !.state = "stored"] IN
          /\ g.state = "stored" /\ g.chained = log[e].chained
          /\ g.occurred_at = log[e].occurred_at /\ g.intact = log[e].intact
    BY <1>1 DEF Event
  <1>3. QED
    BY <1>1, <1>2 DEF Commit

LEMMA RolledBack ==
  ASSUME TypeOK, NEW x \in Transactions, RollBack(x)
  PROVE  /\ log' \in [Ids -> Event]
         /\ \A e \in Ids :
              IF log[e].state = "pending" /\ log[e].by = x
              THEN log'[e].state = "free"
              ELSE log'[e] = log[e]
  <1>1. FreeEvent \in Event /\ FreeEvent.state = "free"
    BY Types DEF FreeEvent, Event
  <1>2. QED
    BY <1>1, Types DEF RollBack

\* A column, a hash or the state of one stored event.
OneEventChanged(e) ==
  /\ log' \in [Ids -> Event]
  /\ log[e].state = "stored" /\ log'[e].state \in {"stored", "removed"}
  /\ log'[e].chained = log[e].chained
  /\ \A f \in Ids \ {e} : log'[f] = log[f]
  /\ event_hash' = [f \in Ids |-> event_hash'[f]]
  /\ previous_hash' = [f \in Ids |-> previous_hash'[f]]
  /\ changes' = changes + 1
  /\ UNCHANGED <<tx, clock, disorder, held>>

LEMMA TamperedWith ==
  ASSUME TypeOK, NEW e \in Ids, Tamper(e)
  PROVE  OneEventChanged(e)
  <1>1. Change(e) => log[e].state = "stored" /\ changes' = changes + 1
    BY DEF Change, Stored
  <1>2. /\ event_hash = [f \in Ids |-> event_hash[f]]
        /\ previous_hash = [f \in Ids |-> previous_hash[f]]
        /\ log \in [Ids -> Event]
    BY DEF TypeOK
  <1>3. ASSUME NEW time \in 0 .. clock, NEW intact \in BOOLEAN, AlterColumn(e, time, intact)
        PROVE  OneEventChanged(e)
    <2> DEFINE g == [[log[e] EXCEPT !.intact = intact] EXCEPT !.occurred_at = time]
    <2>1. g \in Event /\ g.state = log[e].state /\ g.chained = log[e].chained
      BY Types DEF Event
    <2>2. log' = [log EXCEPT ![e] = g]
      BY <1>2, <1>3, Types DEF AlterColumn, Event
    <2> HIDE DEF g
    <2>3. log' \in [Ids -> Event] /\ log'[e] = g /\ \A f \in Ids \ {e} : log'[f] = log[f]
      BY <1>2, <2>1, <2>2
    <2>4. /\ UNCHANGED <<event_hash, previous_hash, tx, clock, disorder, held>>
          /\ Change(e)
      BY <1>3 DEF AlterColumn
    <2>5. QED
      BY <1>1, <1>2, <2>1, <2>3, <2>4 DEF OneEventChanged
  <1>4. ASSUME NEW p \in Ids \cup {NoEvent}, AlterLink(e, p)
        PROVE  OneEventChanged(e)
    <2>1. previous_hash' = [f \in Ids |-> previous_hash'[f]]
      BY <1>2, <1>4 DEF AlterLink
    <2>2. QED
      BY <1>1, <1>2, <1>4, <2>1 DEF AlterLink, OneEventChanged
  <1>5. ASSUME Rehash(e)
        PROVE  OneEventChanged(e)
    <2>1. /\ previous_hash' = [f \in Ids |-> previous_hash'[f]]
          /\ event_hash' = [f \in Ids |-> event_hash'[f]]
      BY <1>2, <1>5 DEF Rehash
    <2>2. QED
      BY <1>1, <1>2, <1>5, <2>1 DEF Rehash, OneEventChanged
  <1>6. ASSUME Remove(e)
        PROVE  OneEventChanged(e)
    <2> DEFINE g == [log[e] EXCEPT !.state = "removed"]
    <2>1. g \in Event /\ g.state = "removed" /\ g.chained = log[e].chained
      BY Types DEF Event
    <2>2. log' = [log EXCEPT ![e] = g]
      BY <1>6 DEF Remove
    <2> HIDE DEF g
    <2>3. log' \in [Ids -> Event] /\ log'[e] = g /\ \A f \in Ids \ {e} : log'[f] = log[f]
      BY <1>2, <2>1, <2>2
    <2>4. QED
      BY <1>1, <1>2, <1>6, <2>1, <2>3 DEF Remove, OneEventChanged
  <1>7. QED
    BY <1>3, <1>4, <1>5, <1>6 DEF Tamper

LEMMA TypeStep == TypeOK /\ [Next]_vars => TypeOK'
  <1> SUFFICES ASSUME TypeOK, [Next]_vars
               PROVE  TypeOK'
    OBVIOUS
  <1>1. ASSUME NEW x \in Transactions, Begin(x)
        PROVE  TypeOK'
    <2>1. clock' \in Nat /\ clock <= clock' /\ log' = log /\ disorder' \in BOOLEAN
      BY <1>1, Types DEF Begin
    <2>2. Event \subseteq Event'
      BY <2>1, Types DEF Event
    <2>3. tx' \in [Transactions -> Transaction']
      <3>1. \A y \in Transactions : tx[y] \in Transaction'
        BY <2>1, Types DEF TypeOK, Transaction
      <3>2. [at |-> "open", now |-> clock'] \in Transaction'
        BY <2>1 DEF Transaction
      <3>3. QED
        BY <1>1, <3>1, <3>2 DEF Begin, TypeOK
    <2>4. UNCHANGED <<event_hash, previous_hash, changes>>
      BY <1>1 DEF Begin
    <2>5. QED
      BY <2>1, <2>2, <2>3, <2>4 DEF TypeOK
  <1>2. ASSUME NEW x \in Transactions, NEW e \in Ids, Emit(x, e)
        PROVE  TypeOK'
    <2>1. log' \in [Ids -> Event] /\ disorder' \in BOOLEAN /\ UNCHANGED <<tx, clock, changes>>
      BY <1>2, Emitted, Types DEF Emit
    <2>2. /\ previous_hash' = [f \in Ids |-> previous_hash'[f]]
          /\ event_hash' = [f \in Ids |-> event_hash'[f]]
      BY <1>2 DEF Emit, TypeOK
    <2>3. Event' = Event /\ Transaction' = Transaction
      BY <2>1 DEF Event, Transaction
    <2>4. QED
      BY <2>1, <2>2, <2>3 DEF TypeOK
  <1>3. ASSUME NEW x \in Transactions, Commit(x) \/ RollBack(x)
        PROVE  TypeOK'
    <2>1. /\ log' \in [Ids -> Event]
          /\ UNCHANGED <<clock, event_hash, previous_hash, disorder, changes>>
      BY <1>3, Committed, RolledBack DEF Commit, RollBack
    <2>2. tx' \in [Transactions -> Transaction]
      BY <1>3 DEF Commit, RollBack, TypeOK, Transaction
    <2>3. QED
      BY <2>1, <2>2 DEF TypeOK, Event, Transaction
  <1>4. ASSUME NEW e \in Ids, HoldHash(e)
        PROVE  TypeOK'
    BY <1>4 DEF HoldHash, TypeOK, Event, Transaction
  <1>5. ASSUME NEW e \in Ids, Tamper(e)
        PROVE  TypeOK'
    BY <1>5, TamperedWith, Types DEF OneEventChanged, TypeOK, Event, Transaction
  <1>6. CASE UNCHANGED vars
    BY <1>6 DEF vars, TypeOK, Event, Transaction
  <1>7. QED
    BY <1>1, <1>2, <1>3, <1>4, <1>5, <1>6 DEF Next

-----------------------------------------------------------------------------
(* The steps keep the invariant.                                           *)

LEMMA BeginStep ==
  ASSUME IInv, TypeOK', NEW x \in Transactions, Begin(x)
  PROVE  IInv'
  <1>1. /\ log' = log /\ tx[x].at = "new"
        /\ Open' = Open \cup {x}
        /\ disorder' = (disorder \/ Open # {})
        /\ UNCHANGED <<event_hash, previous_hash, changes>>
    BY DEF IInv, TypeOK, Begin, Open
  <1>2. Stored' = Stored /\ Live' = Live
    BY <1>1 DEF Stored, Live
  <1>3. PredecessorsSurvive' /\ PendingOK'
    BY <1>1, <1>2 DEF IInv, PredecessorsSurvive, PendingOK
  <1>4. OrderOK'
    <2> SUFFICES ASSUME ~disorder', changes' = 0
                 PROVE  /\ \A y, z \in Open' : y = z
                        /\ \A e \in Stored', f \in Live' \ Stored' : Before(e, f)'
                        /\ \A e \in Live' : log'[e].chained = Latest({f \in Live : Before(f, e)})'
      BY DEF OrderOK
    <2>1. ~disorder /\ changes = 0 /\ Open' = {x}
      BY <1>1, <1>2
    <2>2. \A e \in Live : log'[e].chained = Latest({f \in Live : Before(f, e)})'
      <3> SUFFICES ASSUME NEW e \in Live
                   PROVE  log'[e].chained = Latest({f \in Live : Before(f, e)})'
        OBVIOUS
      <3>1. Latest({f \in Live : Before(f, e)})' = Latest({f \in Live : Before(f, e)})
        BY <1>1, <1>2 DEF Latest, Before, SortsBefore
      <3>2. QED
        BY <1>1, <2>1, <3>1 DEF IInv, OrderOK
    <2>3. QED
      BY <1>1, <1>2, <2>1, <2>2 DEF IInv, OrderOK, Before, SortsBefore
  <1>5. HashesOK'
    BY <1>1, <1>2 DEF IInv, HashesOK, HashOf, Digest, NoHash
  <1>6. QED
    BY <1>3, <1>4, <1>5 DEF IInv

\* In an orderly log a transaction's new event goes after all that are live.
LEMMA EmitStep ==
  ASSUME IInv, TypeOK', NEW x \in Transactions, NEW e \in Ids, Emit(x, e)
  PROVE  IInv'
  <1>0. TypeOK /\ PredecessorsSurvive /\ PendingOK /\ OrderOK /\ HashesOK
    BY DEF IInv
  <1> DEFINE last == Latest(Visible(x))
  <1>1. /\ log[e].state = "free"
        /\ log'[e].state = "pending" /\ log'[e].by = x /\ log'[e].chained = last
        /\ log'[e].occurred_at = tx[x].now /\ log'[e].intact
        /\ \A f \in Ids \ {e} : log'[f] = log[f]
        /\ disorder' = (disorder \/ (last # NoEvent /\ SortsBefore(tx[x].now, e, last)))
        /\ Open' = Open /\ x \in Open /\ changes' = changes
    BY <1>0, Emitted DEF Emit, Open
  <1>2. last \in Visible(x) \cup {NoEvent}
    BY <1>0, VisibleEvents
  <1>3. /\ Stored' = Stored /\ e \notin Stored
        /\ Live' = Live \cup {e} /\ e \notin Live
    BY <1>1 DEF Stored, Live
  <1>4. PredecessorsSurvive'
    BY <1>0, <1>1, <1>3, Types DEF PredecessorsSurvive, Stored
  <1>5. PendingOK'
    <2> SUFFICES ASSUME NEW g \in Live' \ Stored'
                 PROVE  PendingOK!(g)'
      BY DEF PendingOK
    <2>1. CASE g = e
      <3>1. last # NoEvent => /\ last \in Ids \ {e}
                              /\ log[last].state = "stored" \/ (log[last].state = "pending" /\ log[last].by = x)
        BY <1>1, <1>2 DEF Visible, Stored
      <3> HIDE DEF last
      <3>2. QED
        BY <1>1, <2>1, <3>1
    <2>2. CASE g # e
      <3>1. g \in Live \ Stored /\ log'[g] = log[g]
        BY <1>1, <1>3, <2>2 DEF Live
      <3>2. log[g].chained # NoEvent => log[g].chained \in Ids \ {e}
        BY <1>0, <1>1, <3>1, Types DEF PendingOK, Live
      <3>3. QED
        BY <1>0, <1>1, <3>1, <3>2 DEF PendingOK
    <2>3. QED
      BY <2>1, <2>2
  <1>6. OrderOK'
    <2> SUFFICES ASSUME ~disorder', changes' = 0
                 PROVE  /\ \A y, z \in Open' : y = z
                        /\ \A f \in Stored', g \in Live' \ Stored' : Before(f, g)'
                        /\ \A g \in Live' : log'[g].chained = Latest({f \in Live : Before(f, g)})'
      BY DEF OrderOK
    <2>1. /\ ~disorder /\ changes = 0
          /\ \A y, z \in Open : y = z
          /\ \A f \in Stored, g \in Live \ Stored : Before(f, g)
          /\ \A g \in Live : log[g].chained = Latest({f \in Live : Before(f, g)})
      BY <1>0, <1>1, <1>3 DEF OrderOK
    <2>2. Visible(x) = Live
      BY <1>0, <1>1, <2>1 DEF Visible, PendingOK, Live, Stored
    <2>3. \A f, g \in Ids \ {e} : Before(f, g)' <=> Before(f, g)
      BY <1>1 DEF Before, SortsBefore
    <2>4. \A f \in Live : Before(f, e)'
      <3>1. CASE Live = {}
        BY <3>1
      <3>2. CASE Live # {}
        <4>1. PICK l \in Live : l = last /\ \A f \in Live \ {l} : Before(f, l)
          BY <1>0, <2>2, <3>2, LatestIsLast DEF LatestFacts, Live
        <4>2. l \in Ids \ {e} /\ l # NoEvent
          BY <1>3, <4>1 DEF Live
        <4>3. ~SortsBefore(tx[x].now, e, l)
          BY <1>1, <4>1, <4>2
        <4>4. ~Before(e, l)'
          BY <1>1, <4>2, <4>3 DEF Before, SortsBefore
        <4>5. Before(l, e)'
          BY <4>2, <4>4, BeforeIsOrderNext DEF TotalOrder
        <4>6. \A f \in Live \ {l} : f \in Ids \ {e} /\ Before(f, l)'
          BY <1>3, <2>3, <4>1, <4>2 DEF Live
        <4>7. QED
          BY <4>2, <4>5, <4>6, BeforeIsOrderNext DEF TotalOrder
      <3>3. QED
        BY <3>1, <3>2
    <2>5. \A f \in Stored', g \in Live' \ Stored' : Before(f, g)'
      BY <1>3, <2>1, <2>3, <2>4 DEF Live, Stored
    <2>6. ASSUME NEW g \in Live'
          PROVE  log'[g].chained = Latest({f \in Live : Before(f, g)})'
      <3>1. CASE g = e
        <4>1. {f \in Live : Before(f, e)}' = Live
          BY <1>3, <2>4, BeforeIsOrderNext DEF TotalOrder, Live
        <4>2. PICK S \in SUBSET Ids : S = Live
          BY DEF Live
        <4>3. Latest(S)' = Latest(S)
          BY <1>0, <1>1, <1>3, <4>2, LatestKept
        <4>4. last = Latest(S)
          BY <2>2, <4>2
        <4>5. Latest({f \in Live : Before(f, e)})' = Latest(S)'
          BY <4>1, <4>2
        <4>6. QED
          BY <1>1, <3>1, <4>3, <4>4, <4>5
      <3>2. CASE g # e
        <4>1. g \in Live /\ g \in Ids \ {e} /\ log'[g] = log[g]
          BY <1>1, <1>3, <3>2 DEF Live
        <4>2. ~Before(e, g)'
          BY <2>4, <4>1, BeforeIsOrderNext DEF TotalOrder
        <4>3. {f \in Live : Before(f, g)}' = {f \in Live : Before(f, g)}
          BY <1>3, <2>3, <4>1, <4>2 DEF Live
        <4>4. PICK S \in SUBSET Ids : S = {f \in Live : Before(f, g)}
          BY DEF Live
        <4>5. Latest(S)' = Latest(S)
          BY <1>0, <1>1, <1>3, <4>4, LatestKept
        <4>6. Latest({f \in Live : Before(f, g)})' = Latest(S)'
          BY <4>3, <4>4
        <4>7. QED
          BY <2>1, <4>1, <4>4, <4>5, <4>6
      <3>3. QED
        BY <3>1, <3>2
    <2>7. QED
      BY <1>1, <2>1, <2>5, <2>6
  <1>7. HashesOK'
    <2>1. /\ \A f \in Ids \ {e} : event_hash'[f] = event_hash[f] /\ previous_hash'[f] = previous_hash[f]
          /\ previous_hash'[e] = HashOf(last)
          /\ event_hash'[e] = Digest(e, TRUE, tx[x].now, HashOf(last))
      BY <1>0 DEF Emit, TypeOK
    <2> HIDE DEF last
    <2>2. \A f \in (Ids \ {e}) \cup {NoEvent} : HashOf(f)' = HashOf(f)
      BY <2>1 DEF HashOf, NoHash
    <2>3. last \in (Ids \ {e}) \cup {NoEvent}
      BY <1>1, <1>2 DEF Visible, Stored
    <2>4. HashOf(log[e].chained)' = HashOf(last)
      <3>1. PICK p \in (Ids \ {e}) \cup {NoEvent} : p = last
        BY <2>3
      <3>2. HashOf(p)' = HashOf(p) /\ log'[e].chained = p
        BY <1>1, <2>2, <3>1 DEF last
      <3>3. HashOf(log[e].chained)' = HashOf(p)'
        BY <3>2
      <3>4. QED
        BY <3>1, <3>2, <3>3
    <2>5. ASSUME changes = 0, NEW g \in Live
          PROVE  /\ log'[g].intact
                 /\ previous_hash'[g] = HashOf(log[g].chained)'
                 /\ event_hash'[g] = Digest(g, TRUE, log'[g].occurred_at, HashOf(log[g].chained)')
      <3>1. g \in Ids \ {e} /\ log'[g] = log[g]
        BY <1>1, <1>3 DEF Live
      <3>2. log[g].chained \in (Ids \ {e}) \cup {NoEvent}
        BY <1>0, <1>1, <3>1, Types DEF PendingOK, PredecessorsSurvive, Live, Stored
      <3>3. HashOf(log[g].chained)' = HashOf(log[g].chained)
        <4>1. PICK p \in (Ids \ {e}) \cup {NoEvent} : p = log[g].chained
          BY <3>2
        <4>2. HashOf(p)' = HashOf(p) /\ log'[g].chained = p
          BY <2>2, <3>1, <4>1
        <4>3. HashOf(log[g].chained)' = HashOf(p)'
          BY <4>2
        <4>4. QED
          BY <4>1, <4>2, <4>3
      <3>4. QED
        BY <1>0, <2>1, <2>5, <3>1, <3>3 DEF HashesOK
    <2>6. /\ log'[e].intact
          /\ previous_hash'[e] = HashOf(log[e].chained)'
          /\ event_hash'[e] = Digest(e, TRUE, log'[e].occurred_at, HashOf(log[e].chained)')
      BY <1>1, <2>1, <2>4
    <2>7. HashesOK' <=>
            (changes' = 0 => \A g \in Live' :
               /\ log'[g].intact
               /\ previous_hash'[g] = HashOf(log[g].chained)'
               /\ event_hash'[g] = Digest(g, TRUE, log'[g].occurred_at, HashOf(log[g].chained)'))
      BY DEF HashesOK, Digest
    <2>8. QED
      BY <1>1, <1>3, <2>5, <2>6, <2>7
  <1>8. QED
    BY <1>4, <1>5, <1>6, <1>7 DEF IInv

LEMMA CommitStep ==
  ASSUME IInv, TypeOK', NEW x \in Transactions, Commit(x)
  PROVE  IInv'
  <1>0. TypeOK /\ PredecessorsSurvive /\ PendingOK /\ OrderOK /\ HashesOK
    BY DEF IInv
  <1>1. \A e \in Ids :
          /\ log'[e].chained = log[e].chained
          /\ log'[e].occurred_at = log[e].occurred_at
          /\ log'[e].intact = log[e].intact
          /\ IF log[e].state = "pending" /\ log[e].by = x
             THEN log'[e].state = "stored"
             ELSE log'[e] = log[e]
    BY <1>0, Committed
  <1>2. /\ Open' = Open \ {x} /\ x \in Open /\ disorder' = disorder
        /\ Live' = Live
        /\ Stored' = Stored \cup {e \in Live : log[e].state = "pending" /\ log[e].by = x}
        /\ UNCHANGED <<event_hash, previous_hash, changes>>
    BY <1>0, <1>1 DEF Commit, TypeOK, Open, Live, Stored
  <1>3. \A e \in Ids : log[e].state \in {"stored", "removed"} => log'[e] = log[e]
    BY <1>1
  <1>4. PredecessorsSurvive'
    <2> SUFFICES ASSUME NEW e \in Stored', log[e].chained # NoEvent
                 PROVE  log'[log[e].chained].state \in {"stored", "removed"}
      BY <1>1 DEF PredecessorsSurvive, Stored
    <2>1. e \in Ids /\ log[e].chained \in Ids
      BY <1>0, Types DEF Stored
    <2>2. CASE e \in Stored
      BY <1>0, <1>3, <2>1, <2>2 DEF PredecessorsSurvive
    <2>3. CASE e \notin Stored
      <3>1. e \in Live \ Stored /\ log[e].by = x
        BY <1>2, <2>3
      <3>2. QED
        BY <1>0, <1>1, <1>3, <2>1, <3>1 DEF PendingOK
    <2>4. QED
      BY <2>2, <2>3
  <1>5. PendingOK'
    <2> SUFFICES ASSUME NEW e \in Live' \ Stored'
                 PROVE  PendingOK!(e)'
      BY DEF PendingOK
    <2>1. e \in Live \ Stored /\ log[e].by # x /\ log'[e] = log[e]
      BY <1>1, <1>2 DEF Live, Stored
    <2>2. log[e].chained # NoEvent => log[e].chained \in Ids
      BY <1>0, <2>1, Types DEF Live
    <2>3. QED
      BY <1>0, <1>1, <1>2, <1>3, <2>1, <2>2 DEF PendingOK
  <1>6. OrderOK'
    <2> SUFFICES ASSUME ~disorder', changes' = 0
                 PROVE  /\ \A y, z \in Open' : y = z
                        /\ \A f \in Stored', g \in Live' \ Stored' : Before(f, g)'
                        /\ \A g \in Live' : log'[g].chained = Latest({f \in Live : Before(f, g)})'
      BY DEF OrderOK
    <2>1. /\ ~disorder /\ changes = 0
          /\ \A y, z \in Open : y = z
          /\ \A g \in Live : log[g].chained = Latest({f \in Live : Before(f, g)})
      BY <1>0, <1>2 DEF OrderOK
    <2>2. Live' \ Stored' = {}
      BY <1>0, <1>2, <2>1 DEF PendingOK, Live, Stored
    <2>3. ASSUME NEW g \in Live'
          PROVE  log'[g].chained = Latest({f \in Live : Before(f, g)})'
      <3>1. {f \in Live : Before(f, g)}' = {f \in Live : Before(f, g)} /\ g \in Live
        BY <1>1, <1>2 DEF Live, Before, SortsBefore
      <3>2. PICK S \in SUBSET Ids : S = {f \in Live : Before(f, g)}
        BY DEF Live
      <3>3. Latest(S)' = Latest(S)
        BY <1>0, <1>1, <3>2, LatestKept
      <3>4. Latest({f \in Live : Before(f, g)})' = Latest(S)'
        BY <3>1, <3>2
      <3>5. log'[g].chained = log[g].chained
        BY <1>1, <3>1 DEF Live
      <3>6. QED
        BY <2>1, <3>1, <3>2, <3>3, <3>4, <3>5
    <2>4. QED
      BY <1>2, <2>1, <2>2, <2>3
  <1>7. HashesOK'
    <2>1. \A g \in Live' :
            /\ g \in Live /\ log'[g].intact = log[g].intact
            /\ log'[g].chained = log[g].chained /\ log'[g].occurred_at = log[g].occurred_at
      BY <1>1, <1>2 DEF Live
    <2>2. QED
      BY <1>0, <1>2, <2>1 DEF HashesOK, HashOf, Digest, NoHash
  <1>8. QED
    BY <1>4, <1>5, <1>6, <1>7 DEF IInv

LEMMA RollBackStep ==
  ASSUME IInv, TypeOK', NEW x \in Transactions, RollBack(x)
  PROVE  IInv'
  <1>0. TypeOK /\ PredecessorsSurvive /\ PendingOK /\ OrderOK /\ HashesOK
    BY DEF IInv
  <1>1. \A e \in Ids : IF log[e].state = "pending" /\ log[e].by = x
                       THEN log'[e].state = "free"
                       ELSE log'[e] = log[e]
    BY <1>0, RolledBack
  <1>2. /\ Open' = Open \ {x} /\ x \in Open /\ disorder' = disorder
        /\ Stored' = Stored
        /\ Live' = Live \ {e \in Live : log[e].state = "pending" /\ log[e].by = x}
        /\ UNCHANGED <<event_hash, previous_hash, changes>>
    BY <1>0, <1>1 DEF RollBack, TypeOK, Open, Live, Stored
  <1>3. \A e \in Ids : log[e].state \in {"stored", "removed"} => log'[e] = log[e]
    BY <1>1
  <1>4. PredecessorsSurvive'
    BY <1>0, <1>2, <1>3, Types DEF PredecessorsSurvive, Stored
  <1>5. PendingOK'
    <2> SUFFICES ASSUME NEW e \in Live' \ Stored'
                 PROVE  PendingOK!(e)'
      BY DEF PendingOK
    <2>1. e \in Live \ Stored /\ log[e].by # x /\ log'[e] = log[e]
      BY <1>1, <1>2 DEF Live, Stored
    <2>2. log[e].chained # NoEvent => log[e].chained \in Ids
      BY <1>0, <2>1, Types DEF Live
    <2>3. QED
      BY <1>0, <1>1, <1>2, <1>3, <2>1, <2>2 DEF PendingOK
  <1>6. OrderOK'
    <2> SUFFICES ASSUME ~disorder', changes' = 0
                 PROVE  /\ \A y, z \in Open' : y = z
                        /\ \A f \in Stored', g \in Live' \ Stored' : Before(f, g)'
                        /\ \A g \in Live' : log'[g].chained = Latest({f \in Live : Before(f, g)})'
      BY DEF OrderOK
    <2>1. /\ ~disorder /\ changes = 0
          /\ \A y, z \in Open : y = z
          /\ \A f \in Stored, g \in Live \ Stored : Before(f, g)
          /\ \A g \in Live : log[g].chained = Latest({f \in Live : Before(f, g)})
      BY <1>0, <1>2 DEF OrderOK
    <2>2. Live' = Stored'
      BY <1>0, <1>2, <2>1 DEF PendingOK, Live, Stored
    <2>3. ASSUME NEW g \in Live'
          PROVE  log'[g].chained = Latest({f \in Live : Before(f, g)})'
      <3>1. g \in Stored /\ g \in Live /\ \A f \in Stored : f \in Ids /\ log'[f] = log[f]
        BY <1>2, <1>3, <2>2 DEF Stored, Live
      <3>2. \A f \in Live \ Stored : ~Before(f, g)
        BY <1>0, <2>1, <3>1, BeforeIsOrder DEF TotalOrder, Live
      <3>3. {f \in Live : Before(f, g)}' = {f \in Live : Before(f, g)}
        <4>1. \A f \in Stored : Before(f, g)' <=> Before(f, g)
          BY <3>1 DEF Before, SortsBefore
        <4>2. Stored \subseteq Live
          BY DEF Stored, Live
        <4>3. QED
          BY <1>2, <2>2, <3>2, <4>1, <4>2
      <3>4. PICK S \in SUBSET Ids : S = {f \in Live : Before(f, g)}
        BY DEF Live
      <3>5. S \subseteq Stored
        BY <3>2, <3>4
      <3>6. Latest(S)' = Latest(S)
        BY <1>0, <3>1, <3>5, LatestKept
      <3>7. Latest({f \in Live : Before(f, g)})' = Latest(S)'
        BY <3>3, <3>4
      <3>8. QED
        BY <2>1, <3>1, <3>4, <3>6, <3>7
    <2>4. QED
      BY <1>2, <2>1, <2>2, <2>3
  <1>7. HashesOK'
    <2>1. \A g \in Live' :
            /\ g \in Live /\ log'[g].intact = log[g].intact
            /\ log'[g].chained = log[g].chained /\ log'[g].occurred_at = log[g].occurred_at
      BY <1>1, <1>2 DEF Live
    <2>2. QED
      BY <1>0, <1>2, <2>1 DEF HashesOK, HashOf, Digest, NoHash
  <1>8. QED
    BY <1>4, <1>5, <1>6, <1>7 DEF IInv

\* Tampering ends the promises of order and of hashes.
LEMMA TamperStep ==
  ASSUME IInv, TypeOK', NEW e \in Ids, Tamper(e)
  PROVE  IInv'
  <1>0. TypeOK /\ PredecessorsSurvive /\ PendingOK
    BY DEF IInv
  <1>1. /\ log[e].state = "stored" /\ log'[e].state \in {"stored", "removed"}
        /\ log'[e].chained = log[e].chained
        /\ \A f \in Ids \ {e} : log'[f] = log[f]
        /\ tx' = tx /\ changes' = changes + 1
    BY <1>0, TamperedWith DEF OneEventChanged
  <1>2. /\ Open' = Open /\ Stored' \subseteq Stored /\ Live' \ Stored' = Live \ Stored
    BY <1>1 DEF Open, Stored, Live
  <1>3. PredecessorsSurvive'
    <2> SUFFICES ASSUME NEW f \in Stored', log'[f].chained # NoEvent
                 PROVE  log'[log'[f].chained].state \in {"stored", "removed"}
      BY DEF PredecessorsSurvive
    <2>1. f \in Stored /\ log'[f].chained = log[f].chained /\ log[f].chained \in Ids
      BY <1>0, <1>1, <1>2, Types DEF Stored
    <2>2. log[log[f].chained].state \in {"stored", "removed"}
      BY <1>0, <2>1 DEF PredecessorsSurvive
    <2>3. QED
      BY <1>1, <2>1, <2>2
  <1>4. PendingOK'
    <2> SUFFICES ASSUME NEW g \in Live \ Stored
                 PROVE  PendingOK!(g)'
      BY <1>2 DEF PendingOK
    <2>1. g \in Ids \ {e} /\ log'[g] = log[g]
      BY <1>1 DEF Live, Stored
    <2>2. log[g].chained # NoEvent => log[g].chained \in Ids
      BY <1>0, <2>1, Types
    <2>3. QED
      BY <1>0, <1>1, <1>2, <2>1, <2>2 DEF PendingOK
  <1>5. OrderOK' /\ HashesOK'
    <2>1. changes' # 0
      BY <1>0, <1>1, Types
    <2>2. QED
      BY <2>1 DEF OrderOK, HashesOK
  <1>6. QED
    BY <1>3, <1>4, <1>5 DEF IInv

LEMMA InitInvariant == Init => IInv
  <1> SUFFICES ASSUME Init
               PROVE  IInv
    OBVIOUS
  <1>1. TypeOK
    <2>1. clock = 0 /\ 0 \in 0 .. clock
      BY DEF Init
    <2>2. FreeEvent \in Event
      BY <2>1 DEF FreeEvent, Event
    <2>3. [at |-> "new", now |-> 0] \in Transaction
      BY <2>1 DEF Transaction
    <2>4. log \in [Ids -> Event] /\ tx \in [Transactions -> Transaction]
      <3> HIDE DEF Event, Transaction, FreeEvent
      <3>1. QED
        BY <2>2, <2>3 DEF Init
    <2>5. /\ clock \in Nat /\ disorder \in BOOLEAN /\ changes \in Nat
          /\ event_hash = [e \in Ids |-> event_hash[e]]
          /\ previous_hash = [e \in Ids |-> previous_hash[e]]
      BY DEF Init
    <2>6. QED
      BY <2>4, <2>5 DEF TypeOK
  <1>2. Live = {} /\ Stored = {} /\ Open = {}
    BY DEF Init, FreeEvent, Live, Stored, Open
  <1>3. QED
    BY <1>1, <1>2 DEF IInv, PredecessorsSurvive, PendingOK, OrderOK, HashesOK

LEMMA NextInvariant == IInv /\ [Next]_vars => IInv'
  <1> SUFFICES ASSUME IInv, [Next]_vars
               PROVE  IInv'
    OBVIOUS
  <1>1. TypeOK'
    BY TypeStep DEF IInv
  <1>2. CASE UNCHANGED <<log, tx, event_hash, previous_hash, disorder, changes>>
    <2>1. PredecessorsSurvive' /\ PendingOK'
      BY <1>2 DEF IInv, PredecessorsSurvive, PendingOK, Stored, Live, Open
    <2>2. HashesOK'
      BY <1>2 DEF IInv, HashesOK, Live, HashOf, NoHash, Digest
    <2>3. OrderOK'
      <3>1. /\ Open' = Open /\ Stored' = Stored /\ Live' = Live
            /\ \A e, f \in Ids : Before(e, f)' <=> Before(e, f)
        BY <1>2 DEF Open, Stored, Live, Before, SortsBefore
      <3>2. \A e \in Live : Latest({f \in Live : Before(f, e)})' = Latest({f \in Live : Before(f, e)})
        BY <1>2 DEF Latest, Live, Before, SortsBefore
      <3>3. Live \subseteq Ids /\ Stored \subseteq Ids
        BY DEF Live, Stored
      <3>4. QED
        BY <1>2, <3>1, <3>2, <3>3 DEF IInv, OrderOK
    <2>4. QED
      BY <1>1, <2>1, <2>2, <2>3 DEF IInv
  <1>3. CASE UNCHANGED vars
    BY <1>2, <1>3 DEF vars
  <1>4. CASE Next
    <2>1. ASSUME NEW e \in Ids, HoldHash(e)
          PROVE  IInv'
      BY <1>2, <2>1 DEF HoldHash
    <2>2. QED
      BY <1>1, <1>4, <2>1, BeginStep, EmitStep, CommitStep, RollBackStep, TamperStep DEF Next
  <1>5. QED
    BY <1>3, <1>4

-----------------------------------------------------------------------------
(* What one hash says of the log.                                          *)

\* Event f of some rows sorts before g.
Earlier(rows, f, g) ==
  rows[f][2] < rows[g][2] \/ (rows[f][2] = rows[g][2] /\ f < g)

\* Rows, whose last is z, in which every hash is that of its row and of the hash before.
Chained(rows, z) ==
  /\ DOMAIN rows \in SUBSET Ids /\ z \in DOMAIN rows
  /\ rows = [f \in DOMAIN rows |-> <<rows[f][1], rows[f][2], rows[f][3]>>]
  /\ \A f \in DOMAIN rows : rows[f][2] \in Nat /\ (f # z => Earlier(rows, f, z))
  /\ \A g \in DOMAIN rows : \E prev :
       /\ rows[g][1] = Digest(g, rows[g][3], rows[g][2], prev)
       /\ \/ prev = NoHash /\ \A f \in DOMAIN rows : ~Earlier(rows, f, g)
          \/ \E p \in DOMAIN rows :
               /\ prev = rows[p][1] /\ Earlier(rows, p, g)
               /\ \A f \in DOMAIN rows \ {p} : Earlier(rows, f, g) => Earlier(rows, f, p)

LEMMA DigestIsInjective ==
  ASSUME NEW e, NEW i, NEW t, NEW h, NEW f, NEW j, NEW u, NEW k
  PROVE  /\ Digest(e, i, t, h) # NoHash
         /\ Digest(e, i, t, h) = Digest(f, j, u, k) => e = f /\ i = j /\ t = u /\ h = k
  BY DEF Digest, NoHash

LEMMA ChainedRow ==
  ASSUME NEW r, NEW z, Chained(r, z), NEW g \in DOMAIN r
  PROVE  \E prev : r[g][1] = Digest(g, r[g][3], r[g][2], prev)
  BY DEF Chained

\* Every row of one chain is in the other, hash by hash from the last.
LEMMA ChainWithin ==
  ASSUME NEW r, NEW q, NEW z, Chained(r, z), Chained(q, z), r[z][1] = q[z][1]
  PROVE  \A f \in DOMAIN r : f \in DOMAIN q /\ r[f][1] = q[f][1]
  <1> DEFINE Same == {f \in DOMAIN r \cap DOMAIN q : r[f][1] = q[f][1]}
  <1>1. /\ DOMAIN r \in SUBSET Ids /\ z \in Same
        /\ \A f \in DOMAIN r : f \in Nat /\ r[f][2] \in Nat /\ (f # z => Earlier(r, f, z))
    BY DEF Chained, Ids
  <1>2. ASSUME NEW s \in Same, NEW p \in DOMAIN r, Earlier(r, p, s),
               \A f \in DOMAIN r \ {p} : Earlier(r, f, s) => Earlier(r, f, p)
        PROVE  p \in Same
    <2>1. PICK a : /\ r[s][1] = Digest(s, r[s][3], r[s][2], a)
                   /\ \/ a = NoHash /\ \A f \in DOMAIN r : ~Earlier(r, f, s)
                      \/ \E o \in DOMAIN r :
                           /\ a = r[o][1] /\ Earlier(r, o, s)
                           /\ \A f \in DOMAIN r \ {o} : Earlier(r, f, s) => Earlier(r, f, o)
      BY DEF Chained
    <2>2. a = r[p][1]
      <3>1. PICK o \in DOMAIN r :
              /\ a = r[o][1] /\ Earlier(r, o, s)
              /\ \A f \in DOMAIN r \ {o} : Earlier(r, f, s) => Earlier(r, f, o)
        BY <1>2, <2>1
      <3>2. o # p => Earlier(r, o, p) /\ Earlier(r, p, o)
        BY <1>2, <3>1
      <3>3. o = p
        BY <1>1, <3>2 DEF Earlier
      <3>4. QED
        BY <3>1, <3>3
    <2>3. PICK b : /\ q[s][1] = Digest(s, q[s][3], q[s][2], b)
                   /\ b = NoHash \/ \E o \in DOMAIN q : b = q[o][1]
      BY DEF Chained
    <2>4. a = b
      BY <2>1, <2>3, DigestIsInjective
    <2>5. PICK c : r[p][1] = Digest(p, r[p][3], r[p][2], c)
      BY ChainedRow
    <2>6. PICK o \in DOMAIN q : b = q[o][1]
      <3>1. b = Digest(p, r[p][3], r[p][2], c)
        BY <2>2, <2>4, <2>5
      <3>2. b # NoHash
        BY <3>1 DEF Digest, NoHash
      <3>3. QED
        BY <2>3, <3>2
    <2>7. PICK d : q[o][1] = Digest(o, q[o][3], q[o][2], d)
      BY ChainedRow
    <2>8. Digest(p, r[p][3], r[p][2], c) = Digest(o, q[o][3], q[o][2], d)
      BY <2>2, <2>4, <2>5, <2>6, <2>7
    <2>9. o = p
      BY <2>8, DigestIsInjective
    <2>10. QED
      BY <2>2, <2>4, <2>6, <2>9
  <1>3. ASSUME NEW g \in DOMAIN r, g \notin Same
        PROVE  FALSE
    <2> DEFINE Above == {f \in Same : Earlier(r, g, f)}
               at == [f \in DOMAIN r |-> r[f][2]]
    <2>1. z \in Above /\ Above \in SUBSET Ids /\ \A f \in DOMAIN r : at[f] = r[f][2]
      BY <1>1, <1>3
    <2>2. \A f \in Above : at[f] \in Nat
      BY <1>1, <2>1
    <2>3. PICK s \in Above : \A f \in Above \ {s} : at[s] < at[f] \/ (at[s] = at[f] /\ s < f)
      <3> HIDE DEF at, Above
      <3>1. QED
        BY <2>1, <2>2, FirstOfTimes
    <2>4. \A f \in Above : ~Earlier(r, f, s)
      BY <1>1, <2>1, <2>3 DEF Earlier
    <2>5. PICK p \in DOMAIN r :
            /\ Earlier(r, p, s)
            /\ \A f \in DOMAIN r \ {p} : Earlier(r, f, s) => Earlier(r, f, p)
      <3>1. s \in DOMAIN r /\ g \in DOMAIN r /\ Earlier(r, g, s)
        BY <1>3, <2>3
      <3>2. PICK a : \/ a = NoHash /\ \A f \in DOMAIN r : ~Earlier(r, f, s)
                     \/ \E p \in DOMAIN r :
                          /\ a = r[p][1] /\ Earlier(r, p, s)
                          /\ \A f \in DOMAIN r \ {p} : Earlier(r, f, s) => Earlier(r, f, p)
        BY <3>1 DEF Chained
      <3>3. QED
        BY <3>1, <3>2
    <2>6. p \in Same
      BY <1>2, <2>5
    <2>7. p # g /\ Earlier(r, g, p)
      BY <1>3, <2>3, <2>5, <2>6
    <2>8. QED
      BY <2>4, <2>5, <2>6, <2>7
  <1>4. QED
    BY <1>3

LEMMA OneChain ==
  ASSUME NEW r, NEW q, NEW z, Chained(r, z), Chained(q, z), r[z][1] = q[z][1]
  PROVE  r = q
  <1>1. DOMAIN r = DOMAIN q /\ \A f \in DOMAIN r : r[f][1] = q[f][1]
    <2>1. \A f \in DOMAIN r : f \in DOMAIN q /\ r[f][1] = q[f][1]
      BY ChainWithin
    <2>2. \A f \in DOMAIN q : f \in DOMAIN r
      <3>1. q[z][1] = r[z][1]
        OBVIOUS
      <3>2. QED
        BY <3>1, ChainWithin
    <2>3. DOMAIN r \in SUBSET Ids /\ DOMAIN q \in SUBSET Ids
      BY DEF Chained
    <2>4. QED
      BY <2>1, <2>2, <2>3
  <1>2. ASSUME NEW f \in DOMAIN r
        PROVE  r[f][2] = q[f][2] /\ r[f][3] = q[f][3]
    <2>1. PICK a : r[f][1] = Digest(f, r[f][3], r[f][2], a)
      BY DEF Chained
    <2>2. PICK b : q[f][1] = Digest(f, q[f][3], q[f][2], b)
      BY <1>1 DEF Chained
    <2>3. QED
      BY <1>1, <2>1, <2>2, DigestIsInjective
  <1>3. /\ r = [f \in DOMAIN r |-> <<r[f][1], r[f][2], r[f][3]>>]
        /\ q = [f \in DOMAIN q |-> <<q[f][1], q[f][2], q[f][3]>>]
    BY DEF Chained
  <1>4. [f \in DOMAIN r |-> <<r[f][1], r[f][2], r[f][3]>>]
          = [f \in DOMAIN q |-> <<q[f][1], q[f][2], q[f][3]>>]
    BY <1>1, <1>2
  <1>5. QED
    BY <1>3, <1>4

\* A log that verifies is such a chain up to each of its events.
LEMMA VerifiedIsChained ==
  ASSUME TypeOK, WholeLogVerifies, NEW z \in Stored
  PROVE  Chained(UpTo(z), z)
  <1> DEFINE D == {f \in Stored : f = z \/ Before(f, z)}
             r == UpTo(z)
  <1>1. /\ TotalOrder /\ LatestFacts /\ Stored \in SUBSET Ids
        /\ \A e \in Stored : HashOk(e) /\ log[e].occurred_at \in Nat
    BY BeforeIsOrder, LatestIsLast, Types DEF Stored, WholeLogVerifies, VerifyChain
  <1>2. /\ DOMAIN r = D /\ z \in D /\ D \in SUBSET Stored
        /\ r = [f \in DOMAIN r |-> <<r[f][1], r[f][2], r[f][3]>>]
        /\ \A f \in D : /\ r[f][1] = event_hash[f] /\ r[f][2] = log[f].occurred_at
                        /\ r[f][3] = log[f].intact
    BY DEF UpTo, Row
  <1> HIDE DEF r
  <1>3. \A f, g \in D : Earlier(r, f, g) <=> Before(f, g)
    BY <1>2 DEF Earlier, Before, SortsBefore
  <1>4. \A f \in D : r[f][2] \in Nat /\ (f # z => Earlier(r, f, z))
    BY <1>1, <1>2, <1>3
  <1>5. ASSUME NEW g \in D
        PROVE  \E prev :
                 /\ r[g][1] = Digest(g, r[g][3], r[g][2], prev)
                 /\ \/ prev = NoHash /\ \A f \in D : ~Earlier(r, f, g)
                    \/ \E p \in D :
                         /\ prev = r[p][1] /\ Earlier(r, p, g)
                         /\ \A f \in D \ {p} : Earlier(r, f, g) => Earlier(r, f, p)
    <2>1. r[g][1] = Digest(g, r[g][3], r[g][2], HashOf(Prior(g)))
      BY <1>1, <1>2 DEF HashOk
    <2>2. PICK S \in SUBSET Ids : S = {f \in Stored : Before(f, g)} /\ Prior(g) = Latest(S)
      BY <1>1 DEF Prior
    <2>3. S \subseteq D
      BY <1>1, <1>2, <2>2 DEF TotalOrder
    <2>4. CASE S = {}
      <3>1. HashOf(Prior(g)) = NoHash
        BY <1>1, <2>2, <2>4 DEF LatestFacts, HashOf
      <3>2. \A f \in D : ~Earlier(r, f, g)
        BY <1>2, <1>3, <2>2, <2>4
      <3>3. QED
        BY <2>1, <3>1, <3>2
    <2>5. CASE S # {}
      <3>1. PICK p \in S : p = Prior(g) /\ \A f \in S \ {p} : Before(f, p)
        BY <1>1, <2>2, <2>5 DEF LatestFacts
      <3>2. p \in D /\ p # NoEvent /\ Earlier(r, p, g)
        BY <1>1, <1>2, <1>3, <2>2, <2>3, <3>1
      <3>3. HashOf(Prior(g)) = r[p][1]
        BY <1>2, <3>1, <3>2 DEF HashOf
      <3>4. \A f \in D \ {p} : Earlier(r, f, g) => Earlier(r, f, p)
        BY <1>2, <1>3, <2>2, <3>1, <3>2
      <3>5. QED
        BY <2>1, <3>2, <3>3, <3>4
    <2>6. QED
      BY <2>4, <2>5
  <1>6. QED
    BY <1>1, <1>2, <1>4, <1>5 DEF Chained, r

\* The log whose hash is held was such a chain.
HeldOK == held # NoEvent => Chained(held.rows, held.event)

-----------------------------------------------------------------------------
(* The theorems.                                                           *)

\* The inductive invariant holds in every reachable state: what has not been
\* committed depends on nothing another transaction can still take back.
THEOREM ChainInvariance == Spec => []IInv
  BY InitInvariant, NextInvariant, PTL DEF Spec

\* audit_compute_hash never chains a committed event to one that is rolled back.
THEOREM PredecessorsStay == Spec => []PredecessorsSurvive
  <1>1. IInv => PredecessorsSurvive
    BY DEF IInv
  <1>2. QED
    BY <1>1, ChainInvariance, PTL

\* An orderly log nobody tampered with verifies.
THEOREM OrderlyVerification == Spec => []OrderlyLogVerifies
  <1>1. IInv => OrderlyLogVerifies
    <2> SUFFICES ASSUME IInv, ~disorder, changes = 0, NEW e \in Stored
                 PROVE  HashOk(e) /\ LinkOk(e)
      BY DEF OrderlyLogVerifies, WholeLogVerifies, VerifyChain
    <2>1. /\ TypeOK /\ OrderOK /\ HashesOK
          /\ e \in Live /\ Stored \subseteq Live /\ Live \subseteq Ids
      BY DEF IInv, Stored, Live
    <2>2. /\ log[e].intact
          /\ previous_hash[e] = HashOf(log[e].chained)
          /\ event_hash[e] = Digest(e, TRUE, log[e].occurred_at, HashOf(log[e].chained))
      BY <2>1 DEF HashesOK
    <2>3. /\ \A f \in Live \ Stored : Before(e, f)
          /\ log[e].chained = Latest({f \in Live : Before(f, e)})
      BY <2>1 DEF OrderOK
    <2>4. {f \in Live : Before(f, e)} = {f \in Stored : Before(f, e)}
      BY <2>1, <2>3, BeforeIsOrder DEF TotalOrder
    <2>5. log[e].chained = Prior(e)
      BY <2>3, <2>4 DEF Prior
    <2>6. log[e].intact = TRUE
      BY <2>1, <2>2, Types
    <2>7. QED
      BY <2>2, <2>5, <2>6 DEF HashOk, LinkOk
  <1>2. QED
    BY <1>1, ChainInvariance, PTL

\* Of the logs up to z that verify and have the same hash of z there is only one.
THEOREM HeldHashDetection == Spec => []HeldHashDetects
  <1>1. IInv /\ HeldOK => HeldHashDetects
    <2> SUFFICES ASSUME IInv, HeldOK, held # NoEvent, WholeLogVerifies,
                        held.event \in Stored, event_hash[held.event] = held.rows[held.event][1]
                 PROVE  UpTo(held.event) = held.rows
      BY DEF HeldHashDetects
    <2>1. Chained(UpTo(held.event), held.event)
      BY VerifiedIsChained DEF IInv
    <2>2. UpTo(held.event)[held.event][1] = event_hash[held.event]
      BY DEF UpTo, Row
    <2>3. Chained(held.rows, held.event)
      BY DEF HeldOK
    <2>4. QED
      BY <2>1, <2>2, <2>3, OneChain
  <1>2. Init => HeldOK
    BY DEF Init, HeldOK
  <1>3. IInv /\ HeldOK /\ [Next]_vars => HeldOK'
    <2> SUFFICES ASSUME IInv, HeldOK, [Next]_vars
                 PROVE  HeldOK'
      OBVIOUS
    <2>1. CASE UNCHANGED held
      BY <2>1 DEF HeldOK
    <2>2. ASSUME NEW z \in Ids, HoldHash(z)
          PROVE  HeldOK'
      <3>1. PICK rows : rows = UpTo(z)
        OBVIOUS
      <3>2. Chained(rows, z)
        BY <2>2, <3>1, VerifiedIsChained DEF IInv, HoldHash
      <3>3. held'.event = z /\ held'.rows = rows
        BY <2>2, <3>1 DEF HoldHash
      <3>4. QED
        BY <3>2, <3>3 DEF HeldOK
    <2>3. QED
      BY <2>1, <2>2, TamperedWith DEF IInv, Next, vars, Begin, Emit, Commit, RollBack,
                                      OneEventChanged
  <1>4. QED
    BY <1>1, <1>2, <1>3, ChainInvariance, PTL DEF Spec

\* verifyChain fails after an event that was not the last has been removed from
\* a log that verified: the one after it is no longer linked.
THEOREM RemovalReported == Spec => RemovalDetected
  <1>1. ASSUME IInv, NEW e \in Ids, Remove(e), WholeLogVerifies,
               \E f \in Stored : Before(e, f)
        PROVE  ~WholeLogVerifies'
    <2>1. TypeOK /\ TotalOrder /\ e \in Stored /\ Stored \subseteq Ids
      BY <1>1, BeforeIsOrder DEF IInv, Remove, Change, Stored
    <2>2. TypeOK'
      BY <1>1, <2>1, TypeStep DEF Next, Tamper
    <2>0. \A f \in Stored : HashOk(f) /\ LinkOk(f)
      BY <1>1, <2>1, Types DEF WholeLogVerifies, VerifyChain
    <2> DEFINE After == {f \in Stored : Before(e, f)}
    <2>3. PICK g \in After : \A f \in After \ {g} : Before(g, f)
      BY ZenonT(60), <1>1, <2>1, FirstAndLast
    <2>4. previous_hash[g] = event_hash[e]
      <3>1. previous_hash[g] = HashOf(Latest({f \in Stored : Before(f, g)}))
        BY <2>1, <2>3, <2>0 DEF LinkOk, Prior
      <3>2. \A f \in Stored \ {e} : Before(f, g) => Before(f, e)
        BY <2>1, <2>3 DEF TotalOrder
      <3>3. PICK S \in SUBSET Ids : S = {f \in Stored : Before(f, g)}
        BY <2>1
      <3>4. e \in S /\ \A f \in S \ {e} : Before(f, e)
        BY <2>1, <2>3, <3>2, <3>3
      <3>5. Latest(S) = e
        BY <2>1, <3>3, <3>4, LatestIsLast DEF LatestFacts
      <3>6. QED
        BY <2>1, <3>1, <3>3, <3>5 DEF HashOf
    <2>5. /\ log'[g] = log[g] /\ g \in Stored' /\ e \notin Stored' /\ Stored' \subseteq Stored
          /\ log'[g].occurred_at \in 0 .. clock'
          /\ UNCHANGED <<event_hash, previous_hash>>
      BY <1>1, <2>1, <2>3, Types, BeforeIsOrder DEF Remove, TypeOK, Stored, TotalOrder
    <2>6. PICK p : p = Prior(g)' /\ p \in (Stored \ {e}) \cup {NoEvent}
      <3>1. PICK S \in SUBSET Ids : S = {f \in Stored : Before(f, g)}'
        BY DEF Stored
      <3>2. S \subseteq Stored \ {e}
        BY <2>5, <3>1
      <3>3. Latest(S)' \in S \cup {NoEvent}
        BY <2>2, LatestIsLastNext DEF LatestFacts
      <3>4. QED
        BY <3>1, <3>2, <3>3 DEF Prior
    <2>7. HashOf(p)' # previous_hash'[g]
      <3>1. CASE p = NoEvent
        <4>1. HashOf(p)' = NoHash
          BY <3>1 DEF HashOf
        <4>2. event_hash[e] # NoHash
          BY <2>1, <2>0 DEF HashOk, Digest, NoHash
        <4>3. QED
          BY <2>4, <2>5, <4>1, <4>2
      <3>2. CASE p # NoEvent
        <4>1. p \in Stored \ {e} /\ HashOf(p)' = event_hash[p]
          BY <2>5, <2>6, <3>2 DEF HashOf
        <4>2. event_hash[p] # event_hash[e]
          BY <2>1, <2>0, <4>1 DEF HashOk, Digest
        <4>3. QED
          BY <2>4, <2>5, <4>1, <4>2
      <3>3. QED
        BY <3>1, <3>2
    <2>8. ~LinkOk(g)'
      BY <2>6, <2>7 DEF LinkOk
    <2>9. QED
      BY <2>2, <2>5, <2>8 DEF WholeLogVerifies, VerifyChain
  <1>2. IInv => [\A e \in Ids :
                  Remove(e) /\ WholeLogVerifies /\ (\E f \in Stored : Before(e, f))
                  => ~WholeLogVerifies']_vars
    BY <1>1
  <1>3. QED
    BY <1>2, ChainInvariance, PTL DEF RemovalDetected
=============================================================================
