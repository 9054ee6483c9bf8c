------------------------------- MODULE Paging --------------------------------
(***************************************************************************)
(* The lists with a cursor: guests (guest-svc), audit events (audit-svc) and *)
(* exceptions (exception-svc). A page is a query of its own; rows come and   *)
(* go between two of them. The order compares microseconds, the cursor holds *)
(* the milliseconds of a Date: that is kept, dates are small numbers.       *)
(***************************************************************************)
EXTENDS Integers, FiniteSets

CONSTANTS
  Rows,       \* rows of the table; the order of their ids is that of numbers
  Millis,     \* values of created_at or occurred_at, in milliseconds
  Micros,     \* the rest of them, in microseconds
  Limits      \* page sizes asked for

ASSUME NumbersAssumption == Rows \cup Millis \cup Micros \cup Limits \subseteq Nat
ASSUME SomeAssumption == 0 \notin Limits /\ 0 \in Micros
ASSUME RowsAssumption == IsFiniteSet(Rows)

VARIABLES
  list,      \* which list is read, and the size of its pages
  row,       \* the columns of each row
  present,   \* rows the query's filters select
  through,   \* rows selected ever since the first page was asked for
  cursor,    \* nextCursor of the last page; <<>>: none
  seen,      \* rows returned
  repeated,  \* a row was returned twice
  cuts       \* the cursors given

pagingVars == <<list, row, present, through, cursor, seen, repeated, cuts>>

-----------------------------------------------------------------------------
Row == [ms : Millis, us : Micros, severity : {1, 2}]
List == [name : {"guests", "audit", "exceptions"}, limit : Limits]
Cursor == [ms : Millis, id : Rows]
NoCursor == [ms |-> -1, id |-> -1]

\* created_at DESC, id DESC
Later(a, b) ==
  \/ row[a].ms > row[b].ms
  \/ row[a].ms = row[b].ms /\ row[a].us > row[b].us
  \/ row[a].ms = row[b].ms /\ row[a].us = row[b].us /\ a > b

\* The exceptions put the severest first.
Precedes(a, b) ==
  IF list.name = "exceptions" /\ row[a].severity # row[b].severity
  THEN row[a].severity > row[b].severity
  ELSE Later(a, b)

\* Mutant: the cursor holds the time alone.
BeyondMillis(r) == cursor = NoCursor \/ row[r].ms <= cursor.ms

\* (created_at, id) < (cursor), of the row's microseconds and the cursor's none.
Beyond(r) ==
  \/ cursor = NoCursor
  \/ row[r].ms < cursor.ms
  \/ row[r].ms = cursor.ms /\ row[r].us = 0 /\ r < cursor.id

Selected == {r \in present : Beyond(r)}

\* The first `limit` rows of the query; one more row makes hasMore.
IsPage(page) ==
  /\ page \subseteq Selected
  /\ \A a \in page, b \in Selected \ page : Precedes(a, b)
  /\ Cardinality(page) = IF Cardinality(Selected) < list.limit
                          THEN Cardinality(Selected) ELSE list.limit

LastOf(page) == CHOOSE r \in page : \A a \in page \ {r} : Precedes(a, r)

Ended == cursor = NoCursor /\ cuts # {}

-----------------------------------------------------------------------------
\* search, queryEvents and list: one page.
NextPage(page) ==
  /\ cuts = {} \/ cursor # NoCursor
  /\ IsPage(page)
  /\ seen' = seen \cup page
  /\ repeated' = (repeated \/ page \cap seen # {})
  /\ through' = IF cuts = {} /\ cursor = NoCursor THEN present ELSE through
  /\ IF Cardinality(Selected) > list.limit
     THEN LET last == LastOf(page)
              next == [ms |-> row[last].ms, id |-> last]
          IN  cursor' = next /\ cuts' = cuts \cup {next}
     ELSE cursor' = NoCursor /\ cuts' = cuts \cup {NoCursor}
  /\ UNCHANGED <<list, row, present>>

\* Other requests insert rows, and change them so that a filter drops them.
RowComes(r) ==
  /\ present' = present \cup {r}
  /\ UNCHANGED <<list, row, through, cursor, seen, repeated, cuts>>

RowGoes(r) ==
  /\ present' = present \ {r}
  /\ through' = through \ {r}
  /\ UNCHANGED <<list, row, cursor, seen, repeated, cuts>>

PagingInit ==
  /\ list \in List
  /\ row \in [Rows -> Row]
  /\ list.name # "exceptions" => \A r \in Rows : row[r].severity = 1
  /\ present = Rows /\ through = {} /\ cursor = NoCursor
  /\ seen = {} /\ repeated = FALSE /\ cuts = {}

PagingNext ==
  \/ \E page \in SUBSET Rows : NextPage(page)
  \/ \E r \in Rows : RowComes(r) \/ RowGoes(r)

PagingSpec == PagingInit /\ [][PagingNext]_pagingVars

-----------------------------------------------------------------------------
PagingTypeOK ==
  /\ list \in List /\ row \in [Rows -> Row]
  /\ present \subseteq Rows /\ through \subseteq Rows /\ seen \subseteq Rows
  /\ cursor \in Cursor \cup {NoCursor} /\ cuts \subseteq Cursor \cup {NoCursor}
  /\ repeated \in BOOLEAN

SharesMillis(r) == \E c \in cuts : row[r].ms = c.ms

\* The pages of guests and of audit events never repeat a row, and once they have
\* ended they hold every row that was there all along, but for rows of the very
\* millisecond at which a page ended (service.ts:238). The exceptions, ordered by
\* what their cursor does not hold, promise neither; what they share with the other
\* lists is that the milliseconds of their cursors never grow.
PagesComplete ==
  /\ cursor # NoCursor => \A c \in cuts : cursor.ms <= c.ms
  /\ list.name # "exceptions" =>
       /\ ~repeated
       /\ Ended => \A r \in through : r \in seen \/ SharesMillis(r)
=============================================================================
