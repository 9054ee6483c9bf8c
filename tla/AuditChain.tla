------------------------------ MODULE AuditChain ------------------------------
(***************************************************************************)
(* One tenant's audit log: the events that triggers insert inside the       *)
(* transactions they report (0014_audit_triggers.sql), the hash chain the   *)
(* BEFORE INSERT trigger gives them (0011_audit.sql) and its verification    *)
(* (services/audit/src/service.ts).                                         *)
(*                                                                         *)
(* A digest is taken to be injective: a hash is represented by what went    *)
(* into it, the hashed columns and the hash before. It has no key: whoever  *)
(* can write the table can compute it too. The columns it omits (detail,    *)
(* actor_display, request_id, ip_inet, user_agent) are not modelled: no      *)
(* verification sees them change.                                           *)
(***************************************************************************)
EXTENDS Integers

CONSTANTS
  Transactions,   \* transactions that write audited tables, each once
  MaxId,          \* the uuids, as the numbers they are
  NoEvent,        \* the predecessor of the first event
  NoTransaction,  \* an event that was never inserted
  MaxChanges      \* bound: changes made to the log in a behaviour, past the triggers

\* What gen_random_uuid() may give out.
Ids == 1 .. MaxId

ASSUME MaxIdAssumption == MaxId \in Nat
ASSUME NoEventAssumption == NoEvent \notin Ids
ASSUME NoTransactionAssumption == NoTransaction \notin Transactions

VARIABLES
  log,       \* audit_events, one record per id
  tx,        \* the transactions
  clock,     \* the microsecond of the last now()
  event_hash, previous_hash,   \* the two columns of each id
  disorder,  \* history: transactions overlapped or an event sorted before an older one
  held,      \* an event of a log that verified, whose hash somebody noted
  changes    \* history: changes made past the triggers

vars == <<log, tx, clock, event_hash, previous_hash, disorder, held, changes>>

-----------------------------------------------------------------------------
\* intact: the hashed columns, but for the time, are as inserted. History:
\* chained, the event whose hash the trigger took.
Event == [state : {"free", "pending", "stored", "removed"}, occurred_at : 0 .. clock,
          intact : BOOLEAN, chained : Ids \cup {NoEvent},
          by : Transactions \cup {NoTransaction}]

FreeEvent == [state |-> "free", occurred_at |-> 0, intact |-> TRUE, chained |-> NoEvent,
              by |-> NoTransaction]

Transaction == [at : {"new", "open", "done"}, now : 0 .. clock]

Stored == {e \in Ids : log[e].state = "stored"}

Open == {x \in Transactions : tx[x].at = "open"}

\* ORDER BY occurred_at, id: an event e of that time sorts before f.
SortsBefore(time, e, f) ==
  \/ time < log[f].occurred_at
  \/ time = log[f].occurred_at /\ e < f

Before(e, f) == SortsBefore(log[e].occurred_at, e, f)

\* The last of some events, NoEvent if there is none.
Latest(S) ==
  IF S = {} THEN NoEvent ELSE CHOOSE e \in S : \A f \in S \ {e} : Before(f, e)

\* NULL, and the event_hash of an event.
NoHash == <<>>
HashOf(e) == IF e = NoEvent THEN NoHash ELSE event_hash[e]

Digest(e, intact, occurred_at, prev_hash) == <<e, intact, occurred_at, prev_hash>>

\* Mutant: the trigger reads events of transactions that have not committed.
DirtyRead(x) == {e \in Ids : log[e].state \in {"pending", "stored"}}

\* Mutant: the trigger does not see what its own transaction has written.
CommittedOnly(x) == Stored

\* READ COMMITTED: what has been committed, and the transaction's own events.
Visible(x) == Stored \cup {e \in Ids : log[e].state = "pending" /\ log[e].by = x}

-----------------------------------------------------------------------------
(* Transactions.                                                           *)

\* BEGIN; now() stands still from here.
Begin(x) ==
  /\ tx[x].at = "new"
  /\ clock' \in {clock, clock + 1}
  /\ tx' = [tx EXCEPT ![x] = [at |-> "open", now |-> clock']]
  /\ disorder' = (disorder \/ Open # {})
  /\ UNCHANGED <<log, event_hash, previous_hash, held, changes>>

\* An audited write: emit_audit_event inserts, audit_compute_hash chains the
\* event to the latest one it can see.
Emit(x, e) ==
  /\ tx[x].at = "open"
  /\ log[e].state = "free"
  /\ LET last == Latest(Visible(x)) IN
     /\ log' = [log EXCEPT ![e] =
          [state |-> "pending", occurred_at |-> tx[x].now, intact |-> TRUE,
           chained |-> last, by |-> x]]
     /\ previous_hash' = [previous_hash EXCEPT ![e] = HashOf(last)]
     /\ event_hash' = [event_hash EXCEPT ![e] = Digest(e, TRUE, tx[x].now, HashOf(last))]
     /\ disorder' = (disorder \/ (last # NoEvent /\ SortsBefore(tx[x].now, e, last)))
  /\ UNCHANGED <<tx, clock, held, changes>>

Commit(x) ==
  /\ tx[x].at = "open"
  /\ log' = [e \in Ids |->
       IF log[e].state = "pending" /\ log[e].by = x
       THEN [log[e] EXCEPT !.state = "stored"] ELSE log[e]]
  /\ tx' = [tx EXCEPT ![x].at = "done"]
  /\ UNCHANGED <<clock, event_hash, previous_hash, disorder, held, changes>>

\* ROLLBACK, or a crash: the events go with the writes they report.
RollBack(x) ==
  /\ tx[x].at = "open"
  /\ log' = [e \in Ids |->
       IF log[e].state = "pending" /\ log[e].by = x
       THEN FreeEvent ELSE log[e]]
  /\ tx' = [tx EXCEPT ![x].at = "done"]
  /\ UNCHANGED <<clock, event_hash, previous_hash, disorder, held, changes>>

-----------------------------------------------------------------------------
(* verifyChain.                                                            *)

\* Mutant: an event whose predecessor is gone (archived, say) is believed.
PriorUnlessGone(e) ==
  IF log[e].chained \notin Stored THEN log[e].chained
  ELSE Latest({f \in Stored : Before(f, e)})

\* LAG(...) OVER (ORDER BY occurred_at, id).
Prior(e) == Latest({f \in Stored : Before(f, e)})

\* Mutant: the recomputed digest leaves out the hash before.
HashOkUnchained(e) ==
  event_hash[e][1] = e /\ event_hash[e][2] = log[e].intact /\ event_hash[e][3] = log[e].occurred_at

\* event_hash = recomputed: recomputed covers the columns and LAG's event_hash.
HashOk(e) ==
  event_hash[e] = Digest(e, log[e].intact, log[e].occurred_at, HashOf(Prior(e)))

\* previous_hash IS NOT DISTINCT FROM expected_prev.
LinkOk(e) == previous_hash[e] = HashOf(Prior(e))

\* The answer of GET /v1/audit/verify?from=&to=.
VerifyChain(from, to) ==
  \A e \in Stored :
    log[e].occurred_at >= from /\ log[e].occurred_at <= to => HashOk(e) /\ LinkOk(e)

WholeLogVerifies == VerifyChain(0, clock)

\* The hash and the hashed columns of an event, and of all up to event z in the
\* order of verification.
Row(e) == <<event_hash[e], log[e].occurred_at, log[e].intact>>
UpTo(z) == [e \in {f \in Stored : f = z \/ Before(f, z)} |-> Row(e)]

\* Somebody verifies the log and notes the hash of one of its events. History:
\* what the log was up to it.
HoldHash(z) ==
  /\ held = NoEvent
  /\ z \in Stored /\ WholeLogVerifies
  /\ held' = [event |-> z, rows |-> UpTo(z)]
  /\ UNCHANGED <<log, tx, clock, event_hash, previous_hash, disorder, changes>>

-----------------------------------------------------------------------------
(* What triggers and grants forbid, but a restored backup or an operator with *)
(* the triggers disabled can do, and verification is there to find out.       *)

Change(e) ==
  /\ e \in Stored
  /\ changes < MaxChanges
  /\ changes' = changes + 1

\* A hashed column is changed, or changed back.
AlterColumn(e, time, intact) ==
  /\ Change(e)
  /\ log' = [log EXCEPT ![e].intact = intact, ![e].occurred_at = time]
  /\ UNCHANGED <<tx, clock, event_hash, previous_hash, disorder, held>>

\* Another hash is put in the place of previous_hash.
AlterLink(e, p) ==
  /\ Change(e)
  /\ previous_hash' = [previous_hash EXCEPT ![e] = HashOf(p)]
  /\ UNCHANGED <<log, tx, clock, event_hash, disorder, held>>

\* Both hashes are computed anew, as the trigger would from the log as it is:
\* the event itself verifies now, whatever was done to it.
Rehash(e) ==
  /\ Change(e)
  /\ LET last == HashOf(Prior(e)) IN
     /\ previous_hash' = [previous_hash EXCEPT ![e] = last]
     /\ event_hash' = [event_hash EXCEPT ![e] =
          Digest(e, log[e].intact, log[e].occurred_at, last)]
  /\ UNCHANGED <<log, tx, clock, disorder, held>>

Remove(e) ==
  /\ Change(e)
  /\ log' = [log EXCEPT ![e].state = "removed"]
  /\ UNCHANGED <<tx, clock, event_hash, previous_hash, disorder, held>>

-----------------------------------------------------------------------------
Init ==
  /\ log = [e \in Ids |-> FreeEvent]
  /\ tx = [x \in Transactions |-> [at |-> "new", now |-> 0]]
  /\ clock = 0
  /\ event_hash = [e \in Ids |-> NoHash]
  /\ previous_hash = [e \in Ids |-> NoHash]
  /\ disorder = FALSE
  /\ held = NoEvent
  /\ changes = 0

Tamper(e) ==
  \/ \E time \in 0 .. clock, intact \in BOOLEAN : AlterColumn(e, time, intact)
  \/ \E p \in Ids \cup {NoEvent} : AlterLink(e, p)
  \/ Rehash(e) \/ Remove(e)

Next ==
  \/ \E x \in Transactions :
       Begin(x) \/ (\E e \in Ids : Emit(x, e)) \/ Commit(x) \/ RollBack(x)
  \/ \E e \in Ids : HoldHash(e) \/ Tamper(e)

Spec == Init /\ [][Next]_vars

-----------------------------------------------------------------------------
(* Correctness.                                                            *)

\* Every variable keeps its type.
TypeOK ==
  /\ log \in [Ids -> Event]
  /\ tx \in [Transactions -> Transaction]
  /\ clock \in Nat
  /\ disorder \in BOOLEAN
  /\ changes \in Nat
  /\ event_hash = [e \in Ids |-> event_hash[e]]
  /\ previous_hash = [e \in Ids |-> previous_hash[e]]

\* No rollback takes away an event that a committed one is chained to.
PredecessorsSurvive ==
  \A e \in Stored :
    log[e].chained # NoEvent => log[log[e].chained].state \in {"stored", "removed"}

\* Whoever holds the hash of one event of a log that verified finds out every
\* change to the events up to it, columns, order and removals alike, however many
\* hashes were computed anew to make the log verify again: adr/004-audit-chain.md:49,
\* "any honest verifier holding a single later hash detects the mismatch".
HeldHashDetects ==
  held # NoEvent /\ WholeLogVerifies =>
    LET z == held.event IN
    z \in Stored /\ event_hash[z] = held.rows[z][1] => UpTo(z) = held.rows

\* Removing an event from a log that verified makes verification fail, unless
\* the event was the last.
RemovalDetected ==
  [][\A e \in Ids :
       Remove(e) /\ WholeLogVerifies /\ (\E f \in Stored : Before(e, f))
       => ~WholeLogVerifies']_vars

\* As long as transactions did not overlap and every event sorts after those
\* before it, an untouched log verifies once they are over.
OrderlyLogVerifies == ~disorder /\ changes = 0 => WholeLogVerifies

\* A log nobody tampered with verifies (docs/runbook.md:148 takes a failing
\* verification to "mean the audit trail has been tampered with").
HonestLogVerifies == changes = 0 => WholeLogVerifies

-----------------------------------------------------------------------------
(* The inductive invariant.                                                *)

Live == {e \in Ids : log[e].state \in {"pending", "stored"}}

\* An event in flight belongs to an open transaction and is chained to an event
\* that was committed or belongs to the same transaction.
PendingOK ==
  \A e \in Live \ Stored :
    /\ log[e].by \in Open
    /\ log[e].chained # NoEvent =>
         LET c == log[log[e].chained] IN
         \/ c.state \in {"stored", "removed"}
         \/ c.state = "pending" /\ c.by = log[e].by

\* In an orderly log every event is chained to the one sorted before it, and
\* what is in flight, which may be rolled back, comes last.
OrderOK ==
  ~disorder /\ changes = 0 =>
    /\ \A x, y \in Open : x = y
    /\ \A e \in Stored, f \in Live \ Stored : Before(e, f)
    /\ \A e \in Live : log[e].chained = Latest({f \in Live : Before(f, e)})

\* The columns of an untouched log are what the trigger computed.
HashesOK ==
  changes = 0 => \A e \in Live :
    /\ log[e].intact
    /\ previous_hash[e] = HashOf(log[e].chained)
    /\ event_hash[e] = Digest(e, TRUE, log[e].occurred_at, HashOf(log[e].chained))

IInv == TypeOK /\ PredecessorsSurvive /\ PendingOK /\ OrderOK /\ HashesOK
=============================================================================
