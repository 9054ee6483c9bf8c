----------------------------- MODULE ReviewPoller -----------------------------
(***************************************************************************)
(* The review poller of services/ingest/src/review-poller.ts: each poll of a *)
(* property fetches the reviews posted since the last one, inserts them,     *)
(* asks the model for the guest who wrote each, and moves the watermark of   *)
(* an integration row, all in one transaction of withTenantContext.         *)
(*                                                                         *)
(* One source of the three that have a kind is modelled, the rows and       *)
(* watermarks of the others are their own; "manual" has no kind. The clock   *)
(* moves when a review is posted and when a poll begins. The adapters of the *)
(* repository are stubs, so fetchNew is the promise of SourceAdapter: the    *)
(* reviews of the property newer than `since`.                             *)
(***************************************************************************)
EXTENDS Integers

CONSTANTS
  Polls,        \* requests of POST /v1/reviews/poll, one after another each
  Reviews,      \* reviews that guests may post
  Properties,   \* properties of the tenant with an active integration row
  About(_),     \* the property a review is about
  MaxClock      \* bound: posts and polls together

ASSUME AboutAssumption == \A r \in Reviews : About(r) \in Properties
ASSUME PropertiesAssumption == Properties # {}
ASSUME MaxClockAssumption == MaxClock \in Nat

VARIABLES
  clock,
  postedAt,      \* when a review was posted, 0: not yet
  lastPolledAt,  \* integrations.last_polled_at of each row, 0: null
  reviews,       \* the table reviews: the link status of each row
  foreign,       \* properties whose row a poll of another property has moved
  poll           \* the polls under way

pollerVars == <<clock, postedAt, lastPolledAt, reviews, foreign, poll>>

-----------------------------------------------------------------------------
Instant == 0 .. MaxClock
LinkStatus == {"none", "unlinked", "auto_linked"}
Source == {"tripadvisor", "manual"}

\* todo: the reviews fetched and not yet inserted. wrote: the rows of its
\* transaction. linking: the row inserted last, until its linking ends.
Poll == [at : {"idle", "since", "fetch", "each", "link", "broken"},
         source : Source, property : Properties, began : Instant, since : Instant,
         todo : SUBSET Reviews, wrote : [Reviews -> LinkStatus], linking : SUBSET Reviews]

NothingWritten == [r \in Reviews |-> "none"]

IdlePoll ==
  [at |-> "idle", source |-> "tripadvisor", property |-> CHOOSE q \in Properties : TRUE,
   began |-> 0, since |-> 0, todo |-> {}, wrote |-> NothingWritten, linking |-> {}]

PollBecomes(p, rec) == poll' = [poll EXCEPT ![p] = rec]

\* sourceToIntegrationKind: direct feedback has no kind in the enum.
HasKind(source) == source # "manual"

-----------------------------------------------------------------------------
Post(r) ==
  /\ clock < MaxClock /\ postedAt[r] = 0
  /\ clock' = clock + 1
  /\ postedAt' = [postedAt EXCEPT ![r] = clock']
  /\ UNCHANGED <<lastPolledAt, reviews, foreign, poll>>

\* BEGIN: now() is this instant in every statement of the transaction.
Begin(p, property, source) ==
  /\ clock < MaxClock /\ poll[p].at = "idle"
  /\ clock' = clock + 1
  /\ PollBecomes(p, [IdlePoll EXCEPT !.at = "since", !.source = source,
                                      !.property = property, !.began = clock'])
  /\ UNCHANGED <<postedAt, lastPolledAt, reviews, foreign>>

\* getLastPolledAt, by property; null looks back 30 days, past all that is modelled.
\* The cast of a source without a kind fails the request: ROLLBACK.
GetLastPolledAt(p) ==
  /\ poll[p].at = "since"
  /\ PollBecomes(p, IF HasKind(poll[p].source)
                     THEN [poll[p] EXCEPT !.at = "fetch", !.since = lastPolledAt[poll[p].property]]
                     ELSE IdlePoll)
  /\ UNCHANGED <<clock, postedAt, lastPolledAt, reviews, foreign>>

\* What the source answers.
Newer(p) == {r \in Reviews : About(r) = poll[p].property /\ postedAt[r] > poll[p].since}

Fetch(p) ==
  /\ poll[p].at = "fetch"
  /\ PollBecomes(p, [poll[p] EXCEPT !.at = "each", !.todo = Newer(p)])
  /\ UNCHANGED <<clock, postedAt, lastPolledAt, reviews, foreign>>

\* The source fails: the summary carries the error, nothing was written.
FetchFails(p) ==
  /\ poll[p].at = "fetch"
  /\ PollBecomes(p, IdlePoll)
  /\ UNCHANGED <<clock, postedAt, lastPolledAt, reviews, foreign>>

\* The unique index makes an INSERT wait for a transaction that wrote the key.
Unsettled(p, r) == \E other \in Polls \ {p} : poll[other].wrote[r] # "none"

UpsertReview(p, r) ==
  /\ poll[p].at = "each" /\ r \in poll[p].todo /\ ~Unsettled(p, r)
  /\ PollBecomes(p,
       IF reviews[r] # "none" THEN [poll[p] EXCEPT !.todo = @ \ {r}]
       ELSE [poll[p] EXCEPT !.at = "link", !.todo = @ \ {r},
                            !.wrote[r] = "unlinked", !.linking = {r}])
  /\ UNCHANGED <<clock, postedAt, lastPolledAt, reviews, foreign>>

\* linkReviewToGuest. No candidate, no guest or a low confidence, or no answer at
\* all: the row stays unlinked. A confidence in the middle is put in the exception
\* queue by an INSERT that names a column the table lacks, which aborts the
\* transaction; the caller catches the error and goes on.
LinkReview(p, outcome) ==
  /\ poll[p].at = "link"
  /\ PollBecomes(p,
       CASE outcome = "sure" ->
              [poll[p] EXCEPT !.at = "each", !.linking = {},
                 !.wrote = [r \in Reviews |-> IF r \in poll[p].linking THEN "auto_linked" ELSE @[r]]]
         [] outcome = "unsure" -> [poll[p] EXCEPT !.at = "each", !.linking = {}]
         [] outcome = "ambiguous" -> [poll[p] EXCEPT !.at = "broken", !.linking = {}])
  /\ UNCHANGED <<clock, postedAt, lastPolledAt, reviews, foreign>>

\* The next statement of the aborted transaction throws out of the loop, or is the
\* UPDATE after it: ROLLBACK and 500.
PollFails(p) ==
  /\ poll[p].at \in {"each", "broken"}
  /\ PollBecomes(p, IdlePoll)
  /\ UNCHANGED <<clock, postedAt, lastPolledAt, reviews, foreign>>

Stored(p) == [r \in Reviews |-> IF poll[p].wrote[r] # "none" THEN poll[p].wrote[r] ELSE reviews[r]]

MovesRow(p, row, instant) ==
  /\ lastPolledAt' = [lastPolledAt EXCEPT ![row] = instant]
  /\ foreign' = IF row = poll[p].property THEN foreign ELSE foreign \cup {row}

\* Mutant: the watermark is the time of the UPDATE.
CommitPollAtClock(p) ==
  /\ poll[p].at = "each" /\ poll[p].todo = {}
  /\ \E row \in Properties : MovesRow(p, row, clock)
  /\ reviews' = Stored(p)
  /\ PollBecomes(p, IdlePoll)
  /\ UNCHANGED <<clock, postedAt>>

\* The UPDATE of last_polled_at and COMMIT. findIntegrationId took the row by
\* tenant and kind, whatever its property.
CommitPoll(p) ==
  /\ poll[p].at = "each" /\ poll[p].todo = {}
  /\ \E row \in Properties : MovesRow(p, row, poll[p].began)
  /\ reviews' = Stored(p)
  /\ PollBecomes(p, IdlePoll)
  /\ UNCHANGED <<clock, postedAt>>

\* No active row of this kind: the summary carries the error.
NoIntegration(p) ==
  /\ poll[p].at = "each" /\ poll[p].wrote = NothingWritten
  /\ PollBecomes(p, IdlePoll)
  /\ UNCHANGED <<clock, postedAt, lastPolledAt, reviews, foreign>>

PollerInit ==
  /\ clock = 0
  /\ postedAt = [r \in Reviews |-> 0]
  /\ lastPolledAt = [q \in Properties |-> 0]
  /\ reviews = NothingWritten /\ foreign = {}
  /\ poll = [p \in Polls |-> IdlePoll]

PollAndLink(p) ==
  \/ \E property \in Properties, source \in Source : Begin(p, property, source)
  \/ GetLastPolledAt(p) \/ Fetch(p) \/ FetchFails(p) \/ NoIntegration(p)
  \/ \E r \in Reviews : UpsertReview(p, r)
  \/ \E outcome \in {"sure", "unsure", "ambiguous"} : LinkReview(p, outcome)
  \/ PollFails(p) \/ CommitPoll(p)

PollerNext == (\E r \in Reviews : Post(r)) \/ (\E p \in Polls : PollAndLink(p))

PollerSpec == PollerInit /\ [][PollerNext]_pollerVars

-----------------------------------------------------------------------------
PollerTypeOK ==
  /\ clock \in Instant
  /\ postedAt \in [Reviews -> Instant] /\ lastPolledAt \in [Properties -> Instant]
  /\ reviews \in [Reviews -> LinkStatus] /\ foreign \subseteq Properties
  /\ poll \in [Polls -> Poll]

\* No review is older than the watermark of its property and yet not stored, so
\* that no later poll would ask for it, unless the watermark was moved by a poll of
\* another property: findIntegrationId has no property in its WHERE
\* (review-poller.ts:111, 166, 210).
ReviewsNotLost ==
  \A r \in Reviews :
    postedAt[r] # 0 /\ postedAt[r] <= lastPolledAt[About(r)] =>
      reviews[r] # "none" \/ About(r) \in foreign
=============================================================================
