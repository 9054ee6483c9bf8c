---------------------------- MODULE ServicesProofs ----------------------------
(* The review poller, the AI gateway and the insights of guest-svc, for any     *)
(* polls, reviews, calls, latencies and answers: no review falls behind its     *)
(* watermark, no cache is used stale, and no failure of the model masks a guest's *)
(* trajectory, but for the one answer that breaks its request. And the parts    *)
(* checked side by side behave as each does alone.                              *)
EXTENDS MCServices, DatabaseProofs, WebClientProofs

\* A row of the table, or of a poll's transaction.
HasRow(r) == reviews[r] # "none"
Wrote(p, r) == poll[p].wrote[r] # "none"

\* Nothing that counts time is ahead of the clock.
NothingAhead ==
  /\ \A r \in Reviews : postedAt[r] <= clock
  /\ \A q \in Properties : lastPolledAt[q] <= clock
  /\ \A p \in Polls : poll[p].began <= clock /\ poll[p].since <= clock

\* Where a poll starts from, nothing older is missing.
StartsRight(p) ==
  \A r \in Reviews :
    /\ About(r) = poll[p].property /\ postedAt[r] # 0 /\ postedAt[r] <= poll[p].since
    => HasRow(r) \/ About(r) \in foreign

\* A poll that goes on has, or has still to do, all that was posted from there to
\* the instant it began.
Covers(p) ==
  \A r \in Reviews :
    /\ About(r) = poll[p].property
    /\ postedAt[r] > poll[p].since /\ postedAt[r] <= poll[p].began
    => r \in poll[p].todo \/ Wrote(p, r) \/ HasRow(r)

PollInv(p) ==
  /\ poll[p].at \notin {"idle", "since"} => StartsRight(p)
  /\ poll[p].at \in {"each", "link"} => Covers(p)

\* The inductive invariant.
PollerInv ==
  /\ PollerTypeOK /\ NothingAhead /\ ReviewsNotLost
  /\ \A p \in Polls : PollInv(p)

-----------------------------------------------------------------------------
LEMMA IdlePollIs ==
  IdlePoll \in Poll /\ IdlePoll.at = "idle" /\ IdlePoll.began = 0 /\ IdlePoll.since = 0
<1>1. (CHOOSE q \in Properties : TRUE) \in Properties
  BY PropertiesAssumption
<1>2. NothingWritten \in [Reviews -> LinkStatus]
  BY DEF NothingWritten, LinkStatus
<1>3. 0 \in Instant
  BY MaxClockAssumption DEF Instant
<1>4. QED
  BY <1>1, <1>2, <1>3 DEF IdlePoll, Poll, Source

LEMMA PollerInitInv == PollerInit => PollerInv
<1> SUFFICES ASSUME PollerInit PROVE PollerInv
  OBVIOUS
<1>1. 0 \in Instant
  BY MaxClockAssumption DEF Instant
<1>2. PollerTypeOK
  BY <1>1, IdlePollIs DEF PollerInit, PollerTypeOK, NothingWritten, LinkStatus
<1>3. \A p \in Polls : poll[p] = IdlePoll
  BY DEF PollerInit
<1>4. NothingAhead
  BY <1>3, IdlePollIs DEF NothingAhead, PollerInit
<1>5. ReviewsNotLost
  BY DEF ReviewsNotLost, PollerInit
<1>6. \A p \in Polls : PollInv(p)
  BY <1>3, IdlePollIs DEF PollInv
<1>7. QED
  BY <1>2, <1>4, <1>5, <1>6 DEF PollerInv

\* A poll moves while the clock, the reviews and the watermarks stand.
LEMMA PollMoves ==
  ASSUME PollerInv, NEW p \in Polls, NEW rec \in Poll, PollBecomes(p, rec),
         UNCHANGED <<clock, postedAt, lastPolledAt, reviews, foreign>>,
         rec.began <= clock, rec.since <= clock,
         PollInv(p)'
  PROVE  PollerInv'
<1>1. /\ poll' \in [Polls -> Poll] /\ poll'[p] = rec
      /\ \A o \in Polls \ {p} : poll'[o] = poll[o]
  BY DEF PollBecomes, PollerInv, PollerTypeOK
<1>2. PollerTypeOK'
  BY <1>1 DEF PollerInv, PollerTypeOK
<1>3. NothingAhead'
  BY <1>1 DEF PollerInv, NothingAhead
<1>4. ReviewsNotLost'
  BY DEF PollerInv, ReviewsNotLost
<1>5. ASSUME NEW o \in Polls \ {p} PROVE PollInv(o)'
  BY <1>1 DEF PollerInv, PollInv, StartsRight, Covers, HasRow, Wrote
<1>6. QED
  BY <1>2, <1>3, <1>4, <1>5 DEF PollerInv

\* Types of the fields of a poll, and numbers for those of the clock.
LEMMA PollFields ==
  ASSUME PollerInv, NEW p \in Polls
  PROVE  /\ poll[p] \in Poll /\ poll[p].began \in Int /\ poll[p].since \in Int
         /\ poll[p].property \in Properties
         /\ poll[p].began <= clock /\ poll[p].since <= clock
  BY DEF PollerInv, PollerTypeOK, NothingAhead, Poll, Instant

\* An idle poll knows nothing.
LEMMA IdleKeeps ==
  ASSUME PollerInv, NEW p \in Polls, PollBecomes(p, IdlePoll),
         UNCHANGED <<clock, postedAt, lastPolledAt, reviews, foreign>>
  PROVE  PollerInv'
<1>1. poll'[p] = IdlePoll
  BY DEF PollBecomes, PollerInv, PollerTypeOK
<1>2. PollInv(p)'
  BY <1>1, IdlePollIs DEF PollInv
<1>3. 0 <= clock
  BY MaxClockAssumption DEF PollerInv, PollerTypeOK, Instant
<1>4. QED
  BY <1>2, <1>3, IdlePollIs, PollMoves

LEMMA PostKeeps ==
  ASSUME PollerInv, NEW r \in Reviews, Post(r) PROVE PollerInv'
<1>1. PICK n \in Instant : n = clock + 1 /\ n > clock
  BY MaxClockAssumption DEF Post, PollerInv, PollerTypeOK, Instant
<1>2. /\ clock' = n /\ postedAt' = [postedAt EXCEPT ![r] = n]
      /\ lastPolledAt' = lastPolledAt /\ reviews' = reviews /\ foreign' = foreign /\ poll' = poll
  BY <1>1 DEF Post
<1>3. /\ postedAt' \in [Reviews -> Instant] /\ postedAt'[r] = n
      /\ \A x \in Reviews \ {r} : postedAt'[x] = postedAt[x]
  BY <1>2 DEF PollerInv, PollerTypeOK
<1>4. PollerTypeOK'
  BY <1>2, <1>3 DEF PollerInv, PollerTypeOK
<1>5. n \in Int /\ clock \in Int /\ (\A x \in Reviews : postedAt[x] \in Int)
  BY MaxClockAssumption DEF PollerInv, PollerTypeOK, Instant
<1>6. \A q \in Properties : lastPolledAt[q] \in Int
  BY MaxClockAssumption DEF PollerInv, PollerTypeOK, Instant
<1>7. NothingAhead'
  <2>1. \A x \in Reviews : postedAt'[x] <= n
    BY <1>1, <1>3, <1>5 DEF PollerInv, NothingAhead
  <2>2. \A q \in Properties : lastPolledAt[q] <= n
    BY <1>1, <1>5, <1>6 DEF PollerInv, NothingAhead
  <2>3. ASSUME NEW p \in Polls PROVE poll[p].began <= n /\ poll[p].since <= n
    <3>1. /\ poll[p].began \in Int /\ poll[p].since \in Int
          /\ poll[p].began <= clock /\ poll[p].since <= clock
      BY PollFields
    <3>2. QED
      BY <1>1, <1>5, <3>1
  <2>4. QED
    BY <1>2, <2>1, <2>2, <2>3 DEF NothingAhead
<1>8. ReviewsNotLost'
  <2>1. ~(n <= lastPolledAt[About(r)])
    <3>1. PICK q \in Properties : q = About(r)
      BY AboutAssumption
    <3>2. lastPolledAt[q] <= clock /\ lastPolledAt[q] \in Int
      BY <1>6 DEF PollerInv, NothingAhead
    <3>3. QED
      BY <1>1, <1>5, <3>1, <3>2
  <2>2. QED
    BY <1>2, <1>3, <2>1 DEF PollerInv, ReviewsNotLost
<1>9. ASSUME NEW p \in Polls PROVE PollInv(p)'
  <2>1. ~(n <= poll[p].since) /\ ~(n <= poll[p].began)
    BY <1>1, <1>5, PollFields
  <2>2. StartsRight(p) => StartsRight(p)'
    BY <1>2, <1>3, <2>1 DEF StartsRight, HasRow
  <2>3. Covers(p) => Covers(p)'
    BY <1>2, <1>3, <2>1 DEF Covers, HasRow, Wrote
  <2>4. QED
    BY <1>2, <2>2, <2>3 DEF PollerInv, PollInv
<1>10. QED
  BY <1>4, <1>7, <1>8, <1>9 DEF PollerInv

LEMMA BeginPollKeeps ==
  ASSUME PollerInv, NEW p \in Polls, NEW property \in Properties, NEW source \in Source,
         Begin(p, property, source)
  PROVE  PollerInv'
<1>1. PICK n \in Instant : n = clock + 1 /\ n > clock
  BY MaxClockAssumption DEF Begin, PollerInv, PollerTypeOK, Instant
<1>2. PICK rec : rec = [IdlePoll EXCEPT !.at = "since", !.source = source,
                                      !.property = property, !.began = n]
  OBVIOUS
<1>3. rec \in Poll /\ rec.at = "since" /\ rec.began = n /\ rec.since = 0
  BY <1>2, IdlePollIs DEF Poll
<1>4. /\ clock' = n /\ poll' = [poll EXCEPT ![p] = rec]
      /\ postedAt' = postedAt /\ lastPolledAt' = lastPolledAt /\ reviews' = reviews
      /\ foreign' = foreign
  BY <1>1, <1>2 DEF Begin, PollBecomes
<1>5. /\ poll' \in [Polls -> Poll] /\ poll'[p] = rec
      /\ \A o \in Polls \ {p} : poll'[o] = poll[o]
  BY <1>3, <1>4 DEF PollerInv, PollerTypeOK
<1>6. PollerTypeOK'
  BY <1>4, <1>5 DEF PollerInv, PollerTypeOK
<1>7. /\ n \in Int /\ clock \in Int /\ (\A x \in Reviews : postedAt[x] \in Int)
      /\ 0 <= n /\ \A q \in Properties : lastPolledAt[q] \in Int
  BY MaxClockAssumption DEF PollerInv, PollerTypeOK, Instant
<1>8. NothingAhead'
  <2>1. \A x \in Reviews : postedAt[x] <= n
    BY <1>1, <1>7 DEF PollerInv, NothingAhead
  <2>2. \A q \in Properties : lastPolledAt[q] <= n
    BY <1>1, <1>7 DEF PollerInv, NothingAhead
  <2>3. ASSUME NEW o \in Polls PROVE poll[o].began <= n /\ poll[o].since <= n
    <3>1. /\ poll[o].began \in Int /\ poll[o].since \in Int
          /\ poll[o].began <= clock /\ poll[o].since <= clock
      BY PollFields
    <3>2. QED
      BY <1>1, <1>7, <3>1
  <2>4. \A o \in Polls : poll'[o].began <= n /\ poll'[o].since <= n
    BY <1>3, <1>5, <1>7, <2>3
  <2>5. QED
    BY <1>4, <2>1, <2>2, <2>4 DEF NothingAhead
<1>9. ReviewsNotLost'
  BY <1>4 DEF PollerInv, ReviewsNotLost
<1>10. PollInv(p)'
  BY <1>3, <1>5 DEF PollInv
<1>11. ASSUME NEW o \in Polls \ {p} PROVE PollInv(o)'
  BY <1>4, <1>5 DEF PollerInv, PollInv, StartsRight, Covers, HasRow, Wrote
<1>12. QED
  BY <1>6, <1>8, <1>9, <1>10, <1>11 DEF PollerInv

LEMMA GetLastPolledAtKeeps ==
  ASSUME PollerInv, NEW p \in Polls, GetLastPolledAt(p) PROVE PollerInv'
<1>1. UNCHANGED <<clock, postedAt, lastPolledAt, reviews, foreign>>
  BY DEF GetLastPolledAt
<1>2. CASE ~HasKind(poll[p].source)
  BY <1>1, <1>2, IdleKeeps DEF GetLastPolledAt
<1>3. CASE HasKind(poll[p].source)
  <2>1. PICK since \in Instant : since = lastPolledAt[poll[p].property]
    BY PollFields DEF PollerInv, PollerTypeOK
  <2>2. PICK rec : rec = [poll[p] EXCEPT !.at = "fetch", !.since = since]
    OBVIOUS
  <2>3. /\ rec \in Poll /\ rec.at = "fetch" /\ rec.since = since
        /\ rec.began = poll[p].began /\ rec.property = poll[p].property
    BY <2>2, PollFields DEF Poll
  <2>4. PollBecomes(p, rec)
    BY <1>3, <2>1, <2>2 DEF GetLastPolledAt
  <2>5. poll'[p] = rec
    BY <2>4 DEF PollBecomes, PollerInv, PollerTypeOK
  <2>6. StartsRight(p)'
    BY <1>1, <2>1, <2>3, <2>5 DEF PollerInv, ReviewsNotLost, StartsRight, HasRow
  <2>7. PollInv(p)'
    BY <2>3, <2>5, <2>6 DEF PollInv
  <2>8. since <= clock /\ poll[p].began <= clock
    BY <2>1, PollFields DEF PollerInv, NothingAhead
  <2>9. QED
    BY <1>1, <2>3, <2>4, <2>7, <2>8, PollMoves
<1>4. QED
  BY <1>2, <1>3

LEMMA FetchKeeps ==
  ASSUME PollerInv, NEW p \in Polls, Fetch(p) PROVE PollerInv'
<1>1. UNCHANGED <<clock, postedAt, lastPolledAt, reviews, foreign>> /\ poll[p].at = "fetch"
  BY DEF Fetch
<1>2. PICK todo \in SUBSET Reviews : todo = Newer(p)
  BY DEF Newer
<1>3. PICK rec : rec = [poll[p] EXCEPT !.at = "each", !.todo = todo]
  OBVIOUS
<1>4. /\ rec \in Poll /\ rec.at = "each" /\ rec.todo = todo /\ rec.since = poll[p].since
      /\ rec.began = poll[p].began /\ rec.property = poll[p].property
  BY <1>3, PollFields DEF Poll
<1>5. PollBecomes(p, rec)
  BY <1>2, <1>3 DEF Fetch
<1>6. poll'[p] = rec
  BY <1>5 DEF PollBecomes, PollerInv, PollerTypeOK
<1>7. StartsRight(p)
  BY <1>1 DEF PollerInv, PollInv
<1>8. StartsRight(p)'
  BY <1>1, <1>4, <1>6, <1>7 DEF StartsRight, HasRow
<1>9. Covers(p)'
  BY <1>1, <1>2, <1>4, <1>6 DEF Covers, Newer
<1>10. PollInv(p)'
  BY <1>8, <1>9 DEF PollInv
<1>11. QED
  BY <1>1, <1>4, <1>5, <1>10, PollFields, PollMoves

\* The review in hand is stored already, or the poll's transaction stores it.
LEMMA UpsertReviewKeeps ==
  ASSUME PollerInv, NEW p \in Polls, NEW r \in Reviews, UpsertReview(p, r)
  PROVE  PollerInv'
<1>1. /\ UNCHANGED <<clock, postedAt, lastPolledAt, reviews, foreign>>
      /\ poll[p].at = "each" /\ r \in poll[p].todo
  BY DEF UpsertReview
<1>2. StartsRight(p) /\ Covers(p)
  BY <1>1 DEF PollerInv, PollInv
<1>3. CASE reviews[r] # "none"
  <2>1. PICK rec : rec = [poll[p] EXCEPT !.todo = @ \ {r}]
    OBVIOUS
  <2>2. /\ rec \in Poll /\ rec.at = "each" /\ rec.todo = poll[p].todo \ {r}
        /\ rec.since = poll[p].since /\ rec.began = poll[p].began
        /\ rec.property = poll[p].property /\ rec.wrote = poll[p].wrote
    BY <1>1, <2>1, PollFields DEF Poll
  <2>3. PollBecomes(p, rec)
    BY <1>3, <2>1 DEF UpsertReview
  <2>4. poll'[p] = rec
    BY <2>3 DEF PollBecomes, PollerInv, PollerTypeOK
  <2>5. StartsRight(p)'
    BY <1>1, <1>2, <2>2, <2>4 DEF StartsRight, HasRow
  <2>6. Covers(p)'
    BY <1>1, <1>2, <1>3, <2>2, <2>4 DEF Covers, HasRow, Wrote
  <2>7. PollInv(p)'
    BY <2>5, <2>6 DEF PollInv
  <2>8. QED
    BY <1>1, <2>2, <2>3, <2>7, PollFields, PollMoves
<1>4. CASE reviews[r] = "none"
  <2>1. PICK wrote : wrote = [poll[p].wrote EXCEPT ![r] = "unlinked"]
    OBVIOUS
  <2>2. PICK rec : rec = [poll[p] EXCEPT !.at = "link", !.todo = @ \ {r},
                                        !.wrote = wrote, !.linking = {r}]
    OBVIOUS
  <2>3. poll[p] \in Poll /\ poll[p].wrote \in [Reviews -> LinkStatus]
    BY PollFields DEF Poll
  <2>4. /\ wrote \in [Reviews -> LinkStatus] /\ wrote[r] # "none"
        /\ \A x \in Reviews \ {r} : wrote[x] = poll[p].wrote[x]
    BY <2>1, <2>3 DEF LinkStatus
  <2>5. /\ rec \in Poll /\ rec.at = "link" /\ rec.todo = poll[p].todo \ {r}
        /\ rec.since = poll[p].since /\ rec.began = poll[p].began
        /\ rec.property = poll[p].property /\ rec.wrote = wrote
    BY <2>2, <2>3, <2>4 DEF Poll
  <2>6. PollBecomes(p, rec)
    BY <1>4, <2>1, <2>2 DEF UpsertReview
  <2>7. poll'[p] = rec
    BY <2>6 DEF PollBecomes, PollerInv, PollerTypeOK
  <2>8. StartsRight(p)'
    BY <1>1, <1>2, <2>5, <2>7 DEF StartsRight, HasRow
  <2>9. Covers(p)'
    BY <1>1, <1>2, <2>4, <2>5, <2>7 DEF Covers, HasRow, Wrote
  <2>10. PollInv(p)'
    BY <2>8, <2>9 DEF PollInv
  <2>11. QED
    BY <1>1, <2>5, <2>6, <2>10, PollFields, PollMoves
<1>5. QED
  BY <1>3, <1>4

\* Linking, or its failure, changes no row from stored to missing.
LEMMA LinkReviewKeeps ==
  ASSUME PollerInv, NEW p \in Polls, NEW outcome \in {"sure", "unsure", "ambiguous"},
         LinkReview(p, outcome)
  PROVE  PollerInv'
<1>1. UNCHANGED <<clock, postedAt, lastPolledAt, reviews, foreign>> /\ poll[p].at = "link"
  BY DEF LinkReview
<1>2. StartsRight(p) /\ Covers(p)
  BY <1>1 DEF PollerInv, PollInv
<1>3. PICK linked : linked = [r \in Reviews |->
                      IF r \in poll[p].linking THEN "auto_linked" ELSE poll[p].wrote[r]]
  OBVIOUS
<1>4. poll[p] \in Poll /\ poll[p].wrote \in [Reviews -> LinkStatus]
  BY PollFields DEF Poll
<1>5. /\ linked \in [Reviews -> LinkStatus]
      /\ \A x \in Reviews : poll[p].wrote[x] # "none" => linked[x] # "none"
  BY <1>3, <1>4 DEF LinkStatus
<1>6. PICK wrote \in {linked, poll[p].wrote}, at \in {"each", "broken"} :
        PollBecomes(p, [poll[p] EXCEPT !.at = at, !.linking = {}, !.wrote = wrote])
  <2>1. CASE outcome = "sure"
    BY <1>3, <2>1 DEF LinkReview
  <2>2. CASE outcome = "unsure"
    <3>1. PollBecomes(p, [poll[p] EXCEPT !.at = "each", !.linking = {}])
      BY <2>2 DEF LinkReview
    <3>2. [poll[p] EXCEPT !.at = "each", !.linking = {}]
            = [poll[p] EXCEPT !.at = "each", !.linking = {}, !.wrote = poll[p].wrote]
      BY <1>4 DEF Poll
    <3>3. QED
      BY <3>1, <3>2
  <2>3. CASE outcome = "ambiguous"
    <3>1. PollBecomes(p, [poll[p] EXCEPT !.at = "broken", !.linking = {}])
      BY <2>3 DEF LinkReview
    <3>2. [poll[p] EXCEPT !.at = "broken", !.linking = {}]
            = [poll[p] EXCEPT !.at = "broken", !.linking = {}, !.wrote = poll[p].wrote]
      BY <1>4 DEF Poll
    <3>3. QED
      BY <3>1, <3>2
  <2>4. QED
    BY <2>1, <2>2, <2>3
<1>7. PICK rec : rec = [poll[p] EXCEPT !.at = at, !.linking = {}, !.wrote = wrote]
  OBVIOUS
<1>8. wrote \in [Reviews -> LinkStatus] /\ \A x \in Reviews :
                     poll[p].wrote[x] # "none" => wrote[x] # "none"
  BY <1>4, <1>5, <1>6
<1>9. /\ rec \in Poll /\ rec.at = at /\ rec.todo = poll[p].todo
      /\ rec.since = poll[p].since /\ rec.began = poll[p].began
      /\ rec.property = poll[p].property /\ rec.wrote = wrote
  BY <1>4, <1>6, <1>7, <1>8 DEF Poll
<1>10. PollBecomes(p, rec)
  BY <1>6, <1>7
<1>11. poll'[p] = rec
  BY <1>10 DEF PollBecomes, PollerInv, PollerTypeOK
<1>12. StartsRight(p)'
  BY <1>1, <1>2, <1>9, <1>11 DEF StartsRight, HasRow
<1>13. Covers(p)'
  BY <1>1, <1>2, <1>8, <1>9, <1>11 DEF Covers, HasRow, Wrote
<1>14. PollInv(p)'
  BY <1>12, <1>13 DEF PollInv
<1>15. QED
  BY <1>1, <1>9, <1>10, <1>14, PollFields, PollMoves

\* The watermark goes to the instant the poll began, and all that was posted by then
\* is stored with it.
LEMMA CommitPollKeeps ==
  ASSUME PollerInv, NEW p \in Polls, CommitPoll(p) PROVE PollerInv'
<1>1. PICK home \in Properties : MovesRow(p, home, poll[p].began)
  BY DEF CommitPoll
<1>2. /\ poll[p].at = "each" /\ poll[p].todo = {} /\ reviews' = Stored(p)
      /\ PollBecomes(p, IdlePoll) /\ clock' = clock /\ postedAt' = postedAt
  BY DEF CommitPoll
<1>3. PICK began \in Instant : began = poll[p].began /\ began <= clock
  BY PollFields DEF Poll
<1>4. /\ lastPolledAt' \in [Properties -> Instant] /\ lastPolledAt'[home] = began
      /\ \A q \in Properties \ {home} : lastPolledAt'[q] = lastPolledAt[q]
  BY <1>1, <1>3 DEF MovesRow, PollerInv, PollerTypeOK
<1>5. /\ foreign \subseteq foreign' /\ foreign' \subseteq Properties
      /\ home # poll[p].property => home \in foreign'
  BY <1>1 DEF MovesRow, PollerInv, PollerTypeOK
<1>6. poll[p].wrote \in [Reviews -> LinkStatus]
  BY PollFields DEF Poll
<1>7. /\ reviews' \in [Reviews -> LinkStatus]
      /\ \A r \in Reviews : HasRow(r) \/ Wrote(p, r) => reviews'[r] # "none"
  BY <1>2, <1>6 DEF Stored, PollerInv, PollerTypeOK, HasRow, Wrote
<1>8. /\ poll' \in [Polls -> Poll] /\ poll'[p] = IdlePoll
      /\ \A o \in Polls \ {p} : poll'[o] = poll[o]
  BY <1>2, IdlePollIs DEF PollBecomes, PollerInv, PollerTypeOK
<1>9. PollerTypeOK'
  BY <1>2, <1>4, <1>5, <1>7, <1>8 DEF PollerInv, PollerTypeOK
<1>10. NothingAhead'
  <2>1. \A q \in Properties : lastPolledAt'[q] <= clock
    BY <1>3, <1>4 DEF PollerInv, NothingAhead
  <2>2. 0 <= clock
    BY MaxClockAssumption DEF PollerInv, PollerTypeOK, Instant
  <2>3. \A o \in Polls : poll'[o].began <= clock /\ poll'[o].since <= clock
    BY <1>8, <2>2, IdlePollIs, PollFields
  <2>4. \A r \in Reviews : postedAt[r] <= clock
    BY DEF PollerInv, NothingAhead
  <2>5. QED
    BY <1>2, <2>1, <2>3, <2>4 DEF NothingAhead
<1>11. ReviewsNotLost'
  <2> SUFFICES ASSUME NEW r \in Reviews, postedAt[r] # 0,
                      postedAt[r] <= lastPolledAt'[About(r)], About(r) \notin foreign'
               PROVE  reviews'[r] # "none"
    BY <1>2 DEF ReviewsNotLost
  <2>1. About(r) \notin foreign /\ About(r) \in Properties
    BY <1>5, AboutAssumption
  <2>2. CASE About(r) # home
    <3>1. postedAt[r] <= lastPolledAt[About(r)]
      BY <1>4, <2>1, <2>2
    <3>2. HasRow(r)
      BY <2>1, <3>1 DEF PollerInv, ReviewsNotLost, HasRow
    <3>3. QED
      BY <1>7, <3>2
  <2>3. CASE About(r) = home
    <3>1. home = poll[p].property /\ postedAt[r] <= began
      BY <1>4, <1>5, <2>3
    <3>2. StartsRight(p) /\ Covers(p)
      BY <1>2 DEF PollerInv, PollInv
    <3>3. CASE postedAt[r] <= poll[p].since
      <4>1. HasRow(r)
        BY <2>1, <2>3, <3>1, <3>2, <3>3 DEF StartsRight
      <4>2. QED
        BY <1>7, <4>1
    <3>4. CASE postedAt[r] > poll[p].since
      <4>1. r \in poll[p].todo \/ Wrote(p, r) \/ HasRow(r)
        BY <1>3, <2>3, <3>1, <3>2, <3>4 DEF Covers
      <4>2. QED
        BY <1>2, <1>7, <4>1
    <3>5. postedAt[r] \in Int /\ poll[p].since \in Int
      BY PollFields DEF PollerInv, PollerTypeOK, Instant
    <3>6. QED
      BY <3>3, <3>4, <3>5
  <2>4. QED
    BY <2>2, <2>3
<1>12. \A r \in Reviews : HasRow(r) => HasRow(r)'
  BY <1>7 DEF HasRow
<1>13. ASSUME NEW o \in Polls PROVE PollInv(o)'
  <2>1. CASE o = p
    BY <1>8, <2>1, IdlePollIs DEF PollInv
  <2>2. CASE o # p
    <3>1. poll'[o] = poll[o]
      BY <1>8, <2>2
    <3>2. StartsRight(o) => StartsRight(o)'
      BY <1>2, <1>5, <1>12, <3>1 DEF StartsRight
    <3>3. Covers(o) => Covers(o)'
      BY <1>2, <1>12, <3>1 DEF Covers, Wrote
    <3>4. QED
      BY <3>1, <3>2, <3>3 DEF PollerInv, PollInv
  <2>3. QED
    BY <2>1, <2>2
<1>14. QED
  BY <1>9, <1>10, <1>11, <1>13 DEF PollerInv

LEMMA PollerNextKeeps == PollerInv /\ [PollerNext]_pollerVars => PollerInv'
<1> SUFFICES ASSUME PollerInv, [PollerNext]_pollerVars PROVE PollerInv'
  OBVIOUS
<1>1. CASE UNCHANGED pollerVars
  BY <1>1 DEF pollerVars, PollerInv, PollerTypeOK, NothingAhead, ReviewsNotLost, PollInv,
     StartsRight, Covers, HasRow, Wrote
<1>2. ASSUME NEW p \in Polls, PollAndLink(p) PROVE PollerInv'
  <2>1. CASE FetchFails(p) \/ PollFails(p) \/ NoIntegration(p)
    BY <2>1, IdleKeeps DEF FetchFails, PollFails, NoIntegration
  <2>2. QED
    BY <1>2, <2>1, BeginPollKeeps, GetLastPolledAtKeeps, FetchKeeps, UpsertReviewKeeps,
       LinkReviewKeeps, CommitPollKeeps DEF PollAndLink
<1>3. QED
  BY <1>1, <1>2, PostKeeps DEF PollerNext

\* What every poll has in hand covers what was posted since the watermark it read
\* (pollAndLink and getLastPolledAt of review-poller.ts).
THEOREM PollerInvariant == PollerSpec => []PollerInv
<1>1. QED
  BY PollerInitInv, PollerNextKeeps, PTL DEF PollerSpec

\* The watermark may be moved while other polls run, reviews are posted and linking
\* breaks transactions: because it is the instant of BEGIN, no review of a property
\* whose own polls moved its row falls behind it unstored (review-poller.ts:166).
THEOREM NoReviewFallsBehind == PollerSpec => []ReviewsNotLost
<1>1. PollerInv => ReviewsNotLost
  BY DEF PollerInv
<1>2. QED
  BY <1>1, PollerInvariant, PTL

-----------------------------------------------------------------------------
\* A token really lives as long as it is held to, but for the time its answer took.
TokenKnown == token # None => token.left <= token.lives + LatencyMax

\* An entry that is not yet stale holds a prompt active within its age and the
\* statement that read it.
CacheKnown ==
  cache # None /\ cache.age < Ttl => ago[cache.version] <= cache.age + QueryMax

\* What a call holds is good for as long as it may still wait.
HoldsGood(rec) ==
  /\ rec.at \in {"caps", "prompt", "store"} => rec.waited <= QueryMax
  /\ rec.at \in {"token", "reply"} => rec.waited <= LatencyMax
  /\ rec.at \in {"prompt", "store"} => rec.tok + rec.waited > QueryMax
  /\ rec.at = "store" => ago[rec.read] <= rec.waited

\* A request as it should leave.
LeavesWell(rec) ==
  rec.at = "reply" => /\ rec.tok > 0
                      /\ rec.with = None \/ ago[rec.with] <= Ttl + QueryMax

\* The inductive invariant of the two caches.
GatewayInv ==
  /\ GatewayTypeOK
  /\ ago[active] = 0 /\ TokenKnown /\ CacheKnown
  /\ \A c \in Calls : HoldsGood(call[c])

\* One step of CachesFreshWhenUsed.
FreshStep ==
  \A c \in Calls : Leaves(c) =>
    /\ call'[c].tok > 0
    /\ call'[c].with = None \/ ago[call'[c].with] <= Ttl + QueryMax

-----------------------------------------------------------------------------
LEMMA IdleCallIs ==
  IdleCall \in Call /\ IdleCall.at = "idle" /\ IdleCall.waited = 0
<1>1. 0 \in 0 .. (LatencyMax + QueryMax) /\ 0 \in Left
  BY TimesAssumption DEF Left
<1>2. None \in Prompt
  BY DEF Prompt
<1>3. QED
  BY <1>1, <1>2 DEF IdleCall, Call, Answer

\* A step of one call, which may renew the token or the cache.
LEMMA CallMoves ==
  ASSUME GatewayInv, NEW c \in Calls, NEW rec \in Call, HoldsGood(rec), Becomes(c, rec),
         call[c].at = "reply" \/ LeavesWell(rec),
         logged' \in Nat, active' = active, ago' = ago,
         token' \in Token \cup {None}, TokenKnown',
         cache' \in CacheEntry \cup {None}, CacheKnown'
  PROVE  GatewayInv' /\ FreshStep
<1>1. call \in [Calls -> Call] /\ call' = [call EXCEPT ![c] = rec]
  BY DEF GatewayInv, GatewayTypeOK, Becomes
<1>2. call'[c] = rec /\ \A d \in Calls \ {c} : call'[d] = call[d]
  BY <1>1
<1>3. GatewayTypeOK'
  <2>1. call' \in [Calls -> Call]
    BY <1>1
  <2>2. QED
    BY <2>1 DEF GatewayInv, GatewayTypeOK, Token, CacheEntry, Left, Horizon, Prompt, Call, Answer
<1>4. \A d \in Calls : HoldsGood(call[d])'
  BY <1>2 DEF GatewayInv, HoldsGood
<1>5. (ago[active] = 0)'
  BY DEF GatewayInv
<1>6. FreshStep
  BY <1>2 DEF FreshStep, Leaves, LeavesWell
<1>7. QED
  BY <1>3, <1>4, <1>5, <1>6 DEF GatewayInv

\* The facts a call's step starts from.
LEMMA CallFields ==
  ASSUME GatewayTypeOK, NEW c \in Calls
  PROVE  /\ call[c] \in Call /\ call[c].tok \in 0 .. Life /\ call[c].waited \in Nat
         /\ call[c].read \in Prompt /\ call[c].with \in Prompt
  BY TimesAssumption DEF GatewayTypeOK, Call, Left

\* The request that leaves.
LEMMA SentIs ==
  ASSUME NEW rec \in Call, NEW version \in Prompt,
         rec.tok > 0, version = None \/ ago[version] <= Ttl + QueryMax
  PROVE  /\ Sent(rec, version) \in Call
         /\ HoldsGood(Sent(rec, version)) /\ LeavesWell(Sent(rec, version))
<1>1. None \in Prompt /\ 0 \in 0 .. (LatencyMax + QueryMax) /\ 0 <= LatencyMax
  BY TimesAssumption DEF Prompt
<1>2. PICK r : r = Sent(rec, version)
  OBVIOUS
<1>3. r \in Call /\ r.at = "reply" /\ r.tok = rec.tok /\ r.with = version /\ r.waited = 0
  BY <1>1, <1>2 DEF Sent, Call
<1>4. HoldsGood(r) /\ LeavesWell(r)
  BY <1>1, <1>3 DEF HoldsGood, LeavesWell
<1>5. QED
  BY <1>2, <1>3, <1>4

\* What a call does once it has a token that lives for a database statement more.
LEMMA WithTokenIs ==
  ASSUME GatewayInv, NEW rec \in Call, NEW lives \in Left, lives > QueryMax
  PROVE  /\ WithToken(rec, lives) \in Call
         /\ HoldsGood(WithToken(rec, lives)) /\ LeavesWell(WithToken(rec, lives))
<1>1. None \in Prompt /\ 0 \in 0 .. (LatencyMax + QueryMax) /\ 0 <= QueryMax
  BY TimesAssumption DEF Prompt
<1>2. PICK r : r = [rec EXCEPT !.tok = lives, !.waited = 0]
  OBVIOUS
<1>3. r \in Call /\ r.tok = lives /\ r.waited = 0 /\ r.tok > 0
  <2>1. r \in Call /\ r.tok = lives /\ r.waited = 0
    BY <1>1, <1>2 DEF Call
  <2>2. lives \in Int /\ QueryMax \in Nat
    BY TimesAssumption DEF Left
  <2>3. QED
    BY <2>1, <2>2
<1>4. CASE ~r.chat
  <2>1. WithToken(rec, lives) = Sent(r, None)
    BY <1>2, <1>4 DEF WithToken
  <2>2. QED
    BY <2>1, <1>1, <1>3, SentIs
<1>5. CASE r.chat /\ CacheIsFresh
  <2>1. WithToken(rec, lives) = Sent(r, cache.version)
    BY <1>2, <1>5 DEF WithToken
  <2>2. cache \in CacheEntry /\ cache.age < Ttl
    BY <1>5 DEF CacheIsFresh, GatewayInv, GatewayTypeOK
  <2>3. cache.version \in Prompt /\ cache.age \in Nat /\ ago[cache.version] \in Nat
    BY <2>2, TimesAssumption DEF CacheEntry, GatewayInv, GatewayTypeOK, Horizon
  <2>4. ago[cache.version] <= cache.age + QueryMax
    BY <1>5 DEF CacheIsFresh, GatewayInv, CacheKnown
  <2>5. ago[cache.version] <= Ttl + QueryMax
    BY <2>2, <2>3, <2>4, TimesAssumption
  <2>6. QED
    BY <2>1, <2>3, <2>5, <1>3, SentIs
<1>6. CASE r.chat /\ ~CacheIsFresh
  <2>1. PICK q : q = [r EXCEPT !.at = "prompt"]
    OBVIOUS
  <2>2. WithToken(rec, lives) = q
    BY <1>2, <1>6, <2>1 DEF WithToken
  <2>3. q \in Call /\ q.at = "prompt" /\ q.tok = lives /\ q.waited = 0
    BY <1>3, <2>1 DEF Call
  <2>4. HoldsGood(q) /\ LeavesWell(q)
    BY <1>1, <2>3, TimesAssumption DEF HoldsGood, LeavesWell, Left
  <2>5. QED
    BY <2>2, <2>3, <2>4
<1>7. QED
  BY <1>3, <1>4, <1>5, <1>6 DEF Call

\* The answer of a call and its end.
LEMMA EndsIs ==
  ASSUME NEW rec, NEW answer \in Answer
  PROVE  /\ Ends(rec, answer) \in Call /\ Ends(rec, answer).at = "log"
         /\ HoldsGood(Ends(rec, answer)) /\ LeavesWell(Ends(rec, answer))
<1>1. PICK r : r = Ends(rec, answer)
  OBVIOUS
<1>2. r \in Call /\ r.at = "log"
  BY <1>1, IdleCallIs DEF Ends, Call
<1>3. QED
  BY <1>1, <1>2 DEF HoldsGood, LeavesWell

LEMMA IdleGood == HoldsGood(IdleCall) /\ LeavesWell(IdleCall)
  BY IdleCallIs DEF HoldsGood, LeavesWell

LEMMA GatewayInitInv == GatewayInit => GatewayInv
<1> SUFFICES ASSUME GatewayInit PROVE GatewayInv
  OBVIOUS
<1>1. 0 \in 0 .. Horizon /\ Horizon \in 0 .. Horizon
  BY TimesAssumption DEF Horizon
<1>2. GatewayTypeOK
  BY <1>1, IdleCallIs DEF GatewayInit, GatewayTypeOK
<1>3. ago[active] = 0 /\ TokenKnown /\ CacheKnown
  BY DEF GatewayInit, TokenKnown, CacheKnown
<1>4. \A c \in Calls : HoldsGood(call[c])
  BY IdleGood DEF GatewayInit
<1>5. QED
  BY <1>2, <1>3, <1>4 DEF GatewayInv

-----------------------------------------------------------------------------
\* A call's step that leaves the token and the cache alone.
LEMMA PlainStep ==
  ASSUME GatewayInv, NEW c \in Calls, NEW rec \in Call, HoldsGood(rec), Becomes(c, rec),
         call[c].at = "reply" \/ LeavesWell(rec), logged' \in Nat,
         UNCHANGED <<token, active, ago, cache>>
  PROVE  GatewayInv' /\ FreshStep
<1>1. token' \in Token \cup {None} /\ cache' \in CacheEntry \cup {None}
  BY DEF GatewayInv, GatewayTypeOK
<1>2. TokenKnown' /\ CacheKnown'
  BY DEF GatewayInv, TokenKnown, CacheKnown
<1>3. QED
  BY <1>1, <1>2, CallMoves

LEMMA InvokeKeeps ==
  ASSUME GatewayInv, NEW c \in Calls, NEW chat \in BOOLEAN, Invoke(c, chat)
  PROVE  GatewayInv' /\ FreshStep
<1>1. PICK rec : rec = [IdleCall EXCEPT !.at = "caps", !.chat = chat]
  OBVIOUS
<1>2. rec \in Call /\ rec.at = "caps" /\ rec.waited = 0
  BY <1>1, IdleCallIs DEF Call
<1>3. HoldsGood(rec) /\ LeavesWell(rec)
  BY <1>2, TimesAssumption DEF HoldsGood, LeavesWell
<1>4. logged' \in Nat
  BY DEF Invoke, GatewayInv, GatewayTypeOK
<1>5. QED
  BY <1>1, <1>2, <1>3, <1>4, PlainStep DEF Invoke

\* The cached token, while it is fresh, outlives a statement.
LEMMA CachedTokenLives ==
  ASSUME GatewayInv, TokenIsFresh
  PROVE  token.lives \in Left /\ token.lives > QueryMax
<1>1. token \in Token /\ token.left > Margin /\ token.left <= token.lives + LatencyMax
  BY DEF TokenIsFresh, GatewayInv, GatewayTypeOK, TokenKnown
<1>2. QED
  BY <1>1, TimesAssumption DEF Token, Left

LEMMA EnforceCapsKeeps ==
  ASSUME GatewayInv, NEW c \in Calls, EnforceCaps(c)
  PROVE  GatewayInv' /\ FreshStep
<1>1. logged' \in Nat
  BY DEF EnforceCaps, GatewayInv, GatewayTypeOK
<1>2. call[c] \in Call
  BY CallFields DEF GatewayInv
<1>3. CASE OverCap
  <2>1. Becomes(c, IdleCall)
    BY <1>3 DEF EnforceCaps
  <2>2. QED
    BY <2>1, <1>1, IdleCallIs, IdleGood, PlainStep DEF EnforceCaps
<1>4. CASE ~OverCap /\ TokenIsFresh
  <2>1. PICK rec : rec = WithToken(call[c], token.lives)
    OBVIOUS
  <2>2. Becomes(c, rec)
    BY <1>4, <2>1 DEF EnforceCaps
  <2>3. rec \in Call /\ HoldsGood(rec) /\ LeavesWell(rec)
    BY <1>2, <1>4, <2>1, CachedTokenLives, WithTokenIs
  <2>4. QED
    BY <2>2, <2>3, <1>1, PlainStep DEF EnforceCaps
<1>5. CASE ~OverCap /\ ~TokenIsFresh
  <2>1. PICK rec : rec = [call[c] EXCEPT !.at = "token", !.waited = 0]
    OBVIOUS
  <2>2. Becomes(c, rec)
    BY <1>5, <2>1 DEF EnforceCaps
  <2>3. 0 \in 0 .. (LatencyMax + QueryMax) /\ 0 <= LatencyMax
    BY TimesAssumption
  <2>4. rec \in Call /\ rec.at = "token" /\ rec.waited = 0
    BY <1>2, <2>1, <2>3 DEF Call
  <2>5. HoldsGood(rec) /\ LeavesWell(rec)
    BY <2>3, <2>4 DEF HoldsGood, LeavesWell
  <2>6. QED
    BY <2>2, <2>4, <2>5, <1>1, PlainStep DEF EnforceCaps
<1>6. QED
  BY <1>3, <1>4, <1>5

LEMMA CapsUnreadKeeps ==
  ASSUME GatewayInv, NEW c \in Calls, CapsUnread(c)
  PROVE  GatewayInv' /\ FreshStep
<1>1. logged' \in Nat
  BY DEF CapsUnread, GatewayInv, GatewayTypeOK
<1>2. QED
  BY <1>1, IdleCallIs, IdleGood, PlainStep DEF CapsUnread

LEMMA TokenArrivesKeeps ==
  ASSUME GatewayInv, NEW c \in Calls, TokenArrives(c)
  PROVE  GatewayInv' /\ FreshStep
<1>1. PICK spent \in 0 .. call[c].waited :
        /\ token' = [left |-> Life, lives |-> Life - spent]
        /\ Becomes(c, WithToken(call[c], Life - spent))
  BY DEF TokenArrives
<1>2. call[c] \in Call /\ call[c].waited \in Nat /\ call[c].waited <= LatencyMax
  BY CallFields DEF GatewayInv, HoldsGood, TokenArrives
<1>3. PICK lives : lives = Life - spent
  OBVIOUS
<1>4. lives \in Left /\ lives > QueryMax /\ Life <= lives + LatencyMax /\ Life \in Left
  BY <1>1, <1>2, <1>3, TimesAssumption DEF Left
<1>5. PICK rec : rec = WithToken(call[c], lives)
  OBVIOUS
<1>6. rec \in Call /\ HoldsGood(rec) /\ LeavesWell(rec)
  BY <1>2, <1>4, <1>5, WithTokenIs
<1>7. Becomes(c, rec) /\ token' = [left |-> Life, lives |-> lives]
  BY <1>1, <1>3, <1>5
<1>8. token' \in Token \cup {None} /\ TokenKnown'
  BY <1>4, <1>7 DEF Token, TokenKnown
<1>9. logged' \in Nat /\ cache' \in CacheEntry \cup {None} /\ CacheKnown'
  BY DEF TokenArrives, GatewayInv, GatewayTypeOK, CacheKnown
<1>10. QED
  BY <1>6, <1>7, <1>8, <1>9, CallMoves DEF TokenArrives

LEMMA TokenRefusedKeeps ==
  ASSUME GatewayInv, NEW c \in Calls, TokenRefused(c)
  PROVE  GatewayInv' /\ FreshStep
<1>1. logged' \in Nat /\ "failed" \in Answer
  BY DEF TokenRefused, GatewayInv, GatewayTypeOK, Answer
<1>2. QED
  BY <1>1, EndsIs, PlainStep DEF TokenRefused

LEMMA ReadPromptKeeps ==
  ASSUME GatewayInv, NEW c \in Calls, ReadPrompt(c)
  PROVE  GatewayInv' /\ FreshStep
<1>1. PICK rec : rec = [call[c] EXCEPT !.at = "store", !.read = active]
  OBVIOUS
<1>2. call[c] \in Call /\ active \in Prompt /\ call[c].waited \in Nat
  BY CallFields DEF GatewayInv, GatewayTypeOK
<1>3. rec \in Call /\ rec.at = "store" /\ rec.read = active /\ rec.tok = call[c].tok
        /\ rec.waited = call[c].waited
  BY <1>1, <1>2 DEF Call
<1>4. ago[active] = 0 /\ HoldsGood(call[c]) /\ call[c].at = "prompt"
  BY DEF GatewayInv, ReadPrompt
<1>5. HoldsGood(rec) /\ LeavesWell(rec)
  BY <1>2, <1>3, <1>4 DEF HoldsGood, LeavesWell
<1>6. logged' \in Nat
  BY DEF ReadPrompt, GatewayInv, GatewayTypeOK
<1>7. QED
  BY <1>1, <1>3, <1>5, <1>6, PlainStep DEF ReadPrompt

\* The token of a call that waits for its prompt is alive when the wait ends.
LEMMA StillAlive ==
  ASSUME GatewayInv, NEW c \in Calls, call[c].at \in {"prompt", "store"}
  PROVE  call[c].tok > 0
<1>1. call[c].tok \in Int /\ call[c].waited \in Nat /\ QueryMax \in Nat
  BY CallFields, TimesAssumption DEF GatewayInv
<1>2. call[c].waited <= QueryMax /\ call[c].tok + call[c].waited > QueryMax
  BY DEF GatewayInv, HoldsGood
<1>3. QED
  BY <1>1, <1>2

LEMMA StorePromptKeeps ==
  ASSUME GatewayInv, NEW c \in Calls, StorePrompt(c)
  PROVE  GatewayInv' /\ FreshStep
<1>1. call[c] \in Call /\ call[c].read \in Prompt /\ call[c].waited \in Nat /\ call[c].tok > 0
  BY CallFields, StillAlive DEF GatewayInv, StorePrompt
<1>2. ago[call[c].read] \in Nat
  BY <1>1, TimesAssumption DEF GatewayInv, GatewayTypeOK, Horizon
<1>3. ago[call[c].read] <= call[c].waited /\ call[c].waited <= QueryMax
  BY DEF GatewayInv, HoldsGood, StorePrompt
<1>4. ago[call[c].read] <= QueryMax /\ ago[call[c].read] <= Ttl + QueryMax
  BY <1>1, <1>2, <1>3, TimesAssumption
<1>5. PICK rec : rec = Sent(call[c], call[c].read)
  OBVIOUS
<1>6. rec \in Call /\ HoldsGood(rec) /\ LeavesWell(rec)
  BY <1>1, <1>4, <1>5, SentIs
<1>7. cache' \in CacheEntry \cup {None}
  BY <1>1, TimesAssumption DEF StorePrompt, CacheEntry
<1>8. CacheKnown'
  <2>1. PICK v \in Prompt : v = call[c].read
    BY <1>1
  <2>2. cache' = [version |-> v, age |-> 0] /\ ago' = ago /\ ago[v] <= 0 + QueryMax
    BY <1>4, <2>1, TimesAssumption DEF StorePrompt
  <2>3. cache'.version = v /\ cache'.age = 0
    BY <2>2
  <2>4. QED
    BY <2>2, <2>3 DEF CacheKnown
<1>9. logged' \in Nat /\ token' \in Token \cup {None} /\ TokenKnown'
  BY DEF StorePrompt, GatewayInv, GatewayTypeOK, TokenKnown
<1>10. QED
  BY <1>5, <1>6, <1>7, <1>8, <1>9, CallMoves DEF StorePrompt

LEMMA PromptLookupFailsKeeps ==
  ASSUME GatewayInv, NEW c \in Calls, PromptLookupFails(c)
  PROVE  GatewayInv' /\ FreshStep
<1>1. call[c] \in Call /\ call[c].tok > 0 /\ None \in Prompt
  BY CallFields, StillAlive DEF GatewayInv, PromptLookupFails, Prompt
<1>2. PICK rec : rec = Sent(call[c], None)
  OBVIOUS
<1>3. rec \in Call /\ HoldsGood(rec) /\ LeavesWell(rec)
  BY <1>1, <1>2, SentIs
<1>4. logged' \in Nat
  BY DEF PromptLookupFails, GatewayInv, GatewayTypeOK
<1>5. QED
  BY <1>2, <1>3, <1>4, PlainStep DEF PromptLookupFails

LEMMA ProviderAnswersKeeps ==
  ASSUME GatewayInv, NEW c \in Calls, NEW answer \in {"json", "raw", "failed"},
         ProviderAnswers(c, answer)
  PROVE  GatewayInv' /\ FreshStep
<1>1. logged' \in Nat /\ answer \in Answer
  BY DEF ProviderAnswers, GatewayInv, GatewayTypeOK, Answer
<1>2. QED
  BY <1>1, EndsIs, PlainStep DEF ProviderAnswers

LEMMA LogCallKeeps ==
  ASSUME GatewayInv, NEW c \in Calls, LogCall(c)
  PROVE  GatewayInv' /\ FreshStep
<1>1. logged' \in Nat
  BY DEF LogCall, GatewayInv, GatewayTypeOK
<1>2. QED
  BY <1>1, IdleCallIs, IdleGood, PlainStep DEF LogCall

-----------------------------------------------------------------------------
\* The steps that move no call.
LEMMA NobodyLeaves ==
  ASSUME call' = call
  PROVE  FreshStep
  BY DEF FreshStep, Leaves

LEMMA ActivateKeeps ==
  ASSUME GatewayInv, NEW v \in Prompt, Activate(v)
  PROVE  GatewayInv' /\ FreshStep
<1>1. ago \in [Prompt -> 0 .. Horizon] /\ 0 \in 0 .. Horizon
  BY TimesAssumption DEF GatewayInv, GatewayTypeOK, Horizon
<1>2. ago' \in [Prompt -> 0 .. Horizon] /\ ago'[v] = 0 /\ active' = v
  BY <1>1 DEF Activate
<1>3. \A w \in Prompt : ago'[w] <= ago[w]
  BY <1>1 DEF Activate
<1>4. GatewayTypeOK'
  BY <1>2 DEF Activate, GatewayInv, GatewayTypeOK
<1>5. TokenKnown' /\ (ago[active] = 0)'
  BY <1>2 DEF Activate, GatewayInv, TokenKnown
<1>6. CacheKnown'
  <2>1. SUFFICES ASSUME cache # None, cache.age < Ttl
                 PROVE  ago'[cache.version] <= cache.age + QueryMax
    BY DEF Activate, CacheKnown
  <2>2. cache.version \in Prompt /\ cache.age \in Nat
    BY <2>1, TimesAssumption DEF GatewayInv, GatewayTypeOK, CacheEntry
  <2>3. ago[cache.version] <= cache.age + QueryMax
    BY <2>1 DEF GatewayInv, CacheKnown
  <2>4. ago'[cache.version] \in Nat /\ ago[cache.version] \in Nat
    BY <1>1, <1>2, <2>2, TimesAssumption DEF Horizon
  <2>5. QED
    BY <1>3, <2>2, <2>3, <2>4, TimesAssumption
<1>7. ASSUME NEW c \in Calls PROVE HoldsGood(call[c])'
  <2>1. call' = call /\ HoldsGood(call[c]) /\ call[c].read \in Prompt /\ call[c].waited \in Nat
    BY CallFields DEF Activate, GatewayInv
  <2>2. ago'[call[c].read] \in Nat /\ ago[call[c].read] \in Nat
    BY <1>1, <1>2, <2>1, TimesAssumption DEF Horizon
  <2>3. ago'[call[c].read] <= ago[call[c].read]
    BY <1>3, <2>1
  <2>4. QED
    BY <2>1, <2>2, <2>3 DEF HoldsGood
<1>8. QED
  BY <1>4, <1>5, <1>6, <1>7, NobodyLeaves DEF GatewayInv, Activate

LEMMA WindowMovesKeeps ==
  ASSUME GatewayInv, WindowMoves
  PROVE  GatewayInv' /\ FreshStep
<1>1. logged' \in Nat
  BY DEF WindowMoves, GatewayInv, GatewayTypeOK
<1>2. GatewayTypeOK'
  BY <1>1 DEF WindowMoves, GatewayInv, GatewayTypeOK
<1>3. QED
  BY <1>2, NobodyLeaves DEF WindowMoves, GatewayInv, TokenKnown, CacheKnown, HoldsGood

-----------------------------------------------------------------------------
(* Time passes.                                                              *)

LEMMA OlderIs ==
  ASSUME NEW most \in Nat, NEW n \in 0 .. most
  PROVE  Older(n, most) \in 0 .. most /\ Older(n, most) <= n + 1
         /\ (n < most => Older(n, most) = n + 1)
  BY DEF Older

LEMMA ShorterIs ==
  ASSUME NEW most \in Nat, NEW n \in 0 .. most
  PROVE  Shorter(n) \in 0 .. most /\ Shorter(n) + 1 >= n /\ Shorter(n) <= n
  BY DEF Shorter

LEMMA TickTimes ==
  ASSUME GatewayInv, Tick
  PROVE  /\ ago' \in [Prompt -> 0 .. Horizon] /\ active' = active /\ ago'[active] = 0
         /\ \A v \in Prompt : ago'[v] <= ago[v] + 1
<1>1. Horizon \in Nat /\ ago \in [Prompt -> 0 .. Horizon] /\ active \in Prompt
  BY TimesAssumption DEF GatewayInv, GatewayTypeOK, Horizon
<1>2. ago' = [v \in Prompt |-> IF v = active THEN 0 ELSE Older(ago[v], Horizon)]
        /\ active' = active
  BY DEF Tick
<1>3. ASSUME NEW v \in Prompt
      PROVE  /\ Older(ago[v], Horizon) \in 0 .. Horizon
             /\ Older(ago[v], Horizon) <= ago[v] + 1 /\ 0 <= ago[v] + 1
  <2>1. PICK n \in 0 .. Horizon : n = ago[v]
    BY <1>1
  <2>2. QED
    BY <1>1, <2>1 DEF Older
<1>4. QED
  BY <1>1, <1>2, <1>3

LEMMA TickToken ==
  ASSUME GatewayInv, Tick
  PROVE  token' \in Token \cup {None} /\ TokenKnown'
<1>1. CASE token = None
  BY <1>1 DEF Tick, TokenKnown
<1>2. CASE token # None
  <2>1. token \in Token /\ token.left \in 0 .. Life /\ token.lives \in 0 .. Life
          /\ token.left <= token.lives + LatencyMax
    BY <1>2 DEF GatewayInv, GatewayTypeOK, TokenKnown, Token, Left
  <2>2. PICK m, n : m = Shorter(token.left) /\ n = Shorter(token.lives)
    OBVIOUS
  <2>3. m \in 0 .. Life /\ n \in 0 .. Life /\ m <= n + LatencyMax
    BY <2>1, <2>2, TimesAssumption DEF Shorter
  <2>4. token' = [left |-> m, lives |-> n]
    BY <1>2, <2>2 DEF Tick
  <2>5. QED
    BY <2>3, <2>4 DEF Token, TokenKnown, Left
<1>3. QED
  BY <1>1, <1>2

LEMMA TickCache ==
  ASSUME GatewayInv, Tick
  PROVE  cache' \in CacheEntry \cup {None} /\ CacheKnown'
<1>1. CASE cache = None
  BY <1>1 DEF Tick, CacheKnown
<1>2. CASE cache # None
  <2>1. cache \in CacheEntry /\ Ttl \in Nat /\ QueryMax \in Nat /\ Horizon \in Nat
    BY <1>2, TimesAssumption DEF GatewayInv, GatewayTypeOK, Horizon
  <2>2. PICK n, v : n = cache.age /\ v = cache.version
    OBVIOUS
  <2>3. n \in 0 .. Ttl /\ v \in Prompt
    BY <2>1, <2>2 DEF CacheEntry
  <2>4. PICK m : m = Older(n, Ttl)
    OBVIOUS
  <2>5. m \in 0 .. Ttl /\ (n < Ttl => m = n + 1)
    BY <2>1, <2>3, <2>4, OlderIs
  <2>6. cache' = [cache EXCEPT !.age = m]
    BY <1>2, <2>2, <2>4 DEF Tick
  <2>7. cache' \in CacheEntry /\ cache'.age = m /\ cache'.version = v
    BY <2>1, <2>2, <2>5, <2>6 DEF CacheEntry
  <2>8. ASSUME m < Ttl PROVE ago'[v] <= m + QueryMax
    <3>1. n < Ttl /\ m = n + 1
      BY <2>1, <2>3, <2>4, <2>8 DEF Older
    <3>2. ago[v] <= n + QueryMax
      BY <1>2, <2>2, <3>1 DEF GatewayInv, CacheKnown
    <3>3. ago'[v] \in Nat /\ ago[v] \in Nat /\ ago'[v] <= ago[v] + 1
      BY <2>1, <2>3, TickTimes DEF GatewayInv, GatewayTypeOK
    <3>4. QED
      BY <2>1, <2>3, <3>1, <3>2, <3>3
  <2>9. QED
    BY <2>7, <2>8 DEF CacheKnown
<1>3. QED
  BY <1>1, <1>2

LEMMA TickCall ==
  ASSUME GatewayInv, Tick, NEW c \in Calls
  PROVE  call'[c] \in Call /\ HoldsGood(call[c])' /\ call'[c].at = call[c].at
<1>1. call[c] \in Call /\ HoldsGood(call[c]) /\ InTime(c)
  BY CallFields DEF GatewayInv, Tick
<1>2. CASE call[c].at \in {"idle", "log"}
  <2>1. call'[c] = call[c]
    BY <1>2 DEF Tick
  <2>2. QED
    BY <1>1, <1>2, <2>1 DEF HoldsGood
<1>3. CASE call[c].at \notin {"idle", "log"}
  <2>1. PICK n, t : n = call[c].waited /\ t = call[c].tok
    OBVIOUS
  <2>2. n \in Nat /\ t \in 0 .. Life /\ LatencyMax \in Nat /\ QueryMax \in Nat /\ Life \in Nat
    BY <1>1, <2>1, CallFields, TimesAssumption DEF GatewayInv
  <2>3. /\ call[c].at \in {"caps", "prompt", "store"} => n + 1 <= QueryMax
        /\ call[c].at \in {"token", "reply"} => n + 1 <= LatencyMax
    BY <1>1, <2>1, <2>2 DEF InTime
  <2>4. n + 1 \in 0 .. (LatencyMax + QueryMax)
    BY <1>1, <1>3, <2>2, <2>3 DEF Call
  <2>5. PICK m, s : m = n + 1 /\ s = Shorter(t)
    OBVIOUS
  <2>6. s \in 0 .. Life /\ s + 1 >= t
    BY <2>2, <2>5, ShorterIs
  <2>7. PICK rec : rec = [call[c] EXCEPT !.waited = m, !.tok = s]
    OBVIOUS
  <2>8. call'[c] = rec
    BY <1>3, <2>1, <2>5, <2>7 DEF Tick
  <2>9. rec \in Call /\ rec.at = call[c].at /\ rec.waited = m /\ rec.tok = s
          /\ rec.read = call[c].read
    BY <1>1, <2>4, <2>5, <2>6, <2>7 DEF Call, Left
  <2>10. rec.at \in {"prompt", "store"} => s + m > QueryMax
    BY <1>1, <2>1, <2>2, <2>5, <2>6, <2>9 DEF HoldsGood
  <2>11. rec.at = "store" => ago'[rec.read] <= m
    <3>1. rec.read \in Prompt /\ Horizon \in Nat
      BY <2>9, TimesAssumption DEF Call, Horizon
    <3>2. ago'[rec.read] \in Nat /\ ago[rec.read] \in Nat /\ ago'[rec.read] <= ago[rec.read] + 1
      BY <3>1, TickTimes DEF GatewayInv, GatewayTypeOK
    <3>3. rec.at = "store" => ago[rec.read] <= n
      BY <1>1, <2>1, <2>9 DEF HoldsGood
    <3>4. QED
      BY <2>2, <2>5, <3>2, <3>3
  <2>12. HoldsGood(rec)'
    BY <2>3, <2>5, <2>9, <2>10, <2>11 DEF HoldsGood
  <2>13. QED
    BY <2>8, <2>9, <2>12
<1>4. QED
  BY <1>2, <1>3

LEMMA TickKeeps ==
  ASSUME GatewayInv, Tick
  PROVE  GatewayInv' /\ FreshStep
<1>1. call' \in [Calls -> Call]
  <2>1. call' = [c \in Calls |-> call'[c]]
    BY DEF Tick
  <2>2. QED
    BY <2>1, TickCall
<1>2. GatewayTypeOK'
  BY <1>1, TickTimes, TickToken, TickCache DEF GatewayInv, GatewayTypeOK, Tick
<1>3. (ago[active] = 0)' /\ TokenKnown' /\ CacheKnown'
  BY TickTimes, TickToken, TickCache
<1>4. \A c \in Calls : HoldsGood(call[c])'
  BY TickCall
<1>5. FreshStep
  BY TickCall DEF FreshStep, Leaves
<1>6. QED
  BY <1>2, <1>3, <1>4, <1>5 DEF GatewayInv

-----------------------------------------------------------------------------
LEMMA GatewayNextKeeps ==
  GatewayInv /\ [GatewayNext]_gatewayVars => GatewayInv' /\ (FreshStep \/ UNCHANGED gatewayVars)
<1> SUFFICES ASSUME GatewayInv, [GatewayNext]_gatewayVars
             PROVE  GatewayInv' /\ (FreshStep \/ UNCHANGED gatewayVars)
  OBVIOUS
<1>1. CASE UNCHANGED gatewayVars
  <2>1. logged' = logged /\ token' = token /\ active' = active /\ ago' = ago
          /\ cache' = cache /\ call' = call
    BY <1>1 DEF gatewayVars
  <2>2. GatewayTypeOK'
    BY <2>1 DEF GatewayInv, GatewayTypeOK
  <2>3. QED
    BY <1>1, <2>1, <2>2 DEF GatewayInv, TokenKnown, CacheKnown, HoldsGood
<1>2. ASSUME NEW c \in Calls, Serve(c) PROVE GatewayInv' /\ FreshStep
  BY <1>2, EnforceCapsKeeps, CapsUnreadKeeps, TokenArrivesKeeps, TokenRefusedKeeps, ReadPromptKeeps,
     StorePromptKeeps, PromptLookupFailsKeeps, ProviderAnswersKeeps, LogCallKeeps DEF Serve
<1>3. QED
  BY <1>1, <1>2, InvokeKeeps, ActivateKeeps, WindowMovesKeeps, TickKeeps DEF GatewayNext

\* The type of the gateway's variables and the ages and times left of what it
\* keeps in its caches, for any calls and any times within TimesAssumption.
THEOREM GatewayInvariant == GatewaySpec => []GatewayInv
<1>1. GatewayInv /\ [GatewayNext]_gatewayVars => GatewayInv'
  BY GatewayNextKeeps
<1>2. QED
  BY <1>1, GatewayInitInv, PTL DEF GatewaySpec

\* No request leaves with a token that has died or a prompt that was replaced too
\* long ago, though both were checked before an await (qianfan-provider.ts:83).
THEOREM CachesAreFresh == GatewaySpec => CachesFreshWhenUsed
<1>1. GatewayInv /\ [GatewayNext]_gatewayVars => [FreshStep]_gatewayVars
  BY GatewayNextKeeps
<1>2. FreshStep => (\A c \in Calls : Leaves(c) =>
       /\ call'[c].tok > 0
       /\ call'[c].with = None \/ ago[call'[c].with] <= Ttl + QueryMax)
  BY DEF FreshStep
<1>3. QED
  BY <1>1, <1>2, GatewayInvariant, PTL DEF GatewaySpec, CachesFreshWhenUsed

-----------------------------------------------------------------------------
\* The promise for one request that has ended.
NotMasked(rec) ==
  rec.at = "done" /\ rec.kind = "trajectory" =>
    \/ rec.status = 500 /\ (~guest \/ rec.answer = "null_text")
    \/ /\ rec.status = 200
       /\ rec.least >= Threshold => rec.flagged
       /\ rec.most < Threshold => ~rec.flagged

\* The issues there are, and those read before the model is asked, lie between the
\* fewest and the most there were.
AskFits(rec) ==
  /\ rec.at \notin {"idle", "done"} => rec.least <= issues /\ issues <= rec.most
  /\ rec.at = "ai" /\ rec.kind = "trajectory" =>
       Threshold <= rec.seen /\ rec.least <= rec.seen /\ rec.seen <= rec.most
  /\ NotMasked(rec)

\* The inductive invariant.
InsightsInv == InsightsTypeOK /\ \A k \in Asks : AskFits(ask[k])

-----------------------------------------------------------------------------
\* A step of one request.
LEMMA AskMoves ==
  ASSUME InsightsInv, NEW k \in Asks, NEW rec \in Ask, AskFits(rec), AskBecomes(k, rec),
         UNCHANGED <<guest, issues, prefs>>
  PROVE  InsightsInv'
<1>1. ask' = [ask EXCEPT ![k] = rec] /\ ask \in [Asks -> Ask]
  BY DEF AskBecomes, InsightsInv, InsightsTypeOK
<1>2. InsightsTypeOK'
  <2>1. ask' \in [Asks -> Ask]
    BY <1>1
  <2>2. QED
    BY <2>1 DEF InsightsInv, InsightsTypeOK, Ask, Reason, Trajectory
<1>3. \A j \in Asks : ask'[j] = rec \/ ask'[j] = ask[j]
  BY <1>1
<1>4. guest' = guest /\ issues' = issues
  OBVIOUS
<1>5. \A j \in Asks : AskFits(ask[j])'
  BY <1>3, <1>4 DEF InsightsInv, AskFits, NotMasked
<1>6. QED
  BY <1>2, <1>5 DEF InsightsInv

\* What a request may be, field by field.
LEMMA AskFields ==
  ASSUME InsightsInv, NEW k \in Asks
  PROVE  /\ ask[k] \in Ask /\ AskFits(ask[k])
         /\ ask[k].seen \in 0 .. MaxIssues /\ ask[k].least \in 0 .. MaxIssues
         /\ ask[k].most \in 0 .. MaxIssues
         /\ issues \in 0 .. MaxIssues /\ prefs \in 0 .. MaxPrefs /\ guest \in BOOLEAN
         /\ MaxIssues \in Nat /\ MaxPrefs \in Nat /\ Threshold \in Nat \ {0}
  BY ThresholdAssumption, BoundsAssumption DEF InsightsInv, InsightsTypeOK, Ask

LEMMA NewAskIs ==
  ASSUME issues \in 0 .. MaxIssues, NEW kind \in {"say_this", "trajectory"}
  PROVE  /\ NewAsk(kind) \in Ask /\ NewAsk(kind).at = "guest" /\ NewAsk(kind).kind = kind
         /\ NewAsk(kind).least = issues /\ NewAsk(kind).most = issues
<1>1. 0 \in 0 .. MaxIssues /\ 0 \in -1 .. 3
  BY BoundsAssumption
<1>2. PICK i \in 0 .. MaxIssues : i = issues
  OBVIOUS
<1>3. NewAsk(kind) = [at |-> "guest", kind |-> kind, status |-> 0, seen |-> 0, least |-> i,
                      most |-> i, flagged |-> FALSE, reason |-> "none",
                      trajectory |-> "none", callouts |-> 0, answer |-> "none"]
  BY <1>2 DEF NewAsk
<1>4. /\ "none" \in Reason /\ "none" \in Trajectory /\ 0 \in Statuses
      /\ "none" \in Shape \cup {"none"}
  BY DEF Reason, Trajectory, Statuses
<1>5. NewAsk(kind) \in Ask
  BY <1>1, <1>2, <1>3, <1>4 DEF Ask
<1>6. QED
  BY <1>2, <1>3, <1>5

\* An answer ends a request.
LEMMA AnsweredIs ==
  ASSUME NEW rec \in Ask, NEW status \in Statuses
  PROVE  /\ Answered(rec, status) \in Ask /\ Answered(rec, status).at = "done"
         /\ Answered(rec, status).kind = rec.kind /\ Answered(rec, status).status = status
         /\ Answered(rec, status).answer = rec.answer
<1>1. PICK v : v = [rec EXCEPT !.at = "done", !.status = status]
  OBVIOUS
<1>2. v \in Ask
  BY <1>1 DEF Ask
<1>3. v.at = "done" /\ v.kind = rec.kind /\ v.status = status /\ v.answer = rec.answer
  BY <1>1 DEF Ask
<1>4. QED
  BY <1>1, <1>2, <1>3 DEF Answered

\* A request that ends without a verdict: all that is left is who may.
LEMMA EndsWithout ==
  ASSUME NEW r \in Ask, NEW status \in Statuses,
         r.kind = "say_this" \/ (status = 500 /\ (~guest \/ r.answer = "null_text"))
  PROVE  LET rec == Answered(r, status)
         IN  rec \in Ask /\ AskFits(rec) /\ rec.at = "done" /\ rec.kind = r.kind
<1>1. PICK rec : rec = Answered(r, status)
  OBVIOUS
<1>2. /\ rec \in Ask /\ rec.at = "done" /\ rec.kind = r.kind /\ rec.status = status
      /\ rec.answer = r.answer
  BY <1>1, AnsweredIs
<1>3. NotMasked(rec)
  BY <1>2, Zenon DEF NotMasked
<1>4. AskFits(rec)
  BY <1>2, <1>3 DEF AskFits
<1>5. QED
  BY <1>1, <1>2, <1>4

LEMMA VerdictFields ==
  ASSUME NEW rec \in Ask, NEW flagged \in BOOLEAN, NEW reason \in Reason,
         NEW trajectory \in Trajectory, NEW v, v = Verdict(rec, flagged, reason, trajectory)
  PROVE  /\ v \in Ask /\ v.at = "done" /\ v.status = 200 /\ v.flagged = flagged
         /\ v.least = rec.least /\ v.most = rec.most
<1>1. 200 \in Statuses
  BY DEF Statuses
<1>2. v = [rec EXCEPT !.at = "done", !.status = 200, !.flagged = flagged,
                      !.reason = reason, !.trajectory = trajectory]
  BY DEF Verdict, Answered
<1>3. v \in Ask
  <2>1. PICK w : w = [rec EXCEPT !.at = "done", !.status = 200]
    OBVIOUS
  <2>2. w \in Ask
    BY <1>1, <2>1 DEF Ask
  <2>3. v = [w EXCEPT !.flagged = flagged, !.reason = reason, !.trajectory = trajectory]
    BY <2>1 DEF Verdict, Answered
  <2>4. QED
    BY <2>2, <2>3 DEF Ask
<1>4. v.at = "done" /\ v.status = 200
  BY <1>2 DEF Ask
<1>5. v.flagged = flagged
  BY <1>2, Zenon DEF Ask
<1>6. v.least = rec.least /\ v.most = rec.most
  BY <1>2, Zenon DEF Ask
<1>7. QED
  BY <1>3, <1>4, <1>5, <1>6

\* A verdict by the rule on the rows read is one the promise allows.
LEMMA VerdictIs ==
  ASSUME InsightsInv, NEW rec \in Ask, NEW flagged \in BOOLEAN, NEW reason \in Reason,
         NEW trajectory \in Trajectory,
         rec.least >= Threshold => flagged, rec.most < Threshold => ~flagged
  PROVE  /\ Verdict(rec, flagged, reason, trajectory) \in Ask
         /\ AskFits(Verdict(rec, flagged, reason, trajectory))
<1>1. PICK v : v = Verdict(rec, flagged, reason, trajectory)
  OBVIOUS
<1>2. v \in Ask /\ v.at = "done" /\ v.status = 200 /\ v.flagged = flagged
        /\ v.least = rec.least /\ v.most = rec.most
  BY <1>1, VerdictFields
<1>3. /\ v.least >= Threshold => v.flagged
      /\ v.most < Threshold => ~v.flagged
  BY <1>2, Zenon
<1>4. NotMasked(v)
  BY <1>2, <1>3, Zenon DEF NotMasked
<1>5. AskFits(v)
  BY <1>2, <1>4 DEF AskFits
<1>6. QED
  BY <1>1, <1>2, <1>5

-----------------------------------------------------------------------------
LEMMA InsightsInitInv == InsightsInit => InsightsInv
<1> SUFFICES ASSUME InsightsInit PROVE InsightsInv
  OBVIOUS
<1>1. guest = TRUE /\ issues = 0 /\ prefs = 0 /\ 0 \in 0 .. MaxIssues /\ 0 \in 0 .. MaxPrefs
  BY BoundsAssumption DEF InsightsInit
<1>2. PICK rec : rec = [NewAsk("say_this") EXCEPT !.at = "idle", !.least = 0, !.most = 0]
  OBVIOUS
<1>3. rec \in Ask /\ rec.at = "idle"
  BY <1>1, <1>2, NewAskIs DEF Ask
<1>4. ask = [k \in Asks |-> rec]
  BY <1>2 DEF InsightsInit
<1>5. \A k \in Asks : AskFits(ask[k])
  BY <1>3, <1>4 DEF AskFits, NotMasked
<1>6. QED
  BY <1>1, <1>3, <1>4, <1>5 DEF InsightsInv, InsightsTypeOK

LEMMA BeginAskKeeps ==
  ASSUME InsightsInv, NEW k \in Asks, NEW kind \in {"say_this", "trajectory"}, BeginAsk(k, kind)
  PROVE  InsightsInv'
<1>1. PICK rec : rec = NewAsk(kind)
  OBVIOUS
<1>2. issues \in 0 .. MaxIssues
  BY AskFields
<1>3. rec \in Ask /\ AskFits(rec)
  BY <1>1, <1>2, NewAskIs DEF AskFits, NotMasked
<1>4. QED
  BY <1>1, <1>3, AskMoves DEF BeginAsk

LEMMA ReadGuestKeeps ==
  ASSUME InsightsInv, NEW k \in Asks, ReadGuest(k)
  PROVE  InsightsInv'
<1>1. CASE guest
  <2>1. PICK rec : rec = [ask[k] EXCEPT !.at = "rows"]
    OBVIOUS
  <2>2. /\ rec \in Ask /\ rec.at = "rows" /\ rec.least = ask[k].least /\ rec.most = ask[k].most
        /\ ask[k].at = "guest"
    BY <2>1, AskFields DEF Ask, ReadGuest
  <2>3. AskFits(rec)
    BY <2>2, AskFields DEF AskFits, NotMasked
  <2>4. QED
    BY <1>1, <2>1, <2>2, <2>3, AskMoves DEF ReadGuest
<1>2. CASE ~guest
  <2>1. PICK status \in {404, 500} : /\ AskBecomes(k, Answered(ask[k], status))
                                     /\ ask[k].kind = "say_this" \/ status = 500
    BY <1>2 DEF ReadGuest
  <2>2. QED
    BY <1>2, <2>1, AskFields, EndsWithout, AskMoves DEF ReadGuest, Statuses
<1>3. QED
  BY <1>1, <1>2

LEMMA ReadPreferencesKeeps ==
  ASSUME InsightsInv, NEW k \in Asks, ReadPreferences(k)
  PROVE  InsightsInv'
<1>1. PICK n : n = Fewer(prefs, 3)
  OBVIOUS
<1>2. n \in -1 .. 3
  BY <1>1, AskFields DEF Fewer
<1>3. PICK rec : rec = [ask[k] EXCEPT !.at = "ai", !.callouts = n]
  OBVIOUS
<1>4. /\ rec \in Ask /\ rec.at = "ai" /\ rec.kind = "say_this" /\ ask[k].at = "rows"
      /\ rec.least = ask[k].least /\ rec.most = ask[k].most
  BY <1>2, <1>3, AskFields DEF Ask, ReadPreferences
<1>5. AskFits(rec)
  BY <1>4, AskFields DEF AskFits, NotMasked
<1>6. QED
  BY <1>1, <1>3, <1>4, <1>5, AskMoves DEF ReadPreferences

LEMMA ReadIssuesKeeps ==
  ASSUME InsightsInv, NEW k \in Asks, ReadIssues(k)
  PROVE  InsightsInv'
<1>1. PICK r : r = [ask[k] EXCEPT !.seen = issues]
  OBVIOUS
<1>2. /\ r \in Ask /\ r.kind = "trajectory" /\ r.at = "rows" /\ r.seen = issues
      /\ r.least = ask[k].least /\ r.most = ask[k].most
  BY <1>1, AskFields DEF Ask, ReadIssues
<1>3. r.least <= issues /\ issues <= r.most /\ r.least \in Nat /\ r.most \in Nat /\ issues \in Nat
  BY <1>2, AskFields DEF AskFits, ReadIssues
<1>4. ThresholdAssumption /\ Threshold \in Nat \ {0}
  BY ThresholdAssumption
<1>5. CASE issues = 0
  <2>1. AskBecomes(k, Verdict(r, FALSE, "no_issues", "stable"))
    BY <1>1, <1>5 DEF ReadIssues
  <2>2. ~(r.least >= Threshold)
    BY <1>3, <1>4, <1>5
  <2>3. QED
    BY <1>2, <2>1, <2>2, VerdictIs, AskMoves DEF ReadIssues, Reason, Trajectory
<1>6. CASE issues # 0 /\ issues < Threshold
  <2>1. AskBecomes(k, Verdict(r, FALSE, "below_threshold", "unknown"))
    BY <1>1, <1>6 DEF ReadIssues
  <2>2. ~(r.least >= Threshold)
    BY <1>3, <1>4, <1>6
  <2>3. QED
    BY <1>2, <2>1, <2>2, VerdictIs, AskMoves DEF ReadIssues, Reason, Trajectory
<1>7. CASE issues # 0 /\ ~(issues < Threshold)
  <2>1. PICK rec : rec = [r EXCEPT !.at = "ai"]
    OBVIOUS
  <2>2. AskBecomes(k, rec)
    BY <1>1, <1>7, <2>1 DEF ReadIssues
  <2>3. /\ rec \in Ask /\ rec.at = "ai" /\ rec.seen = issues
        /\ rec.least = r.least /\ rec.most = r.most
    BY <1>2, <2>1 DEF Ask
  <2>4. AskFits(rec)
    BY <1>3, <1>4, <1>7, <2>3 DEF AskFits, NotMasked
  <2>5. QED
    BY <2>2, <2>3, <2>4, AskMoves DEF ReadIssues
<1>8. QED
  BY <1>5, <1>6, <1>7

\* Whatever the model says of the trajectory, the flag is the rule's.
LEMMA FlaggedKeeps ==
  ASSUME InsightsInv, NEW k \in Asks, ask[k].at = "ai", ask[k].kind = "trajectory",
         NEW reason \in Reason, NEW trajectory \in Trajectory,
         NEW r \in Ask, r.most = ask[k].most,
         AskBecomes(k, Verdict(r, TRUE, reason, trajectory)),
         UNCHANGED <<guest, issues, prefs>>
  PROVE  InsightsInv'
<1>1. Threshold <= ask[k].seen /\ ask[k].seen <= ask[k].most
  BY AskFields DEF AskFits
<1>2. ~(r.most < Threshold)
  BY <1>1, AskFields
<1>3. QED
  BY <1>2, VerdictIs, AskMoves

LEMMA SayTrajectoryKeeps ==
  ASSUME InsightsInv, NEW k \in Asks, NEW shape \in Shape, SayTrajectory(k, shape)
  PROVE  InsightsInv'
<1>1. PICK r : r = [ask[k] EXCEPT !.answer = shape]
  OBVIOUS
<1>2. ask[k] \in Ask /\ ask[k].at = "ai" /\ ask[k].kind = "trajectory"
  BY AskFields DEF SayTrajectory
<1>3. r \in Ask /\ r.most = ask[k].most /\ r.answer = shape
  BY <1>1, <1>2 DEF Ask
<1>4. CASE shape = "null_text"
  <2>1. AskBecomes(k, Answered(r, 500)) /\ UNCHANGED <<guest, issues, prefs>>
    BY <1>1, <1>4 DEF SayTrajectory
  <2>2. Answered(r, 500) \in Ask /\ AskFits(Answered(r, 500))
    BY <1>3, <1>4, EndsWithout DEF Statuses
  <2>3. QED
    BY <2>1, <2>2, AskMoves
<1>5. CASE shape # "null_text"
  <2>1. PICK trajectory \in Trajectory :
          AskBecomes(k, Verdict(r, TRUE, "threshold_with_trajectory", trajectory))
    BY <1>1, <1>5 DEF SayTrajectory, Trajectory
  <2>2. UNCHANGED <<guest, issues, prefs>> /\ "threshold_with_trajectory" \in Reason
    BY DEF SayTrajectory, Reason
  <2>3. QED
    BY <1>2, <1>3, <2>1, <2>2, FlaggedKeeps
<1>6. QED
  BY <1>4, <1>5

LEMMA SayTrajectoryWithoutAiKeeps ==
  ASSUME InsightsInv, NEW k \in Asks, SayTrajectoryWithoutAi(k)
  PROVE  InsightsInv'
  BY AskFields, FlaggedKeeps DEF SayTrajectoryWithoutAi, Reason, Trajectory

LEMMA SayThisKeeps ==
  ASSUME InsightsInv, NEW k \in Asks, NEW shape, SayThis(k, shape)
  PROVE  InsightsInv'
<1>1. ask[k].kind = "say_this"
  BY DEF SayThis
<1>2. CASE shape = "items"
  <2>1. PICK r : r = Answered(ask[k], 200)
    OBVIOUS
  <2>2. r \in Ask /\ r.kind = "say_this" /\ r.at = "done"
    BY <1>1, <2>1, AskFields, EndsWithout DEF Statuses
  <2>3. PICK rec : rec = [r EXCEPT !.callouts = -1]
    OBVIOUS
  <2>4. rec \in Ask /\ rec.kind = "say_this" /\ rec.at = "done"
    BY <2>2, <2>3 DEF Ask
  <2>5. AskFits(rec) /\ AskBecomes(k, rec)
    BY <1>2, <2>1, <2>3, <2>4 DEF AskFits, NotMasked, SayThis
  <2>6. QED
    BY <2>4, <2>5, AskMoves DEF SayThis
<1>3. CASE shape # "items"
  <2>1. PICK status \in {200, 500} : AskBecomes(k, Answered(ask[k], status))
    BY <1>3 DEF SayThis
  <2>2. QED
    BY <1>1, <2>1, AskFields, EndsWithout, AskMoves DEF SayThis, Statuses
<1>4. QED
  BY <1>2, <1>3

LEMMA SayThisFailsKeeps ==
  ASSUME InsightsInv, NEW k \in Asks, SayThisFails(k)
  PROVE  InsightsInv'
  BY AskFields, EndsWithout, AskMoves DEF SayThisFails, Statuses

\* Issues come and go: the fewest and the most follow.
LEMMA IssuesChangeKeeps ==
  ASSUME InsightsInv, IssuesChange
  PROVE  InsightsInv'
<1>1. PICK i \in 0 .. MaxIssues : i = issues'
  BY DEF IssuesChange
<1>2. guest' = guest /\ prefs' = prefs /\ MaxIssues \in Nat
  BY BoundsAssumption DEF IssuesChange
<1>3. ASSUME NEW k \in Asks
      PROVE  ask'[k] \in Ask /\ AskFits(ask[k])'
  <2>1. ask[k] \in Ask /\ AskFits(ask[k])
    BY AskFields
  <2>2. CASE ask[k].at \in {"idle", "done"}
    <3>1. ask'[k] = ask[k]
      BY <2>2 DEF IssuesChange
    <3>2. QED
      BY <1>2, <2>1, <2>2, <3>1 DEF AskFits, NotMasked
  <2>3. CASE ask[k].at \notin {"idle", "done"}
    <3>1. PICK l, m : l = Fewer(ask[k].least, i) /\ m = IF ask[k].most < i THEN i ELSE ask[k].most
      OBVIOUS
    <3>2. /\ l \in 0 .. MaxIssues /\ m \in 0 .. MaxIssues
          /\ l <= i /\ i <= m /\ l <= ask[k].least /\ ask[k].most <= m
      BY <1>1, <1>2, <3>1, AskFields DEF Fewer
    <3>3. PICK rec : rec = [ask[k] EXCEPT !.least = l, !.most = m]
      OBVIOUS
    <3>4. ask'[k] = rec
      BY <1>1, <2>3, <3>1, <3>3 DEF IssuesChange
    <3>5. /\ rec \in Ask /\ rec.at = ask[k].at /\ rec.kind = ask[k].kind
          /\ rec.seen = ask[k].seen /\ rec.answer = ask[k].answer /\ rec.least = l /\ rec.most = m
      BY <2>1, <3>2, <3>3 DEF Ask
    <3>6. rec.at = "ai" /\ rec.kind = "trajectory" =>
            Threshold <= rec.seen /\ l <= rec.seen /\ rec.seen <= m
      BY <2>1, <3>2, <3>5, AskFields DEF AskFits
    <3>7. NotMasked(rec)'
      BY <2>3, <3>5 DEF NotMasked
    <3>8. AskFits(rec)'
      BY <1>1, <3>2, <3>5, <3>6, <3>7 DEF AskFits
    <3>9. QED
      BY <3>4, <3>5, <3>8
  <2>4. QED
    BY <2>2, <2>3
<1>4. ask' = [k \in Asks |-> ask'[k]]
  BY DEF IssuesChange
<1>5. ask' \in [Asks -> Ask]
  BY <1>3, <1>4
<1>6. QED
  BY <1>1, <1>2, <1>3, <1>5 DEF InsightsInv, InsightsTypeOK

LEMMA InsightsNextKeeps == InsightsInv /\ [InsightsNext]_insightsVars => InsightsInv'
<1> SUFFICES ASSUME InsightsInv, [InsightsNext]_insightsVars PROVE InsightsInv'
  OBVIOUS
<1>1. ASSUME NEW k \in Asks, Advise(k) PROVE InsightsInv'
  BY <1>1, ReadGuestKeeps, ReadPreferencesKeeps, ReadIssuesKeeps, SayTrajectoryKeeps,
     SayThisKeeps, SayTrajectoryWithoutAiKeeps, SayThisFailsKeeps DEF Advise
<1>2. ASSUME PreferencesChange PROVE InsightsInv'
  BY <1>2 DEF PreferencesChange, InsightsInv, InsightsTypeOK, AskFits, NotMasked
<1>3. ASSUME GuestGoes PROVE InsightsInv'
  <2>1. /\ guest' = FALSE /\ ask' = ask /\ issues' = issues /\ prefs' = prefs
        /\ \A k \in Asks : AskFits(ask[k])
    BY <1>3 DEF GuestGoes, InsightsInv
  <2>2. InsightsTypeOK'
    BY <2>1 DEF InsightsInv, InsightsTypeOK
  <2>3. \A k \in Asks : AskFits(ask[k])'
    BY <2>1 DEF AskFits, NotMasked
  <2>4. QED
    BY <2>2, <2>3 DEF InsightsInv
<1>4. CASE UNCHANGED insightsVars
  BY <1>4 DEF insightsVars, InsightsInv, InsightsTypeOK, AskFits, NotMasked
<1>5. QED
  BY <1>1, <1>2, <1>3, <1>4, BeginAskKeeps, IssuesChangeKeeps DEF InsightsNext

\* The types of the requests, and what each remembers of the issues it has seen.
THEOREM InsightsInvariant == InsightsSpec => []InsightsInv
  BY InsightsInitInv, InsightsNextKeeps, PTL DEF InsightsSpec

\* The rule on the rows read decides whether a guest is flagged, for any threshold
\* and any requests: neither a failure of the model nor what it answers does, but for
\* the text null, which makes the request a 500 (service.ts:502, :563).
THEOREM AiNeverMasks == InsightsSpec => []TrajectoryNotMasked
<1>1. InsightsInv => TrajectoryNotMasked
  BY DEF InsightsInv, AskFits, NotMasked, TrajectoryNotMasked
<1>2. QED
  BY <1>1, InsightsInvariant, PTL

-----------------------------------------------------------------------------
LEMMA PartMoves ==
  [ServicesNext]_servicesVars =>
    /\ [GatewayNext]_gatewayVars
    /\ [InsightsNext]_insightsVars
    /\ [PollerNext]_pollerVars
    /\ [ContextNext]_contextVars
    /\ [MigrationsNext]_migrationVars
    /\ [PagingNext]_pagingVars
    /\ [ClientNext]_clientVars
<1> SUFFICES ASSUME [ServicesNext]_servicesVars
             PROVE  /\ [GatewayNext]_gatewayVars
                    /\ [InsightsNext]_insightsVars
                    /\ [PollerNext]_pollerVars
                    /\ [ContextNext]_contextVars
                    /\ [MigrationsNext]_migrationVars
                    /\ [PagingNext]_pagingVars
                    /\ [ClientNext]_clientVars
  OBVIOUS
<1>1. CASE UNCHANGED servicesVars
  BY <1>1 DEF servicesVars
<1>2. CASE focus = "gateway" /\ GatewayNext /\ OthersRest
  BY <1>2 DEF OthersRest, Keeps
<1>3. CASE focus = "insights" /\ InsightsNext /\ OthersRest
  BY <1>3 DEF OthersRest, Keeps
<1>4. CASE focus = "poller" /\ PollerNext /\ OthersRest
  BY <1>4 DEF OthersRest, Keeps
<1>5. CASE focus = "context" /\ ContextNext /\ OthersRest
  BY <1>5 DEF OthersRest, Keeps
<1>6. CASE focus = "migrations" /\ MigrationsNext /\ OthersRest
  BY <1>6 DEF OthersRest, Keeps
<1>7. CASE focus = "paging" /\ PagingNext /\ OthersRest
  BY <1>7 DEF OthersRest, Keeps
<1>8. CASE focus = "client" /\ ClientNext /\ OthersRest
  BY <1>8 DEF OthersRest, Keeps
<1>9. QED
  BY <1>1, <1>2, <1>3, <1>4, <1>5, <1>6, <1>7, <1>8 DEF ServicesNext

\* Checked side by side the parts behave as each does alone: what holds of a part
\* holds of it there, and what the run finds of one is about its code alone
\* (they share neither rows nor variables).
THEOREM PartsStandAlone ==
  ServicesSpec =>
    /\ GatewaySpec
    /\ InsightsSpec
    /\ PollerSpec
    /\ ContextSpec
    /\ MigrationsSpec
    /\ PagingSpec
    /\ ClientInit /\ [][ClientNext]_clientVars
<1>1. ServicesInit =>
        /\ GatewayInit /\ InsightsInit /\ PollerInit /\ ContextInit /\ MigrationsInit
        /\ PagingInit /\ ClientInit
  BY DEF ServicesInit
<1>2. QED
  BY <1>1, PartMoves, PTL DEF ServicesSpec, GatewaySpec, InsightsSpec, PollerSpec, ContextSpec,
     MigrationsSpec, PagingSpec

\* The parts keep their types side by side, for any values of their constants.
THEOREM PartsTypes == ServicesSpec => []PartsTypeOK
<1>1. /\ GatewayInv => GatewayTypeOK
      /\ InsightsInv => InsightsTypeOK
      /\ PollerInv => PollerTypeOK
      /\ ContextInv => ContextTypeOK
      /\ MigrationsInv => MigrationsTypeOK
      /\ PagingInv => PagingTypeOK
  BY DEF GatewayInv, InsightsInv, PollerInv, ContextInv, MigrationsInv, PagingInv
<1>2. /\ GatewayTypeOK /\ InsightsTypeOK /\ PollerTypeOK /\ ContextTypeOK
      /\ MigrationsTypeOK /\ PagingTypeOK /\ ClientTypeOK
      => PartsTypeOK
  BY DEF PartsTypeOK
<1>3. QED
  BY <1>1, <1>2, PartsStandAlone, GatewayInvariant, InsightsInvariant, PollerInvariant,
     ContextInvariant, MigrationsInvariant, PagingInvariant, ClientKeepsTypes, PTL
=============================================================================
