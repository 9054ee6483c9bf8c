-------------------------- MODULE CaptureReviewProofs --------------------------
(***************************************************************************)
(* Theorems about CaptureReview for any captures, patches, cards and rows.  *)
(***************************************************************************)
EXTENDS CaptureReview, FiniteSetTheorems, TLAPS

USE DisjointAssumption, ReadingsAssumption, NoneAssumption

-----------------------------------------------------------------------------
(* Types.                                                                  *)

LEMMA FieldTypes ==
  ASSUME NEW fields \in Seq(Field)
  PROVE  /\ DOMAIN fields = 1 .. Len(fields)
         /\ Len(fields) \in Nat
         /\ \A i \in DOMAIN fields : fields[i].key \in Keys
         /\ KeysOf(fields) \in SUBSET Keys
  <1>1. DOMAIN fields = 1 .. Len(fields) /\ Len(fields) \in Nat
        /\ \A i \in 1 .. Len(fields) : fields[i] \in Field
    <2> HIDE DEF Field
    <2>1. QED
      OBVIOUS
  <1>2. \A f \in Field : f.key \in Keys
    BY DEF Field
  <1> HIDE DEF Field
  <1>3. QED
    BY <1>1, <1>2 DEF KeysOf

LEMMA RequestTypes ==
  ASSUME TypeOK, NEW t \in Requests
  PROVE  /\ req[t] \in Request
         /\ req[t].at \in Place
         /\ req[t].of \in Captures \cup {None}
         /\ req[t].guest \in BOOLEAN
         /\ req[t].status \in ExceptionStatus \cup {None}
         /\ req[t].fields \in Seq(Field)
         /\ req[t].next \in Nat
         /\ req[t].todo \in SUBSET Rows
         /\ req[t].hit \in BOOLEAN
  BY DEF TypeOK, Request

LEMMA RowTypes ==
  ASSUME TypeOK, NEW r \in Rows
  PROVE  /\ prefs[r] \in Preference
         /\ prefs[r].state \in {"free", "pending", "active"}
         /\ prefs[r].key \in Keys \cup {None}
         /\ prefs[r].count \in Nat
         /\ prefs[r].added \in Nat
         /\ prefs[r].source \in Captures \cup {None}
         /\ prefs[r].holder \in Requests \cup {None}
  BY DEF TypeOK, Preference

LEMMA ItemTypes ==
  ASSUME TypeOK, NEW c \in Captures
  PROVE  /\ exception[c] \in Exception
         /\ exception[c].status \in ExceptionStatus \cup {"none"}
         /\ exception[c].fields \in Seq(Field)
         /\ exception[c].holder \in Requests \cup {None}
         /\ exception[c].confirmed \in SUBSET Keys
         /\ evidence[c] \in EvidenceStatus
  BY DEF TypeOK, Exception

LEMMA TimesType ==
  ASSUME NEW fields \in Seq(Field), NEW k \in Keys
  PROVE  Times(k, fields) \in Nat
  <1> DEFINE S == {i \in DOMAIN fields : fields[i].key = k}
  <1>1. IsFiniteSet(1 .. Len(fields))
    BY FS_Interval
  <1>2. S \in SUBSET (1 .. Len(fields))
    OBVIOUS
  <1>3. IsFiniteSet(S)
    BY <1>1, <1>2, FS_Subset
  <1>4. QED
    BY <1>3, FS_CardinalityType DEF Times

LEMMA EndedRequest ==
  ASSUME NEW h \in Request,
         NEW answer \in {"accepted", "pending_review", "patched", "failed"}
  PROVE  /\ Ended(h, answer) \in Request
         /\ Ended(h, answer).at = "done" /\ Ended(h, answer).answer = answer
         /\ Ended(h, answer).of = h.of /\ Ended(h, answer).guest = h.guest
         /\ Ended(h, answer).fields = h.fields
  BY DEF Ended, Request, Place

\* What the end of a transaction makes of a row it held.
LEMMA EndedRow ==
  ASSUME NEW row \in Preference
  PROVE  /\ Kept(row) \in Preference
         /\ Kept(row).state = "active" /\ Kept(row).key = row.key
         /\ Kept(row).source = row.source /\ Kept(row).holder = None
         /\ Undone(row) \in Preference
         /\ Undone(row).holder = None
         /\ row.state = "pending" => Undone(row).state = "free"
         /\ row.state # "pending" =>
              /\ Undone(row).state = row.state /\ Undone(row).key = row.key
              /\ Undone(row).source = row.source
  <1>1. row.count + row.added \in Nat
    BY DEF Preference
  <1>2. /\ Kept(row) \in Preference
        /\ Kept(row).state = "active" /\ Kept(row).key = row.key
        /\ Kept(row).source = row.source /\ Kept(row).holder = None
    BY <1>1 DEF Kept, Preference
  <1>3. CASE row.state = "pending"
    BY <1>2, <1>3 DEF Undone, FreeRow, Preference
  <1>4. CASE row.state # "pending"
    BY <1>2, <1>4 DEF Undone, Preference
  <1>5. QED
    BY <1>2, <1>3, <1>4

\* No two requests write for the same evidence.
LEMMA OneWriter ==
  ASSUME IInv, NEW t \in Requests, NEW u \in Requests, Writing(t), Writing(u),
         req[t].of = req[u].of
  PROVE  t = u
  <1>1. TypeOK /\ RequestOK(t) /\ RequestOK(u) /\ \A c \in Captures : ItemOK(c)
    BY DEF IInv
  <1>2. CASE t \in Captures /\ u \in Captures
    BY <1>1, <1>2 DEF RequestOK
  <1>3. ASSUME NEW c \in Captures, NEW q \in Patches, Writing(c), Writing(q),
               req[c].of = req[q].of, RequestOK(c), RequestOK(q)
        PROVE  FALSE
    <2>1. req[q].of = c /\ exception[c].holder = q
      BY <1>3 DEF RequestOK, Writing
    <2>2. exception[c].status # "none" /\ req[c].at = "done"
      BY <1>1, <2>1 DEF ItemOK, Requests
    <2>3. QED
      BY <1>3, <2>2 DEF Writing
  <1>4. CASE t \in Patches /\ u \in Patches
    BY <1>1, <1>4 DEF RequestOK, Writing
  <1>5. QED
    BY <1>1, <1>2, <1>3, <1>4 DEF Requests

-----------------------------------------------------------------------------
(* Steps that write nothing into the tables.                               *)

\* A request that is not moved, whose evidence, item and rows stay, stays sound.
LEMMA RequestKept ==
  ASSUME NEW u \in Requests, RequestOK(u), req'[u] = req[u], req[u].todo \subseteq Rows,
         u \in Captures => evidence'[u] = evidence[u],
         u \in Patches => \A c \in Captures : exception[c].holder = u => exception'[c].holder = u,
         objects \subseteq objects',
         \A r \in Rows : Seen(u, r) => Seen(u, r)' /\ prefs'[r].key = prefs[r].key,
         Writing(u) => \A r \in Used' :
           prefs'[r].source = req[u].of =>
             r \in Used /\ prefs'[r].key = prefs[r].key /\ prefs'[r].source = prefs[r].source
  PROVE  RequestOK(u)'
  <1>1. Writing(u)' <=> Writing(u)
    BY DEF Writing
  <1>2. Persists(u)' <=> Persists(u)
    BY DEF Persists
  <1>3. ProgressOK(u) => ProgressOK(u)'
    <2> SUFFICES ASSUME ProgressOK(u), NEW i \in DOMAIN req[u].fields, i < req[u].next
                 PROVE  \E r \in Rows : Seen(u, r)' /\ prefs'[r].key = req[u].fields[i].key
      BY DEF ProgressOK
    <2>1. PICK r \in Rows : Seen(u, r) /\ prefs[r].key = req[u].fields[i].key
      BY DEF ProgressOK
    <2>2. QED
      BY <2>1
  <1>4. ASSUME UpsertOK(u), req[u].at = "upsert"
        PROVE  UpsertOK(u)'
    <2>1. CurrentKey(u)' = CurrentKey(u)
      BY DEF CurrentKey
    <2>2. \A r \in req'[u].todo : Seen(u, r)' /\ prefs'[r].key = CurrentKey(u)
      BY <1>4 DEF UpsertOK
    <2>3. req[u].hit => \E r \in Rows : Seen(u, r)' /\ prefs'[r].key = CurrentKey(u)
      <3> SUFFICES ASSUME req[u].hit
                   PROVE  \E r \in Rows : Seen(u, r)' /\ prefs'[r].key = CurrentKey(u)
        OBVIOUS
      <3>1. PICK r \in Rows : Seen(u, r) /\ prefs[r].key = CurrentKey(u)
        BY <1>4 DEF UpsertOK
      <3>2. QED
        BY <3>1
    <2>4. \A r \in Used' :
            prefs'[r].key = CurrentKey(u) /\ prefs'[r].source = req[u].of
            => r \in req[u].todo \/ req[u].hit
      BY <1>4 DEF UpsertOK, Writing
    <2>5. QED
      BY <1>4, <2>1, <2>2, <2>3, <2>4 DEF UpsertOK
  <1>5. req[u].at = "upsert" => UpsertOK(u)'
    BY <1>4 DEF RequestOK
  <1>6. QED
    BY <1>1, <1>2, <1>3, <1>5 DEF RequestOK

-----------------------------------------------------------------------------
(* Types are kept.                                                         *)

LEMMA TypeInit ==
  ASSUME Init
  PROVE  TypeOK
  <1>1. <<>> \in Seq(Field)
    <2> HIDE DEF Field
    <2>1. QED
      OBVIOUS
  <1>2. FreeRow \in Preference
    BY DEF FreeRow, Preference
  <1>3. \A k \in Keys : KnownRow(k) \in Preference
    BY DEF KnownRow, Preference
  <1>4. \A c \in Captures \cup {None}, guest \in BOOLEAN : NewRequest(c, guest) \in Request
    BY <1>1 DEF NewRequest, Request, Place
  <1>5. prefs \in [Rows -> Preference] /\ persisted \in [Keys -> Nat]
    BY <1>2, <1>3 DEF Init
  <1>6. req \in [Requests -> Request]
    <2>1. PICK guest \in [Captures -> BOOLEAN] :
            req = [t \in Requests |->
              IF t \in Captures THEN NewRequest(t, guest[t]) ELSE NewRequest(None, FALSE)]
      BY DEF Init
    <2>2. \A t \in Captures : NewRequest(t, guest[t]) \in Request
      BY <1>4
    <2>3. NewRequest(None, FALSE) \in Request
      BY <1>4
    <2>4. QED
      BY <2>1, <2>2, <2>3
  <1>7. exception \in [Captures -> Exception]
    BY <1>1 DEF Init, Exception
  <1>8. QED
    BY <1>5, <1>6, <1>7 DEF Init, TypeOK, EvidenceStatus

LEMMA TypeCapture ==
  ASSUME TypeOK, NEW c \in Captures,
         PutPhoto(c) \/ \E fields \in Readings : Recognise(c, fields)
  PROVE  TypeOK'
  <1>1. req[c] \in Request
    BY RequestTypes DEF Requests
  <1>2. CASE PutPhoto(c)
    <2>1. [req[c] EXCEPT !.at = "ocr"] \in Request
      BY <1>1 DEF Request, Place
    <2>2. QED
      BY <1>2, <2>1 DEF PutPhoto, TypeOK
  <1>3. ASSUME NEW fields \in Readings, Recognise(c, fields)
        PROVE  TypeOK'
    <2>1. PICK at \in Place : req' = [req EXCEPT ![c] = [req[c] EXCEPT !.fields = fields, !.at = at]]
      <3>1. CASE req[c].guest /\ Accepted(fields)
        BY ZenonT(60), <1>3, <3>1 DEF Recognise, Place
      <3>2. CASE ~(req[c].guest /\ Accepted(fields))
        BY ZenonT(60), <1>3, <3>2 DEF Recognise, Place
      <3>3. QED
        BY <3>1, <3>2
    <2>2. [req[c] EXCEPT !.fields = fields, !.at = at] \in Request
      BY <1>1 DEF Request
    <2>3. QED
      BY ZenonT(60), <1>3, <2>1, <2>2 DEF Recognise, TypeOK
  <1>4. QED
    BY <1>2, <1>3

LEMMA TypePatch ==
  ASSUME TypeOK, NEW q \in Patches, NEW c \in Captures,
         NEW status \in ExceptionStatus \cup {None}, NEW payload \in Readings \cup {None},
         Patch(q, c, status, payload)
  PROVE  TypeOK'
  <1> DEFINE fields == IF payload = None THEN exception[c].fields ELSE payload
             at == IF req[c].guest /\ Confirms(status) THEN "persist" ELSE "commit"
             h == [req[q] EXCEPT !.of = c, !.guest = req[c].guest, !.status = status,
                                 !.fields = fields, !.at = at]
  <1>1. req[q] \in Request /\ req[c].guest \in BOOLEAN
    BY RequestTypes DEF Requests
  <1>2. exception[c] \in Exception /\ exception[c].fields \in Seq(Field)
    BY ItemTypes
  <1>3. fields \in Seq(Field)
    BY <1>2
  <1>4. at \in Place
    BY DEF Place
  <1>5. h \in Request
    <2> HIDE DEF fields, at
    <2>1. QED
      BY <1>1, <1>3, <1>4 DEF Request
  <1>6. req' = [req EXCEPT ![q] = h]
    BY DEF Patch
  <1>7. [exception[c] EXCEPT !.holder = q] \in Exception
    BY <1>2 DEF Exception, Requests
  <1>8. exception' \in [Captures -> Exception]
    BY <1>7 DEF Patch, TypeOK
  <1>9. UNCHANGED <<objects, evidence, prefs, persisted>>
    BY DEF Patch
  <1> HIDE DEF h, fields, at
  <1>10. req' \in [Requests -> Request]
    BY <1>5, <1>6 DEF TypeOK
  <1>11. QED
    BY <1>8, <1>9, <1>10 DEF TypeOK

LEMMA TypeUpsert ==
  ASSUME TypeOK, NEW t \in Requests,
         StartUpsert(t) \/ Reinforced(t)
           \/ \E r \in Rows : Reinforce(t, r) \/ InsertPreference(t, r),
         req[t].at = "upsert" => req[t].next <= Len(req[t].fields) /\ req[t].next >= 1
  PROVE  TypeOK'
  <1>1. req[t] \in Request
    BY RequestTypes
  <1>2. NextField(req[t]) \in Request
    <2>1. PICK n \in Nat : n = req[t].next + 1
      BY RequestTypes
    <2>2. NextField(req[t]) = [req[t] EXCEPT !.at = "persist", !.next = n]
      BY <2>1 DEF NextField
    <2>3. QED
      BY <1>1, <2>2 DEF Request, Place
  <1>3. CASE StartUpsert(t)
    <2>1. [req[t] EXCEPT !.at = "upsert", !.todo = Matching(t, CurrentKey(t)), !.hit = FALSE]
            \in Request
      <3>1. Matching(t, CurrentKey(t)) \in SUBSET Rows
        BY DEF Matching
      <3>2. QED
        BY <1>1, <3>1 DEF Request, Place
    <2>2. QED
      BY <1>3, <2>1 DEF StartUpsert, TypeOK
  <1>4. CASE Reinforced(t)
    BY <1>2, <1>4 DEF Reinforced, TypeOK
  <1>5. ASSUME NEW r \in Rows, Reinforce(t, r)
        PROVE  TypeOK'
    <2>1. [req[t] EXCEPT !.todo = req[t].todo \ {r}, !.hit = TRUE] \in Request
      BY <1>1 DEF Request
    <2>2. [prefs[r] EXCEPT !.holder = t, !.added = prefs[r].added + 1] \in Preference
      <3>1. PICK n \in Nat : n = prefs[r].added + 1
        BY RowTypes
      <3>2. prefs[r] \in Preference
        BY RowTypes
      <3>3. [prefs[r] EXCEPT !.holder = t, !.added = n] \in Preference
        BY <3>2 DEF Preference
      <3>4. QED
        BY <3>1, <3>3
    <2>3. QED
      BY <1>5, <2>1, <2>2 DEF Reinforce, TypeOK
  <1>6. ASSUME NEW r \in Rows, InsertPreference(t, r)
        PROVE  TypeOK'
    <2>1. CurrentKey(t) \in Keys
      BY <1>1, <1>6, FieldTypes, RequestTypes DEF CurrentKey, InsertPreference
    <2>2. [state |-> "pending", key |-> CurrentKey(t), count |-> 1, added |-> 0,
           source |-> req[t].of, holder |-> t] \in Preference
      BY <2>1, RequestTypes DEF Preference
    <2>3. QED
      BY <1>2, <1>6, <2>2 DEF InsertPreference, TypeOK
  <1>7. QED
    BY <1>3, <1>4, <1>5, <1>6

LEMMA WrittenTypes ==
  ASSUME TypeOK, NEW t \in Requests, NEW e \in Exception
  PROVE  /\ Written(t, e) \in Exception
         /\ t \in Captures => Written(t, e).holder = e.holder
         /\ t \in Captures => Written(t, e).confirmed = e.confirmed
         /\ t \in Captures =>
              Written(t, e).status = IF Accepted(req[t].fields) THEN "none" ELSE "open"
         /\ t \notin Captures => Written(t, e).holder = None
         /\ t \notin Captures =>
              Written(t, e).confirmed = IF Persists(t) THEN e.confirmed \cup KeysOf(req[t].fields)
                                        ELSE e.confirmed
         /\ t \notin Captures =>
              Written(t, e).status = IF req[t].status = None THEN e.status ELSE req[t].status
  <1>1. /\ req[t].fields \in Seq(Field) /\ KeysOf(req[t].fields) \in SUBSET Keys
        /\ req[t].status \in ExceptionStatus \cup {None}
    BY RequestTypes, FieldTypes
  <1>2. CASE t \in Captures
    BY <1>1, <1>2 DEF Written, Exception, ExceptionStatus
  <1>3. CASE t \notin Captures
    <2>1. PICK x \in SUBSET Keys :
            x = IF Persists(t) THEN e.confirmed \cup KeysOf(req[t].fields) ELSE e.confirmed
      BY <1>1 DEF Exception
    <2>2. PICK s \in ExceptionStatus \cup {"none"} :
            s = IF req[t].status = None THEN e.status ELSE req[t].status
      BY <1>1 DEF Exception
    <2>3. Written(t, e) = [e EXCEPT !.status = s, !.fields = req[t].fields, !.holder = None,
                                    !.confirmed = x]
      BY <1>3, <2>1, <2>2 DEF Written
    <2>4. QED
      BY <1>1, <1>3, <2>1, <2>2, <2>3 DEF Exception
  <1>4. QED
    BY <1>2, <1>3

LEMMA TypeEnd ==
  ASSUME TypeOK, NEW t \in Requests, Commit(t) \/ Fail(t), req[t].of \in Captures \/ Fail(t)
  PROVE  TypeOK'
  <1>1. req[t] \in Request /\ \A r \in Rows : prefs[r] \in Preference
    BY RequestTypes, RowTypes
  <1>2. prefs' \in [Rows -> Preference]
    BY <1>1, EndedRow DEF Commit, Fail
  <1>3. req' \in [Requests -> Request]
    BY <1>1, EndedRequest DEF Commit, Fail, TypeOK
  <1>4. CASE Commit(t)
    <2>1. \A k \in Keys : Times(k, req[t].fields) \in Nat
      BY TimesType, RequestTypes
    <2>2. persisted' \in [Keys -> Nat]
      BY <1>4, <2>1 DEF Commit, TypeOK
    <2>3. evidence' \in [Captures -> EvidenceStatus]
      BY <1>4 DEF Commit, TypeOK, EvidenceStatus
    <2>4. \A e \in Exception : Written(t, e) \in Exception
      BY WrittenTypes
    <2>5. exception' \in [Captures -> Exception]
      BY <1>4, <2>4 DEF Commit, TypeOK
    <2>6. QED
      BY <1>2, <1>3, <1>4, <2>2, <2>3, <2>5 DEF Commit, TypeOK
  <1>5. CASE Fail(t)
    <2>1. \A c \in Captures : [exception[c] EXCEPT !.holder = None] \in Exception
      BY ItemTypes DEF Exception
    <2>2. exception' \in [Captures -> Exception]
      BY <1>5, <2>1, ItemTypes DEF Fail
    <2>3. QED
      BY <1>2, <1>3, <1>5, <2>2 DEF Fail, TypeOK
  <1>6. QED
    BY <1>4, <1>5

-----------------------------------------------------------------------------
(* The invariant holds initially.                                          *)

LEMMA InitInvariant ==
  ASSUME Init
  PROVE  IInv
  <1>1. TypeOK
    BY TypeInit
  <1>2. PICK known \in [Rows -> Keys \cup {None}] :
          prefs = [r \in Rows |-> IF known[r] = None THEN FreeRow ELSE KnownRow(known[r])]
    BY DEF Init
  <1>3. \A r \in Rows :
          /\ prefs[r].state \in {"free", "active"}
          /\ prefs[r].holder = None
          /\ prefs[r].source = None
          /\ prefs[r].state # "free" => prefs[r].key \in Keys
    BY <1>2 DEF FreeRow, KnownRow
  <1>4. \A t \in Requests :
          /\ req[t].at = "new" /\ req[t].next = 1 /\ req[t].answer = "none"
          /\ t \in Captures => req[t].of = t
    BY DEF Init, NewRequest
  <1>5. \A c \in Captures :
          /\ evidence[c] = "none" /\ exception[c].status = "none"
          /\ exception[c].holder = None /\ exception[c].confirmed = {}
    BY DEF Init
  <1>6. \A r \in Rows : RowOK(r)
    BY <1>3 DEF RowOK
  <1>7. \A c \in Captures : ItemOK(c)
    BY <1>5 DEF ItemOK
  <1>8. \A t \in Requests : RequestOK(t)
    BY <1>4, <1>5 DEF RequestOK, Writing
  <1>9. OneRowPerEvidence /\ UnsureCardsWait /\ ConfirmedDataLands /\ EvidenceIsBacked
    <2>1. ConfirmedDataLands
      BY <1>4, <1>5 DEF ConfirmedDataLands, Requests
    <2>2. OneRowPerEvidence /\ UnsureCardsWait
      BY <1>3 DEF OneRowPerEvidence, UnsureCardsWait, Used, Active
    <2>3. EvidenceIsBacked
      BY <1>5 DEF EvidenceIsBacked
    <2>4. QED
      BY <2>1, <2>2, <2>3
  <1>10. QED
    BY <1>1, <1>6, <1>7, <1>8, <1>9 DEF IInv

-----------------------------------------------------------------------------
(* Steps that leave the tables alone.                                      *)

LEMMA QuietStep ==
  ASSUME IInv, TypeOK', NEW t \in Requests, NEW h,
         req' = [req EXCEPT ![t] = h], req[t].at \notin {"commit", "done"},
         h.of = req[t].of, h.answer # "accepted",
         Writing(t) => h.at \in {"persist", "upsert"} /\ h.fields = req[t].fields,
         RequestOK(t)', objects \subseteq objects',
         UNCHANGED <<evidence, exception, prefs>>
  PROVE  IInv'
  <1>1. /\ TypeOK /\ \A u \in Requests : RequestOK(u)
        /\ \A r \in Rows : RowOK(r)
        /\ \A c \in Captures : ItemOK(c)
    BY DEF IInv
  <1>2. req'[t] = h /\ \A u \in Requests \ {t} : req'[u] = req[u]
    BY <1>1 DEF TypeOK
  <1>3. \A u \in Requests : RequestOK(u)'
    <2> SUFFICES ASSUME NEW u \in Requests, u # t
                 PROVE  RequestOK(u)'
      OBVIOUS
    <2>1. req[u].todo \subseteq Rows
      BY <1>1, RequestTypes
    <2>2. \A r \in Rows : Seen(u, r) => Seen(u, r)' /\ prefs'[r].key = prefs[r].key
      BY DEF Seen
    <2>3. Used' = Used
      BY DEF Used
    <2>4. QED
      BY <1>1, <1>2, <2>1, <2>2, <2>3, RequestKept
  <1>4. \A r \in Rows : RowOK(r)'
    <2> SUFFICES ASSUME NEW r \in Rows
                 PROVE  RowOK(r)'
      OBVIOUS
    <2>1. RowOK(r) /\ prefs[r].holder \in Requests \cup {None}
      BY <1>1, RowTypes
    <2>2. CASE prefs[r].holder # t
      BY <1>2, <2>1, <2>2 DEF RowOK, Writing
    <2>3. CASE prefs[r].holder = t
      BY <1>2, <2>1, <2>3 DEF RowOK, Writing
    <2>4. QED
      BY <2>2, <2>3
  <1>5. \A c \in Captures : ItemOK(c)'
    <2> SUFFICES ASSUME NEW c \in Captures
                 PROVE  ItemOK(c)'
      OBVIOUS
    <2>1. ItemOK(c) /\ exception[c].holder \in Requests \cup {None} /\ c \in Requests
      BY <1>1, ItemTypes DEF Requests
    <2>2. exception[c].status # "none" => req'[c].at = "done"
      BY <1>2, <2>1 DEF ItemOK
    <2>3. exception[c].holder # None =>
            /\ req'[exception[c].holder].of = c
            /\ req'[exception[c].holder].at \in {"persist", "upsert", "commit"}
      BY <1>2, <2>1 DEF ItemOK, Writing
    <2>4. QED
      BY <2>1, <2>2, <2>3 DEF ItemOK
  <1>6. Active' = Active /\ Used' = Used
    BY DEF Active, Used
  <1>7. OneRowPerEvidence' /\ UnsureCardsWait'
    BY <1>6 DEF IInv, OneRowPerEvidence, UnsureCardsWait
  <1>8. ConfirmedDataLands'
    <2>1. \A c \in Captures : req'[c].answer = "accepted" => req'[c] = req[c]
      BY <1>2 DEF Requests
    <2>2. QED
      BY <1>6, <2>1 DEF IInv, ConfirmedDataLands
  <1>9. EvidenceIsBacked'
    BY DEF IInv, EvidenceIsBacked
  <1>10. QED
    BY <1>3, <1>4, <1>5, <1>7, <1>8, <1>9 DEF IInv

LEMMA PutPhotoKeeps ==
  ASSUME IInv, TypeOK', NEW c \in Captures, PutPhoto(c)
  PROVE  IInv'
  <1> DEFINE h == [req[c] EXCEPT !.at = "ocr"]
  <1>1. TypeOK /\ RequestOK(c) /\ c \in Requests
    BY DEF IInv, Requests
  <1>2. req[c] \in Request
    BY <1>1, RequestTypes
  <1>3. /\ h.at = "ocr" /\ h.of = req[c].of /\ h.answer = req[c].answer /\ h.next = req[c].next
        /\ req' = [req EXCEPT ![c] = h] /\ req'[c] = h
    BY <1>1, <1>2 DEF PutPhoto, Request, TypeOK
  <1>4. RequestOK(c)'
    BY <1>1, <1>3 DEF RequestOK, PutPhoto, Writing
  <1>5. h.answer # "accepted" /\ ~Writing(c)
    BY <1>1, <1>3 DEF RequestOK, PutPhoto, Writing
  <1> HIDE DEF h
  <1>6. QED
    BY <1>1, <1>3, <1>4, <1>5, QuietStep DEF PutPhoto

LEMMA RecogniseKeeps ==
  ASSUME IInv, TypeOK', NEW c \in Captures, NEW fields \in Readings, Recognise(c, fields)
  PROVE  IInv'
  <1>1. TypeOK /\ RequestOK(c) /\ c \in Requests
    BY DEF IInv, Requests
  <1>2. req[c] \in Request
    BY <1>1, RequestTypes
  <1>3. PICK at \in {"persist", "commit"} :
          /\ at = "persist" <=> req[c].guest /\ Accepted(fields)
          /\ req' = [req EXCEPT ![c] = [req[c] EXCEPT !.fields = fields, !.at = at]]
    <2>1. CASE req[c].guest /\ Accepted(fields)
      BY <2>1 DEF Recognise
    <2>2. CASE ~(req[c].guest /\ Accepted(fields))
      BY <2>2 DEF Recognise
    <2>3. QED
      BY <2>1, <2>2
  <1> DEFINE h == [req[c] EXCEPT !.fields = fields, !.at = at]
  <1>4. /\ h.at = at /\ h.fields = fields /\ h.of = req[c].of /\ h.answer = req[c].answer
        /\ h.next = req[c].next /\ h.guest = req[c].guest
        /\ req' = [req EXCEPT ![c] = h] /\ req'[c] = h
    BY <1>1, <1>2, <1>3 DEF Request, TypeOK
  <1> HIDE DEF h
  <1>5. req[c].next = 1 /\ req[c].answer = "none" /\ ~Writing(c)
    BY <1>1 DEF RequestOK, Recognise, Writing
  <1>6. Persists(c)' <=> at = "persist"
    BY <1>3, <1>4 DEF Persists
  <1>7. ProgressOK(c)'
    BY <1>4, <1>5, FieldTypes DEF ProgressOK
  <1>8. RequestOK(c)'
    BY <1>1, <1>3, <1>4, <1>5, <1>6, <1>7 DEF RequestOK, Recognise, Writing
  <1>9. QED
    BY <1>1, <1>4, <1>5, <1>8, QuietStep DEF Recognise

\* The first statement of a field: what it finds are all rows the request's own
\* evidence can have given that preference.
LEMMA StartUpsertKeeps ==
  ASSUME IInv, TypeOK', NEW t \in Requests, StartUpsert(t)
  PROVE  IInv'
  <1>1. TypeOK /\ RequestOK(t) /\ \A r \in Rows : RowOK(r)
    BY DEF IInv
  <1>2. req[t] \in Request /\ Writing(t)
    BY <1>1, RequestTypes DEF StartUpsert, Writing
  <1>3. PICK k : k = CurrentKey(t)
    OBVIOUS
  <1>4. PICK todo \in SUBSET Rows : todo = Matching(t, k)
    BY DEF Matching
  <1> DEFINE h == [req[t] EXCEPT !.at = "upsert", !.todo = todo, !.hit = FALSE]
  <1>5. /\ h.at = "upsert" /\ h.todo = todo /\ ~h.hit /\ h.next = req[t].next
        /\ h.of = req[t].of /\ h.guest = req[t].guest /\ h.fields = req[t].fields
        /\ h.status = req[t].status /\ h.answer = req[t].answer
        /\ req' = [req EXCEPT ![t] = h] /\ req'[t] = h
    BY <1>1, <1>2, <1>3, <1>4 DEF StartUpsert, Request, TypeOK
  <1> HIDE DEF h
  <1>6. CurrentKey(t)' = k /\ Persists(t)' = Persists(t)
    BY <1>3, <1>5 DEF CurrentKey, Persists
  <1>7. \A r \in Rows : Seen(t, r)' = Seen(t, r)
    BY DEF StartUpsert, Seen
  <1>8. ProgressOK(t)'
    BY <1>1, <1>2, <1>5, <1>7 DEF RequestOK, ProgressOK, StartUpsert
  <1>9. \A r \in todo : Seen(t, r) /\ prefs[r].key = k
    BY <1>4 DEF Matching, Seen
  <1>10. ASSUME NEW r \in Used, prefs[r].key = k, prefs[r].source = req[t].of
         PROVE  r \in todo
    <2>1. r \in Rows /\ RowOK(r) /\ prefs[r].state \in {"pending", "active"}
      BY <1>1, <1>10, RowTypes DEF Used
    <2>2. CASE prefs[r].state = "active"
      BY <1>4, <1>10, <2>1, <2>2 DEF Matching
    <2>3. CASE prefs[r].state = "pending"
      <3>1. PICK w \in Requests : w = prefs[r].holder /\ Writing(w) /\ req[w].of = req[t].of
        BY <1>1, <1>10, <2>1, <2>3, RowTypes DEF RowOK
      <3>2. w = t
        BY <1>2, <3>1, OneWriter
      <3>3. QED
        BY <1>4, <1>10, <2>1, <2>3, <3>1, <3>2 DEF Matching
    <2>4. QED
      BY <2>1, <2>2, <2>3
  <1>11. UpsertOK(t)'
    <2>1. Used' = Used /\ prefs' = prefs
      BY DEF Used, StartUpsert
    <2>2. req[t].next <= Len(req[t].fields)
      BY DEF StartUpsert
    <2>3. \A r \in todo : Seen(t, r)' /\ prefs'[r].key = k
      BY <1>7, <1>9, <2>1
    <2>4. \A r \in Used' :
            prefs'[r].key = k /\ prefs'[r].source = req'[t].of => r \in todo \/ h.hit
      BY <1>5, <1>10, <2>1
    <2>5. QED
      BY <1>5, <1>6, <2>2, <2>3, <2>4 DEF UpsertOK
  <1>12. RequestOK(t)'
    BY <1>1, <1>2, <1>5, <1>6, <1>8, <1>11 DEF RequestOK, StartUpsert, Writing
  <1>13. h.answer # "accepted"
    BY <1>1, <1>2, <1>5 DEF RequestOK, Writing
  <1>14. QED
    BY <1>5, <1>12, <1>13, QuietStep DEF StartUpsert

\* A request past one more of its fields.
LEMMA NextFieldFacts ==
  ASSUME NEW h \in Request
  PROVE  /\ NextField(h).at = "persist" /\ NextField(h).next = h.next + 1
         /\ NextField(h).of = h.of /\ NextField(h).guest = h.guest
         /\ NextField(h).fields = h.fields /\ NextField(h).status = h.status
         /\ NextField(h).answer = h.answer
  BY DEF NextField, Request

\* What makes a request sound after it is past a field.
LEMMA FieldDone ==
  ASSUME IInv, TypeOK', NEW t \in Requests, req[t].at = "upsert",
         req' = [req EXCEPT ![t] = NextField(@)],
         UNCHANGED <<objects, evidence, exception>>,
         \A r \in Rows : Seen(t, r) => Seen(t, r)' /\ prefs'[r].key = prefs[r].key,
         \E r \in Rows : Seen(t, r)' /\ prefs'[r].key = CurrentKey(t)
  PROVE  RequestOK(t)'
  <1>1. TypeOK /\ RequestOK(t) /\ Writing(t)
    BY DEF IInv, Writing
  <1>2. req[t] \in Request /\ req[t].next \in Nat /\ req'[t] = NextField(req[t])
    BY <1>1, RequestTypes DEF TypeOK
  <1>3. /\ req'[t].at = "persist" /\ req'[t].next = req[t].next + 1
        /\ req'[t].of = req[t].of /\ req'[t].guest = req[t].guest
        /\ req'[t].fields = req[t].fields /\ req'[t].status = req[t].status
        /\ req'[t].answer = req[t].answer
    BY <1>2, NextFieldFacts
  <1>4. Persists(t)' = Persists(t)
    BY <1>3 DEF Persists
  <1>5. ProgressOK(t)'
    <2> SUFFICES ASSUME NEW i \in DOMAIN req[t].fields, i < req[t].next + 1
                 PROVE  \E r \in Rows : Seen(t, r)' /\ prefs'[r].key = req[t].fields[i].key
      BY <1>3 DEF ProgressOK
    <2>1. i \in Nat
      BY <1>1, RequestTypes, FieldTypes
    <2>2. CASE i = req[t].next
      BY <2>2 DEF CurrentKey
    <2>3. CASE i < req[t].next
      <3>1. PICK r \in Rows : Seen(t, r) /\ prefs[r].key = req[t].fields[i].key
        BY <1>1, <2>3 DEF RequestOK, ProgressOK
      <3>2. QED
        BY <3>1
    <2>4. QED
      BY <1>2, <2>1, <2>2, <2>3
  <1>6. QED
    BY <1>1, <1>2, <1>3, <1>4, <1>5 DEF RequestOK, Writing

LEMMA ReinforcedKeeps ==
  ASSUME IInv, TypeOK', NEW t \in Requests, Reinforced(t)
  PROVE  IInv'
  <1>1. TypeOK /\ RequestOK(t) /\ req[t] \in Request /\ Writing(t)
    BY RequestTypes DEF IInv, Reinforced, Writing
  <1>2. \A r \in Rows : Seen(t, r)' = Seen(t, r)
    BY DEF Reinforced, Seen
  <1>3. PICK r \in Rows : Seen(t, r) /\ prefs[r].key = CurrentKey(t)
    BY <1>1 DEF RequestOK, UpsertOK, Reinforced
  <1>4. RequestOK(t)'
    BY <1>2, <1>3, FieldDone DEF Reinforced
  <1>5. NextField(req[t]).answer # "accepted"
    BY <1>1, NextFieldFacts DEF RequestOK, Writing
  <1>6. PICK h : h = NextField(req[t])
    OBVIOUS
  <1>7. QED
    BY <1>1, <1>4, <1>5, <1>6, NextFieldFacts, QuietStep DEF Reinforced

-----------------------------------------------------------------------------
(* A patch takes its item.                                                 *)

LEMMA PatchKeeps ==
  ASSUME IInv, TypeOK', NEW q \in Patches, NEW c \in Captures,
         NEW status \in ExceptionStatus \cup {None}, NEW payload \in Readings \cup {None},
         Patch(q, c, status, payload)
  PROVE  IInv'
  <1>1. /\ TypeOK /\ \A u \in Requests : RequestOK(u)
        /\ \A r \in Rows : RowOK(r)
        /\ \A x \in Captures : ItemOK(x)
        /\ q \in Requests /\ q # c /\ c \in Requests /\ q \notin Captures /\ q # None
    BY DEF IInv, Requests
  <1>2. req[q] \in Request /\ req[q].at = "new" /\ req[q].next = 1 /\ req[q].answer = "none"
    BY <1>1, RequestTypes DEF Patch, RequestOK
  <1>3. PICK fields \in Seq(Field) : fields = IF payload = None THEN exception[c].fields ELSE payload
    BY <1>1, ItemTypes
  <1>4. PICK at \in {"persist", "commit"} :
          at = IF req[c].guest /\ Confirms(status) THEN "persist" ELSE "commit"
    OBVIOUS
  <1>5. PICK guest \in BOOLEAN : guest = req[c].guest
    BY <1>1, RequestTypes
  <1> DEFINE h == [req[q] EXCEPT !.of = c, !.guest = guest, !.status = status,
                                 !.fields = fields, !.at = at]
  <1>6. /\ h.at = at /\ h.of = c /\ h.guest = guest /\ h.status = status /\ h.fields = fields
        /\ h.next = 1 /\ h.answer = "none"
        /\ req' = [req EXCEPT ![q] = h]
    BY ZenonT(60), <1>2, <1>3, <1>4, <1>5 DEF Patch, Request
  <1> HIDE DEF h
  <1>7. req'[q] = h /\ \A u \in Requests \ {q} : req'[u] = req[u]
    BY <1>1, <1>6 DEF TypeOK
  <1>8. /\ exception[c] \in Exception /\ exception[c].status # "none" /\ exception[c].holder = None
        /\ exception'[c] = [exception[c] EXCEPT !.holder = q]
        /\ \A x \in Captures \ {c} : exception'[x] = exception[x]
    BY <1>1, ItemTypes DEF Patch, Available, TypeOK
  <1>9. /\ exception'[c].holder = q /\ exception'[c].status = exception[c].status
        /\ exception'[c].confirmed = exception[c].confirmed
    BY <1>8 DEF Exception
  <1>10. UNCHANGED <<objects, evidence, prefs>> /\ Active' = Active /\ Used' = Used
    BY DEF Patch, Active, Used
  <1>11. \A u \in Requests : RequestOK(u)'
    <2>1. ASSUME NEW u \in Requests, u # q
          PROVE  RequestOK(u)'
      <3>1. req[u].todo \subseteq Rows
        BY <1>1, RequestTypes
      <3>2. \A r \in Rows : Seen(u, r) => Seen(u, r)' /\ prefs'[r].key = prefs[r].key
        BY <1>10 DEF Seen
      <3>3. \A x \in Captures : exception[x].holder = u => exception'[x].holder = u
        BY <1>8, <1>1
      <3>4. QED
        BY <1>1, <1>7, <1>10, <2>1, <3>1, <3>2, <3>3, RequestKept
    <2>2. Persists(q)' <=> at = "persist"
      BY <1>1, <1>4, <1>5, <1>6, <1>7 DEF Persists, Confirms
    <2>3. ProgressOK(q)'
      BY <1>6, <1>7, FieldTypes DEF ProgressOK
    <2>4. RequestOK(q)'
      BY <1>1, <1>4, <1>6, <1>7, <1>9, <2>2, <2>3 DEF RequestOK, Writing
    <2>5. QED
      BY <2>1, <2>4
  <1>12. \A r \in Rows : RowOK(r)'
    <2> SUFFICES ASSUME NEW r \in Rows
                 PROVE  RowOK(r)'
      OBVIOUS
    <2>1. RowOK(r) /\ prefs[r].holder \in Requests \cup {None}
      BY <1>1, RowTypes
    <2>2. prefs[r].holder # q
      BY <1>1, <1>2, <2>1 DEF RowOK, Writing
    <2>3. QED
      BY <1>7, <1>10, <2>1, <2>2 DEF RowOK, Writing
  <1>13. \A x \in Captures : ItemOK(x)'
    <2>1. ASSUME NEW x \in Captures, x # c
          PROVE  ItemOK(x)'
      <3>1. ItemOK(x) /\ exception[x].holder \in Requests \cup {None} /\ x \in Requests
        BY <1>1, ItemTypes DEF Requests
      <3>2. exception[x].holder # q
        BY <1>1, <1>2, <3>1 DEF ItemOK
      <3>3. req'[x] = req[x]
        BY <1>1, <1>7, <3>1
      <3>4. QED
        BY <1>7, <1>8, <1>10, <2>1, <3>1, <3>2, <3>3 DEF ItemOK
    <2>2. ItemOK(c)'
      BY <1>1, <1>4, <1>6, <1>7, <1>8, <1>9, <1>10 DEF ItemOK
    <2>3. QED
      BY <2>1, <2>2
  <1>14. \A x \in Captures :
           /\ exception'[x].status = exception[x].status
           /\ exception'[x].confirmed = exception[x].confirmed
    BY <1>8, <1>9
  <1>15. OneRowPerEvidence' /\ UnsureCardsWait'
    <2>1. OneRowPerEvidence'
      BY <1>10 DEF IInv, OneRowPerEvidence
    <2>2. UnsureCardsWait'
      <3> SUFFICES ASSUME NEW r \in Active, prefs[r].source # None,
                          evidence[prefs[r].source] # "processed"
                   PROVE  prefs[r].key \in exception'[prefs[r].source].confirmed
        BY <1>10 DEF UnsureCardsWait
      <3>1. prefs[r].source \in Captures
        BY <1>1, RowTypes DEF Active
      <3>2. QED
        BY <1>14, <3>1 DEF IInv, UnsureCardsWait
    <2>3. QED
      BY <2>1, <2>2
  <1>16. ConfirmedDataLands'
    <2>1. \A x \in Captures : req'[x] = req[x]
      BY <1>1, <1>7 DEF Requests
    <2>2. QED
      BY <1>10, <1>14, <2>1 DEF IInv, ConfirmedDataLands
  <1>17. EvidenceIsBacked'
    BY <1>10, <1>14 DEF IInv, EvidenceIsBacked
  <1>18. QED
    BY <1>11, <1>12, <1>13, <1>15, <1>16, <1>17 DEF IInv

-----------------------------------------------------------------------------
(* A statement locks rows and inserts one.                                 *)

\* Steps of t that write only preferences: what they leave of the invariant to
\* be shown is about rows.
LEMMA RowStep ==
  ASSUME IInv, TypeOK', NEW t \in Requests, NEW h, req' = [req EXCEPT ![t] = h],
         req[t].at = "upsert", h.at \in {"persist", "upsert"}, h.of = req[t].of,
         h.answer = req[t].answer, h.fields = req[t].fields,
         UNCHANGED <<objects, evidence, exception>>,
         \A r \in Rows : RowOK(r)', RequestOK(t)',
         \A u \in Requests \ {t} : RequestOK(u)',
         OneRowPerEvidence', Active' = Active,
         \A r \in Active : prefs'[r].key = prefs[r].key /\ prefs'[r].source = prefs[r].source
  PROVE  IInv'
  <1>1. /\ TypeOK /\ RequestOK(t) /\ \A c \in Captures : ItemOK(c)
        /\ req'[t] = h /\ \A u \in Requests \ {t} : req'[u] = req[u]
    BY DEF IInv, TypeOK
  <1>2. \A c \in Captures : ItemOK(c)'
    <2> SUFFICES ASSUME NEW c \in Captures
                 PROVE  ItemOK(c)'
      OBVIOUS
    <2>1. ItemOK(c) /\ exception[c].holder \in Requests \cup {None} /\ c \in Requests
      BY <1>1, ItemTypes DEF Requests
    <2>2. exception[c].status # "none" => req'[c].at = "done"
      BY <1>1, <2>1 DEF ItemOK
    <2>3. exception[c].holder # None =>
            /\ req'[exception[c].holder].of = c
            /\ req'[exception[c].holder].at \in {"persist", "upsert", "commit"}
      BY <1>1, <2>1 DEF ItemOK
    <2>4. QED
      BY <2>1, <2>2, <2>3 DEF ItemOK
  <1>3. UnsureCardsWait'
    BY DEF IInv, UnsureCardsWait
  <1>4. {prefs'[r].key : r \in Active'} = {prefs[r].key : r \in Active}
    OBVIOUS
  <1>5. \A c \in Captures : req'[c].answer = "accepted" => req'[c] = req[c]
    BY <1>1 DEF Requests, RequestOK
  <1>6. ConfirmedDataLands'
    <2> PICK S : S = {prefs[r].key : r \in Active} /\ S = {prefs'[r].key : r \in Active'}
      BY <1>4
    <2>1. \A c \in Captures : exception[c].confirmed \subseteq S
      BY DEF IInv, ConfirmedDataLands
    <2>2. \A c \in Captures :
            req[c].answer = "accepted" /\ req[c].guest => KeysOf(req[c].fields) \subseteq S
      BY DEF IInv, ConfirmedDataLands
    <2>3. \A c \in Captures :
            req'[c].answer = "accepted" /\ req'[c].guest => KeysOf(req'[c].fields) \subseteq S
      BY <1>5, <2>2
    <2>4. QED
      BY <2>1, <2>3 DEF ConfirmedDataLands
  <1>7. EvidenceIsBacked'
    BY DEF IInv, EvidenceIsBacked
  <1>8. QED
    BY <1>2, <1>3, <1>6, <1>7 DEF IInv

LEMMA ReinforceKeeps ==
  ASSUME IInv, TypeOK', NEW t \in Requests, NEW r \in Rows, Reinforce(t, r)
  PROVE  IInv'
  <1>1. /\ TypeOK /\ \A u \in Requests : RequestOK(u)
        /\ \A x \in Rows : RowOK(x) /\ prefs[x] \in Preference
        /\ req[t] \in Request /\ req[t].at = "upsert" /\ Writing(t) /\ t # None
    BY RequestTypes, RowTypes DEF IInv, Reinforce, Writing, Requests
  <1>2. UpsertOK(t) /\ Persists(t) /\ ProgressOK(t)
    BY <1>1 DEF RequestOK
  <1> DEFINE h == [req[t] EXCEPT !.todo = req[t].todo \ {r}, !.hit = TRUE]
             row == [prefs[r] EXCEPT !.holder = t, !.added = prefs[r].added + 1]
  <1>3. /\ h.at = "upsert" /\ h.of = req[t].of /\ h.answer = req[t].answer
        /\ h.fields = req[t].fields /\ h.next = req[t].next /\ h.guest = req[t].guest
        /\ h.status = req[t].status /\ h.todo = req[t].todo \ {r} /\ h.hit
        /\ req' = [req EXCEPT ![t] = h] /\ req'[t] = h
        /\ \A u \in Requests \ {t} : req'[u] = req[u]
    BY <1>1 DEF Reinforce, Request, TypeOK
  <1>4. /\ row.state = prefs[r].state /\ row.key = prefs[r].key /\ row.source = prefs[r].source
        /\ row.holder = t
        /\ prefs'[r] = row /\ \A x \in Rows \ {r} : prefs'[x] = prefs[x]
    BY <1>1 DEF Reinforce, Preference, TypeOK
  <1> HIDE DEF h, row
  <1>5. Seen(t, r) /\ prefs[r].holder \in {None, t}
    BY <1>2 DEF Reinforce, MayLock, UpsertOK
  <1>6. \A x \in Rows :
          /\ prefs'[x].state = prefs[x].state /\ prefs'[x].key = prefs[x].key
          /\ prefs'[x].source = prefs[x].source
    BY <1>4
  <1>7. Active' = Active /\ Used' = Used /\ CurrentKey(t)' = CurrentKey(t)
        /\ Persists(t)' = Persists(t) /\ Writing(t)'
    BY <1>3, <1>6 DEF Active, Used, CurrentKey, Persists, Writing
  <1>8. \A u \in Requests : Writing(u)' = Writing(u)
    BY <1>1, <1>3, <1>7 DEF Writing
  <1>9. \A x \in Rows : RowOK(x)'
    <2>1. ASSUME NEW x \in Rows, x # r
          PROVE  RowOK(x)'
      <3>1. RowOK(x) /\ prefs[x].holder \in Requests \cup {None} /\ prefs'[x] = prefs[x]
        BY <1>1, <1>4, <2>1, RowTypes
      <3>2. prefs[x].holder # None =>
              /\ Writing(prefs[x].holder)' = Writing(prefs[x].holder)
              /\ req'[prefs[x].holder].of = req[prefs[x].holder].of
              /\ req'[prefs[x].holder].fields = req[prefs[x].holder].fields
        BY <1>3, <1>8, <3>1
      <3>3. QED
        BY <3>1, <3>2 DEF RowOK
    <2>2. RowOK(r)'
      BY <1>1, <1>3, <1>4, <1>5, <1>7 DEF RowOK, Seen
    <2>3. QED
      BY <2>1, <2>2
  <1>10. \A u \in Requests, x \in Rows : Seen(u, x) => Seen(u, x)'
    <2> SUFFICES ASSUME NEW u \in Requests, NEW x \in Rows, Seen(u, x)
                 PROVE  Seen(u, x)'
      OBVIOUS
    <2>1. CASE x # r
      BY <1>4, <2>1 DEF Seen
    <2>2. CASE x = r
      BY <1>4, <1>5, <2>2 DEF Seen, Requests
    <2>3. QED
      BY <2>1, <2>2
  <1>11. RequestOK(t)'
    <2>1. ProgressOK(t)'
      <3> SUFFICES ASSUME NEW i \in DOMAIN req[t].fields, i < req[t].next
                   PROVE  \E x \in Rows : Seen(t, x)' /\ prefs'[x].key = req[t].fields[i].key
        BY <1>3 DEF ProgressOK
      <3>1. PICK x \in Rows : Seen(t, x) /\ prefs[x].key = req[t].fields[i].key
        BY <1>2 DEF ProgressOK
      <3>2. QED
        BY <1>6, <1>10, <3>1
    <2>2. UpsertOK(t)'
      <3>1. r \in Rows /\ Seen(t, r)' /\ prefs'[r].key = CurrentKey(t)
        BY <1>2, <1>5, <1>6, <1>10 DEF UpsertOK, Reinforce
      <3>2. \A x \in req[t].todo : x \in Rows /\ Seen(t, x)' /\ prefs'[x].key = CurrentKey(t)
        BY <1>1, <1>2, <1>6, <1>10, RequestTypes DEF UpsertOK
      <3>3. QED
        BY <1>2, <1>3, <1>7, <3>1, <3>2 DEF UpsertOK
    <2>3. QED
      BY <1>1, <1>2, <1>3, <1>7, <2>1, <2>2 DEF RequestOK, Reinforce
  <1>12. \A u \in Requests \ {t} : RequestOK(u)'
    <2> SUFFICES ASSUME NEW u \in Requests, u # t
                 PROVE  RequestOK(u)'
      OBVIOUS
    <2>1. req[u].todo \subseteq Rows
      BY <1>1, RequestTypes
    <2>2. req'[u] = req[u] /\ RequestOK(u)
      BY <1>1, <1>3
    <2>3. \A x \in Used' : x \in Used /\ x \in Rows
      BY <1>7 DEF Used
    <2>4. UNCHANGED <<objects, evidence, exception>>
      BY DEF Reinforce
    <2>5. QED
      BY <1>6, <1>10, <2>1, <2>2, <2>3, <2>4, RequestKept
  <1>13. OneRowPerEvidence'
    BY <1>6, <1>7 DEF IInv, OneRowPerEvidence, Used
  <1>14. \A x \in Active : prefs'[x].key = prefs[x].key /\ prefs'[x].source = prefs[x].source
    BY <1>6 DEF Active
  <1>15. UNCHANGED <<objects, evidence, exception>>
    BY DEF Reinforce
  <1>16. QED
    BY <1>1, <1>3, <1>7, <1>9, <1>11, <1>12, <1>13, <1>14, <1>15, RowStep

LEMMA InsertKeeps ==
  ASSUME IInv, TypeOK', NEW t \in Requests, NEW r \in Rows, InsertPreference(t, r)
  PROVE  IInv'
  <1>1. /\ TypeOK /\ \A u \in Requests : RequestOK(u)
        /\ \A x \in Rows : RowOK(x) /\ prefs[x] \in Preference
        /\ req[t] \in Request /\ req[t].at = "upsert" /\ Writing(t) /\ t # None
    BY RequestTypes, RowTypes DEF IInv, InsertPreference, Writing, Requests
  <1>2. UpsertOK(t) /\ Persists(t) /\ ProgressOK(t)
    BY <1>1 DEF RequestOK
  <1>3. PICK h \in Request :
          /\ h = NextField(req[t]) /\ h.at = "persist" /\ h.next = req[t].next + 1
          /\ h.of = req[t].of /\ h.answer = req[t].answer
          /\ h.fields = req[t].fields /\ h.guest = req[t].guest /\ h.status = req[t].status
    <2>1. NextField(req[t]) = req'[t] /\ req'[t] \in Request
      BY <1>1 DEF InsertPreference, TypeOK
    <2>2. QED
      BY <1>1, <2>1, NextFieldFacts
  <1>4. /\ req' = [req EXCEPT ![t] = h] /\ req'[t] = h
        /\ \A u \in Requests \ {t} : req'[u] = req[u]
    BY <1>1, <1>3 DEF InsertPreference, TypeOK
  <1>5. PICK k \in Keys : k = CurrentKey(t) /\ k \in KeysOf(req[t].fields)
    <2>1. req[t].next \in DOMAIN req[t].fields
      BY <1>1, <1>2, RequestTypes, FieldTypes DEF RequestOK, UpsertOK
    <2>2. CurrentKey(t) \in KeysOf(req[t].fields)
      BY <2>1 DEF CurrentKey, KeysOf
    <2>3. QED
      BY <1>1, <2>2, RequestTypes, FieldTypes
  <1>6. /\ prefs[r].state = "free"
        /\ prefs'[r].state = "pending" /\ prefs'[r].key = k
        /\ prefs'[r].source = req[t].of /\ prefs'[r].holder = t
        /\ \A x \in Rows \ {r} : prefs'[x] = prefs[x]
    BY <1>1, <1>5 DEF InsertPreference, TypeOK
  <1>7. /\ Active' = Active /\ Used' = Used \cup {r} /\ r \notin Used /\ r \notin Active
        /\ \A x \in Used : x # r /\ x \in Rows
    BY <1>6 DEF Active, Used
  <1>8. \A u \in Requests : Writing(u)' = Writing(u)
    BY <1>1, <1>3, <1>4 DEF Writing
  <1>9. \A x \in Rows : RowOK(x)'
    <2>1. ASSUME NEW x \in Rows, x # r
          PROVE  RowOK(x)'
      <3>1. RowOK(x) /\ prefs[x].holder \in Requests \cup {None} /\ prefs'[x] = prefs[x]
        BY <1>1, <1>6, <2>1, RowTypes
      <3>2. prefs[x].holder # None =>
              /\ Writing(prefs[x].holder)' = Writing(prefs[x].holder)
              /\ req'[prefs[x].holder].of = req[prefs[x].holder].of
              /\ req'[prefs[x].holder].fields = req[prefs[x].holder].fields
        BY <1>3, <1>4, <1>8, <3>1
      <3>3. QED
        BY <3>1, <3>2 DEF RowOK
    <2>2. RowOK(r)'
      BY <1>1, <1>3, <1>4, <1>5, <1>6, <1>8 DEF RowOK
    <2>3. QED
      BY <2>1, <2>2
  <1>10. \A u \in Requests, x \in Rows : Seen(u, x) => Seen(u, x)' /\ prefs'[x].key = prefs[x].key
    BY <1>6 DEF Seen
  <1>11. \E x \in Rows : Seen(t, x)' /\ prefs'[x].key = CurrentKey(t)
    BY <1>5, <1>6 DEF Seen
  <1>12. UNCHANGED <<objects, evidence, exception>>
    BY DEF InsertPreference
  <1>13. RequestOK(t)'
    BY <1>1, <1>3, <1>4, <1>10, <1>11, <1>12, FieldDone
  <1>14. \A u \in Requests \ {t} : RequestOK(u)'
    <2> SUFFICES ASSUME NEW u \in Requests, u # t
                 PROVE  RequestOK(u)'
      OBVIOUS
    <2>1. req[u].todo \subseteq Rows
      BY <1>1, RequestTypes
    <2>2. req'[u] = req[u] /\ RequestOK(u)
      BY <1>1, <1>4
    <2>3. Writing(u) => req[u].of # req[t].of
      BY <1>1, OneWriter
    <2>4. Writing(u) => \A x \in Used' :
            prefs'[x].source = req[u].of =>
              x \in Used /\ prefs'[x].key = prefs[x].key /\ prefs'[x].source = prefs[x].source
      BY <1>6, <1>7, <2>3
    <2>5. QED
      BY <1>10, <1>12, <2>1, <2>2, <2>4, RequestKept
  <1>15. OneRowPerEvidence'
    <2>1. \A x \in Used : ~(prefs[x].key = k /\ prefs[x].source = req[t].of)
      BY <1>2, <1>5 DEF UpsertOK, InsertPreference
    <2>2. \A x \in Used : prefs'[x] = prefs[x]
      BY <1>6, <1>7
    <2>3. QED
      BY <1>6, <1>7, <2>1, <2>2 DEF IInv, OneRowPerEvidence
  <1>16. \A x \in Active : prefs'[x].key = prefs[x].key /\ prefs'[x].source = prefs[x].source
    BY <1>6, <1>7 DEF Active
  <1>17. QED
    BY <1>1, <1>3, <1>4, <1>7, <1>9, <1>12, <1>13, <1>14, <1>15, <1>16, RowStep

-----------------------------------------------------------------------------
(* A transaction ends.                                                     *)

\* What ends in every case: t holds no row any more, the others' rows stay.
LEMMA EndFacts ==
  ASSUME IInv, NEW t \in Requests, Commit(t) \/ Fail(t)
  PROVE  /\ \A r \in Rows : prefs[r].holder # t => prefs'[r] = prefs[r]
         /\ \A r \in Rows : prefs'[r].holder # t
         /\ \A r \in Rows : prefs[r].holder = t => prefs'[r].holder = None
         /\ \A u \in Requests \ {t} : req'[u] = req[u]
         /\ req'[t].at = "done" /\ req'[t].of = req[t].of /\ req'[t].guest = req[t].guest
         /\ req'[t].fields = req[t].fields /\ req[t].at # "done"
         /\ req'[t].answer = "accepted" => Commit(t) /\ t \in Captures /\ Accepted(req[t].fields)
         /\ t # None
  <1>1. TypeOK /\ req[t] \in Request /\ t # None
    BY RequestTypes DEF IInv, Requests
  <1>2. \A r \in Rows : prefs[r] \in Preference
    BY <1>1, RowTypes
  <1>3. \A r \in Rows : prefs[r].holder # t => prefs'[r] = prefs[r]
    BY <1>1 DEF Commit, Fail
  <1>4. \A r \in Rows : prefs[r].holder = t => prefs'[r].holder = None
    BY <1>1, <1>2, EndedRow DEF Commit, Fail
  <1>5. req[t].at # "done"
    BY DEF Commit, Fail, ReadyToCommit
  <1>6. \A u \in Requests \ {t} : req'[u] = req[u]
    BY <1>1 DEF Commit, Fail, TypeOK
  <1>7. PICK answer \in {"accepted", "pending_review", "patched", "failed"} :
          /\ req'[t] = Ended(req[t], answer)
          /\ answer = "accepted" => Commit(t) /\ t \in Captures /\ Accepted(req[t].fields)
    <2>1. CASE Commit(t)
      BY <1>1, <2>1 DEF Commit, TypeOK, Requests
    <2>2. CASE Fail(t)
      BY <1>1, <2>2 DEF Fail, TypeOK
    <2>3. QED
      BY <2>1, <2>2
  <1>8. /\ req'[t].at = "done" /\ req'[t].of = req[t].of /\ req'[t].guest = req[t].guest
        /\ req'[t].fields = req[t].fields /\ req'[t].answer = answer
    BY <1>1, <1>7, EndedRequest
  <1>9. QED
    BY <1>1, <1>3, <1>4, <1>5, <1>6, <1>7, <1>8

LEMMA EndOfOthers ==
  ASSUME IInv, NEW t \in Requests, Commit(t) \/ Fail(t), NEW u \in Requests, u # t
  PROVE  RequestOK(u)'
  <1>1. TypeOK /\ RequestOK(u) /\ \A r \in Rows : RowOK(r) /\ prefs[r] \in Preference
    BY RowTypes DEF IInv
  <1>2. req[u].todo \subseteq Rows /\ req'[u] = req[u]
    BY <1>1, RequestTypes, EndFacts
  <1>3. \A r \in Rows :
          /\ Seen(u, r) => Seen(u, r)' /\ prefs'[r].key = prefs[r].key
          /\ prefs'[r].state # "free" =>
               /\ prefs[r].state # "free"
               /\ prefs'[r].key = prefs[r].key /\ prefs'[r].source = prefs[r].source
    <2> SUFFICES ASSUME NEW r \in Rows
                 PROVE  /\ Seen(u, r) => Seen(u, r)' /\ prefs'[r].key = prefs[r].key
                        /\ prefs'[r].state # "free" =>
                             /\ prefs[r].state # "free"
                             /\ prefs'[r].key = prefs[r].key /\ prefs'[r].source = prefs[r].source
      OBVIOUS
    <2>1. CASE prefs[r].holder # t
      BY <2>1, EndFacts DEF Seen
    <2>2. CASE prefs[r].holder = t
      <3>1. prefs[r].state # "free" /\ t # None /\ (Seen(u, r) => prefs[r].state = "active")
        BY <1>1, <2>2, EndFacts DEF RowOK, Seen
      <3>2. CASE Commit(t)
        <4>1. prefs'[r] = Kept(prefs[r])
          BY <2>2, <3>2 DEF Commit
        <4>2. QED
          BY <1>1, <3>1, <4>1, EndedRow DEF Seen
      <3>3. CASE Fail(t)
        <4>1. prefs'[r] = Undone(prefs[r])
          BY <2>2, <3>3 DEF Fail
        <4>2. QED
          BY <1>1, <3>1, <4>1, EndedRow DEF Seen
      <3>4. QED
        BY <3>2, <3>3
    <2>3. QED
      BY <2>1, <2>2
  <1>4. \A r \in Used' :
          /\ r \in Used
          /\ prefs'[r].key = prefs[r].key /\ prefs'[r].source = prefs[r].source
    BY <1>3 DEF Used
  <1>5. u \in Captures => evidence'[u] = evidence[u]
    BY <1>1 DEF Commit, Fail, TypeOK
  <1>6. \A c \in Captures : exception[c].holder = u => exception'[c].holder = u
    <2>1. CASE Fail(t)
      BY <2>1 DEF Fail
    <2>2. CASE Commit(t)
      <3>1. CASE t \in Captures
        <4>1. \A c \in Captures : exception'[c].holder = exception[c].holder
          <5>1. req[t].of = t
            BY <3>1 DEF IInv, RequestOK
          <5>2. Written(t, exception[t]).holder = exception[t].holder
            BY ZenonT(60), <1>1, <3>1, ItemTypes, WrittenTypes
          <5>3. exception' = [exception EXCEPT ![t] = Written(t, exception[t])]
            BY <2>2, <5>1 DEF Commit
          <5>4. QED
            BY <1>1, <5>2, <5>3 DEF TypeOK
        <4>2. QED
          BY <4>1
      <3>2. CASE t \notin Captures
        <4>1. req[t].at \in {"persist", "commit"}
          BY <2>2 DEF Commit, ReadyToCommit
        <4>2. req[t].of \in Captures /\ exception[req[t].of].holder = t
          BY <3>2, <4>1 DEF IInv, RequestOK, Requests
        <4>3. \A c \in Captures \ {req[t].of} : exception'[c] = exception[c]
          BY <1>1, <2>2 DEF Commit, TypeOK
        <4>4. QED
          BY <4>2, <4>3
      <3>3. QED
        BY <3>1, <3>2
    <2>3. QED
      BY <2>1, <2>2
  <1>7. objects \subseteq objects'
    BY DEF Commit, Fail
  <1>8. QED
    BY <1>1, <1>2, <1>3, <1>4, <1>5, <1>6, <1>7, RequestKept

LEMMA EndOfRequest ==
  ASSUME IInv, NEW t \in Requests, Commit(t) \/ Fail(t)
  PROVE  RequestOK(t)'
  <1>1. RequestOK(t)
    BY DEF IInv
  <1>2. /\ req'[t].at = "done" /\ req'[t].of = req[t].of
    BY EndFacts
  <1>3. QED
    BY <1>1, <1>2 DEF RequestOK, Writing

LEMMA EndOfRows ==
  ASSUME IInv, NEW t \in Requests, Commit(t) \/ Fail(t), NEW r \in Rows
  PROVE  RowOK(r)'
  <1>1. TypeOK /\ RowOK(r) /\ prefs[r] \in Preference
        /\ prefs[r].holder \in Requests \cup {None}
    BY RowTypes DEF IInv
  <1>2. CASE prefs[r].holder # t
    <2>1. prefs'[r] = prefs[r]
      BY <1>2, EndFacts
    <2>2. prefs[r].holder # None => req'[prefs[r].holder] = req[prefs[r].holder]
      BY <1>1, <1>2, EndFacts
    <2>3. QED
      BY <1>1, <2>1, <2>2 DEF RowOK, Writing
  <1>3. CASE prefs[r].holder = t
    <2>1. prefs[r].state # "free" /\ prefs[r].key \in Keys
      BY <1>1, <1>3, EndFacts DEF RowOK
    <2>2. CASE Commit(t)
      <3>1. prefs'[r] = Kept(prefs[r])
        BY <1>3, <2>2 DEF Commit
      <3>2. QED
        BY <1>1, <2>1, <3>1, EndedRow DEF RowOK
    <2>3. CASE Fail(t)
      <3>1. prefs'[r] = Undone(prefs[r])
        BY <1>3, <2>3 DEF Fail
      <3>2. QED
        BY <1>1, <2>1, <3>1, EndedRow DEF RowOK
    <2>4. QED
      BY <2>2, <2>3
  <1>4. QED
    BY <1>2, <1>3

LEMMA FailKeeps ==
  ASSUME IInv, TypeOK', NEW t \in Requests, Fail(t)
  PROVE  IInv'
  <1>1. /\ TypeOK /\ \A r \in Rows : RowOK(r) /\ prefs[r] \in Preference
        /\ \A c \in Captures : ItemOK(c) /\ exception[c] \in Exception
    BY RowTypes, ItemTypes DEF IInv
  <1>2. \A r \in Rows :
          /\ prefs'[r].state = "active" <=> prefs[r].state = "active"
          /\ prefs'[r].state # "free" =>
               /\ prefs[r].state # "free"
               /\ prefs'[r].key = prefs[r].key /\ prefs'[r].source = prefs[r].source
    <2> SUFFICES ASSUME NEW r \in Rows, prefs[r].holder = t
                 PROVE  /\ prefs'[r].state = "active" <=> prefs[r].state = "active"
                        /\ prefs'[r].state # "free" =>
                             /\ prefs[r].state # "free"
                             /\ prefs'[r].key = prefs[r].key /\ prefs'[r].source = prefs[r].source
      BY EndFacts
    <2>1. prefs'[r] = Undone(prefs[r]) /\ prefs[r].state # "free"
      BY <1>1, EndFacts DEF Fail, RowOK
    <2>2. QED
      BY <1>1, <2>1, EndedRow
  <1>3. Active' = Active /\ Used' \subseteq Used
        /\ \A r \in Used' : prefs'[r].key = prefs[r].key /\ prefs'[r].source = prefs[r].source
    BY <1>2 DEF Active, Used
  <1>4. \A r \in Active : prefs'[r].key = prefs[r].key /\ prefs'[r].source = prefs[r].source
    BY <1>2 DEF Active
  <1>5. \A c \in Captures :
          /\ exception'[c].status = exception[c].status
          /\ exception'[c].confirmed = exception[c].confirmed
          /\ exception'[c].holder = IF exception[c].holder = t THEN None ELSE exception[c].holder
    BY <1>1 DEF Fail, Exception
  <1>6. UNCHANGED <<objects, evidence>>
    BY DEF Fail
  <1>7. \A c \in Captures : ItemOK(c)'
    <2> SUFFICES ASSUME NEW c \in Captures
                 PROVE  ItemOK(c)'
      OBVIOUS
    <2>1. ItemOK(c) /\ exception[c].holder \in Requests \cup {None} /\ c \in Requests
      BY <1>1, ItemTypes DEF Requests
    <2>2. req[c].at = "done" => req'[c].at = "done"
      BY <2>1, EndFacts
    <2>3. exception'[c].holder # None =>
            exception'[c].holder = exception[c].holder /\ exception[c].holder # t
      BY <1>5
    <2>4. exception'[c].holder # None => req'[exception[c].holder] = req[exception[c].holder]
      BY <2>1, <2>3, EndFacts
    <2>5. QED
      BY <1>5, <1>6, <2>1, <2>2, <2>3, <2>4 DEF ItemOK
  <1>8. OneRowPerEvidence'
    BY <1>3 DEF IInv, OneRowPerEvidence
  <1>9. UnsureCardsWait'
    <2> SUFFICES ASSUME NEW r \in Active, prefs[r].source # None,
                        evidence[prefs[r].source] # "processed"
                 PROVE  prefs[r].key \in exception'[prefs[r].source].confirmed
      BY <1>3, <1>4, <1>6 DEF UnsureCardsWait
    <2>1. prefs[r].source \in Captures
      BY <1>1, RowTypes DEF Active
    <2>2. QED
      BY <1>5, <2>1 DEF IInv, UnsureCardsWait
  <1>10. ConfirmedDataLands'
    <2>1. PICK S : S = {prefs[r].key : r \in Active} /\ S = {prefs'[r].key : r \in Active'}
      BY <1>3, <1>4
    <2>2. \A c \in Captures : exception'[c].confirmed \subseteq S
      BY <1>5, <2>1 DEF IInv, ConfirmedDataLands
    <2>3. \A c \in Captures :
            req[c].answer = "accepted" /\ req[c].guest => KeysOf(req[c].fields) \subseteq S
      BY <2>1 DEF IInv, ConfirmedDataLands
    <2>4. req'[t].answer = "failed"
      BY <1>1 DEF Fail, TypeOK, Ended, Request
    <2>5. \A c \in Captures :
            req'[c].answer = "accepted" /\ req'[c].guest => KeysOf(req'[c].fields) \subseteq S
      BY <2>3, <2>4, EndFacts DEF Requests
    <2>6. QED
      BY <2>1, <2>2, <2>5 DEF ConfirmedDataLands
  <1>11. EvidenceIsBacked'
    BY <1>5, <1>6 DEF IInv, EvidenceIsBacked
  <1>12. \A u \in Requests : RequestOK(u)'
    BY EndOfOthers, EndOfRequest
  <1>13. \A r \in Rows : RowOK(r)'
    BY EndOfRows
  <1>14. QED
    BY <1>7, <1>8, <1>9, <1>10, <1>11, <1>12, <1>13 DEF IInv

LEMMA CommitKeeps ==
  ASSUME IInv, TypeOK', NEW t \in Requests, Commit(t)
  PROVE  IInv'
  <1>1. /\ TypeOK /\ \A r \in Rows : RowOK(r) /\ prefs[r] \in Preference
        /\ \A c \in Captures : ItemOK(c) /\ exception[c] \in Exception
        /\ RequestOK(t) /\ req[t] \in Request /\ req[t].at \in {"persist", "commit"}
    BY RowTypes, ItemTypes, RequestTypes DEF IInv, Commit, ReadyToCommit
  <1> DEFINE of == req[t].of
             fields == req[t].fields
  <1>2. of \in Captures
    BY <1>1 DEF RequestOK, Requests
  <1>3. \A r \in Rows : prefs[r].holder = t =>
          /\ prefs[r].state # "free" /\ prefs'[r].state = "active"
          /\ prefs'[r].key = prefs[r].key /\ prefs'[r].source = prefs[r].source
    <2> SUFFICES ASSUME NEW r \in Rows, prefs[r].holder = t
                 PROVE  /\ prefs[r].state # "free" /\ prefs'[r].state = "active"
                        /\ prefs'[r].key = prefs[r].key /\ prefs'[r].source = prefs[r].source
      OBVIOUS
    <2>1. prefs'[r] = Kept(prefs[r]) /\ prefs[r].state # "free"
      BY <1>1, EndFacts DEF Commit, RowOK
    <2>2. QED
      BY <1>1, <2>1, EndedRow
  <1>4. \A r \in Rows :
          /\ prefs'[r].state = "active" <=> Seen(t, r)
          /\ prefs'[r].state # "free" <=> prefs[r].state # "free"
          /\ prefs'[r].key = prefs[r].key /\ prefs'[r].source = prefs[r].source
    <2> SUFFICES ASSUME NEW r \in Rows
                 PROVE  /\ prefs'[r].state = "active" <=> Seen(t, r)
                        /\ prefs'[r].state # "free" <=> prefs[r].state # "free"
                        /\ prefs'[r].key = prefs[r].key /\ prefs'[r].source = prefs[r].source
      OBVIOUS
    <2>1. CASE prefs[r].holder = t
      BY <1>1, <1>3, <2>1, RowTypes DEF Seen
    <2>2. CASE prefs[r].holder # t
      BY <2>2, EndFacts DEF Seen
    <2>3. QED
      BY <2>1, <2>2
  <1>5. PICK item \in Exception : item = Written(t, exception[of])
    BY <1>1, <1>2, WrittenTypes
  <1>6. /\ exception'[of] = item
        /\ \A c \in Captures \ {of} : exception'[c] = exception[c]
    BY <1>1, <1>2, <1>5 DEF Commit, TypeOK
  <1>7. /\ t \in Captures =>
             /\ item.holder = exception[of].holder /\ item.confirmed = exception[of].confirmed
             /\ item.status = IF Accepted(fields) THEN "none" ELSE "open"
        /\ t \notin Captures =>
             /\ item.holder = None
             /\ item.confirmed = IF Persists(t) THEN exception[of].confirmed \cup KeysOf(fields)
                                 ELSE exception[of].confirmed
             /\ item.status = IF req[t].status = None THEN exception[of].status ELSE req[t].status
    BY <1>1, <1>2, <1>5, WrittenTypes
  <1>8. /\ t \in Captures =>
             /\ of = t /\ evidence[t] = "none" /\ t \in objects
             /\ exception[of].status = "none" /\ exception[of].holder = None
             /\ evidence'[t] = IF Accepted(fields) THEN "processed" ELSE "pending"
             /\ \A c \in Captures \ {t} : evidence'[c] = evidence[c]
        /\ t \notin Captures =>
             /\ evidence' = evidence /\ of # t
             /\ exception[of].status # "none" /\ exception[of].holder = t
    <2>1. CASE t \in Captures
      <3>1. of = t /\ evidence[t] = "none" /\ t \in objects
        BY <1>1, <2>1 DEF RequestOK
      <3>2. exception[t].status = "none" /\ exception[t].holder = None
        BY <1>1, <2>1 DEF ItemOK
      <3>3. QED
        BY <1>1, <2>1, <3>1, <3>2 DEF Commit, TypeOK
    <2>2. CASE t \notin Captures
      <3>1. exception[of].holder = t /\ t # None
        BY <1>1, <2>2, EndFacts DEF RequestOK, Requests
      <3>2. QED
        BY <1>1, <1>2, <2>2, <3>1 DEF ItemOK, Commit
    <2>3. QED
      BY <2>1, <2>2
  <1> HIDE DEF of
  <1>9. \A c \in Captures : exception[c].confirmed \subseteq exception'[c].confirmed
    BY <1>6, <1>7
  <1>10. Persists(t) => KeysOf(fields) \subseteq {prefs'[r].key : r \in Active'}
    <2> SUFFICES ASSUME Persists(t), NEW i \in DOMAIN req[t].fields
                 PROVE  \E r \in Rows : prefs'[r].state = "active" /\ prefs'[r].key = req[t].fields[i].key
      BY DEF KeysOf, Active
    <2>1. req[t].at = "persist" /\ ProgressOK(t)
      BY <1>1 DEF RequestOK, Writing
    <2>2. i < req[t].next
      BY <1>1, <2>1, RequestTypes, FieldTypes DEF Commit, ReadyToCommit
    <2>3. PICK r \in Rows : Seen(t, r) /\ prefs[r].key = req[t].fields[i].key
      BY <2>1, <2>2 DEF ProgressOK
    <2>4. QED
      BY <1>4, <2>3
  <1>11. {prefs[r].key : r \in Active} \subseteq {prefs'[r].key : r \in Active'}
    BY <1>4 DEF Active, Seen
  <1>12. OneRowPerEvidence'
    <2>1. Used' = Used /\ \A r \in Used : prefs'[r].key = prefs[r].key
                                        /\ prefs'[r].source = prefs[r].source
      BY <1>4 DEF Used
    <2>2. QED
      BY <2>1 DEF IInv, OneRowPerEvidence
  <1>13. UnsureCardsWait'
    <2> SUFFICES ASSUME NEW r \in Rows, prefs'[r].state = "active", prefs[r].source # None
                 PROVE  \/ evidence'[prefs[r].source] = "processed"
                        \/ prefs[r].key \in exception'[prefs[r].source].confirmed
      BY <1>4 DEF UnsureCardsWait, Active
    <2>1. prefs[r].source \in Captures
      BY <1>1, RowTypes
    <2>2. CASE prefs[r].state = "active"
      <3>1. \/ evidence[prefs[r].source] = "processed"
            \/ prefs[r].key \in exception[prefs[r].source].confirmed
        BY <2>2 DEF IInv, UnsureCardsWait, Active
      <3>2. evidence[prefs[r].source] = "processed" => evidence'[prefs[r].source] = "processed"
        BY <1>8, <2>1
      <3>3. QED
        BY <1>9, <2>1, <3>1, <3>2
    <2>3. CASE prefs[r].state # "active"
      <3>1. prefs[r].state = "pending" /\ prefs[r].holder = t
        BY <1>4, <2>3 DEF Seen
      <3>2. prefs[r].source = of /\ prefs[r].key \in KeysOf(fields) /\ Writing(t)
        BY <1>1, <3>1, EndFacts DEF RowOK, of
      <3>3. Persists(t)
        BY <1>1, <3>2 DEF RequestOK
      <3>4. CASE t \in Captures
        BY <1>8, <3>2, <3>3, <3>4 DEF Persists
      <3>5. CASE t \notin Captures
        BY <1>6, <1>7, <3>2, <3>3, <3>5
      <3>6. QED
        BY <3>4, <3>5
    <2>4. QED
      BY <2>2, <2>3
  <1>14. ConfirmedDataLands'
    <2>1. PICK S : S = {prefs'[r].key : r \in Active'}
      OBVIOUS
    <2>2. /\ \A c \in Captures : exception[c].confirmed \subseteq S
          /\ \A c \in Captures :
               req[c].answer = "accepted" /\ req[c].guest => KeysOf(req[c].fields) \subseteq S
      BY <1>11, <2>1 DEF IInv, ConfirmedDataLands
    <2>3. \A c \in Captures : exception'[c].confirmed \subseteq S
      BY <1>6, <1>7, <1>10, <2>1, <2>2, <1>2
    <2>4. \A c \in Captures :
            req'[c].answer = "accepted" /\ req'[c].guest => KeysOf(req'[c].fields) \subseteq S
      <3> SUFFICES ASSUME NEW c \in Captures, req'[c].answer = "accepted", req'[c].guest
                   PROVE  KeysOf(req'[c].fields) \subseteq S
        OBVIOUS
      <3>1. CASE c # t
        BY <2>2, <3>1, EndFacts DEF Requests
      <3>2. CASE c = t
        <4>1. Persists(t) /\ req'[t].fields = fields
          BY <3>2, EndFacts DEF Persists
        <4>2. QED
          BY <1>10, <2>1, <3>2, <4>1
      <3>3. QED
        BY <3>1, <3>2
    <2>5. QED
      BY <2>1, <2>3, <2>4 DEF ConfirmedDataLands
  <1>15. EvidenceIsBacked'
    <2> SUFFICES ASSUME NEW c \in Captures
                 PROVE  /\ evidence'[c] # "none" => c \in objects
                        /\ evidence'[c] = "pending" <=> exception'[c].status # "none"
      BY DEF EvidenceIsBacked, Commit
    <2>1. /\ evidence[c] # "none" => c \in objects
          /\ evidence[c] = "pending" <=> exception[c].status # "none"
      BY DEF IInv, EvidenceIsBacked
    <2>2. CASE t \in Captures
      BY <1>6, <1>7, <1>8, <2>1, <2>2
    <2>3. CASE t \notin Captures
      <3>1. item.status # "none"
        BY <1>1, <1>7, <1>8, <2>3 DEF Request, ExceptionStatus
      <3>2. QED
        BY <1>6, <1>8, <2>1, <2>3, <3>1
    <2>4. QED
      BY <2>2, <2>3
  <1>16. \A c \in Captures : ItemOK(c)'
    <2> SUFFICES ASSUME NEW c \in Captures
                 PROVE  ItemOK(c)'
      OBVIOUS
    <2>1. ItemOK(c) /\ exception[c].holder \in Requests \cup {None} /\ c \in Requests
      BY <1>1, ItemTypes DEF Requests
    <2>2. CASE c # of
      <3>1. exception'[c] = exception[c] /\ evidence'[c] = evidence[c]
        BY <1>6, <1>8, <2>2
      <3>2. req[c].at = "done" => req'[c].at = "done"
        BY <2>1, EndFacts
      <3>3. exception[c].holder # t
        BY <2>1, <2>2, EndFacts DEF ItemOK, of
      <3>4. exception[c].holder # None => req'[exception[c].holder] = req[exception[c].holder]
        BY <2>1, <3>3, EndFacts
      <3>5. QED
        BY <2>1, <3>1, <3>2, <3>4 DEF ItemOK
    <2>3. CASE c = of
      <3>1. exception'[c].holder = None
        BY <1>6, <1>7, <1>8, <2>3
      <3>2. CASE t \in Captures
        BY <1>6, <1>7, <1>8, <2>3, <3>1, <3>2, EndFacts DEF ItemOK
      <3>3. CASE t \notin Captures
        <4>1. req[c].at = "done" /\ evidence[c] = "pending"
          BY <1>8, <2>1, <2>3, <3>3 DEF ItemOK
        <4>2. req'[c].at = "done" /\ evidence'[c] = "pending"
          BY <1>8, <2>1, <2>3, <3>3, <4>1, EndFacts
        <4>3. QED
          BY <3>1, <4>2 DEF ItemOK
      <3>4. QED
        BY <3>2, <3>3
    <2>4. QED
      BY <2>2, <2>3
  <1>17. \A u \in Requests : RequestOK(u)'
    BY EndOfOthers, EndOfRequest
  <1>18. \A r \in Rows : RowOK(r)'
    BY EndOfRows
  <1>19. QED
    BY <1>12, <1>13, <1>14, <1>15, <1>16, <1>17, <1>18 DEF IInv

-----------------------------------------------------------------------------
(* The theorems.                                                           *)

LEMMA StepKeeps ==
  ASSUME IInv, Next
  PROVE  IInv'
  <1>1. TypeOK /\ \A t \in Requests : RequestOK(t)
    BY DEF IInv
  <1>2. ASSUME NEW c \in Captures, PutPhoto(c)
        PROVE  IInv'
    BY <1>1, <1>2, TypeCapture, PutPhotoKeeps
  <1>3. ASSUME NEW c \in Captures, NEW fields \in Readings, Recognise(c, fields)
        PROVE  IInv'
    BY <1>1, <1>3, TypeCapture, RecogniseKeeps
  <1>4. ASSUME NEW q \in Patches, NEW c \in Captures,
               NEW status \in ExceptionStatus \cup {None}, NEW payload \in Readings \cup {None},
               Patch(q, c, status, payload)
        PROVE  IInv'
    BY <1>1, <1>4, TypePatch, PatchKeeps
  <1>5. ASSUME NEW t \in Requests, StartUpsert(t)
        PROVE  IInv'
    BY <1>1, <1>5, TypeUpsert, StartUpsertKeeps DEF StartUpsert
  <1>6. ASSUME NEW t \in Requests, req[t].at = "upsert"
        PROVE  req[t].next <= Len(req[t].fields) /\ req[t].next >= 1
    BY <1>1, <1>6 DEF RequestOK, UpsertOK, Writing
  <1>7. ASSUME NEW t \in Requests, Reinforced(t)
        PROVE  IInv'
    BY <1>1, <1>6, <1>7, TypeUpsert, ReinforcedKeeps
  <1>8. ASSUME NEW t \in Requests, NEW r \in Rows, Reinforce(t, r)
        PROVE  IInv'
    BY <1>1, <1>6, <1>8, TypeUpsert, ReinforceKeeps
  <1>9. ASSUME NEW t \in Requests, NEW r \in Rows, InsertPreference(t, r)
        PROVE  IInv'
    BY <1>1, <1>6, <1>9, TypeUpsert, InsertKeeps
  <1>10. ASSUME NEW t \in Requests, Commit(t)
         PROVE  IInv'
    <2>1. req[t].of \in Captures
      BY <1>1, <1>10 DEF RequestOK, Commit, ReadyToCommit, Requests
    <2>2. QED
      BY <1>1, <1>10, <2>1, TypeEnd, CommitKeeps
  <1>11. ASSUME NEW t \in Requests, Fail(t)
         PROVE  IInv'
    BY <1>1, <1>11, TypeEnd, FailKeeps
  <1>12. QED
    BY <1>2, <1>3, <1>4, <1>5, <1>7, <1>8, <1>9, <1>10, <1>11 DEF Next, Step

\* IInv' depends on nothing but the variables.
LEMMA StutterKeeps ==
  ASSUME IInv, UNCHANGED vars
  PROVE  IInv'
  <1>1. /\ objects' = objects /\ evidence' = evidence /\ exception' = exception
        /\ prefs' = prefs /\ req' = req /\ persisted' = persisted
    BY DEF vars
  <1>2. Active' = Active /\ Used' = Used
    BY <1>1 DEF Active, Used
  <1>3. TypeOK'
    BY <1>1 DEF IInv, TypeOK
  <1>4. \A r \in Rows : RowOK(r)'
    BY <1>1 DEF IInv, RowOK, Writing
  <1>5. \A c \in Captures : ItemOK(c)'
    BY <1>1 DEF IInv, ItemOK
  <1>6. \A u \in Requests, r \in Rows : Seen(u, r)' = Seen(u, r)
    BY <1>1 DEF Seen
  <1>7. \A u \in Requests : RequestOK(u)'
    <2> SUFFICES ASSUME NEW u \in Requests
                 PROVE  RequestOK(u)'
      OBVIOUS
    <2>1. req[u].todo \subseteq Rows
      BY RequestTypes DEF IInv
    <2>2. \A r \in Used' : r \in Used
      BY <1>2
    <2>3. QED
      BY <1>1, <1>6, <2>1, <2>2, RequestKept DEF IInv
  <1>8. OneRowPerEvidence' /\ UnsureCardsWait' /\ ConfirmedDataLands' /\ EvidenceIsBacked'
    BY <1>1, <1>2 DEF IInv, OneRowPerEvidence, UnsureCardsWait, ConfirmedDataLands, EvidenceIsBacked
  <1>9. QED
    BY <1>3, <1>4, <1>5, <1>7, <1>8 DEF IInv

\* The invariant of captures and reviews (pipeline.ts, exception server.ts):
\* who holds which row and item, and how far every request has come.
THEOREM StructureInvariant == Spec => []IInv
  <1>1. Init => IInv
    BY InitInvariant
  <1>2. IInv /\ [Next]_vars => IInv'
    BY StepKeeps, StutterKeeps
  <1>3. QED
    BY <1>1, <1>2, PTL DEF Spec

\* However often a card's item is resolved and by whom, concurrently or again,
\* the card gives its guest each preference once (exception server.ts:191).
THEOREM NoDuplicateFromOneCard == Spec => []OneRowPerEvidence
  <1>1. IInv => OneRowPerEvidence
    BY DEF IInv
  <1>2. QED
    BY <1>1, StructureInvariant, PTL

\* A card OCR was not sure of writes nothing into a guest's profile before a
\* resolution about that field has committed (exception server.ts:163).
THEOREM UnsureCardsWaitAlways == Spec => []UnsureCardsWait
  <1>1. IInv => UnsureCardsWait
    BY DEF IInv
  <1>2. QED
    BY <1>1, StructureInvariant, PTL

\* What was confirmed, or accepted on capture, is among the guest's preferences,
\* whoever rolls back at the same time (pipeline.ts:188-226).
THEOREM ConfirmedDataStays == Spec => []ConfirmedDataLands
  <1>1. IInv => ConfirmedDataLands
    BY DEF IInv
  <1>2. QED
    BY <1>1, StructureInvariant, PTL

\* No evidence row without its photo, none that waits without its queue item
\* (pipeline.ts:77-178).
THEOREM EvidenceAlwaysBacked == Spec => []EvidenceIsBacked
  <1>1. IInv => EvidenceIsBacked
    BY DEF IInv
  <1>2. QED
    BY <1>1, StructureInvariant, PTL

LEMMA RequestIsOne == \A t \in Requests : t # None
  OBVIOUS

-----------------------------------------------------------------------------
(* How often a card names a preference.                                    *)

LEMMA TimesBeforeType ==
  ASSUME NEW fields \in Seq(Field), NEW n \in Nat, NEW k
  PROVE  /\ IsFiniteSet({i \in DOMAIN fields : i < n /\ fields[i].key = k})
         /\ TimesBefore(n, k, fields) \in Nat
  <1> DEFINE S == {i \in DOMAIN fields : i < n /\ fields[i].key = k}
  <1>1. IsFiniteSet(1 .. Len(fields))
    BY FS_Interval
  <1>2. S \in SUBSET (1 .. Len(fields))
    OBVIOUS
  <1>3. IsFiniteSet(S)
    BY <1>1, <1>2, FS_Subset
  <1>4. QED
    BY <1>3, FS_CardinalityType DEF TimesBefore

LEMMA TimesBeforeNone ==
  ASSUME NEW fields, NEW n, NEW k,
         \A i \in DOMAIN fields : i < n => fields[i].key # k
  PROVE  TimesBefore(n, k, fields) = 0
  <1>1. {i \in DOMAIN fields : i < n /\ fields[i].key = k} = {}
    OBVIOUS
  <1>2. QED
    BY <1>1, FS_EmptySet DEF TimesBefore

LEMMA TimesBeforeNext ==
  ASSUME NEW fields \in Seq(Field), NEW n \in Nat, NEW k, n \in DOMAIN fields
  PROVE  TimesBefore(n + 1, k, fields)
           = TimesBefore(n, k, fields) + (IF fields[n].key = k THEN 1 ELSE 0)
  <1> DEFINE S == {i \in DOMAIN fields : i < n /\ fields[i].key = k}
             U == {i \in DOMAIN fields : i < n + 1 /\ fields[i].key = k}
  <1>1. DOMAIN fields \subseteq Nat
    BY FieldTypes
  <1>2. IsFiniteSet(S) /\ TimesBefore(n, k, fields) \in Nat
    BY TimesBeforeType
  <1>3. TimesBefore(n, k, fields) = Cardinality(S) /\ TimesBefore(n + 1, k, fields) = Cardinality(U)
    BY DEF TimesBefore
  <1>4. CASE fields[n].key = k
    <2>1. U = S \cup {n} /\ n \notin S
      BY <1>1, <1>4
    <2> HIDE DEF S, U
    <2>2. Cardinality(S \cup {n}) = Cardinality(S) + 1
      BY <1>2, <2>1, FS_AddElement
    <2>3. QED
      BY <1>3, <1>4, <2>1, <2>2
  <1>5. CASE fields[n].key # k
    <2>1. U = S
      BY <1>1, <1>5
    <2> HIDE DEF S, U
    <2>2. QED
      BY <1>2, <1>3, <1>5, <2>1
  <1>6. QED
    BY <1>4, <1>5

LEMMA TimesBeforeEnd ==
  ASSUME NEW fields \in Seq(Field), NEW n \in Nat, NEW k, n > Len(fields)
  PROVE  TimesBefore(n, k, fields) = Times(k, fields)
  <1>1. \A i \in DOMAIN fields : i < n
    BY FieldTypes
  <1>2. {i \in DOMAIN fields : i < n /\ fields[i].key = k} = {i \in DOMAIN fields : fields[i].key = k}
    BY <1>1
  <1>3. QED
    BY <1>2 DEF TimesBefore, Times

-----------------------------------------------------------------------------
(* Steps that move one request and no row.                                 *)

\* The rows stay: only what is asked of the request that moves is to be shown.
LEMMA CountQuiet ==
  ASSUME IInv, CountInv, NEW t \in Requests, \A u \in Requests \ {t} : req'[u] = req[u],
         prefs' = prefs, persisted' = persisted,
         FirstOfKey(t)', Writing(t)' => \A r \in Rows : CountsOf(t, r)'
  PROVE  CountInv'
  <1>1. Active' = Active /\ \A r \in Rows : Alone(r)' <=> Alone(r)
    BY DEF Active, Alone
  <1>2. ASSUME NEW u \in Requests \ {t}
        PROVE  FirstOfKey(u)' /\ (Writing(u)' => \A r \in Rows : CountsOf(u, r)')
    <2>1. req'[u] = req[u] /\ (Writing(u)' <=> Writing(u)) /\ CurrentKey(u)' = CurrentKey(u)
      BY DEF Writing, CurrentKey
    <2>2. FirstOfKey(u)'
      BY <2>1 DEF FirstOfKey, CountInv
    <2>3. ASSUME NEW r \in Rows, Writing(u) PROVE CountsOf(u, r)'
      <3>1. CountsOf(u, r)
        BY <2>3 DEF CountInv
      <3>2. (Locked(u, r)' <=> Locked(u, r)) /\ Put(u, r)' = Put(u, r)
        BY <2>1 DEF Locked, Put
      <3>3. Counted(u, r)' = Counted(u, r)
        BY <2>1, <3>2 DEF Counted
      <3>4. Inserts(u, prefs[r].key)' <=> Inserts(u, prefs[r].key)
        BY DEF Inserts
      <3>5. QED
        BY <1>1, <3>1, <3>2, <3>3, <3>4 DEF CountsOf
    <2>4. QED
      BY <2>1, <2>2, <2>3
  <1>3. \A r \in Rows : Alone(r)' => prefs'[r].count = persisted'[prefs'[r].key]
    BY <1>1 DEF CountInv
  <1>4. QED
    BY <1>1, <1>2, <1>3 DEF CountInv

\* A request that begins to write, or does not.
LEMMA CountBegins ==
  ASSUME IInv, CountInv, NEW t \in Requests, \A u \in Requests \ {t} : req'[u] = req[u],
         prefs' = prefs, persisted' = persisted, ~Writing(t),
         req'[t].at # "upsert", req'[t].at = "persist" => req'[t].next = 1,
         req'[t].fields \in Seq(Field)
  PROVE  CountInv'
  <1>1. \A r \in Rows : prefs[r].holder # t
    <2>1. t # None
      BY RequestIsOne
    <2>2. \A r \in Rows : RowOK(r)
      BY DEF IInv
    <2>3. QED
      BY <2>1, <2>2 DEF RowOK
  <1>2. ASSUME NEW r \in Rows, Writing(t)' PROVE CountsOf(t, r)'
    <2>1. req'[t].at = "persist" /\ req'[t].next = 1
      BY <1>2 DEF Writing
    <2>2. \A i \in DOMAIN req'[t].fields : ~(i < 1)
      BY FieldTypes
    <2>3. TimesBefore(1, prefs[r].key, req'[t].fields) = 0
      BY <2>2, TimesBeforeNone
    <2>4. ~Locked(t, r)'
      BY <2>1 DEF Locked
    <2>5. Counted(t, r)' = 0
      BY <2>1, <2>3, <2>4 DEF Counted
    <2>6. Put(t, r)' = 0
      BY <1>1 DEF Put
    <2>7. QED
      BY <1>1, <2>5, <2>6 DEF CountsOf
  <1>3. FirstOfKey(t)'
    BY DEF FirstOfKey
  <1>4. QED
    BY <1>2, <1>3, CountQuiet

LEMMA CaptureCounts ==
  ASSUME IInv, IInv', CountInv, NEW c \in Captures,
         PutPhoto(c) \/ \E fields \in Readings : Recognise(c, fields)
  PROVE  CountInv'
  <1>1. TypeOK /\ c \in Requests /\ req[c] \in Request /\ RequestOK(c) /\ RequestOK(c)' /\ TypeOK'
    BY RequestTypes DEF IInv, Requests
  <1>2. prefs' = prefs /\ persisted' = persisted /\ \A u \in Requests \ {c} : req'[u] = req[u]
    BY <1>1 DEF PutPhoto, Recognise, TypeOK
  <1>3. ~Writing(c)
    BY DEF PutPhoto, Recognise, Writing
  <1>4. req'[c].fields \in Seq(Field)
    BY <1>1 DEF TypeOK, Request
  <1>5. CASE PutPhoto(c)
    <2>1. req'[c].at = "ocr"
      BY <1>1, <1>5 DEF PutPhoto, TypeOK, Request
    <2>2. QED
      BY <1>1, <1>2, <1>3, <1>4, <2>1, CountBegins
  <1>6. ASSUME NEW fields \in Readings, Recognise(c, fields)
        PROVE  CountInv'
    <2>1. req[c].next = 1
      BY <1>1, <1>6 DEF Recognise, RequestOK
    <2>2. req'[c].at \in {"persist", "commit"} /\ req'[c].next = 1
      <3>1. PICK at \in {"persist", "commit"} :
              req' = [req EXCEPT ![c].fields = fields, ![c].at = at]
        BY <1>6 DEF Recognise
      <3>2. QED
        BY <1>1, <2>1, <3>1 DEF TypeOK, Request
    <2>3. QED
      BY <1>1, <1>2, <1>3, <1>4, <2>2, CountBegins
  <1>7. QED
    BY <1>5, <1>6

LEMMA PatchCounts ==
  ASSUME IInv, IInv', CountInv, NEW q \in Patches, NEW c \in Captures,
         NEW status \in ExceptionStatus \cup {None}, NEW payload \in Readings \cup {None},
         Patch(q, c, status, payload)
  PROVE  CountInv'
  <1>1. TypeOK /\ q \in Requests /\ req[q] \in Request /\ RequestOK(q) /\ TypeOK'
    BY RequestTypes DEF IInv, Requests
  <1>2. prefs' = prefs /\ persisted' = persisted /\ \A u \in Requests \ {q} : req'[u] = req[u]
    BY <1>1 DEF Patch, TypeOK
  <1>3. ~Writing(q) /\ req[q].next = 1
    BY <1>1 DEF Patch, Writing, RequestOK
  <1>4. req'[q].fields \in Seq(Field)
    BY <1>1 DEF TypeOK, Request
  <1>5. req'[q].at \in {"persist", "commit"} /\ req'[q].next = 1
    <2>1. PICK guest, fields, at :
            /\ at \in {"persist", "commit"}
            /\ req' = [req EXCEPT ![q].of = c, ![q].guest = guest, ![q].status = status,
                                  ![q].fields = fields, ![q].at = at]
      <3> DEFINE at == IF req[c].guest /\ Confirms(status) THEN "persist" ELSE "commit"
                 fields == IF payload = None THEN exception[c].fields ELSE payload
      <3>1. req' = [req EXCEPT ![q].of = c, ![q].guest = req[c].guest, ![q].status = status,
                               ![q].fields = fields, ![q].at = at]
        BY DEF Patch
      <3>2. at \in {"persist", "commit"}
        OBVIOUS
      <3> HIDE DEF at, fields
      <3>3. QED
        BY <3>1, <3>2
    <2>2. req'[q] = [req[q] EXCEPT !.of = c, !.guest = guest, !.status = status,
                                   !.fields = fields, !.at = at]
      BY <1>1, <2>1 DEF TypeOK
    <2>3. PICK half : half = [req[q] EXCEPT !.of = c, !.guest = guest, !.status = status]
      OBVIOUS
    <2>4. half.next = 1 /\ DOMAIN half = DOMAIN req[q]
      BY <1>1, <1>3, <2>3 DEF Request
    <2>5. req'[q] = [half EXCEPT !.fields = fields, !.at = at]
      BY <2>2, <2>3
    <2>6. {"at", "fields", "next"} \subseteq DOMAIN half
      BY <1>1, <2>4 DEF Request
    <2>7. QED
      BY <2>1, <2>4, <2>5, <2>6
  <1>6. QED
    BY <1>1, <1>2, <1>3, <1>4, <1>5, CountBegins

LEMMA StartCounts ==
  ASSUME IInv, IInv', CountInv, NEW t \in Requests, StartUpsert(t)
  PROVE  CountInv'
  <1>1. TypeOK /\ req[t] \in Request /\ RequestOK(t) /\ \A r \in Rows : RowOK(r)
    BY RequestTypes DEF IInv
  <1>2. prefs' = prefs /\ persisted' = persisted /\ \A u \in Requests \ {t} : req'[u] = req[u]
    BY <1>1 DEF StartUpsert, TypeOK
  <1>3. Writing(t) /\ req[t].at = "persist"
    BY DEF StartUpsert, Writing
  <1>4. /\ req'[t].at = "upsert" /\ req'[t].fields = req[t].fields /\ req'[t].next = req[t].next
        /\ req'[t].todo = Matching(t, CurrentKey(t)) /\ ~req'[t].hit
    BY <1>1 DEF StartUpsert, TypeOK, Request
  <1>5. CurrentKey(t)' = CurrentKey(t)
    BY <1>4 DEF CurrentKey
  <1>6. FirstOfKey(t)'
    <2> SUFFICES ASSUME Matching(t, CurrentKey(t)) = {}, NEW i \in DOMAIN req[t].fields,
                        i < req[t].next
                 PROVE  req[t].fields[i].key # CurrentKey(t)
      BY <1>4, <1>5 DEF FirstOfKey
    <2>1. PICK r \in Rows : Seen(t, r) /\ prefs[r].key = req[t].fields[i].key
      BY <1>1, <1>3 DEF RequestOK, ProgressOK
    <2>2. QED
      BY <2>1 DEF Seen, Matching
  <1>7. ASSUME NEW r \in Rows PROVE CountsOf(t, r)'
    <2>1. CountsOf(t, r)
      BY <1>3 DEF CountInv
    <2>2. ~Locked(t, r) /\ ~Locked(t, r)'
      BY <1>3, <1>4 DEF Locked
    <2>3. Counted(t, r)' = Counted(t, r)
      BY <1>2, <1>4, <2>2 DEF Counted
    <2>4. /\ Put(t, r)' = Put(t, r) /\ (Alone(r)' <=> Alone(r))
          /\ Inserts(t, prefs[r].key)' <=> Inserts(t, prefs[r].key)
      BY <1>2 DEF Put, Alone, Active, Inserts
    <2>5. QED
      BY <1>2, <2>1, <2>3, <2>4 DEF CountsOf
  <1>8. QED
    BY <1>2, <1>6, <1>7, CountQuiet

\* The field has been counted on every row its statement found.
LEMMA ReinforcedCounts ==
  ASSUME IInv, IInv', CountInv, NEW t \in Requests, Reinforced(t)
  PROVE  CountInv'
  <1>1. TypeOK /\ req[t] \in Request /\ RequestOK(t) /\ TypeOK'
    BY RequestTypes DEF IInv
  <1>2. prefs' = prefs /\ persisted' = persisted /\ \A u \in Requests \ {t} : req'[u] = req[u]
    BY <1>1 DEF Reinforced, TypeOK
  <1>3. Writing(t) /\ req[t].at = "upsert" /\ req[t].todo = {} /\ req[t].hit /\ UpsertOK(t)
    BY <1>1 DEF Reinforced, Writing, RequestOK
  <1>4. PICK n \in Nat : n = req[t].next
    BY <1>1, RequestTypes
  <1>5. req'[t].at = "persist" /\ req'[t].fields = req[t].fields /\ req'[t].next = n + 1
    BY <1>1, <1>4 DEF Reinforced, NextField, TypeOK, Request
  <1>6. PICK fields \in Seq(Field) : fields = req[t].fields
    BY <1>1, RequestTypes
  <1>7. n \in DOMAIN fields /\ CurrentKey(t) = fields[n].key
    <2>1. n >= 1 /\ n <= Len(fields)
      BY <1>1, <1>3, <1>4, <1>6 DEF RequestOK, UpsertOK
    <2>2. QED
      BY <1>4, <1>6, <2>1, FieldTypes DEF CurrentKey
  <1>8. FirstOfKey(t)'
    BY <1>5 DEF FirstOfKey
  <1>9. ASSUME NEW r \in Rows PROVE CountsOf(t, r)'
    <2>1. CountsOf(t, r)
      BY <1>3 DEF CountInv
    <2>2. Locked(t, r) <=> prefs[r].key = fields[n].key
      BY <1>3, <1>7 DEF Locked
    <2>3. ~Locked(t, r)'
      BY <1>5 DEF Locked
    <2>4. TimesBefore(n, prefs[r].key, fields) \in Nat
      BY TimesBeforeType
    <2>5. Counted(t, r) = TimesBefore(n, prefs[r].key, fields)
                           + (IF fields[n].key = prefs[r].key THEN 1 ELSE 0)
      BY <1>4, <1>6, <2>2 DEF Counted
    <2>6. Counted(t, r)' = TimesBefore(n + 1, prefs[r].key, fields) + 0
      BY <1>2, <1>5, <1>6, <2>3 DEF Counted
    <2>7. Counted(t, r)' = Counted(t, r)
      BY <1>7, <2>4, <2>5, <2>6, TimesBeforeNext
    <2>8. /\ Put(t, r)' = Put(t, r) /\ (Alone(r)' <=> Alone(r))
          /\ Inserts(t, prefs[r].key)' <=> Inserts(t, prefs[r].key)
      BY <1>2 DEF Put, Alone, Active, Inserts
    <2>9. QED
      BY <1>2, <2>1, <2>7, <2>8 DEF CountsOf
  <1>10. QED
    BY <1>2, <1>8, <1>9, CountQuiet

-----------------------------------------------------------------------------
(* Steps that write a row.                                                 *)

\* One request moves and one row, from an uncommitted state or to one: what the
\* others are owed stays.
LEMMA CountRow ==
  ASSUME IInv, CountInv, NEW t \in Requests, NEW r \in Rows,
         \A u \in Requests \ {t} : req'[u] = req[u],
         \A s \in Rows \ {r} : prefs'[s] = prefs[s], persisted' = persisted,
         prefs[r].holder \in {None, t}, prefs'[r].holder = t,
         prefs'[r].state = "active" <=> prefs[r].state = "active",
         prefs[r].state = "active" =>
           prefs'[r].key = prefs[r].key /\ prefs'[r].count = prefs[r].count,
         FirstOfKey(t)', Writing(t)' => \A s \in Rows : CountsOf(t, s)'
  PROVE  CountInv'
  <1>1. Active' = Active /\ \A s \in Active : /\ prefs'[s].key = prefs[s].key
                                              /\ prefs'[s].count = prefs[s].count
    BY DEF Active
  <1>2. \A s \in Rows : Alone(s)' <=> Alone(s)
    BY <1>1 DEF Alone
  <1>3. ASSUME NEW u \in Requests \ {t}
        PROVE  FirstOfKey(u)' /\ (Writing(u)' => \A s \in Rows : CountsOf(u, s)')
    <2>1. req'[u] = req[u] /\ (Writing(u)' <=> Writing(u)) /\ CurrentKey(u)' = CurrentKey(u)
      BY DEF Writing, CurrentKey
    <2>2. FirstOfKey(u)'
      BY <2>1 DEF FirstOfKey, CountInv
    <2>3. \A k \in Keys : Inserts(u, k)' <=> Inserts(u, k)
      <3>1. u # None /\ u # t
        BY RequestIsOne
      <3>2. \A s \in Rows : prefs[s].holder = u \/ prefs'[s].holder = u => prefs'[s] = prefs[s]
        BY <3>1
      <3>3. QED
        BY <3>2 DEF Inserts
    <2>4. ASSUME NEW s \in Rows, Writing(u) PROVE CountsOf(u, s)'
      <3>1. CountsOf(u, s)
        BY <2>4 DEF CountInv
      <3>2. CASE s # r
        <4>1. /\ (Locked(u, s)' <=> Locked(u, s)) /\ Put(u, s)' = Put(u, s)
              /\ prefs'[s] = prefs[s]
          BY <2>1, <3>2 DEF Locked, Put
        <4>2. Counted(u, s)' = Counted(u, s)
          BY <2>1, <4>1 DEF Counted
        <4>3. prefs[s].state # "free" => (Inserts(u, prefs[s].key)' <=> Inserts(u, prefs[s].key))
          BY <2>3, <4>1 DEF IInv, RowOK
        <4>4. Alone(s) => prefs[s].state # "free"
          BY DEF Alone, Active
        <4>5. QED
          BY <1>2, <3>1, <4>1, <4>2, <4>3, <4>4 DEF CountsOf
      <3>3. CASE s = r
        <4>1. u # None /\ u # t
          BY RequestIsOne
        <4>2. Put(u, r) = 0 /\ Put(u, r)' = 0 /\ prefs'[r].holder # u
          BY <4>1 DEF Put
        <4>3. ASSUME Alone(r)' PROVE CountsOf(u, r)'
          <5>1. Alone(r) /\ prefs'[r].key = prefs[r].key /\ prefs[r].state = "active"
            BY <1>1, <1>2, <4>3 DEF Alone, Active
          <5>2. prefs[r].key \in Keys
            BY <5>1 DEF IInv, RowOK
          <5>3. Locked(u, r)' <=> Locked(u, r)
            BY <2>1, <5>1 DEF Locked
          <5>4. Counted(u, r)' = Counted(u, r)
            BY <2>1, <5>1, <5>3 DEF Counted
          <5>5. QED
            BY <2>3, <3>1, <3>3, <4>2, <5>1, <5>2, <5>4 DEF CountsOf
        <4>4. ASSUME ~Alone(r)' PROVE CountsOf(u, r)'
          BY <4>2, <4>4 DEF CountsOf
        <4>5. QED
          BY <3>3, <4>3, <4>4
      <3>4. QED
        BY <3>2, <3>3
    <2>5. QED
      BY <2>1, <2>2, <2>4
  <1>4. \A s \in Rows : Alone(s)' => prefs'[s].count = persisted'[prefs'[s].key]
    <2>1. \A s \in Rows : Alone(s) => s \in Active
      BY DEF Alone
    <2>2. QED
      BY <1>1, <1>2, <2>1 DEF CountInv
  <1>5. \A s \in Rows : prefs'[s].holder = None => prefs'[s].added = 0
    BY RequestIsOne DEF CountInv
  <1>6. \A k \in Keys : (\A s \in Active' : prefs'[s].key # k) => persisted'[k] = 0
    BY <1>1 DEF CountInv
  <1>7. QED
    BY <1>3, <1>4, <1>5, <1>6 DEF CountInv

LEMMA ReinforceCounts ==
  ASSUME IInv, IInv', CountInv, NEW t \in Requests, NEW r \in Rows, Reinforce(t, r)
  PROVE  CountInv'
  <1>1. /\ TypeOK /\ req[t] \in Request /\ RequestOK(t) /\ prefs[r] \in Preference
        /\ \A s \in Rows : RowOK(s)
    BY RequestTypes, RowTypes DEF IInv
  <1>2. /\ Writing(t) /\ UpsertOK(t) /\ req[t].at = "upsert" /\ r \in req[t].todo
        /\ prefs[r].holder \in {None, t} /\ persisted' = persisted
    BY <1>1 DEF Reinforce, MayLock, Writing, RequestOK
  <1>3. /\ \A u \in Requests \ {t} : req'[u] = req[u]
        /\ \A s \in Rows \ {r} : prefs'[s] = prefs[s]
    BY <1>1 DEF Reinforce, TypeOK
  <1>4. /\ req'[t].at = "upsert" /\ req'[t].fields = req[t].fields /\ req'[t].next = req[t].next
        /\ req'[t].todo = req[t].todo \ {r} /\ req'[t].hit
    BY <1>1 DEF Reinforce, TypeOK, Request
  <1>5. PICK added \in Nat : added = prefs[r].added
    BY <1>1, RowTypes
  <1>6. /\ prefs'[r].holder = t /\ prefs'[r].added = added + 1 /\ prefs'[r].count = prefs[r].count
        /\ prefs'[r].state = prefs[r].state /\ prefs'[r].key = prefs[r].key
        /\ prefs[r].count \in Nat
    <2>1. prefs'[r] = [prefs[r] EXCEPT !.holder = t, !.added = added + 1]
      BY <1>1, <1>5 DEF Reinforce, TypeOK
    <2>2. QED
      BY <1>1, <2>1 DEF Preference
  <1>7. CurrentKey(t)' = CurrentKey(t)
    BY <1>4 DEF CurrentKey
  <1>8. Seen(t, r) /\ prefs[r].key = CurrentKey(t)
    BY <1>2 DEF UpsertOK
  <1>9. FirstOfKey(t)'
    BY <1>4 DEF FirstOfKey
  <1>10. t # None /\ prefs[r].holder = None => added = 0
    BY <1>5, RequestIsOne DEF CountInv
  <1>11. /\ Active' = Active /\ \A s \in Active : prefs'[s].key = prefs[s].key
         /\ \A s \in Rows : prefs'[s].key = prefs[s].key /\ prefs'[s].state = prefs[s].state
    BY <1>3, <1>6 DEF Active
  <1>12. \A s \in Rows : Alone(s)' <=> Alone(s)
    BY <1>11 DEF Alone
  <1>13. \A s \in Rows : Inserts(t, prefs[s].key) => Inserts(t, prefs[s].key)'
    BY <1>3, <1>6, <1>11 DEF Inserts
  <1>14. ASSUME NEW s \in Rows PROVE CountsOf(t, s)'
    <2>1. CountsOf(t, s)
      BY <1>2 DEF CountInv
    <2>2. PICK before : before = TimesBefore(req[t].next, prefs[s].key, req[t].fields)
      OBVIOUS
    <2>3. before \in Nat
      BY <2>2, <1>1, TimesBeforeType, RequestTypes
    <2>4. /\ Counted(t, s) = before + (IF Locked(t, s) THEN 1 ELSE 0)
          /\ Counted(t, s)' = before + (IF Locked(t, s)' THEN 1 ELSE 0)
      BY <1>4, <1>11, <2>2 DEF Counted
    <2>5. CASE s = r
      <3>1. ~Locked(t, r) /\ Locked(t, r)'
        BY <1>2, <1>4, <1>6, <1>7, <1>8 DEF Locked
      <3>2. Counted(t, r)' = Counted(t, r) + 1 /\ Counted(t, r) \in Nat
        BY <2>3, <2>4, <2>5, <3>1
      <3>3. CASE prefs[r].state = "pending"
        <4>1. prefs[r].holder = t
          BY <1>8, <3>3 DEF Seen
        <4>2. prefs[r].count + added = Counted(t, r)
          BY <1>5, <2>1, <2>5, <3>3, <4>1 DEF CountsOf
        <4>3. prefs'[r].count + prefs'[r].added = Counted(t, r)'
          BY <1>6, <3>2, <4>2
        <4>4. ~Alone(r)'
          BY <1>6, <3>3 DEF Alone, Active
        <4>5. QED
          BY <2>5, <4>3, <4>4 DEF CountsOf
      <3>4. CASE prefs[r].state # "pending"
        <4>1. ASSUME Alone(r)', ~Inserts(t, prefs[r].key)' PROVE Put(t, r)' = Counted(t, r)'
          <5>1. Put(t, r) = Counted(t, r)
            BY <1>12, <1>13, <2>1, <2>5, <4>1 DEF CountsOf
          <5>2. Put(t, r) = added
            BY <1>2, <1>5, <1>10, RequestIsOne DEF Put
          <5>3. Put(t, r)' = added + 1
            BY <1>6 DEF Put
          <5>4. QED
            BY <3>2, <5>1, <5>2, <5>3
        <4>2. QED
          BY <1>6, <2>5, <3>4, <4>1 DEF CountsOf
      <3>5. QED
        BY <3>3, <3>4
    <2>6. CASE s # r
      <3>1. prefs'[s] = prefs[s] /\ Put(t, s)' = Put(t, s)
        BY <1>3, <2>6 DEF Put
      <3>2. CASE Locked(t, s)' <=> Locked(t, s)
        <4>1. Counted(t, s)' = Counted(t, s)
          BY <2>4, <3>2
        <4>2. QED
          BY <1>12, <1>13, <2>1, <3>1, <4>1 DEF CountsOf
      <3>3. CASE ~(Locked(t, s)' <=> Locked(t, s))
        <4>1. CurrentKey(t) = prefs[s].key /\ s \notin req[t].todo /\ ~req[t].hit
          BY <1>2, <1>4, <1>7, <2>6, <3>1, <3>3 DEF Locked
        <4>2. ~(prefs[s].state = "pending" /\ prefs[s].holder = t)
          BY <1>1, <1>2, <4>1 DEF UpsertOK, Used, RowOK
        <4>3. ASSUME Alone(s), ~Inserts(t, prefs[s].key) PROVE FALSE
          <5>1. CASE prefs[r].state = "active"
            BY <1>8, <2>6, <4>1, <4>3, <5>1 DEF Alone, Active
          <5>2. CASE prefs[r].state = "pending" /\ prefs[r].holder = t
            BY <1>8, <4>1, <4>3, <5>2 DEF Inserts
          <5>3. QED
            BY <1>8, <5>1, <5>2 DEF Seen
        <4>4. QED
          BY <1>12, <1>13, <3>1, <4>2, <4>3 DEF CountsOf
      <3>4. QED
        BY <3>2, <3>3
    <2>7. QED
      BY <2>5, <2>6
  <1>15. QED
    BY <1>2, <1>3, <1>6, <1>9, <1>14, CountRow

\* A row is inserted for the first field that names its preference.
LEMMA InsertCounts ==
  ASSUME IInv, IInv', CountInv, NEW t \in Requests, NEW r \in Rows, InsertPreference(t, r)
  PROVE  CountInv'
  <1>1. /\ TypeOK /\ req[t] \in Request /\ RequestOK(t) /\ \A s \in Rows : RowOK(s)
    BY RequestTypes DEF IInv
  <1>2. /\ Writing(t) /\ UpsertOK(t) /\ req[t].at = "upsert" /\ req[t].todo = {} /\ ~req[t].hit
        /\ prefs[r].state = "free" /\ prefs[r].holder = None /\ persisted' = persisted
    BY <1>1 DEF InsertPreference, Writing, RequestOK, RowOK
  <1>3. /\ \A u \in Requests \ {t} : req'[u] = req[u]
        /\ \A s \in Rows \ {r} : prefs'[s] = prefs[s]
    BY <1>1 DEF InsertPreference, TypeOK
  <1>4. PICK n \in Nat : n = req[t].next
    BY <1>1, RequestTypes
  <1>5. PICK fields \in Seq(Field) : fields = req[t].fields
    BY <1>1, RequestTypes
  <1>6. req'[t].at = "persist" /\ req'[t].fields = fields /\ req'[t].next = n + 1
    BY <1>1, <1>4, <1>5 DEF InsertPreference, NextField, TypeOK, Request
  <1>7. n \in DOMAIN fields /\ CurrentKey(t) = fields[n].key
    <2>1. n >= 1 /\ n <= Len(fields)
      BY <1>1, <1>2, <1>4, <1>5 DEF RequestOK, UpsertOK
    <2>2. QED
      BY <1>4, <1>5, <2>1, FieldTypes DEF CurrentKey
  <1>8. /\ prefs'[r].state = "pending" /\ prefs'[r].holder = t /\ prefs'[r].key = CurrentKey(t)
        /\ prefs'[r].count = 1 /\ prefs'[r].added = 0
    BY <1>1 DEF InsertPreference, TypeOK
  <1>9. TimesBefore(n, CurrentKey(t), fields) = 0
    <2>1. \A i \in DOMAIN fields : i < n => fields[i].key # CurrentKey(t)
      BY <1>2, <1>4, <1>5 DEF CountInv, FirstOfKey
    <2>2. QED
      BY <2>1, TimesBeforeNone
  <1>10. FirstOfKey(t)' /\ Writing(t)'
    BY <1>6 DEF FirstOfKey, Writing
  <1>11. \A s \in Rows : ~Locked(t, s) /\ ~Locked(t, s)'
    BY <1>2, <1>6 DEF Locked
  <1>12. \A s \in Rows : Alone(s)' => Alone(s) /\ s # r
    BY <1>2, <1>3, <1>8 DEF Alone, Active
  <1>13. ASSUME NEW s \in Rows PROVE CountsOf(t, s)'
    <2>1. CASE s = r
      <3>1. Counted(t, r)' = TimesBefore(n + 1, CurrentKey(t), fields) + 0
        BY <1>6, <1>8, <1>11 DEF Counted
      <3>2. TimesBefore(n + 1, CurrentKey(t), fields) = 0 + 1
        BY <1>7, <1>9, TimesBeforeNext
      <3>3. QED
        BY <1>8, <1>12, <2>1, <3>1, <3>2 DEF CountsOf
    <2>2. CASE s # r
      <3>1. prefs'[s] = prefs[s] /\ Put(t, s)' = Put(t, s) /\ CountsOf(t, s)
        BY <1>2, <1>3, <2>2 DEF Put, CountInv
      <3>2. CASE prefs[s].key = CurrentKey(t)
        <4>1. ~(prefs[s].state = "pending" /\ prefs[s].holder = t)
          BY <1>1, <1>2, <3>2 DEF UpsertOK, Used, RowOK
        <4>2. Inserts(t, prefs[s].key)'
          BY <1>8, <3>1, <3>2 DEF Inserts
        <4>3. QED
          BY <3>1, <4>1, <4>2 DEF CountsOf
      <3>3. CASE prefs[s].key # CurrentKey(t)
        <4>1. Counted(t, s) = TimesBefore(n, prefs[s].key, fields) + 0
          BY <1>4, <1>5, <1>11 DEF Counted
        <4>2. Counted(t, s)' = TimesBefore(n + 1, prefs[s].key, fields) + 0
          BY <1>6, <1>11, <3>1 DEF Counted
        <4>3. Counted(t, s)' = Counted(t, s)
          <5>1. PICK k : k = prefs[s].key
            OBVIOUS
          <5>2. TimesBefore(n + 1, k, fields) = TimesBefore(n, k, fields) + 0
            BY <1>7, <3>3, <5>1, TimesBeforeNext
          <5>3. PICK x \in Nat : x = TimesBefore(n, k, fields)
            BY TimesBeforeType
          <5>4. Counted(t, s) = x /\ Counted(t, s)' = x
            BY <4>1, <4>2, <5>1, <5>2, <5>3
          <5>5. QED
            BY <5>4
        <4>4. Inserts(t, prefs[s].key) => Inserts(t, prefs[s].key)'
          BY <1>2, <1>3, <3>1 DEF Inserts
        <4>5. QED
          BY <1>12, <3>1, <4>3, <4>4 DEF CountsOf
      <3>4. QED
        BY <3>2, <3>3
    <2>3. QED
      BY <2>1, <2>2
  <1>14. QED
    BY <1>2, <1>3, <1>8, <1>10, <1>13, CountRow

-----------------------------------------------------------------------------
(* A transaction's end.                                                    *)

\* What an end leaves of the rows: no count is in between, and a key that gets its
\* first committed row was named by nobody else who writes.
LEMMA EndCounts ==
  ASSUME IInv, IInv', CountInv, NEW t \in Requests, Commit(t) \/ Fail(t),
         \A r \in Rows : prefs[r].holder = t => prefs'[r].added = 0,
         Active \subseteq Active', \A r \in Active' : prefs'[r].key = prefs[r].key,
         \A r \in Active' : r \in Active \/ (prefs[r].state = "pending" /\ prefs[r].holder = t),
         \A r \in Rows : Alone(r)' => prefs'[r].count = persisted'[prefs'[r].key],
         \A k \in Keys : (\A r \in Active' : prefs'[r].key # k) => persisted'[k] = 0
  PROVE  CountInv'
  <1>1. /\ \A r \in Rows : prefs[r].holder # t => prefs'[r] = prefs[r]
        /\ \A r \in Rows : prefs[r].holder = t => prefs'[r].holder = None
        /\ \A r \in Rows : prefs'[r].holder # t
        /\ \A u \in Requests \ {t} : req'[u] = req[u]
        /\ req'[t].at = "done" /\ t # None
    BY EndFacts
  <1>2. \A r \in Rows : prefs'[r].holder = None => prefs'[r].added = 0
    BY <1>1 DEF CountInv
  <1>3. FirstOfKey(t)' /\ ~Writing(t)'
    BY <1>1 DEF FirstOfKey, Writing
  <1>4. \A r \in Rows : Alone(r)' =>
          \/ Alone(r)
          \/ /\ prefs[r].state = "pending" /\ prefs[r].holder = t
             /\ \A s \in Active : prefs[s].key # prefs[r].key
    BY DEF Alone, Active
  <1>5. ASSUME NEW u \in Requests \ {t}
        PROVE  FirstOfKey(u)' /\ (Writing(u)' => \A r \in Rows : CountsOf(u, r)')
    <2>1. /\ req'[u] = req[u] /\ (Writing(u)' <=> Writing(u)) /\ CurrentKey(u)' = CurrentKey(u)
          /\ u # None /\ u # t
      BY <1>1, RequestIsOne DEF Writing, CurrentKey
    <2>2. FirstOfKey(u)'
      BY <2>1 DEF FirstOfKey, CountInv
    <2>3. \A r \in Rows : prefs[r].holder = u \/ prefs'[r].holder = u => prefs'[r] = prefs[r]
      BY <1>1, <2>1
    <2>4. ASSUME NEW r \in Rows, Writing(u) PROVE CountsOf(u, r)'
      <3>1. CountsOf(u, r) /\ RequestOK(u) /\ \A s \in Rows : RowOK(s)
        BY <2>4 DEF CountInv, IInv
      <3>2. CASE prefs'[r].key = prefs[r].key
        <4>1. /\ Locked(u, r)' <=> Locked(u, r)
              /\ Inserts(u, prefs[r].key)' <=> Inserts(u, prefs[r].key)
          BY <2>1, <2>3, <3>2 DEF Locked, Inserts
        <4>2. Counted(u, r)' = Counted(u, r)
          BY <2>1, <3>2, <4>1 DEF Counted
        <4>3. Put(u, r)' = Put(u, r)
          BY <2>3 DEF Put
        <4>4. prefs'[r].state = "pending" /\ prefs'[r].holder = u
              => prefs'[r].count + prefs'[r].added = Counted(u, r)'
          BY <2>3, <3>1, <4>2 DEF CountsOf
        <4>5. ASSUME Alone(r)', ~Inserts(u, prefs[r].key) PROVE Put(u, r) = Counted(u, r)
          <5>1. CASE Alone(r)
            BY <3>1, <4>5, <5>1 DEF CountsOf
          <5>2. CASE /\ prefs[r].state = "pending" /\ prefs[r].holder = t
                     /\ \A s \in Active : prefs[s].key # prefs[r].key
            <6>1. \A s \in Rows : Seen(u, s) => prefs[s].key # prefs[r].key
              BY <4>5, <5>2 DEF Seen, Inserts, Active
            <6>2. \A i \in DOMAIN req[u].fields :
                    i < req[u].next => req[u].fields[i].key # prefs[r].key
              BY <2>4, <3>1, <6>1 DEF RequestOK, ProgressOK
            <6>3. ~Locked(u, r)
              BY <3>1, <6>1 DEF RequestOK, UpsertOK, Locked
            <6>4. Counted(u, r) = 0
              BY <6>2, <6>3, TimesBeforeNone DEF Counted
            <6>5. QED
              BY <2>1, <5>2, <6>4 DEF Put
          <5>3. QED
            BY <1>4, <4>5, <5>1, <5>2
        <4>6. QED
          BY <3>2, <4>1, <4>2, <4>3, <4>4, <4>5 DEF CountsOf
      <3>3. CASE prefs'[r].key # prefs[r].key
        <4>1. r \notin Active' /\ prefs'[r].holder # u
          BY <2>3, <3>3
        <4>2. QED
          BY <4>1 DEF CountsOf, Alone
      <3>4. QED
        BY <3>2, <3>3
    <2>5. QED
      BY <2>1, <2>2, <2>4
  <1>6. QED
    BY <1>2, <1>3, <1>5 DEF CountInv

LEMMA FailCounts ==
  ASSUME IInv, IInv', CountInv, NEW t \in Requests, Fail(t)
  PROVE  CountInv'
  <1>1. \A r \in Rows : prefs[r] \in Preference /\ RowOK(r)
    BY RowTypes DEF IInv
  <1>2. persisted' = persisted /\ \A r \in Rows :
          prefs'[r] = IF prefs[r].holder = t THEN Undone(prefs[r]) ELSE prefs[r]
    BY DEF Fail
  <1>3. \A r \in Rows :
          /\ prefs[r].holder = t => prefs'[r].added = 0
          /\ prefs'[r].state = "active" <=> prefs[r].state = "active"
          /\ prefs[r].state = "active" =>
               prefs'[r].key = prefs[r].key /\ prefs'[r].count = prefs[r].count
    <2> SUFFICES ASSUME NEW r \in Rows
                 PROVE  /\ prefs[r].holder = t => prefs'[r].added = 0
                        /\ prefs'[r].state = "active" <=> prefs[r].state = "active"
                        /\ prefs[r].state = "active" =>
                             prefs'[r].key = prefs[r].key /\ prefs'[r].count = prefs[r].count
      OBVIOUS
    <2>1. CASE prefs[r].holder # t
      BY <1>2, <2>1
    <2>2. CASE prefs[r].holder = t /\ prefs[r].state = "pending"
      <3>1. prefs'[r] = FreeRow
        BY <1>2, <2>2 DEF Undone
      <3>2. prefs'[r].added = 0 /\ prefs'[r].state = "free"
        BY <3>1 DEF FreeRow
      <3>3. QED
        BY <2>2, <3>2
    <2>3. CASE prefs[r].holder = t /\ prefs[r].state # "pending"
      <3>1. prefs'[r] = [prefs[r] EXCEPT !.added = 0, !.holder = None]
        BY <1>2, <2>3 DEF Undone
      <3>2. QED
        BY <1>1, <3>1 DEF Preference
    <2>4. QED
      BY <2>1, <2>2, <2>3
  <1>4. Active' = Active
    BY <1>3 DEF Active
  <1>5. \A r \in Active : prefs'[r].key = prefs[r].key /\ prefs'[r].count = prefs[r].count
    BY <1>3 DEF Active
  <1>6. \A r \in Rows : Alone(r)' => prefs'[r].count = persisted'[prefs'[r].key]
    BY <1>2, <1>4, <1>5 DEF Alone, CountInv
  <1>7. \A k \in Keys : (\A r \in Active' : prefs'[r].key # k) => persisted'[k] = 0
    BY <1>2, <1>4, <1>5 DEF CountInv
  <1>8. QED
    BY <1>3, <1>4, <1>5, <1>6, <1>7, EndCounts

\* What a transaction has counted becomes the row's count, as the fields it names
\* become fields persisted.
LEMMA CommitCounts ==
  ASSUME IInv, IInv', CountInv, NEW t \in Requests, Commit(t)
  PROVE  CountInv'
  <1>1. /\ TypeOK /\ req[t] \in Request /\ RequestOK(t)
        /\ \A r \in Rows : prefs[r] \in Preference /\ RowOK(r)
    BY RequestTypes, RowTypes DEF IInv
  <1>2. \A r \in Rows : prefs'[r] = IF prefs[r].holder = t THEN Kept(prefs[r]) ELSE prefs[r]
    BY DEF Commit
  <1>3. ASSUME NEW r \in Rows, prefs[r].holder = t
        PROVE  /\ prefs'[r].state = "active" /\ prefs'[r].key = prefs[r].key
               /\ prefs'[r].added = 0 /\ prefs'[r].count = prefs[r].count + prefs[r].added
               /\ prefs[r].state # "free" /\ Writing(t)
    <2>1. prefs'[r] = [prefs[r] EXCEPT !.state = "active", !.count = prefs[r].count + prefs[r].added,
                                       !.added = 0, !.holder = None]
      BY <1>2, <1>3 DEF Kept
    <2>2. PICK n : n = prefs[r].count + prefs[r].added
      OBVIOUS
    <2>3. /\ prefs'[r].state = "active" /\ prefs'[r].key = prefs[r].key
          /\ prefs'[r].added = 0 /\ prefs'[r].count = n
      BY <1>1, <2>1, <2>2 DEF Preference
    <2>4. t # None
      BY RequestIsOne
    <2>5. prefs[r].state # "free" /\ Writing(t)
      BY <1>1, <1>3, <2>4 DEF RowOK
    <2>6. QED
      BY <2>2, <2>3, <2>5
  <1>4. Active \subseteq Active'
    BY <1>2, <1>3 DEF Active
  <1>5. \A r \in Active' :
          /\ prefs'[r].key = prefs[r].key
          /\ r \in Active \/ (prefs[r].state = "pending" /\ prefs[r].holder = t)
    <2> SUFFICES ASSUME NEW r \in Active'
                 PROVE  /\ prefs'[r].key = prefs[r].key
                        /\ r \in Active \/ (prefs[r].state = "pending" /\ prefs[r].holder = t)
      OBVIOUS
    <2>1. CASE prefs[r].holder # t
      BY <1>2, <2>1 DEF Active
    <2>2. CASE prefs[r].holder = t
      BY <1>1, <1>3, <2>2 DEF Active, Preference
    <2>3. QED
      BY <2>1, <2>2
  <1>6. PICK fields \in Seq(Field) : fields = req[t].fields
    BY <1>1, RequestTypes
  <1>7. \A k \in Keys : persisted[k] \in Nat /\ Times(k, fields) \in Nat
    BY <1>1, TimesType DEF TypeOK
  <1>8. CASE Writing(t)
    <2>1. Persists(t) /\ ProgressOK(t) /\ req[t].at = "persist" /\ req[t].next > Len(fields)
      BY <1>1, <1>6, <1>8 DEF RequestOK, Commit, ReadyToCommit, Writing
    <2>2. PICK n \in Nat : n = req[t].next
      BY <1>1, RequestTypes
    <2>3. \A k \in Keys : persisted'[k] = persisted[k] + Times(k, fields)
      BY <1>6, <2>1 DEF Commit
    <2>4. \A r \in Rows : prefs[r].state # "free" =>
            Counted(t, r) = Times(prefs[r].key, fields) /\ prefs[r].key \in Keys
      <3> SUFFICES ASSUME NEW r \in Rows, prefs[r].state # "free"
                   PROVE  Counted(t, r) = Times(prefs[r].key, fields) /\ prefs[r].key \in Keys
        OBVIOUS
      <3>1. prefs[r].key \in Keys
        BY <1>1 DEF RowOK
      <3>2. Counted(t, r) = TimesBefore(n, prefs[r].key, fields) + 0
        BY <1>6, <2>1, <2>2 DEF Counted, Locked
      <3>3. TimesBefore(n, prefs[r].key, fields) = Times(prefs[r].key, fields)
        BY <2>1, <2>2, TimesBeforeEnd
      <3>4. QED
        BY <1>7, <3>1, <3>2, <3>3
    <2>5. \A k \in Keys : (\A r \in Active' : prefs'[r].key # k) => persisted'[k] = 0
      <3> SUFFICES ASSUME NEW k \in Keys, \A r \in Active' : prefs'[r].key # k
                   PROVE  persisted'[k] = 0
        OBVIOUS
      <3>1. \A r \in Rows : Seen(t, r) => r \in Active'
        BY <1>3, <1>4 DEF Seen, Active
      <3>2. \A r \in Rows : Seen(t, r) => prefs[r].key # k
        BY <1>5, <3>1
      <3>3. \A i \in DOMAIN fields : fields[i].key # k
        <4>1. \A i \in DOMAIN fields : i < req[t].next
          BY <2>1, <2>2, FieldTypes
        <4>2. QED
          BY <1>6, <2>1, <3>2, <4>1 DEF ProgressOK
      <3>4. Times(k, fields) = 0
        <4>1. {i \in DOMAIN fields : fields[i].key = k} = {}
          BY <3>3
        <4>2. QED
          BY <4>1, FS_EmptySet DEF Times
      <3>5. persisted[k] = 0
        BY <1>4, <1>5 DEF CountInv
      <3>6. QED
        BY <2>3, <3>4, <3>5
    <2>6. ASSUME NEW r \in Rows, Alone(r)' PROVE prefs'[r].count = persisted'[prefs'[r].key]
      <3>1. r \in Active' /\ \A s \in Active : prefs[s].key = prefs[r].key => s = r
        BY <1>4, <1>5, <2>6 DEF Alone
      <3>2. prefs'[r].key = prefs[r].key /\ CountsOf(t, r)
        BY <1>5, <1>8, <3>1 DEF CountInv
      <3>3. prefs[r].state # "free"
        BY <1>5, <3>1 DEF Active
      <3>4. PICK key \in Keys : key = prefs[r].key /\ Counted(t, r) = Times(key, fields)
        BY <2>4, <3>3
      <3>5. CASE r \in Active
        <4>1. Alone(r)
          BY <3>1, <3>5 DEF Alone
        <4>2. ~Inserts(t, prefs[r].key)
          <5> SUFFICES ASSUME NEW s \in Rows, prefs[s].state = "pending", prefs[s].holder = t,
                              prefs[s].key = prefs[r].key
                       PROVE  FALSE
            BY DEF Inserts
          <5>1. s \in Active' /\ prefs'[s].key = prefs[r].key
            BY <1>3 DEF Active
          <5>2. s = r
            BY <2>6, <3>2, <5>1 DEF Alone
          <5>3. QED
            BY <3>5, <5>2 DEF Active
        <4>3. Put(t, r) = Times(key, fields)
          BY <3>2, <3>4, <4>1, <4>2 DEF CountsOf
        <4>4. prefs[r].count = persisted[key]
          BY <3>4, <4>1 DEF CountInv
        <4>5. prefs'[r].count = prefs[r].count + Put(t, r)
          <5>1. CASE prefs[r].holder = t
            BY <1>3, <5>1 DEF Put
          <5>2. CASE prefs[r].holder # t
            BY <1>1, <1>2, <5>2, RowTypes DEF Put
          <5>3. QED
            BY <5>1, <5>2
        <4>6. QED
          BY <2>3, <3>2, <3>4, <4>3, <4>4, <4>5
      <3>6. CASE r \notin Active
        <4>1. prefs[r].state = "pending" /\ prefs[r].holder = t
          BY <1>5, <3>1, <3>6
        <4>2. prefs[r].count + prefs[r].added = Times(key, fields)
          BY <3>2, <3>4, <4>1 DEF CountsOf
        <4>3. persisted[key] = 0
          BY <3>1, <3>4, <3>6 DEF CountInv
        <4>4. QED
          BY <1>3, <1>7, <2>3, <3>2, <3>4, <4>1, <4>2, <4>3
      <3>7. QED
        BY <3>5, <3>6
    <2>7. QED
      BY <1>3, <1>4, <1>5, <2>5, <2>6, EndCounts
  <1>9. CASE ~Writing(t)
    <2>1. ~Persists(t)
      BY <1>1, <1>9 DEF RequestOK, Commit, ReadyToCommit, Writing
    <2>2. \A k \in Keys : persisted'[k] = persisted[k]
      BY <1>7, <2>1 DEF Commit
    <2>3. \A r \in Rows : prefs[r].holder # t /\ prefs'[r] = prefs[r]
      BY <1>2, <1>3, <1>9
    <2>4. Active' = Active /\ \A r \in Rows : Alone(r)' <=> Alone(r)
      BY <2>3 DEF Active, Alone
    <2>5. \A r \in Rows : Alone(r)' => prefs'[r].count = persisted'[prefs'[r].key]
      <3>1. \A r \in Rows : Alone(r) => prefs[r].key \in Keys
        BY <1>1 DEF Alone, Active, RowOK
      <3>2. QED
        BY <2>2, <2>3, <2>4, <3>1 DEF CountInv
    <2>6. \A k \in Keys : (\A r \in Active' : prefs'[r].key # k) => persisted'[k] = 0
      <3>1. \A r \in Active : prefs'[r].key = prefs[r].key
        BY <2>3 DEF Active
      <3>2. QED
        BY <2>2, <2>4, <3>1 DEF CountInv
    <2>7. QED
      BY <1>3, <1>4, <1>5, <2>5, <2>6, EndCounts
  <1>10. QED
    BY <1>8, <1>9

-----------------------------------------------------------------------------
LEMMA CountInit == Init => CountInv
  <1> SUFFICES ASSUME Init PROVE CountInv
    OBVIOUS
  <1>1. PICK known \in [Rows -> Keys \cup {None}] :
          /\ \A r, s \in Rows : known[r] = known[s] /\ known[r] # None => r = s
          /\ prefs = [r \in Rows |-> IF known[r] = None THEN FreeRow ELSE KnownRow(known[r])]
          /\ persisted = [k \in Keys |-> IF \E r \in Rows : known[r] = k THEN 1 ELSE 0]
    BY DEF Init
  <1>2. \A t \in Requests : req[t].at = "new"
    BY DEF Init, NewRequest
  <1>3. \A t \in Requests : FirstOfKey(t) /\ ~Writing(t)
    BY <1>2 DEF FirstOfKey, Writing
  <1>4. ASSUME NEW r \in Rows
        PROVE  /\ prefs[r].added = 0
               /\ prefs[r].state = "active" <=> known[r] # None
               /\ known[r] # None => prefs[r].key = known[r] /\ prefs[r].count = 1
    <2>1. CASE known[r] = None
      BY <1>1, <2>1 DEF FreeRow
    <2>2. CASE known[r] # None
      BY <1>1, <2>2 DEF KnownRow
    <2>3. QED
      BY <2>1, <2>2
  <1>5. \A r \in Rows : Alone(r) => prefs[r].count = persisted[prefs[r].key]
    BY <1>1, <1>4 DEF Alone, Active
  <1>6. ASSUME NEW k \in Keys, \A r \in Active : prefs[r].key # k PROVE persisted[k] = 0
    <2>1. k # None
      OBVIOUS
    <2>2. \A r \in Rows : known[r] # k
      BY <1>4, <1>6, <2>1 DEF Active
    <2>3. QED
      BY <1>1, <2>2
  <1>7. QED
    BY <1>3, <1>4, <1>5, <1>6 DEF CountInv

LEMMA CountStep ==
  ASSUME IInv, IInv', CountInv, [Next]_vars
  PROVE  CountInv'
  <1>1. ASSUME NEW t \in Requests, Step(t) PROVE CountInv'
    BY <1>1, StartCounts, ReinforceCounts, InsertCounts, ReinforcedCounts, CommitCounts DEF Step
  <1>2. ASSUME NEW t \in Requests, Fail(t) PROVE CountInv'
    BY <1>2, FailCounts
  <1>3. ASSUME NEW c \in Captures, PutPhoto(c) \/ \E fields \in Readings : Recognise(c, fields)
        PROVE  CountInv'
    BY <1>3, CaptureCounts
  <1>4. ASSUME NEW q \in Patches, NEW c \in Captures, NEW status \in ExceptionStatus \cup {None},
               NEW payload \in Readings \cup {None}, Patch(q, c, status, payload)
        PROVE  CountInv'
    BY <1>4, PatchCounts
  <1>5. CASE UNCHANGED vars
    <2>1. prefs' = prefs /\ persisted' = persisted /\ req' = req
      BY <1>5 DEF vars
    <2>2. QED
      BY <2>1 DEF CountInv, FirstOfKey, Writing, CountsOf, Counted, Locked, Put, Inserts, Alone,
         Active, CurrentKey
  <1>6. QED
    BY <1>1, <1>2, <1>3, <1>4, <1>5 DEF Next

\* What the requests have counted and what is committed add up: between two
\* statements of any request, for any rows, readings and requests (pipeline.ts:188-226,
\* exception server.ts:191-229).
THEOREM ReviewInvariant == Spec => []ReviewInv
  <1>1. IInv /\ IInv' /\ CountInv /\ [Next]_vars => CountInv'
    BY CountStep
  <1>2. IInv /\ CountInv => ReviewInv
    BY DEF ReviewInv
  <1>3. QED
    BY <1>1, <1>2, CountInit, StructureInvariant, PTL DEF Spec

\* Concurrent reinforcements of a preference are all counted, on the row it has: the
\* second UPDATE waits for the first and adds to what it left, and a request that is
\* rolled back leaves nothing of its own (pipeline.ts:195).
THEOREM ReinforcementsCounted == Spec => []NoLostReinforcement
  <1>1. ReviewInv => NoLostReinforcement
    <2> SUFFICES ASSUME CountInv, NEW r \in Active,
                        \A s \in Used \ {r} : prefs[s].key # prefs[r].key
                 PROVE  prefs[r].count = persisted[prefs[r].key]
      BY DEF ReviewInv, NoLostReinforcement
    <2>1. Alone(r) /\ r \in Rows
      BY DEF Alone, Active, Used
    <2>2. QED
      BY <2>1 DEF CountInv
  <1>2. QED
    BY <1>1, ReviewInvariant, PTL
=============================================================================
