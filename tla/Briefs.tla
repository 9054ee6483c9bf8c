-------------------------------- MODULE Briefs --------------------------------
(***************************************************************************)
(* Generation of the daily brief of one property and day                    *)
(* (services/brief/src/pipeline.ts): one transaction per POST               *)
(* /v1/briefs/generate, whose upsert of the row of briefs holds the row's   *)
(* lock until COMMIT or ROLLBACK and whose writes no other transaction sees *)
(* before. The AI call between them is external and takes seconds.          *)
(***************************************************************************)
EXTENDS Integers, FiniteSets

CONSTANTS
  Generators,     \* requests to generate the brief
  Readers,        \* requests to show it
  BriefGuests,    \* guests, strangers to the day included
  Arrivals,       \* the stays, numbered in the order of arrival_at
  MaxItems        \* bound: items of an AI answer

VARIABLES
  arriving,   \* guest by stay, for the stays that arrive that day
  brief,      \* the committed row of briefs and its brief_items
  held,       \* the generation that holds the row's lock, 0 for none
  gen,        \* the generations' local variables
  read        \* the readers' local variables

briefVars == <<brief, held, gen, read>>

-----------------------------------------------------------------------------
Priority == {"vip", "attention", "standard"}
ArrivalSets == UNION {[S -> BriefGuests] : S \in SUBSET Arrivals}
FirstOf(S) == CHOOSE s \in S : \A u \in S : s <= u

\* source is history: the arrivals the items were made from.
Item == [guest : BriefGuests, stay : Arrivals, priority : Priority, sort_index : Nat]
Brief == [status : {"absent", "generating", "ready"}, item_count : Nat,
          vip_count : Nat, attention_count : Nat, items : SUBSET Item, source : ArrivalSets]
NoBrief == [status |-> "absent", item_count |-> 0, vip_count |-> 0, attention_count |-> 0,
            items |-> {}, source |-> <<>>]

Answer == {"none", "existing", "in_progress", "no_arrivals", "ready", "error"}
Generation == [at : {"new", "upsert", "load", "ai", "done"}, loaded : ArrivalSets, answer : Answer]
NewGeneration == [at |-> "new", loaded |-> <<>>, answer |-> "none"]

\* between is history: a generation committed between the two SELECTs.
Reading == [at : {"new", "items", "done"}, row : Brief, items : SUBSET Item, between : BOOLEAN]
NewReading == [at |-> "new", row |-> NoBrief, items |-> {}, between |-> FALSE]

Reply(g, answer) == gen' = [gen EXCEPT ![g] = [@ EXCEPT !.at = "done", !.answer = answer]]
Release(g) == held' = IF held = g THEN 0 ELSE held

Crossed ==
  read' = [v \in Readers |-> [read[v] EXCEPT !.between = @ \/ read[v].at = "items"]]

-----------------------------------------------------------------------------
\* The brief is looked up; one that is there is returned unless force is set.
CheckExisting(g, force) ==
  /\ gen[g].at = "new"
  /\ IF brief.status = "absent" \/ force
     THEN gen' = [gen EXCEPT ![g].at = "upsert"]
     ELSE Reply(g, IF brief.status = "generating" THEN "in_progress" ELSE "existing")
  /\ UNCHANGED <<brief, held, read>>

\* INSERT ... ON CONFLICT DO UPDATE: waits for a transaction that has inserted
\* or updated the row.
UpsertGenerating(g) ==
  /\ gen[g].at = "upsert" /\ held = 0
  /\ held' = g
  /\ gen' = [gen EXCEPT ![g].at = "load"]
  /\ UNCHANGED <<brief, read>>

\* Without arrivals the row becomes ready with no count of items; the items and
\* the other counts are left as they are. COMMIT.
LoadArrivals(g) ==
  /\ gen[g].at = "load"
  /\ IF DOMAIN arriving = {}
     THEN /\ brief' = [brief EXCEPT !.status = "ready", !.item_count = 0]
          /\ Reply(g, "no_arrivals")
          /\ Release(g)
          /\ Crossed
     ELSE /\ gen' = [gen EXCEPT ![g] = [@ EXCEPT !.at = "ai", !.loaded = arriving]]
          /\ UNCHANGED <<brief, held, read>>

\* The AI's answer: any guests, some unknown or named twice, in any order.
AiItems == UNION {[1 .. n -> BriefGuests \X Priority] : n \in 0 .. MaxItems}

\* The answer sorted: vip first, as given among equals. A place's index is the
\* number of places before it.
order == [vip |-> 0, attention |-> 1, standard |-> 2]
Sooner(answer, i, j) ==
  \/ order[answer[i][2]] < order[answer[j][2]]
  \/ answer[i][2] = answer[j][2] /\ i < j
SortIndex(answer, i) == Cardinality({j \in DOMAIN answer : Sooner(answer, j, i)})

\* The places of guests that arrive; each makes an item with the first stay of
\* its guest.
StaysOf(guest, loaded) == {s \in DOMAIN loaded : loaded[s] = guest}
Known(answer, loaded) == {i \in DOMAIN answer : StaysOf(answer[i][1], loaded) # {}}
ItemAt(answer, loaded, i) ==
  [guest |-> answer[i][1], stay |-> FirstOf(StaysOf(answer[i][1], loaded)),
   priority |-> answer[i][2], sort_index |-> SortIndex(answer, i)]
ItemsOf(answer, loaded) == {ItemAt(answer, loaded, i) : i \in Known(answer, loaded)}

\* What the loop counts.
CountOf(answer, loaded, p) == Cardinality({i \in Known(answer, loaded) : answer[i][2] = p})

\* Mutant: the old items are not deleted.
WriteItemsKeepingOld(g, answer) ==
  /\ gen[g].at = "ai"
  /\ LET loaded == gen[g].loaded
     IN  brief' = [status |-> "ready", item_count |-> Cardinality(DOMAIN loaded),
                   vip_count |-> CountOf(answer, loaded, "vip"),
                   attention_count |-> CountOf(answer, loaded, "attention"),
                   items |-> brief.items \cup ItemsOf(answer, loaded), source |-> loaded]
  /\ Reply(g, "ready")
  /\ Release(g)
  /\ Crossed

\* The old items are deleted, the new ones inserted, the counts written; COMMIT.
WriteItems(g, answer) ==
  /\ gen[g].at = "ai"
  /\ LET loaded == gen[g].loaded
     IN  brief' = [status |-> "ready", item_count |-> Cardinality(DOMAIN loaded),
                   vip_count |-> CountOf(answer, loaded, "vip"),
                   attention_count |-> CountOf(answer, loaded, "attention"),
                   items |-> ItemsOf(answer, loaded), source |-> loaded]
  /\ Reply(g, "ready")
  /\ Release(g)
  /\ Crossed

\* The property is unknown, a statement or the AI call fails: ROLLBACK.
GenerationFails(g) ==
  /\ gen[g].at # "done"
  /\ Reply(g, "error")
  /\ Release(g)
  /\ UNCHANGED <<brief, read>>

\* loadBriefById: the row (404 without one), then its items, each as committed
\* when its SELECT runs.
ReadRow(v) ==
  /\ read[v].at = "new"
  /\ read' = [read EXCEPT ![v] =
       [@ EXCEPT !.at = IF brief.status = "absent" THEN "done" ELSE "items", !.row = brief]]
  /\ UNCHANGED <<brief, held, gen>>

ReadItems(v) ==
  /\ read[v].at = "items"
  /\ read' = [read EXCEPT ![v] = [@ EXCEPT !.at = "done", !.items = brief.items]]
  /\ UNCHANGED <<brief, held, gen>>

ShowBrief(v) == ReadRow(v) \/ ReadItems(v)

Generate(g) ==
  \/ \E force \in BOOLEAN : CheckExisting(g, force)
  \/ UpsertGenerating(g)
  \/ LoadArrivals(g)
  \/ \E answer \in AiItems : WriteItems(g, answer)
  \/ GenerationFails(g)

BriefInit ==
  /\ brief = NoBrief
  /\ held = 0
  /\ gen = [g \in Generators |-> NewGeneration]
  /\ read = [v \in Readers |-> NewReading]

\* On its own the module lets the arrivals change at any time.
Init == BriefInit /\ arriving \in ArrivalSets
Next ==
  \/ ((\E g \in Generators : Generate(g)) \/ \E v \in Readers : ShowBrief(v)) /\ UNCHANGED arriving
  \/ arriving' \in ArrivalSets /\ UNCHANGED briefVars

Spec == Init /\ [][Next]_<<briefVars, arriving>>

-----------------------------------------------------------------------------
BriefTypeOK ==
  /\ brief \in Brief
  /\ held \in Generators \cup {0}
  /\ gen \in [Generators -> Generation]
  /\ read \in [Readers -> Reading]

OfPriority(items, p) == {x \in items : x.priority = p}

OneGeneration(row, items) ==
  /\ \A x \in items : x.stay \in DOMAIN row.source /\ row.source[x.stay] = x.guest
  /\ \A x, y \in items :
       x.sort_index <= y.sort_index => x = y \/ order[x.priority] <= order[y.priority]
  /\ row.vip_count = Cardinality(OfPriority(items, "vip"))
  /\ row.attention_count = Cardinality(OfPriority(items, "attention"))
  /\ row.item_count \in {0, Cardinality(DOMAIN row.source)}

\* The items all come from one generation and its arrivals, each with a stay of
\* its guest, the vip ones first, and the counts of the row are theirs, whatever
\* generations ran at once, failed or found no arrivals (pipeline.ts:150, :204).
\* The same holds of what a reader is shown, unless a generation committed between
\* its SELECTs, and none is shown 'generating': it never leaves the transaction
\* that wrote it, so that no request is answered that one is in progress (:84).
BriefIsOneGeneration ==
  /\ OneGeneration(brief, brief.items)
  /\ \A v \in Readers :
       /\ read[v].row.status # "generating"
       /\ read[v].at = "done" /\ ~read[v].between => OneGeneration(read[v].row, read[v].items)
  /\ \A g \in Generators : gen[g].answer # "in_progress"
=============================================================================
