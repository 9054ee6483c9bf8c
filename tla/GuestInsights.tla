---------------------------- MODULE GuestInsights ----------------------------
(***************************************************************************)
(* What guest-svc tells the front desk of one guest with the help of the     *)
(* model (services/guest/src/service.ts): the line to say at arrival and the *)
(* trajectory of complaints. Issues are raised, and leave the last twelve    *)
(* months, while a request waits for the model, whose gateway may refuse,    *)
(* fail, or answer JSON of any shape or a text that is not JSON. The         *)
(* database answers: when it does not, every request is a 500.              *)
(***************************************************************************)
EXTENDS Integers

CONSTANTS
  Asks,        \* requests, one after another each
  Threshold,   \* TRAJECTORY_ISSUE_THRESHOLD
  MaxIssues,   \* bound: issues of the last twelve months
  MaxPrefs     \* bound: active preferences

ASSUME ThresholdAssumption == Threshold \in Nat \ {0}
ASSUME BoundsAssumption == MaxIssues \in Nat /\ MaxPrefs \in Nat

VARIABLES
  guest,    \* is the guest there
  issues,   \* issues of the last twelve months
  prefs,    \* active preferences
  ask       \* the requests

insightsVars == <<guest, issues, prefs, ask>>

-----------------------------------------------------------------------------
\* null_text: an object whose rawText is the JSON text null.
Shape == {"trajectory", "items", "empty_items", "other_json", "raw", "null_text"}
Reason == {"none", "no_issues", "below_threshold", "threshold_with_trajectory",
           "reasoning_unavailable"}
Trajectory == {"none", "stable", "unknown", "model"}
Statuses == {0, 200, 404, 500}

\* seen: the issues read; least, most: the issues there were since it began.
\* callouts: the preferences shown, -1: the model's own. answer is history: what
\* the model answered, if it did.
Ask == [at : {"idle", "guest", "rows", "ai", "done"}, kind : {"say_this", "trajectory"},
        status : Statuses, seen : 0 .. MaxIssues,
        least : 0 .. MaxIssues, most : 0 .. MaxIssues,
        flagged : BOOLEAN, reason : Reason, trajectory : Trajectory,
        callouts : -1 .. 3, answer : Shape \cup {"none"}]
NewAsk(kind) ==
  [at |-> "guest", kind |-> kind, status |-> 0, seen |-> 0, least |-> issues, most |-> issues,
   flagged |-> FALSE, reason |-> "none", trajectory |-> "none", callouts |-> 0,
   answer |-> "none"]

AskBecomes(k, rec) == ask' = [ask EXCEPT ![k] = rec]
Answered(rec, status) == [rec EXCEPT !.at = "done", !.status = status]
Fewer(m, n) == IF m < n THEN m ELSE n

-----------------------------------------------------------------------------
BeginAsk(k, kind) ==
  /\ ask[k].at \in {"idle", "done"}
  /\ AskBecomes(k, NewAsk(kind))
  /\ UNCHANGED <<guest, issues, prefs>>

\* A guest who is not there: NotFoundError of getById, but a plain Error of
\* analyseComplaintTrajectory.
ReadGuest(k) ==
  /\ ask[k].at = "guest"
  /\ AskBecomes(k, IF guest THEN [ask[k] EXCEPT !.at = "rows"]
                   ELSE Answered(ask[k], IF ask[k].kind = "say_this" THEN 404 ELSE 500))
  /\ UNCHANGED <<guest, issues, prefs>>

\* The three best preferences; the model is asked whatever there is.
ReadPreferences(k) ==
  /\ ask[k].at = "rows" /\ ask[k].kind = "say_this"
  /\ AskBecomes(k, [ask[k] EXCEPT !.at = "ai", !.callouts = Fewer(prefs, 3)])
  /\ UNCHANGED <<guest, issues, prefs>>

Verdict(rec, flagged, reason, trajectory) ==
  [Answered(rec, 200) EXCEPT !.flagged = flagged, !.reason = reason, !.trajectory = trajectory]

\* The rule is applied to the rows read, before the model is asked.
ReadIssues(k) ==
  /\ ask[k].at = "rows" /\ ask[k].kind = "trajectory"
  /\ LET r == [ask[k] EXCEPT !.seen = issues]
     IN  AskBecomes(k,
           IF issues = 0 THEN Verdict(r, FALSE, "no_issues", "stable")
           ELSE IF issues < Threshold THEN Verdict(r, FALSE, "below_threshold", "unknown")
           ELSE [r EXCEPT !.at = "ai"])
  /\ UNCHANGED <<guest, issues, prefs>>

\* parseReasoningOutput: only a JSON object with a known trajectory has one. A text
\* null is parsed and then dereferenced, outside every try: a TypeError, a 500.
SayTrajectory(k, shape) ==
  /\ ask[k].at = "ai" /\ ask[k].kind = "trajectory"
  /\ LET r == [ask[k] EXCEPT !.answer = shape]
     IN  AskBecomes(k,
           IF shape = "null_text" THEN Answered(r, 500)
           ELSE Verdict(r, TRUE, "threshold_with_trajectory",
                        IF shape = "trajectory" THEN "model" ELSE "unknown"))
  /\ UNCHANGED <<guest, issues, prefs>>

\* Mutant: the failure of the model is the request's.
SayTrajectoryWithoutAiMasked(k) ==
  /\ ask[k].at = "ai" /\ ask[k].kind = "trajectory"
  /\ AskBecomes(k, Verdict(ask[k], FALSE, "reasoning_unavailable", "unknown"))
  /\ UNCHANGED <<guest, issues, prefs>>

\* The catch of the call to the gateway: the flag of the rule alone.
SayTrajectoryWithoutAi(k) ==
  /\ ask[k].at = "ai" /\ ask[k].kind = "trajectory"
  /\ AskBecomes(k, Verdict(ask[k], TRUE, "reasoning_unavailable", "unknown"))
  /\ UNCHANGED <<guest, issues, prefs>>

\* The output is taken to have items: a missing list is a TypeError, an empty one
\* the default greeting.
SayThis(k, shape) ==
  /\ ask[k].at = "ai" /\ ask[k].kind = "say_this"
  /\ AskBecomes(k, CASE shape = "items" -> [Answered(ask[k], 200) EXCEPT !.callouts = -1]
                     [] shape = "empty_items" -> Answered(ask[k], 200)
                     [] OTHER -> Answered(ask[k], 500))
  /\ UNCHANGED <<guest, issues, prefs>>

SayThisFails(k) ==
  /\ ask[k].at = "ai" /\ ask[k].kind = "say_this"
  /\ AskBecomes(k, Answered(ask[k], 500))
  /\ UNCHANGED <<guest, issues, prefs>>

-----------------------------------------------------------------------------
\* Other requests raise issues, time takes them out of the window.
IssuesChange ==
  /\ issues' \in {issues - 1, issues + 1} \cap (0 .. MaxIssues)
  /\ ask' = [k \in Asks |->
       IF ask[k].at \in {"idle", "done"} THEN ask[k]
       ELSE [ask[k] EXCEPT !.least = Fewer(@, issues'), !.most = IF @ < issues' THEN issues' ELSE @]]
  /\ UNCHANGED <<guest, prefs>>

PreferencesChange ==
  /\ prefs' \in 0 .. MaxPrefs
  /\ UNCHANGED <<guest, issues, ask>>

GuestGoes ==
  /\ guest' = FALSE
  /\ UNCHANGED <<issues, prefs, ask>>

InsightsInit ==
  /\ guest = TRUE /\ issues = 0 /\ prefs = 0
  /\ ask = [k \in Asks |-> [NewAsk("say_this") EXCEPT !.at = "idle", !.least = 0, !.most = 0]]

Advise(k) ==
  \/ ReadGuest(k) \/ ReadPreferences(k) \/ ReadIssues(k)
  \/ \E shape \in Shape : SayTrajectory(k, shape) \/ SayThis(k, shape)
  \/ SayTrajectoryWithoutAi(k) \/ SayThisFails(k)

InsightsNext ==
  \/ \E k \in Asks : Advise(k) \/ \E kind \in {"say_this", "trajectory"} : BeginAsk(k, kind)
  \/ IssuesChange \/ PreferencesChange \/ GuestGoes

InsightsSpec == InsightsInit /\ [][InsightsNext]_insightsVars

-----------------------------------------------------------------------------
InsightsTypeOK ==
  /\ guest \in BOOLEAN /\ issues \in 0 .. MaxIssues /\ prefs \in 0 .. MaxPrefs
  /\ ask \in [Asks -> Ask]

\* A guest who had the threshold of issues all along is flagged, one who never had
\* it is not, whether the model answered, answered nonsense or failed: "we don't
\* want a flaky AI call to mask a real trajectory issue" (service.ts:503). Two
\* requests get no verdict: one about a guest who is gone and, against that comment,
\* one the model answered with the text null (:563).
TrajectoryNotMasked ==
  \A k \in Asks : ask[k].at = "done" /\ ask[k].kind = "trajectory" =>
    \/ ask[k].status = 500 /\ (~guest \/ ask[k].answer = "null_text")
    \/ /\ ask[k].status = 200
       /\ ask[k].least >= Threshold => ask[k].flagged
       /\ ask[k].most < Threshold => ~ask[k].flagged
=============================================================================
