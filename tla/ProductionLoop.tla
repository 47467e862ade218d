--------------------------- MODULE ProductionLoop ---------------------------
(***************************************************************************)
(* One production deployment of the data layer and the continuous          *)
(* optimizer of packages/slo-compiler: telemetry windows come in, drift is *)
(* read from them, and recommendations are posted, read by a reviewer and  *)
(* approved by their ids.  A post may be repeated by a client that saw no  *)
(* answer, with the same id and the same or another content.               *)
(***************************************************************************)
EXTENDS Integers, Sequences

CONSTANTS Windows,     \* what clients send
          Expected,    \* of the deployment: cost, devices, and whether they are H100s
          MaxWindows,  \* bound: windows kept
          History, Pending, \* windows and recommendation of a fresh store
          RecIds, PendingId, MaxPosts  \* bound: recommendation posts

\* errors are in tenths of a per cent; text: the body has a prompt or an answer,
\* which the schema drops and the route refuses
TelemetryWindow == [ttft : Nat \ {0}, errors : 0..1000, gpu : 0..100, text : BOOLEAN]

ASSUME LoopAssumption ==
  /\ Windows \subseteq TelemetryWindow /\ History \in Seq(TelemetryWindow)
  /\ Pending = [status |-> "ready_for_review", content |-> Pending.content]

VARIABLES telemetry, recommendations, posts,
          reviewed  \* history: what the reviewer's last list showed under an id, {} or {content}
loopVars == <<telemetry, recommendations, posts, reviewed>>

\* POST /telemetry refuses a window that carries prompts or answers
RecordTelemetryWindow(w) ==
  /\ Len(telemetry) < MaxWindows
  /\ ~w.text
  /\ telemetry' = Append(telemetry, w)
  /\ UNCHANGED <<recommendations, posts, reviewed>>

Latest == telemetry[Len(telemetry)]
Rise(now, before) == (100 * (now - before)) \div before

\* detectDrift: a single window is judged by itself, a later one by the first
DetectDrift(history) ==
  LET last == history[Len(history)]
      rise == Rise(last.ttft, history[1].ttft)
  IN  CASE Len(history) = 1 -> IF last.errors > 20 THEN "critical"
                               ELSE IF last.ttft > 100 THEN "action_recommended" ELSE "normal"
        [] OTHER -> IF last.errors > 50 \/ rise > 80 THEN "critical"
                    ELSE IF rise > 40 \/ last.gpu > 92 THEN "action_recommended"
                    ELSE IF rise > 20 \/ last.gpu > 85 THEN "watch" ELSE "normal"

\* generateOptimizationRecommendation: rightsize an idle H100, or change the runtime
Recommendation(w) ==
  IF Expected.h100 /\ w.gpu < 60
  THEN [accelerator |-> "l40s", cost |-> 250 * Expected.devices,
        ttft |-> IF w.ttft < 30 THEN w.ttft ELSE 30]
  ELSE [accelerator |-> "same", cost |-> (75 * Expected.cost) \div 100, ttft |-> (75 * w.ttft) \div 100]

NoRec == [status |-> "none"]

\* POST /recommendations: the id of the body is kept, the status is not
NewRec(content) == [status |-> "ready_for_review", content |-> content]

CreateRecommendation(id) ==
  /\ telemetry # <<>> /\ posts < MaxPosts
  /\ posts' = posts + 1
  /\ recommendations' = [recommendations EXCEPT ![id] = NewRec(Recommendation(Latest))]
  /\ UNCHANGED <<telemetry, reviewed>>

\* GET /recommendations
ListRecommendations ==
  /\ reviewed' = [id \in RecIds |-> IF recommendations[id] = NoRec THEN {} ELSE {recommendations[id].content}]
  /\ UNCHANGED <<telemetry, recommendations, posts>>

\* POST /recommendations/[id]/approve
ApproveRecommendation(id) ==
  /\ recommendations[id] # NoRec
  /\ recommendations' = [recommendations EXCEPT ![id].status = "approved"]
  /\ UNCHANGED <<telemetry, posts, reviewed>>

LoopInit ==
  /\ telemetry = History
  /\ recommendations = [id \in RecIds |-> IF id = PendingId THEN Pending ELSE NoRec]
  /\ posts = 0
  /\ reviewed = [id \in RecIds |-> {}]
LoopNext ==
  \/ \E w \in Windows : RecordTelemetryWindow(w)
  \/ ListRecommendations
  \/ \E id \in RecIds : CreateRecommendation(id) \/ ApproveRecommendation(id)
LoopSpec == LoopInit /\ [][LoopNext]_loopVars

(* What is asked of it *)

\* docs/CONTINUOUS_OPTIMIZATION.md:44: an administrator "reviews the evidence
\* and signs off": what is approved under an id that was reviewed is what was
\* reviewed, also when it is posted again in between.
ApprovedWasReviewed ==
  [][\A id \in RecIds :
       /\ recommendations[id].status # "approved" /\ recommendations'[id].status = "approved"
       /\ reviewed[id] # {}
       => recommendations'[id].content \in reviewed[id]]_loopVars

\* docs/CONTINUOUS_OPTIMIZATION.md:32: more than 2 % of errors is critical.
ErrorsAreCritical ==
  telemetry # <<>> /\ Latest.errors > 20 => DetectDrift(telemetry) = "critical"
=============================================================================
