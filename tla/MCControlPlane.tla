---------------------------- MODULE MCControlPlane ----------------------------
(***************************************************************************)
(* Finite instances of ControlPlane: two rival actions on one deployment,  *)
(* the route's telemetry, and its policy or the first two stages of it.    *)
(***************************************************************************)
EXTENDS ControlPlane, TLC

CONSTANTS a1, a2, d1, r1, r2, r3, r4

MCActions == {a1, a2}
MCDeployments == {d1}
MCTargetOf == (a1 :> d1) @@ (a2 :> d1)
First == {a1}
Second == {a2}
ThreeRequests == {r1, r2, r3}
FourRequests == {r1, r2, r3, r4}

StageOf(pct, requests, minutes) ==
  [traffic_percent |-> pct, min_requests |-> requests, min_duration_minutes |-> minutes]

RoutePolicy ==
  [stages |-> << StageOf(10, 100, 5), StageOf(50, 500, 15), StageOf(100, 1000, 30) >>,
   rollback_latency_pct |-> 15, rollback_error_rate |-> 200,
   max_latency_pct |-> 5, max_error_delta |-> 20]

\* so that four requests reach two completions of one rollout
ShortPolicy == [RoutePolicy EXCEPT !.stages = SubSeq(@, 2, 3)]

RouteBaseline == [p95_ttft_ms |-> 100, error_rate |-> 5]

\* the route's default telemetry, and one that breaches the latency threshold
RouteTelemetry ==
  { [p95_ttft_ms |-> p95, error_rate |-> 1, request_count |-> 1500,
     duration_minutes |-> 30] : p95 \in {95, 115} }

\* one of each kind: to start, to progress, and the two ends with a witness
AllPosts == {"planned", "canarying", "completed", "rolled_back"}
PlansOnly == {"planned"}

RequestSymmetry == Permutations(Requests)
=============================================================================
