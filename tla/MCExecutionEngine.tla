------------------------- MODULE MCExecutionEngine -------------------------
(***************************************************************************)
(* Finite instances of ExecutionEngine: two or three actions compete for   *)
(* one deployment.  The policy is the one the execute route hard-codes;    *)
(* the telemetry holds one report for each verdict, on the boundaries the  *)
(* comparisons turn on.                                                    *)
(***************************************************************************)
EXTENDS ExecutionEngine, TLC

CONSTANTS a1, a2, a3, d1

MCDeployments == {d1}
PairCallers == {a1, a2}
PairDeploymentOf == (a1 :> d1) @@ (a2 :> d1)
TrioCallers == {a1, a2, a3}
TrioDeploymentOf == PairDeploymentOf @@ (a3 :> d1)
CallerSymmetry == Permutations(Callers)

RoutePolicy ==
  [stages |-> << Stage(10, 100, 5), Stage(50, 500, 15), Stage(100, 1000, 30) >>,
   rollback_latency_pct |-> 15, rollback_error_rate |-> 200,
   max_latency_pct |-> 5, max_error_delta |-> 20]

\* its last two stages: enough for one to advance from and one to complete from
ShortPolicy == [RoutePolicy EXCEPT !.stages = SubSeq(@, 2, 3)]

RouteBaseline == [p95_ttft_ms |-> 100, error_rate |-> 5]

Report(p95, errors, requests, minutes) ==
  [p95_ttft_ms |-> p95, error_rate |-> errors,
   request_count |-> requests, duration_minutes |-> minutes]

\* healthy, slow by exactly the threshold, failing, too few requests, and
\* good enough not to roll back but not to be promoted
RouteTelemetry ==
  { Report(105, 25, 1000, 30), Report(115, 5, 1000, 30), Report(100, 200, 1000, 30),
    Report(100, 5, 99, 30), Report(106, 5, 1000, 30) }
=============================================================================
