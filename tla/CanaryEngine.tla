---------------------------- MODULE CanaryEngine ----------------------------
(***************************************************************************)
(* The pure part of the canary rollout: packages/reconciler/src/canary.ts. *)
(* A run walks through the stages of a policy; each stage is judged from   *)
(* the telemetry the caller reports for it.                                *)
(*                                                                         *)
(* Units.  The code compares floating point percentages; here a latency is *)
(* a whole number of milliseconds, latency thresholds are whole percents,  *)
(* error rates are hundredths of a percent, and the ratio                  *)
(* (p95 - base) / base * 100 is compared by cross-multiplication, so no    *)
(* rounding is introduced.                                                 *)
(***************************************************************************)
EXTENDS Integers, Sequences

\* One stage of a policy; max_duration_minutes is never read by the code.
Stage(pct, requests, minutes) ==
  [traffic_percent |-> pct, min_requests |-> requests, min_duration_minutes |-> minutes]

\* The stages createCanaryRun falls back to when it is given no policy.
DefaultStages == << Stage(1, 500, 5), Stage(10, 2000, 15),
                    Stage(50, 10000, 30), Stage(100, 25000, 60) >>

RunStatus == {"none", "progressing", "promoting", "completed", "rolled_back"}

CONSTANT NoId    \* what stands in canary_run_id before a run is created

NoRun == [id |-> NoId, stage |-> 0, traffic |-> 0, status |-> "none"]

(***************************************************************************)
(* CanaryEngine.createCanaryRun, called without a policy, followed by the  *)
(* status startExecution overwrites it with before handing it out.         *)
(***************************************************************************)
CreateCanaryRun(id) ==
  [id |-> id, stage |-> 0, traffic |-> DefaultStages[1].traffic_percent,
   status |-> "progressing"]

\* latency_regression_pct >= pct, without the division
LatencyAtLeast(telemetry, baseline, pct) ==
  (telemetry.p95_ttft_ms - baseline.p95_ttft_ms) * 100 >= pct * baseline.p95_ttft_ms

LatencyAtMost(telemetry, baseline, pct) ==
  (telemetry.p95_ttft_ms - baseline.p95_ttft_ms) * 100 <= pct * baseline.p95_ttft_ms

Breached(telemetry, baseline, policy) ==
  \/ LatencyAtLeast(telemetry, baseline, policy.rollback_latency_pct)
  \/ telemetry.error_rate >= policy.rollback_error_rate

EnoughSamples(telemetry, stage) ==
  /\ telemetry.request_count >= stage.min_requests
  /\ telemetry.duration_minutes >= stage.min_duration_minutes

GatePassed(telemetry, baseline, policy) ==
  /\ LatencyAtMost(telemetry, baseline, policy.max_latency_pct)
  /\ telemetry.error_rate - baseline.error_rate <= policy.max_error_delta

\* mutant: the last stage but one is taken for the last
EvaluateStageEarly(run, telemetry, baseline, policy) ==
  IF run.stage >= Len(policy.stages) THEN "promote_full"
  ELSE IF Breached(telemetry, baseline, policy) THEN "rollback"
  ELSE IF \/ ~EnoughSamples(telemetry, policy.stages[run.stage + 1])
          \/ ~GatePassed(telemetry, baseline, policy) THEN "hold"
  ELSE IF run.stage >= Len(policy.stages) - 2 THEN "promote_full"
  ELSE "promote_stage"

(***************************************************************************)
(* CanaryEngine.evaluateStage.  The three booleans of its result are       *)
(* exclusive, so the verdict is one value.  A run whose stage the policy   *)
(* does not have is promoted before its telemetry is looked at.            *)
(***************************************************************************)
EvaluateStage(run, telemetry, baseline, policy) ==
  IF run.stage >= Len(policy.stages) THEN "promote_full"
  ELSE IF Breached(telemetry, baseline, policy) THEN "rollback"
  ELSE IF \/ ~EnoughSamples(telemetry, policy.stages[run.stage + 1])
          \/ ~GatePassed(telemetry, baseline, policy) THEN "hold"
  ELSE IF run.stage >= Len(policy.stages) - 1 THEN "promote_full"
  ELSE "promote_stage"

\* CanaryEngine.advanceStage
AdvanceStage(run, policy) ==
  LET next == run.stage + 1
  IN  IF next >= Len(policy.stages)
      THEN [run EXCEPT !.status = "promoting", !.traffic = 100]
      ELSE [run EXCEPT !.stage = next, !.status = "progressing",
                       !.traffic = policy.stages[next + 1].traffic_percent]
=============================================================================
