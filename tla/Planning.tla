------------------------------ MODULE Planning ------------------------------
(***************************************************************************)
(* Reconciliation: how a desired specification becomes a planned action,   *)
(* what risk the plan is given, what the policy engine says of it, and     *)
(* what a completed action leaves in the deployment the next plan is made  *)
(* from.  A specification is a function from the facets the planner        *)
(* compares to their values.                                               *)
(***************************************************************************)
EXTENDS Integers, Sequences, FiniteSets

CONSTANTS
  Values,        \* what a facet may be
  StartSpec,     \* the seeded deployment
  DesiredSpecs,  \* what callers ask for
  MaxPlans,      \* bound: plans made
  Policies,      \* automation policies
  Measures       \* what is said of an action besides its type

Facets == {"model", "runtime", "precision", "accelerator", "topology", "replicas", "other"}

\* A deployment's record has no field for these two: a plan takes them from
\* the literal "fp16" and from literals for regions, routing and objectives.
Unrecorded == {"precision", "other"}

\* the value that stands for those literals
Literal == CHOOSE v \in Values : TRUE

ExecutionMode == {"advisory", "approval_required", "guarded_automation", "full_policy_automation"}

ActionType ==
  {"change_runtime", "change_model_revision", "change_precision", "change_gpu_count",
   "change_replica_count", "change_tensor_parallelism", "change_pipeline_parallelism",
   "change_dynamo_topology", "change_prefill_decode_ratio", "change_instance_type",
   "move_workload", "update_autoscaling", "rollback", "noop"}

\* the windows of a policy, its savings and its reproductions are never read
AutomationPolicy ==
  [ mode : ExecutionMode,
    allow : SUBSET ActionType, approval : SUBSET ActionType, deny : SUBSET ActionType,
    limits : [confidence : 0..100, predictions : BOOLEAN, uncertainty : Nat \ {0},
              canary : 1..100, gpus : Nat \ {0}, spend : Nat \ {0}, actions : Nat \ {0},
              latency : Int, regions : SUBSET STRING] ]

ASSUME PlanningAssumption ==
  /\ Values # {}
  /\ Policies \subseteq AutomationPolicy
  /\ StartSpec \in [Facets \ Unrecorded -> Values]
  /\ DesiredSpecs \subseteq [Facets -> Values]
  /\ MaxPlans \in Nat

VARIABLES
  deployment,  \* [Facets \ Unrecorded -> Values]
  plans,       \* the planned actions, in the order they were created
  completed    \* indices of the plans whose rollout has completed

planVars == << deployment, plans, completed >>

PlanInit ==
  /\ deployment = StartSpec
  /\ plans = << >>
  /\ completed = {}

-----------------------------------------------------------------------------
(* The planner.  "diff" is the set of facets in which two specifications   *)
(* differ.                                                                 *)

\* mutant: replicas are compared before the topology is
PrecedenceOfReplicas ==
  << << "model", "change_model_revision" >>, << "runtime", "change_runtime" >>,
     << "precision", "change_precision" >>, << "accelerator", "change_gpu_count" >>,
     << "replicas", "change_replica_count" >>, << "topology", "change_dynamo_topology" >> >>

\* what comes first of what has changed, and its action type
Precedence ==
  << << "model", "change_model_revision" >>, << "runtime", "change_runtime" >>,
     << "precision", "change_precision" >>, << "accelerator", "change_gpu_count" >>,
     << "topology", "change_dynamo_topology" >>, << "replicas", "change_replica_count" >> >>

DetermineActionType(diff) ==
  IF \A i \in DOMAIN Precedence : Precedence[i][1] \notin diff THEN "noop"
  ELSE LET i == CHOOSE k \in DOMAIN Precedence :
                  /\ Precedence[k][1] \in diff
                  /\ \A j \in 1..(k-1) : Precedence[j][1] \notin diff
       IN  Precedence[i][2]

Score(diff) ==
  10 + (IF "model" \in diff THEN 35 ELSE 0) + (IF "runtime" \in diff THEN 25 ELSE 0)
     + (IF "accelerator" \in diff THEN 20 ELSE 0) + (IF "topology" \in diff THEN 15 ELSE 0)

\* neither the precision nor the replicas count
EvaluateChangeRisk(diff) ==
  [ score |-> IF Score(diff) > 100 THEN 100 ELSE Score(diff),
    level |-> CASE Score(diff) >= 65 -> "critical"
                [] Score(diff) \in 45..64 -> "high"
                [] Score(diff) \in 25..44 -> "medium"
                [] OTHER -> "low",
    rollback |-> CASE diff \intersect {"accelerator", "model"} # {} -> "complex"
                   [] diff \intersect {"accelerator", "model"} = {}
                        /\ diff \intersect {"runtime", "topology"} # {} -> "moderate"
                   [] OTHER -> "easy" ]

\* currentSpec: last_known_good_spec is set nowhere, so it is put together
\* from the deployment and the literals
CurrentSpec(d) == [f \in Facets |-> IF f \in Unrecorded THEN Literal ELSE d[f]]

Diff(d, desired) == {f \in Facets : CurrentSpec(d)[f] # desired[f]}

\* The plan says that the policy check has passed; no policy is looked at.
PlanReconciliation(d, desired) ==
  [ target |-> desired,
    diff   |-> Diff(d, desired),
    type   |-> DetermineActionType(Diff(d, desired)),
    risk   |-> EvaluateChangeRisk(Diff(d, desired)),
    rollback_to |-> CurrentSpec(d),
    policy_passed |-> TRUE ]

\* POST control/deployments/[id]/reconcile
Reconcile(desired) ==
  /\ Len(plans) < MaxPlans
  /\ plans' = Append(plans, PlanReconciliation(deployment, desired))
  /\ UNCHANGED << deployment, completed >>

\* what completion takes over from the target (runtime_version with runtime);
\* the count of accelerators is not among it
TakenOver == {"runtime", "accelerator", "replicas"}

\* {...dep, runtime: ..., }, the deployment read afresh
AfterCompletion(plan) ==
  [f \in DOMAIN deployment |-> IF f \in TakenOver THEN plan.target[f] ELSE deployment[f]]

\* The end of a rollout, in the execute route.  Plans made from the same
\* deployment may end in any order, and a later end takes back what an
\* earlier one changed: its target was made from the deployment before.
Complete(i) ==
  /\ i \notin completed
  /\ completed' = completed \union {i}
  /\ deployment' = AfterCompletion(plans[i])
  /\ UNCHANGED plans

PlanNext ==
  \/ \E desired \in DesiredSpecs : Reconcile(desired)
  \/ \E i \in DOMAIN plans : Complete(i)

PlanSpec == PlanInit /\ [][PlanNext]_planVars

-----------------------------------------------------------------------------
(* The policy engine.  An action's measures are a record of numbers.       *)

Abs(n) == IF n < 0 THEN -n ELSE n

\* The class decides, the denied ones keep what the mode says.
NeedsApproval(type, policy) ==
  CASE type \in policy.deny -> policy.mode # "full_policy_automation"
    [] type \in policy.approval \ policy.deny -> TRUE
    [] type \in policy.allow \ (policy.deny \union policy.approval) ->
         policy.mode \notin {"guarded_automation", "full_policy_automation"}
    [] OTHER -> TRUE

\* the gates an action runs into; freezes are active ones of scope "global" or
\* "deployment", whatever deployment they name
DenialReasons(type, m, policy, frozen, live) ==
  { r \in {"freeze", "class", "confidence", "prediction", "canary", "gpus",
           "spend", "concurrency", "latency", "region"} :
      CASE r = "freeze"      -> frozen
        [] r = "class"       -> type \in policy.deny
        [] r = "confidence"  -> m.confidence < policy.limits.confidence
        [] r = "prediction"  -> m.predicted /\ (\/ ~policy.limits.predictions
                                                \/ m.uncertainty > policy.limits.uncertainty)
        [] r = "canary"      -> m.canary > policy.limits.canary
        [] r = "gpus"        -> Abs(m.gpu_delta) > policy.limits.gpus
        [] r = "spend"       -> m.spend > policy.limits.spend
        [] r = "concurrency" -> live >= policy.limits.actions
        [] r = "latency"     -> m.latency > policy.limits.latency
        [] r = "region"      -> m.region # "" /\ m.region \notin policy.limits.regions }

\* POST control/policies/test, the one caller: no freeze, no live actions
EvaluateAction(type, m, policy, frozen, live) ==
  [ allowed  |-> DenialReasons(type, m, policy, frozen, live) = {},
    approval |-> NeedsApproval(type, policy) ]

-----------------------------------------------------------------------------
(* Properties                                                              *)

Automatic(plan, m, policy) ==
  LET decision == EvaluateAction(plan.type, m, policy, FALSE, 0)
  IN  decision.allowed /\ ~decision.approval

\* nothing but replicas and autoscaling is changed without a person
OnlyScales(policy) == policy.allow \subseteq {"change_replica_count", "update_autoscaling"}

\* Three lists of what may change are kept apart: the action types, the risk
\* score and the policy's classes.  They agree that a policy which lets only
\* replicas and autoscaling be changed without a person lets no plan through
\* that carries a risk, needs more than an easy rollback, or touches the
\* precision, however the deployment got where it is (determineActionType,
\* evaluateChangeRisk, evaluateAction).
AutomaticPlansAreSmall ==
  \A i \in DOMAIN plans, m \in Measures, policy \in Policies :
    OnlyScales(policy) /\ Automatic(plans[i], m, policy) =>
      /\ plans[i].risk.level = "low" /\ plans[i].risk.rollback = "easy"
      /\ "precision" \notin plans[i].diff
      /\ plans[i].type \notin policy.deny \union policy.approval
=============================================================================
