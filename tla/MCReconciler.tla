---------------------------- MODULE MCReconciler ----------------------------
(***************************************************************************)
(* What packages/reconciler does around a rollout, for TLC: the providers' *)
(* traffic tables, cluster federation, the smart router, hot patches,      *)
(* planning with its policies, shadow replay and proofs of execution.      *)
(* They share no state, so a behaviour runs one of them, "machine", and    *)
(* leaves the others as they are made.                                     *)
(***************************************************************************)
EXTENDS TrafficProviders, Federation, SmartRouting, HotPatching, Planning, ShadowReplay, Attestation

CONSTANTS v1, a1, a2, c1, c2, c3, nowhere, p1, p2, h1, h2, d1, d2

VARIABLE machine

mcVars == << machine, providerVars, fedVars, routerVars, patchVars, planVars, shadowVars, attestVars >>

\* shared.ts: two workers of one model, one of which has a request already,
\* and one of another; a third of the first model lets drains chain
MCSplits   == {-5, 1, 10, 120}
MCModelOf  == [b \in 1..4 |-> IF b = 3 THEN "gemma" ELSE "llama"]
MCCapacity == [b \in 1..4 |-> IF b = 1 THEN 1 ELSE 2]
MCSeedReq  == [b \in 1..4 |-> IF b \in {1, 2} THEN 1 ELSE 0]
MCSeedWarm == [p \in {p1, p2} |-> IF p = p1 THEN {1} ELSE {}]
MCSeedWeight == [c \in {c1, c2, c3} |-> IF c = c1 THEN 2 ELSE IF c = c2 THEN 1 ELSE 0]

\* specifications that differ from the seeded one in up to three facets, and
\* one that differs in all of them
MCStart   == [f \in Facets \ Unrecorded |-> 0]
MCDesired ==
  {[f \in Facets |-> IF f \in s THEN 1 ELSE 0] :
     s \in {t \in SUBSET Facets : Cardinality(t) <= 3} \union {Facets}}

\* the seeded policy's classes, the schema's with autoscaling denied, and one
\* that leaves runtimes unclassified
MCPolicies ==
  [ mode : {"advisory", "approval_required", "guarded_automation", "full_policy_automation"},
    allow : {{"change_replica_count", "update_autoscaling"}},
    approval : {{"change_runtime", "change_model_revision", "change_gpu_count",
                 "change_precision", "change_dynamo_topology"},
                {"change_model_revision", "change_replica_count"}},
    deny : {{}, {"change_replica_count", "change_gpu_count"}},
    limits : {[confidence |-> 85, predictions |-> TRUE, uncertainty |-> 20, canary |-> 50,
               gpus |-> 8, spend |-> 100, actions |-> 3, latency |-> 5,
               regions |-> {"us-east-1"}]} ]

\* a benchmark, and a prediction that is just good enough
MCMeasures ==
  { [confidence |-> 90, predicted |-> FALSE, uncertainty |-> 0, canary |-> 1,
     gpu_delta |-> -8, spend |-> 100, latency |-> -15, region |-> ""],
    [confidence |-> 85, predicted |-> TRUE, uncertainty |-> 20, canary |-> 50,
     gpu_delta |-> 8, spend |-> 1, latency |-> 5, region |-> "us-east-1"] }

\* hundredths of a millisecond about a half, in the window and out of it
MCMeasured == {1490, 1500, 2000, 2490, 2500, 5000, 9990, 10000, 10010}
\* finer than a hundredth
MCMeasuredFinely == MCMeasured \union {2496}

MCInit ==
  /\ machine \in {"providers", "federation", "router", "patches", "planning", "shadow", "attestation"}
  /\ ProviderInit /\ FedInit /\ RouterInit /\ PatchInit
  /\ PlanInit /\ ShadowInit /\ AttestInit
  /\ machine # "providers" => kind = "gke"

MCNext ==
  /\ UNCHANGED machine
  /\ \/ /\ machine = "providers" /\ ProviderNext
        /\ UNCHANGED << fedVars, routerVars, patchVars, planVars, shadowVars, attestVars >>
     \/ /\ machine = "federation" /\ FedNext
        /\ UNCHANGED << providerVars, routerVars, patchVars, planVars, shadowVars, attestVars >>
     \/ /\ machine = "router" /\ RouterNext
        /\ UNCHANGED << providerVars, fedVars, patchVars, planVars, shadowVars, attestVars >>
     \/ /\ machine = "patches" /\ PatchNext
        /\ UNCHANGED << providerVars, fedVars, routerVars, planVars, shadowVars, attestVars >>
     \/ /\ machine = "planning" /\ PlanNext
        /\ UNCHANGED << providerVars, fedVars, routerVars, patchVars, shadowVars, attestVars >>
     \/ /\ machine = "shadow" /\ ShadowNext
        /\ UNCHANGED << providerVars, fedVars, routerVars, patchVars, planVars, attestVars >>
     \/ /\ machine = "attestation" /\ AttestNext
        /\ UNCHANGED << providerVars, fedVars, routerVars, patchVars, planVars, shadowVars >>

MCSpec == MCInit /\ [][MCNext]_mcVars
AttestOnly == MCInit /\ machine = "attestation" /\ [][MCNext]_mcVars
=============================================================================
