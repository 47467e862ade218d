------------------------------- MODULE MCSizing -------------------------------
(***************************************************************************)
(* The advisers for TLC: fleet placement, configuration search, the SLO    *)
(* compiler, the deployment planner, the evidence store and the production *)
(* loop.  They share no state; "machine" picks the one a behaviour runs.   *)
(* Device figures are those of packages/hardware-registry, in hundredths   *)
(* of a gigabyte and cents.                                                *)
(***************************************************************************)
EXTENDS FleetPlacement, ConfigurationSearch, SLOCompiler, DeploymentPlanner, EvidenceStore, ProductionLoop, SeedData

VARIABLE machine

mcVars == <<machine, fleetVars, searchVars, planVars, plannerVars, evidenceVars, loopVars>>

\* fleets of three resources, in tenths of a gigabyte
Resource == [devices : {1, 4}, memory : {240, 800}, price : {1, 3}, reserved : BOOLEAN,
             status : {"available", "maintenance"}]
MCFleets ==
  {<<a, b, c>> \in Resource \X Resource \X Resource :
     /\ a.devices = 4 /\ b.memory = 240 /\ b.status = "available" /\ c.price = 1 /\ ~c.reserved}
    \union {SEED_FLEET_RESOURCES}
MCWorkloadSets ==
  {<<[params |-> 8, cache |-> 8], [params |-> 70, cache |-> 65], [params |-> 8, cache |-> 131]>>,
   <<[params |-> 32, cache |-> 32], [params |-> 8, cache |-> 48], [params |-> 20, cache |-> 1]>>}

\* the rack's figures are too large for TLC's integers
MCCatalogue == SelectSeq(HARDWARE_CATALOG, LAMBDA d : d.slug # "gb200-nvl72")
MCScaling == [c \in {1, 2, 4, 8} |-> CASE c = 1 -> 10 [] c = 2 -> 16 [] c = 4 -> 26 [] c = 8 -> 43]
\* devices' memory, cents per hour, cents per million tokens
MCNoLimit == [max_memory |-> 0, max_cost |-> 0, max_million |-> 0]
\* what a request may be narrowed by
MCFilters ==
  {[vendors |-> {}, precisions |-> {}, devices |-> 4, limit |-> MCNoLimit],
   [vendors |-> {"amd", "google"}, precisions |-> {}, devices |-> 4,
    limit |-> [MCNoLimit EXCEPT !.max_cost = 300]],
   [vendors |-> {"nvidia"}, precisions |-> {"fp16", "int4"}, devices |-> 1,
    limit |-> [MCNoLimit EXCEPT !.max_memory = 11000]],
   [vendors |-> {"nvidia", "apple", "cpu"}, precisions |-> {"int4"}, devices |-> 4,
    limit |-> [MCNoLimit EXCEPT !.max_million = 60]]}
MCQueries ==
  {[params |-> SEED_MODELS[m].params, elements |-> SEED_MODELS[m].elements, window |-> SEED_MODELS[m].window,
    context |-> k, concurrency |-> n, target_tpot |-> IF n = 1 THEN 0 ELSE 20,
    vendors |-> f.vendors, precisions |-> f.precisions,
    max_devices |-> f.devices, max_memory |-> f.limit.max_memory, max_cost |-> f.limit.max_cost,
    max_million |-> f.limit.max_million, objective |-> o] :
     m \in {1, 2, 5}, k \in {8, 16}, n \in {1, 8}, f \in MCFilters,
     o \in {"lowest_cost", "lowest_latency", "highest_throughput", "lowest_vram", "best_balanced"}}

MCRequests ==
  {r \in [params : {80, 700, 20000}, context : {4, 32}, concurrency : {4, 16}, prompt : {256},
          ttft : {0, 260}, tps : {0, 3000}, cost : {0, 150},
          optimize_for : {"balanced", "cost", "latency", "throughput"}] :
     /\ r.context = 4 \/ r.concurrency = 16
     /\ r.params = 20000 => r.ttft + r.tps + r.cost = 0}

MCRecord(i, n, d, fixture, ver, ok) ==
  [id |-> i, size |-> n, device |-> d, runtime |-> "vllm", precision |-> "fp8",
   synthetic |-> fixture, verified |-> ver, sound |-> ok]
MCRecords ==
  {MCRecord("n1", 70, "a100", f, v, TRUE) : f, v \in BOOLEAN}
    \union {MCRecord("a1", 325, d, FALSE, TRUE, TRUE) : d \in {"h100", "l40s"}}
    \union {MCRecord("n2", 706, "h100", f, TRUE, k) : f, k \in BOOLEAN}
MCLogRatio ==
  (<<325, 706>> :> 116) @@ (<<70, 325>> :> 230) @@ (<<70, 706>> :> 347)
MCSizes == {70, 325, 706}
MCSizeDistance ==
  [p \in MCSizes \X MCSizes |->
     CASE p[1] = p[2] -> 0 [] p[1] < p[2] -> MCLogRatio[p] [] OTHER -> MCLogRatio[<<p[2], p[1]>>]]

MCWindows ==
  {w \in [ttft : {20, 32, 40}, errors : {0, 30, 60}, gpu : {50, 95}, text : BOOLEAN] : w.text => w.ttft = 20}

\* a profile of 70B, a small model for one user, a name without a size, and a
\* 70B model whose limits no candidate meets
MCDeployments ==
  {[found |-> f, context |-> k, concurrency |-> n, ttft |-> t, cost |-> c] :
     <<f, k, n, t, c>> \in {<<{"70"}, 32, 16, 500, 150>>, <<{"8"}, 4, 1, 500, 150>>,
                           <<{}, 4, 16, 500, 150>>, <<{"70"}, 4, 16, 80, 10>>}}

MCIdleQuery == CHOOSE q \in MCQueries : TRUE
MCIdleRequest == CHOOSE r \in MCRequests : TRUE

MCInit ==
  /\ machine \in {"fleet", "search", "plan", "deploy", "evidence", "loop"}
  /\ \/ machine = "fleet" /\ FleetInit
     \/ /\ machine # "fleet"
        /\ fleet = <<>> /\ workloads = <<>> /\ placed = <<>> /\ available = <<>> /\ allocated = 0
  /\ \/ machine = "search" /\ SearchInit
     \/ machine # "search" /\ query = MCIdleQuery /\ result = Unanswered
  /\ \/ machine = "plan" /\ PlanInit
     \/ machine # "plan" /\ request = MCIdleRequest /\ plan = NoPlan
  /\ PlannerInit /\ EvidenceInit /\ LoopInit

MCNext ==
  /\ UNCHANGED machine
  /\ \/ /\ machine = "fleet"
        /\ FleetNext /\ UNCHANGED <<searchVars, planVars, plannerVars, evidenceVars, loopVars>>
     \/ /\ machine = "search"
        /\ SolveWorkloadOptimization /\ UNCHANGED <<fleetVars, planVars, plannerVars, evidenceVars, loopVars>>
     \/ /\ machine = "plan"
        /\ Compile /\ UNCHANGED <<fleetVars, searchVars, plannerVars, evidenceVars, loopVars>>
     \/ /\ machine = "deploy"
        /\ PlannerNext /\ UNCHANGED <<fleetVars, searchVars, planVars, evidenceVars, loopVars>>
     \/ /\ machine = "evidence"
        /\ EvidenceNext /\ UNCHANGED <<fleetVars, searchVars, planVars, plannerVars, loopVars>>
     \/ /\ machine = "loop"
        /\ LoopNext /\ UNCHANGED <<fleetVars, searchVars, planVars, plannerVars, evidenceVars>>

MCSpec == MCInit /\ [][MCNext]_mcVars
=============================================================================
