-------------------------- MODULE DeploymentPlanner --------------------------
(***************************************************************************)
(* `modelforge deploy-plan` of packages/benchmark-cli: planner.py ranks    *)
(* deployment candidates for a workload and writes the plan, a manifest    *)
(* and its notes into a directory, file by file.  The directory outlives   *)
(* the command, and so does what an interrupted command left in it.        *)
(* Parameters are in tenths of a billion, memory in hundredths of a        *)
(* gigabyte, rates in hundredths of a token per second, prices in cents.   *)
(***************************************************************************)
EXTENDS Integers, Sequences, SequencesExt, FiniteSetsExt, Ranking

CONSTANTS Workloads,   \* [found (in the model's name), context (thousands), concurrency, ttft, cost]
          Asked,       \* --target: what a user may type
          MaxCommands  \* bound: commands run on one directory

ASSUME PlannerAssumption ==
  \A w \in Workloads : w.context \in Nat /\ w.concurrency \in Nat /\ w.ttft \in Nat /\ w.cost \in Nat

VARIABLES directory,   \* [file name -> {} or {[command, target, chosen]}]; torn files have chosen = {}
          pending,     \* the files the running command has still to write
          commands     \* commands run so far

plannerVars == <<directory, pending, commands>>

Profile(vendor, vram, bandwidth, price) ==
  [vendor |-> vendor, vram |-> vram, bandwidth |-> bandwidth, price |-> price]

HARDWARE_PROFILES ==
  <<Profile("nvidia", 8000, 3350, 320), Profile("nvidia", 14100, 4800, 410),
    Profile("nvidia", 4800, 864, 115), Profile("nvidia", 2400, 1008, 75),
    Profile("amd", 19200, 5300, 350)>>

ModelSizes ==
  <<<<{"70"}, 706>>, <<{"32"}, 325>>, <<{"27"}, 272>>, <<{"12", "nemo"}, 122>>, <<{"8", "7b"}, 80>>>>

\* parse_model_params_billions: the first of these found in the name decides;
\* without any it is a 32B model
ModelParams(found) ==
  LET hits == {k \in DOMAIN ModelSizes : ModelSizes[k][1] \intersect found # {}}
  IN  IF hits = {} THEN 325 ELSE ModelSizes[Min(hits)][2]

-----------------------------------------------------------------------------
(* synthesize_candidates                                                   *)

Bytes(precision) == IF precision = "fp8" THEN 1 ELSE 2

TotalVram(w, precision) ==
  10 * ModelParams(w.found) * Bytes(precision) + (1342 * w.context * w.concurrency) \div 100 + 200

\* nine tenths of each device, rounded up
GpusNeeded(w, hw, precision) == Max({1, -((-10 * TotalVram(w, precision)) \div (9 * hw.vram))})

BaseRate(hw, precision, gpus) ==
  LET one == (40 * hw.bandwidth) \div (11 * Bytes(precision))
  IN  IF gpus > 1 THEN (one * gpus * 85) \div 100 ELSE one

FirstToken(w, hw) == Max({75, (409600 * w.context) \div hw.bandwidth})

CostOfMillion(hw, gpus, rate) == (27778 * hw.price * gpus) \div rate

\* how well the limits are met
Fitness(w, wait, cost) ==
  IF wait <= w.ttft THEN IF cost <= w.cost THEN 98 ELSE 90
  ELSE IF cost <= w.cost THEN 85 ELSE 75

\* what a device and a precision are good for
OffersOf(w, i, precision) ==
  LET hw == HARDWARE_PROFILES[i]
      n == GpusNeeded(w, hw, precision)
      rate == BaseRate(hw, precision, n)
      wait == FirstToken(w, hw)
      cost == CostOfMillion(hw, n, rate)
      fit == Fitness(w, wait, cost)
      offer(runtime, gpus, t, l, c, score) ==
        [runtime |-> runtime, device |-> i, precision |-> precision, gpus |-> gpus,
         rate |-> (rate * t) \div 100, wait |-> (wait * l) \div 100, cost |-> (cost * c) \div 100, fit |-> score]
      nvidia == hw.vendor = "nvidia"
  IN  IF n > 8 THEN {}
      ELSE {offer("vllm", n, 100, 100, 100, fit)}
           \union (IF nvidia THEN {offer("nim", n, 115, 88, 100, fit)} ELSE {})
           \union (IF nvidia /\ w.concurrency >= 4
                   THEN {offer("dynamo", IF n = 1 THEN 2 ELSE n, 135, 75, 115, fit + 3)} ELSE {})

AllOffers(w) == UNION {OffersOf(w, i, precision) : i \in DOMAIN HARDWARE_PROFILES, precision \in {"fp8", "fp16"}}

\* the best fit, then the lower cost, then the higher rate, then the one that
\* the loops came to first
Place(c) ==
  <<-c.fit, c.cost, -c.rate, c.device, IF c.precision = "fp8" THEN 1 ELSE 2,
    IF c.runtime = "dynamo" THEN 1 ELSE IF c.runtime = "nim" THEN 2 ELSE 3>>

\* the six best
SynthesizeCandidates(w) ==
  LET order == InOrder({Place(c) : c \in AllOffers(w)})
  IN  [k \in 1..Min({6, Len(order)}) |-> CHOOSE c \in AllOffers(w) : Place(c) = order[k]]

-----------------------------------------------------------------------------
(* run_deploy_plan                                                         *)

\* what is typed is looked for in the label and in the name of the runtime
Matches(target, c) ==
  \/ target = c.runtime
  \/ target = "nvidia" /\ c.runtime \in {"dynamo", "nim"}

\* what the plan will recommend: the best that matches, if any does
Chosen(w, target) ==
  LET cs == SynthesizeCandidates(w)
      hits == {k \in DOMAIN cs : Matches(target, cs[k])}
  IN  IF hits = {} THEN {} ELSE {cs[Min(hits)]}

\* anything but the two names gets vLLM's manifests
Manifests(target) ==
  IF target = "dynamo" THEN <<"dynamo-config.yaml">>
  ELSE IF target = "nim" THEN <<"docker-compose.yaml">>
  ELSE <<"docker-compose.yaml", "run-vllm.sh">>

Notes == <<"environment.env.example", "README.md", "deployment-notes.md">>

\* mutant: the notes come before what they are about
WritingOrderNotesFirst(target) == <<"plan.json">> \o Notes \o Manifests(target)

WritingOrder(target) == <<"plan.json">> \o Manifests(target) \o Notes

\* devices that a server started from this manifest gets; Dynamo's has two
\* roles, each of which serves the model on half of the devices planned
ServerGpus(file, c) == IF file = "dynamo-config.yaml" THEN Max({1, c.gpus \div 2}) ELSE c.gpus

\* the file the notes tell the user to launch
Launched(target) ==
  IF target \in {"nim", "vllm"} THEN "docker-compose.yaml" ELSE "dynamo-config.yaml"

Files == {"plan.json", "dynamo-config.yaml", "docker-compose.yaml", "run-vllm.sh"} \union ToSet(Notes)

PlannerInit ==
  /\ directory = [f \in Files |-> {}]
  /\ pending = <<>> /\ commands = 0

\* a target no candidate matches is reported and nothing is written
DeployPlan(w, target) ==
  /\ pending = <<>> /\ commands < MaxCommands
  /\ commands' = commands + 1
  /\ pending' = IF Chosen(w, target) = {} THEN <<>>
                 ELSE [k \in DOMAIN WritingOrder(target) |->
                         [file |-> WritingOrder(target)[k], target |-> target, workload |-> w,
                          chosen |-> Chosen(w, target)]]
  /\ UNCHANGED directory

Written(p, whole) ==
  [directory EXCEPT ![p.file] =
     {[command |-> commands, target |-> p.target, workload |-> p.workload,
       chosen |-> IF whole THEN p.chosen ELSE {}]}]

WriteFile ==
  /\ pending # <<>>
  /\ directory' = Written(Head(pending), TRUE)
  /\ pending' = Tail(pending)
  /\ UNCHANGED commands

\* the command is stopped, or a write fails: the file it had opened is empty
Interrupt ==
  /\ pending # <<>>
  /\ directory' \in {directory, Written(Head(pending), FALSE)}
  /\ pending' = <<>>
  /\ UNCHANGED commands

PlannerNext ==
  \/ \E w \in Workloads, target \in Asked : DeployPlan(w, target)
  \/ WriteFile
  \/ Interrupt

PlannerSpec == PlannerInit /\ [][PlannerNext]_plannerVars

-----------------------------------------------------------------------------
(* Properties                                                              *)

Whole(f) == {e \in directory[f] : e.chosen # {}}

\* What the manifest launches holds the model, in the planned precision and
\* in nine tenths of the devices it is given.
HoldsModel(file) ==
  \A e \in Whole(file) : \A c \in e.chosen :
    9 * ServerGpus(file, c) * HARDWARE_PROFILES[c.device].vram >= 10 * TotalVram(e.workload, c.precision)

\* Through commands for several workloads and targets on one directory, some
\* of them interrupted: where whole notes for one of the documented targets
\* (cli.py deploy-plan: Dynamo, NIM, vLLM) lie, the plan and the file they
\* tell the user to launch are there, whole and of the notes' own command, or
\* a later command has begun to replace them; and what the compose file, NIM's
\* or vLLM's, launches holds the model it was planned for.
NotesLaunchThePlan ==
  /\ \A notes \in Whole("README.md") :
       notes.target \in {"dynamo", "nim", "vllm"} =>
         \A f \in {"plan.json", Launched(notes.target)} :
           directory[f] # {} /\ \A e \in directory[f] : e = notes \/ e.command > notes.command
  /\ HoldsModel("docker-compose.yaml")

\* "validated manifest files" (run_deploy_plan): the same of Dynamo's, both of
\* whose roles serve the whole model.
RolesHoldTheModel == HoldsModel("dynamo-config.yaml")
=============================================================================
