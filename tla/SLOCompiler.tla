----------------------------- MODULE SLOCompiler -----------------------------
(***************************************************************************)
(* compileSLOToDeploymentPlan of packages/slo-compiler: candidates for     *)
(* every device and precision, a recommendation, and up to eight           *)
(* alternatives, of which the first show every other runtime.  POST /plans *)
(* saves the plan.  Units as in ConfigurationSearch; TTFT in milliseconds. *)
(***************************************************************************)
EXTENDS Integers, Sequences, SequencesExt, FiniteSetsExt, Ranking

CONSTANTS Hardware,   \* list of devices
          Requests    \* [params, context, concurrency, prompt, ttft, tps, cost, optimize_for]

ASSUME PlanAssumption ==
  /\ Hardware \in Seq({Hardware[i] : i \in DOMAIN Hardware})
  /\ \A i \in DOMAIN Hardware :
       {Hardware[i].memory, Hardware[i].observed} \subseteq Nat \ {0} /\ Hardware[i].price \in Nat
  /\ \A r \in Requests : {r.params, r.context, r.concurrency, r.prompt} \subseteq Nat

VARIABLES request, plan
planVars == <<request, plan>>

\* in the order in which they are tried
Order == <<"fp8", "fp16", "int4">>
Targets == <<"dynamo", "nim", "vllm", "gke-tpu", "vertex-ai">>

BytesPerHundred == [fp16 |-> 200, fp8 |-> 100, int4 |-> 55]

\* two kilobytes per token and layer, 64 layers; context in thousands of tokens
CacheOf(context, concurrency, precision) ==
  (1342 * context * concurrency * (IF precision = "fp16" THEN 2 ELSE 1)) \div 100

TotalMemory(r, precision) ==
  (r.params * BytesPerHundred[precision]) \div 10 + CacheOf(r.context, r.concurrency, precision) + 200

\* whole devices, nine tenths of each
DevicesFor(memory, hw) == Max({1, -((-10 * memory) \div (9 * hw.memory))})

DeviceCount(r, hw, precision) == DevicesFor(TotalMemory(r, precision), hw)

BaseTps(hw, precision, count) ==
  LET one == (75 * hw.observed) \div (2 * BytesPerHundred[precision])
  IN  Max({1, IF count > 1 THEN (one * count * 85) \div 100 ELSE one})

BaseTtft(r, hw) == Max({80, (10000 * r.prompt) \div (3 * hw.observed)})

\* what a device and a precision give before a target changes it
Base(r, i, precision) ==
  LET hw == Hardware[i]
      n == DeviceCount(r, hw, precision)
      tps == BaseTps(hw, precision, n)
  IN  [device |-> i, precision |-> precision, count |-> n, tps |-> tps, ttft |-> BaseTtft(r, hw),
       cost |-> (25000 * (IF hw.price = 0 THEN 150 ELSE hw.price) * n) \div (9 * tps)]

\* in hundredths of it; rank is compliance + confidence
Changed(b, runtime, t, l, c, rank) ==
  [runtime |-> runtime, device |-> b.device, precision |-> b.precision, count |-> b.count,
   tps |-> (b.tps * t) \div 100, ttft |-> (b.ttft * l) \div 100, cost |-> (b.cost * c) \div 100, rank |-> rank]

\* the only one that looks at what was asked
Dynamo(r, b) ==
  LET passes == /\ r.ttft = 0 \/ (b.ttft * 75) \div 100 <= r.ttft
                /\ r.tps = 0 \/ (b.tps * 135) \div 100 >= r.tps
                /\ r.cost = 0 \/ b.cost <= r.cost
  IN  Changed(b, "dynamo", 135, 75, 100, IF passes THEN 190 ELSE 157)

Nim(b) == Changed(b, "nim", 125, 85, 100, 184)
Vllm(b) == Changed(b, "vllm", 100, 100, 100, 185)
GkeTpu(b) == Changed(b, "gke-tpu", 130, 78, 100, 190)
VertexAi(b) == Changed(b, "vertex-ai", 123, 82, 110, 185)

Serves(r, runtime, hw, precision) ==
  CASE runtime = "dynamo" -> /\ hw.vendor = "nvidia" /\ hw.arch \in {"Hopper", "Blackwell", "Ada"}
                             /\ r.concurrency >= 8
    [] runtime = "nim" -> hw.vendor = "nvidia" /\ precision = "fp8"
    [] runtime = "vllm" -> TRUE
    [] OTHER -> hw.vendor = "google"

\* a device, a precision and a target of the loops; one node holds eight devices
Slots(r) ==
  {s \in (DOMAIN Hardware) \X (DOMAIN Order) \X (DOMAIN Targets) :
     /\ DeviceCount(r, Hardware[s[1]], Order[s[2]]) <= 8
     /\ Serves(r, Targets[s[3]], Hardware[s[1]], Order[s[2]])}

Candidate(r, s) ==
  LET b == Base(r, s[1], Order[s[2]])
  IN  <<Dynamo(r, b), Nim(b), Vllm(b), GkeTpu(b), VertexAi(b)>>[s[3]]

Candidates(r) == {Candidate(r, s) : s \in Slots(r)}

Key(r, c) ==
  IF r.optimize_for = "cost" THEN c.cost
  ELSE IF r.optimize_for = "latency" THEN c.ttft
  ELSE IF r.optimize_for = "throughput" THEN -c.tps
  ELSE -c.rank

\* the sort keeps the loops' order
Sorted(r) ==
  LET order == InOrder({<<Key(r, Candidate(r, s)), s[1], s[2], s[3]>> : s \in Slots(r)})
  IN  [k \in DOMAIN order |-> Candidate(r, Tail(order[k]))]

\* first pass: the best candidate of every runtime not yet shown, six at most
Diverse(cs) ==
  LET news == {i \in 2..Len(cs) : \A j \in 1..(i - 1) : cs[j].runtime # cs[i].runtime}
      order == Ascending(news)
  IN  SubSeq(order, 1, Min({6, Len(order)}))

\* mutant: the second pass alone
AlternativesByRank(cs) == SubSeq(Tail(cs), 1, Min({8, Len(cs) - 1}))

\* second pass: filled up to eight with the best of the rest
Alternatives(cs) ==
  LET first == Diverse(cs)
      rest == Ascending((2..Len(cs)) \ ToSet(first))
      all == first \o rest
  IN  [k \in 1..Min({8, Len(all)}) |-> cs[all[k]]]

NoPlan == [status |-> "none"]

PlanInit == request \in Requests /\ plan = NoPlan

\* without a candidate, candidates[0] is undefined and the route answers 400
Compile ==
  /\ plan = NoPlan
  /\ \E ranked \in {Sorted(request)} :
       plan' = IF ranked = <<>> THEN [status |-> "error"]
               ELSE [status |-> "saved", recommended |-> ranked[1], alternatives |-> Alternatives(ranked)]
  /\ UNCHANGED request

PlanSpec == PlanInit /\ [][Compile]_planVars

(* What is asked of it *)

Shown == <<plan.recommended>> \o plan.alternatives

\* A saved plan shows every runtime that has a candidate, each candidate
\* once, and behind the recommendation nothing its objective would put first.
\* What it shows fits in nine tenths of at most eight devices.
PlansSpanRuntimes ==
  plan.status = "saved" =>
    LET cs == Candidates(request)
    IN  /\ {c.runtime : c \in cs} = {c.runtime : c \in ToSet(Shown)}
        /\ Cardinality(ToSet(Shown)) = Len(Shown) /\ Len(Shown) = Min({9, Cardinality(cs)})
        /\ \A c \in cs : Key(request, plan.recommended) <= Key(request, c)
        /\ \A c \in ToSet(Shown) :
             /\ c.count <= 8
             /\ 9 * c.count * Hardware[c.device].memory >= 10 * TotalMemory(request, c.precision)

\* docs/slo-compiler.md:15: the cost is minimised subject to the latency and
\* memory limits.  When a candidate meets what was asked, so does the advice.
Meets(r, c) ==
  /\ r.ttft # 0 => c.ttft <= r.ttft
  /\ r.tps # 0 => c.tps >= r.tps
  /\ r.cost # 0 => c.cost <= r.cost

RecommendationMeetsTargets ==
  plan.status = "saved" /\ (\E c \in Candidates(request) : Meets(request, c))
    => Meets(request, plan.recommended)
=============================================================================
