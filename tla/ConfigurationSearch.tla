------------------------- MODULE ConfigurationSearch -------------------------
(***************************************************************************)
(* solveWorkloadOptimization of packages/optimizer (POST /optimizer) over  *)
(* computeModelFit of packages/model-fit: every device, count, precision   *)
(* and runtime a query allows is sized and scored, and the best five of    *)
(* those that fit and are affordable are recommended.                      *)
(*                                                                         *)
(* Numbers are integers: memory in hundredths of a gigabyte, prices in     *)
(* cents, rates in tenths of a token per second, milliseconds in tenths.   *)
(* The concurrency's power of 0.7 is a table.  Texts are left out.         *)
(***************************************************************************)
EXTENDS Integers, Sequences, SequencesExt, FiniteSetsExt, Ranking

CONSTANTS Catalogue,  \* list of devices
          Queries,    \* requests; 0 in a limit is "not given"; context and
                      \* window in thousands of tokens
          Scaling     \* concurrency -> 10 * concurrency^0.7

\* what HardwareDeviceSchema and OptimizerQuerySchema let through
ASSUME SearchAssumption ==
  /\ Catalogue \in Seq({Catalogue[i] : i \in DOMAIN Catalogue})
  /\ \A i \in DOMAIN Catalogue :
       /\ {Catalogue[i].memory, Catalogue[i].bandwidth, Catalogue[i].watts} \subseteq Nat \ {0}
       /\ Catalogue[i].price \in Nat
  /\ \A q \in Queries :
       /\ {q.params, q.elements, q.context, q.concurrency, q.window} \subseteq Nat \ {0}
       /\ q.target_tpot \in Nat /\ Scaling[Min({q.concurrency, 8})] \in Nat

VARIABLES query, result
searchVars == <<query, result>>

Rounded(a, b) == (2 * a + b) \div (2 * b)
Precisions == <<"fp16", "bf16", "fp8", "int8", "int4">>
Runtimes == <<"vllm", "llama.cpp">>

\* twentieths of a byte
BytesPerParam == [fp16 |-> 40, bf16 |-> 40, fp8 |-> 20, int8 |-> 20, int4 |-> 10]
KvBytes == [fp16 |-> 4, bf16 |-> 4, fp8 |-> 2, int8 |-> 2, int4 |-> 1]

Weights(q, c) == (q.params * BytesPerParam[c.precision]) \div 2
KvCacheOf(q, c, n) == (4096 * q.elements * q.context * KvBytes[c.precision] * n) \div 78125
KvCache(q, c) == KvCacheOf(q, c, q.concurrency)
Overhead(q, c) == (15 * Weights(q, c)) \div 100 + 120

\* mutant: the cache of one request only
RequiredAlone(q, c) == Weights(q, c) + KvCacheOf(q, c, 1) + Overhead(q, c)
Required(q, c) == Weights(q, c) + KvCache(q, c) + Overhead(q, c)

Memory(q, c) ==
  LET available == c.device.memory * c.count
      required == Required(q, c)
  IN  [available |-> available, required |-> required, is_oom |-> required > available,
       ratio |-> Rounded(1000 * required, available)]

MemoryFit(m) ==
  IF m.is_oom THEN Max({5, Rounded(30 * m.available, m.required)})
  ELSE IF m.ratio <= 750 THEN 100
  ELSE IF m.ratio <= 900 THEN 92
  ELSE 65

\* decoding is bound by the memory bus, of which 65 % is used
Speed(q, c) ==
  LET bus == c.device.bandwidth * c.count * 65
  IN  [tps |-> Rounded(bus * Scaling[Min({q.concurrency, 8})], Weights(q, c)),
       tpot |-> Rounded(10000 * Weights(q, c), bus)]

PerformanceFit(q, tpot) ==
  LET target == 10 * q.target_tpot
  IN  IF target = 0 THEN 85
      ELSE IF tpot <= target THEN Min({100, Rounded(100 * target - 15 * tpot, target)})
      ELSE Max({20, Rounded(135 * target - 50 * tpot, target)})

RuntimeFit(c) ==
  IF c.precision \notin c.device.precisions
  THEN IF c.runtime \in c.device.runtimes THEN 45 ELSE 40
  ELSE IF c.runtime \in c.device.runtimes THEN 95 ELSE 40

ContextFit(q) == IF q.context > q.window THEN 20 ELSE Rounded(100 * q.window - 15 * q.context, q.window)
EfficiencyFit(tps, c) == Min({100, Max({30, Rounded(400 * tps, c.device.watts * c.count)})})
EvidenceFit(c) == IF c.device.samples > 0 THEN 82 ELSE 52

Grade(score) == IF score >= 93 THEN "A+" ELSE IF score >= 85 THEN "A" ELSE IF score >= 75 THEN "B"
                ELSE IF score >= 60 THEN "C" ELSE IF score >= 45 THEN "D" ELSE "F"

\* computeModelFit: what does not fit scores 30 at most
ModelFit(q, c) ==
  LET m == Memory(q, c)
      speed == Speed(q, c)
      weighted == Rounded(35 * MemoryFit(m) + 25 * PerformanceFit(q, speed.tpot) + 15 * RuntimeFit(c)
                          + 10 * ContextFit(q) + 8 * EfficiencyFit(speed.tps, c) + 7 * EvidenceFit(c), 100)
      score == IF m.is_oom THEN Min({30, weighted}) ELSE weighted
  IN  [is_oom |-> m.is_oom, tps |-> speed.tps, tpot |-> speed.tpot, score |-> score, grade |-> Grade(score)]

\* what the nested loops visit; filtered devices and counts are not counted
Configurations(q) ==
  {c \in [device : {Catalogue[i] : i \in DOMAIN Catalogue}, count : {1, 2, 4},
          precision : ToSet(Precisions), runtime : ToSet(Runtimes)] :
     /\ q.vendors = {} \/ c.device.vendor \in q.vendors
     /\ q.precisions = {} \/ c.precision \in q.precisions
     /\ c.count <= q.max_devices
     /\ q.max_memory = 0 \/ c.device.memory * c.count <= q.max_memory
     /\ c.precision \in c.device.precisions
     /\ c.runtime \in c.device.runtimes}

\* a device without a price costs a dollar
CostPerHour(c) == (IF c.device.price = 0 THEN 100 ELSE c.device.price) * c.count
\* what makes no token costs $999
CostPerMillion(q, c) ==
  IF ModelFit(q, c).tps = 0 THEN 99900 ELSE Rounded(25000 * CostPerHour(c), 9 * ModelFit(q, c).tps)

Viable(q, c) ==
  /\ ~ModelFit(q, c).is_oom
  /\ q.max_cost = 0 \/ CostPerHour(c) <= q.max_cost
  /\ \/ q.max_million = 0
     \/ IF ModelFit(q, c).tps = 0 THEN 99900 <= q.max_million
        ELSE 25000 * CostPerHour(c) <= q.max_million * 9 * ModelFit(q, c).tps

\* what the comparator of the objective minimises
Penalty(q, c) ==
  IF q.objective = "lowest_cost" THEN CostPerMillion(q, c)
  ELSE IF q.objective = "lowest_latency" THEN ModelFit(q, c).tpot
  ELSE IF q.objective = "highest_throughput" THEN -ModelFit(q, c).tps
  ELSE IF q.objective = "lowest_vram" THEN Rounded(c.device.memory * c.count, 10)
  ELSE CostPerMillion(q, c) - 200 * ModelFit(q, c).score

\* candidates are pushed in the loops' order and the sort is stable
At(s, x) == CHOOSE i \in DOMAIN s : s[i] = x
Keys(q, c) == <<Penalty(q, c), At(Catalogue, c.device), c.count, At(Precisions, c.precision), At(Runtimes, c.runtime)>>
Keyed(k) == [device |-> Catalogue[k[2]], count |-> k[3], precision |-> Precisions[k[4]], runtime |-> Runtimes[k[5]]]

Ranked(q, cs) ==
  LET order == InOrder({Keys(q, c) : c \in cs}) IN [k \in DOMAIN order |-> Keyed(order[k])]

Unanswered == [total |-> 0, unviable |-> 0, top |-> <<>>]

SearchInit == query \in Queries /\ result = Unanswered

SolveWorkloadOptimization ==
  /\ result = Unanswered
  /\ \E valid \in {{c \in Configurations(query) : Viable(query, c)}} :
     \E ranked \in {Ranked(query, valid)} :
       result' = [total |-> Cardinality(Configurations(query)),
                  unviable |-> Cardinality(Configurations(query) \ valid),
                  top |-> SubSeq(ranked, 1, Min({5, Len(ranked)}))]
  /\ UNCHANGED query

SearchSpec == SearchInit /\ [][SolveWorkloadOptimization]_searchVars

(* What is asked of it *)

\* weights, caches, and an overhead of 15 % of the weights and 1.2 GB, up to
\* three hundredths of rounding
HoldsAt(q, c, bytes) ==
  2000 * (c.device.memory * c.count - 120 + 3) >= 1150 * q.params * bytes + 2000 * KvCache(q, c)

\* at what the code takes a parameter of each precision to be
Holds(q, c) == HoldsAt(q, c, BytesPerParam[c.precision])

\* A recommended configuration holds the weights, at the code's bytes for a
\* parameter, and the caches of all its requests at once, is within the
\* budget, and no allowed configuration that does was passed over for it
\* although it serves the objective better.  Latencies only weigh in the score.
RecommendedRunsAndLeads ==
  result # Unanswered =>
    LET top == ToSet(result.top)
        Affordable(c) == query.max_cost # 0 => CostPerHour(c) <= query.max_cost
        passedOver == {d \in Configurations(query) \ top : Viable(query, d)}
    IN  /\ \A c \in top : Holds(query, c) /\ Affordable(c) /\ ModelFit(query, c).grade # "F"
        /\ \A c \in top, d \in passedOver : Penalty(query, c) <= Penalty(query, d)

\* docs/MODELFIT.md:30: a parameter of INT4 takes 0.55 bytes.
HoldsByTheDocument ==
  \A c \in ToSet(result.top) : HoldsAt(query, c, [BytesPerParam EXCEPT !.int4 = 11][c.precision])

\* docs/OPTIMIZER.md:13: what is found is within the target for each token.
WithinLatency ==
  query.target_tpot # 0 =>
    \A c \in ToSet(result.top) : ModelFit(query, c).tpot <= 10 * query.target_tpot
=============================================================================
