---------------------------- MODULE EvidenceStore ----------------------------
(***************************************************************************)
(* Benchmark records of the data layer: how they come in (submissions, and *)
(* results of jobs), how they age, and what is read from them: the         *)
(* coverage matrix and the predictor's nearest neighbours.                 *)
(*                                                                         *)
(* A record's hashes are one bit, `sound`.  A day here is 61 days: a       *)
(* record is AGING after one of them and STALE after three (60 and 180).   *)
(* Distances are in hundredths; that of two model sizes is a table.        *)
(***************************************************************************)
EXTENDS Integers, Sequences, SequencesExt, FiniteSetsExt, Ranking

CONSTANTS Records,       \* what is submitted and reported
          Seeds, SeedAge, \* the records of a fresh store, and their age in days
          PostedAges,    \* how old what comes in says it is, in days of the model
          MaxRecords,    \* bound: records in the store
          MaxDays,       \* bound: age of the store
          SizeDistance   \* 150 * |ln(size1 / size2)|

OpenComputeBenchRecord ==
  [id : STRING, size : Nat, device : STRING, runtime : STRING, precision : STRING,
   synthetic : BOOLEAN, verified : BOOLEAN, sound : BOOLEAN]

Known == Records \union {Seeds[i] : i \in DOMAIN Seeds}

ASSUME EvidenceAssumption ==
  /\ Records \subseteq OpenComputeBenchRecord /\ Seeds \in Seq(OpenComputeBenchRecord)
  /\ SeedAge \in Nat /\ PostedAges \subseteq Int
  /\ \A r, s \in Known : SizeDistance[<<r.size, s.size>>] \in Nat

VARIABLES benchmarks,    \* the Map's values, in the order of insertion
          today

evidenceVars == <<benchmarks, today>>

\* Map.set: a known id keeps its place
Stored(bs, r) ==
  LET at == {i \in DOMAIN bs : bs[i].id = r.id}
  IN  IF at = {} THEN Append(bs, r) ELSE [i \in DOMAIN bs |-> IF i \in at THEN r ELSE bs[i]]

Integrity(r) == r.sound /\ ~(r.synthetic /\ r.verified)

Dated(r, day) == [f \in DOMAIN r \union {"completed"} |-> IF f = "completed" THEN day ELSE r[f]]
Room == Len(benchmarks) < MaxRecords

\* POST /benchmark-submissions; completed_at is the client's
SubmitBenchmark(r, age) ==
  /\ Room /\ Integrity(r)
  /\ benchmarks' = Stored(benchmarks, Dated(r, today - age))
  /\ UNCHANGED today

\* POST /jobs/[id]/complete parses the record and adds it
AddJobResult(r, age) ==
  /\ Room
  /\ benchmarks' = Stored(benchmarks, Dated(r, today - age))
  /\ UNCHANGED today

DaysPass == today < MaxDays /\ today' = today + 1 /\ UNCHANGED benchmarks

EvidenceInit ==
  /\ benchmarks = [i \in DOMAIN Seeds |-> Dated(Seeds[i], -SeedAge)]
  /\ today = 0
EvidenceNext ==
  DaysPass \/ \E r \in Records, age \in PostedAges : SubmitBenchmark(r, age) \/ AddJobResult(r, age)
EvidenceSpec == EvidenceInit /\ [][EvidenceNext]_evidenceVars

Freshness(r) == IF today - r.completed >= 3 THEN "STALE"
                ELSE IF today - r.completed >= 1 THEN "AGING" ELSE "CURRENT"

Same(a, b) == /\ a.size = b.size /\ a.device = b.device
              /\ a.runtime = b.runtime /\ a.precision = b.precision

\* getCoverageMatrix: the first record of the cell speaks for it
Coverage(cell) ==
  LET matches == {i \in DOMAIN benchmarks : Same(benchmarks[i], cell)}
  IN  IF matches = {} THEN [status |-> "untested", by |-> 0]
      ELSE LET i == Min(matches)
           IN  [status |-> IF Freshness(benchmarks[i]) = "STALE" THEN "stale" ELSE "covered", by |-> i]

Distance(target, r) ==
  SizeDistance[<<target.size, r.size>>]
    + (IF r.device = target.device THEN 0 ELSE 80)
    + (IF r.runtime = target.runtime THEN 0 ELSE 50)
    + (IF r.precision = target.precision THEN 0 ELSE 30)

\* mutant: fixtures are evidence too
EligibleAll == DOMAIN benchmarks
Eligible == {i \in DOMAIN benchmarks : ~benchmarks[i].synthetic}

Neighbours(target) ==
  LET order == InOrder({<<Distance(target, benchmarks[i]), i>> : i \in Eligible})
  IN  [k \in DOMAIN order |-> order[k][2]]

\* predictWithNeighbors: the class of a prediction, its interval in per cent,
\* whether the nearest record's figures are blended in, and what it cites
Prediction(target) ==
  LET near == Neighbours(target)
      d == IF near = <<>> THEN 1000 ELSE Distance(target, benchmarks[near[1]])
  IN  [confidence |-> IF d < 35 THEN "high" ELSE IF d < 120 THEN "medium" ELSE "low",
       interval |-> IF d < 35 THEN 10 ELSE IF d < 120 THEN 20 ELSE 35,
       blended |-> d < 100,
       cites |-> SubSeq(near, 1, Min({3, Len(near)}))]

(* What is asked of it *)

Real(i) == ~benchmarks[i].synthetic

\* What a prediction claims, it has evidence for, whatever came in by either
\* door and replaced what under its id: it cites real runs, verified or not,
\* and none farther than a real run it leaves out; high confidence rests on a
\* first one of the same device and runtime, and only what has a near one is
\* blended with it.
ClaimsHaveEvidence ==
  \A target \in Records :
    LET p == Prediction(target)
        cited == ToSet(p.cites)
    IN  /\ \A i \in cited : i \in DOMAIN benchmarks /\ Real(i)
        /\ \A i \in cited, j \in DOMAIN benchmarks \ cited :
             Real(j) => Distance(target, benchmarks[i]) <= Distance(target, benchmarks[j])
        /\ p.confidence = "high" =>
             /\ p.cites # <<>>
             /\ benchmarks[p.cites[1]].device = target.device
             /\ benchmarks[p.cites[1]].runtime = target.runtime
        /\ p.blended => p.confidence # "low" /\ p.cites # <<>>

\* interpolator.ts:64, docs/PERFORMANCE_PREDICTION.md:45: the neighbours are
\* verified records.
NeighboursAreVerified ==
  \A target \in Records : \A i \in ToSet(Prediction(target).cites) : benchmarks[i].verified

\* docs/BENCHMARKING.md:28: a synthetic fixture "Can never be labeled as
\* verified", whichever way a record comes in.
SyntheticIsNeverVerified ==
  \A i \in DOMAIN benchmarks : ~(benchmarks[i].synthetic /\ benchmarks[i].verified)

\* A cell is not called stale while a newer run of it is in the store.
FreshRunsCover ==
  \A i \in DOMAIN benchmarks :
    Freshness(benchmarks[i]) # "STALE" => Coverage(benchmarks[i]).status # "stale"
=============================================================================
