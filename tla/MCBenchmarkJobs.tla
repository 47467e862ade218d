--------------------------- MODULE MCBenchmarkJobs ---------------------------
(***************************************************************************)
(* A finite instance of BenchmarkJobs: the two seeded jobs and a new one,  *)
(* the seeded organization worker and a community worker that registers    *)
(* itself.  No daemon runs for the other worker of the seed.               *)
(***************************************************************************)
EXTENDS BenchmarkJobs, SeedData, TLC

CONSTANTS w1, w2, jDone, jSeed, jNew

SeedWorkerIds == << "no daemon", w2 >>

MCTier == [w \in {w1, w2} |-> IF w = w2 THEN SEED_WORKERS[2].tier ELSE TierRanking["community"]]

MCSeedOrder == << jDone, jSeed >>

\* the record of the i-th seeded job
RecordOf(i) ==
  LET seed == SEED_BENCHMARK_JOBS[i]
      by == IF seed.by = 0 THEN NoWorker ELSE SeedWorkerIds[seed.by]
  IN  [status |-> seed.status, need |-> seed.need, by |-> by,
       result |-> IF seed.status = "completed"
                  THEN [job |-> MCSeedOrder[i], by |-> by, turn |-> 0] ELSE NoResult]

MCSeedJobs ==
     jDone :> RecordOf(1) @@ jSeed :> RecordOf(2)
  @@ jNew :> [status |-> "absent", need |-> 0, by |-> NoWorker, result |-> NoResult]
=============================================================================
