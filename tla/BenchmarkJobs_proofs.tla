------------------------ MODULE BenchmarkJobs_proofs ------------------------
(***************************************************************************)
(* Safety of the benchmark queue for any workers, tiers, seeds and bounds. *)
(* Runs and reports carry the number of the claim they come from;          *)
(* RunsWereClaimed says that claim was made, which is what a completion    *)
(* needs to leave a result of the job's own.                               *)
(***************************************************************************)
EXTENDS BenchmarkJobs, TLAPS

RunsWereClaimed ==
  /\ \A w \in Workers : daemon[w].at = "running" =>
       daemon[w].run.turn <= claimed[daemon[w].run.job]
  /\ \A e \in reports : e.turn <= claimed[e.job]

IInv ==
  /\ TypeOK
  /\ OneRunPerPost
  /\ ClaimsWithinTier
  /\ RunsWereClaimed
  /\ ResultsAreStored

\* What the daemons' own steps, which leave the store alone, have to show.
LEMMA DaemonStep ==
  ASSUME IInv, UNCHANGED << store, history >>,
         daemon' \in [Workers -> Daemon], late' \subseteq Workers,
         posts' = posts, restarts' = restarts, reports' \subseteq Execution,
         \A w \in Workers : daemon'[w].at = "running" =>
           daemon'[w].run.turn <= claimed[daemon'[w].run.job],
         \A e \in reports' : e.turn <= claimed[e.job]
  PROVE  IInv'
<1>1. TypeOK'
  BY DEF IInv, TypeOK, store, history
<1>2. OneRunPerPost' /\ ResultsAreStored'
  BY DEF IInv, OneRunPerPost, ResultsAreStored, store, history
<1>3. ClaimsWithinTier'
  BY DEF IInv, ClaimsWithinTier, store
<1>4. RunsWereClaimed'
  BY DEF RunsWereClaimed, history
<1>. QED BY <1>1, <1>2, <1>3, <1>4 DEF IInv

\* A handed out job: the record, the count, and what follows for the store.
LEMMA ClaimStep ==
  ASSUME IInv, NEW w \in Workers, NEW j \in Jobs, ClaimJob(w, j)
  PROVE  /\ jobs' \in [Jobs -> Job]
         /\ claimed' \in [Jobs -> Nat]
         /\ claimed'[j] = claimed[j] + 1
         /\ \A k \in Jobs : claimed[k] <= claimed'[k]
         /\ \A k \in Jobs : k # j => jobs'[k] = jobs[k] /\ claimed'[k] = claimed[k]
         /\ jobs'[j].status = "assigned" /\ jobs'[j].by = w
         /\ jobs'[j].need = jobs[j].need
         /\ jobs[j].status = "queued" /\ jobs[j].need <= Tier[w]
<1>1. jobs \in [Jobs -> Job] /\ claimed \in [Jobs -> Nat]
  BY DEF IInv, TypeOK
<1>2. jobs[j].status = "queued" /\ jobs[j].need <= Tier[w]
  BY DEF ClaimJob, NextFor, Claimable
<1>3. /\ jobs' = [jobs EXCEPT ![j].status = "assigned", ![j].by = w]
      /\ claimed' = [claimed EXCEPT ![j] = @ + 1]
  BY DEF ClaimJob
<1>4. /\ "assigned" \in {"absent", "queued", "assigned", "completed"}
      /\ w \in Workers \cup {NoWorker}
  OBVIOUS
<1>5. jobs[j] \in Job
  BY <1>1
<1>6. jobs'[j] = [jobs[j] EXCEPT !.status = "assigned", !.by = w]
  BY <1>1, <1>3
<1>7. /\ jobs'[j] \in Job /\ jobs'[j].status = "assigned" /\ jobs'[j].by = w
      /\ jobs'[j].need = jobs[j].need
  BY <1>4, <1>5, <1>6 DEF Job
<1>8. \A k \in Jobs : k # j => jobs'[k] = jobs[k] /\ claimed'[k] = claimed[k]
  BY <1>1, <1>3
<1>9. jobs' \in [Jobs -> Job]
  BY <1>1, <1>3, <1>7, <1>8
<1>10. claimed'[j] = claimed[j] + 1 /\ claimed' \in [Jobs -> Nat]
  BY <1>1, <1>3
<1>11. \A k \in Jobs : claimed[k] <= claimed'[k]
  BY <1>1, <1>8, <1>10
<1>. QED BY <1>2, <1>7, <1>8, <1>9, <1>10, <1>11

\* Handing out keeps the parts of the invariant that are about the store.
LEMMA ClaimKeepsStore ==
  ASSUME IInv, NEW w \in Workers, NEW j \in Jobs, ClaimJob(w, j),
         UNCHANGED << benchmarks, posted >>
  PROVE  OneRunPerPost' /\ ClaimsWithinTier' /\ ResultsAreStored'
<1>. USE ClaimStep
<1>0. claimed \in [Jobs -> Nat] /\ posted \in [Jobs -> Nat] /\ jobs \in [Jobs -> Job]
  BY DEF IInv, TypeOK
<1>1. OneRunPerPost'
  <2> SUFFICES ASSUME NEW k \in Jobs
               PROVE  /\ claimed'[k] <= posted[k]
                      /\ jobs'[k].status = "queued" => claimed'[k] < posted[k]
    BY DEF OneRunPerPost
  <2>1. /\ claimed[k] <= posted[k]
        /\ jobs[k].status = "queued" => claimed[k] < posted[k]
    BY DEF IInv, OneRunPerPost
  <2>2. CASE k = j
    BY <1>0, <2>1, <2>2
  <2>3. CASE k # j
    BY <2>1, <2>3
  <2>. QED BY <2>2, <2>3
<1>2. ClaimsWithinTier'
  BY DEF IInv, ClaimsWithinTier
<1>3. ResultsAreStored'
  <2> SUFFICES ASSUME NEW k \in Jobs, jobs'[k].status = "completed"
               PROVE  /\ jobs'[k].result \in benchmarks
                      /\ jobs'[k].result.job = k
                      /\ jobs'[k].result.turn <= claimed'[k]
    BY DEF ResultsAreStored
  <2>1. k # j
    OBVIOUS
  <2>. QED BY <2>1 DEF IInv, ResultsAreStored
<1>. QED BY <1>1, <1>2, <1>3

\* Counts only grow, so what was claimed stays claimed.
LEMMA ClaimsKept ==
  ASSUME IInv, NEW w \in Workers, NEW j \in Jobs, ClaimJob(w, j)
  PROVE  /\ \A v \in Workers : daemon[v].at = "running" =>
               daemon[v].run.turn <= claimed'[daemon[v].run.job]
         /\ \A e \in reports : e.turn <= claimed'[e.job]
<1>0. /\ claimed \in [Jobs -> Nat] /\ claimed' \in [Jobs -> Nat]
      /\ \A k \in Jobs : claimed[k] <= claimed'[k]
  BY ClaimStep DEF IInv, TypeOK
<1>1. ASSUME NEW v \in Workers, daemon[v].at = "running"
      PROVE  daemon[v].run.turn <= claimed'[daemon[v].run.job]
  <2>1. daemon[v].run \in Execution
    BY <1>1 DEF IInv, TypeOK, Daemon, Down, Resting, Polling
  <2>2. daemon[v].run.turn <= claimed[daemon[v].run.job]
    BY <1>1 DEF IInv, RunsWereClaimed
  <2>. QED BY <1>0, <2>1, <2>2 DEF Execution
<1>2. ASSUME NEW e \in reports
      PROVE  e.turn <= claimed'[e.job]
  <2>1. e \in Execution /\ e.turn <= claimed[e.job]
    BY DEF IInv, TypeOK, RunsWereClaimed
  <2>. QED BY <1>0, <2>1 DEF Execution
<1>. QED BY <1>1, <1>2

LEMMA InitEstablishes == Init => IInv
<1> SUFFICES ASSUME Init PROVE IInv
  OBVIOUS
<1>0. /\ SeedJobs \in [Jobs -> Job]
      /\ \A j \in Jobs : SeedJobs[j].status \in {"absent", "queued", "completed"}
      /\ \A j \in Jobs : SeedJobs[j].status = "completed" =>
           /\ SeedJobs[j].result \in Execution
           /\ SeedJobs[j].result.job = j /\ SeedJobs[j].result.turn = 0
           /\ SeedJobs[j].need <= Tier[SeedJobs[j].by]
      /\ \A j \in Jobs : SeedJobs[j].status # "completed" => SeedJobs[j].by = NoWorker
  BY JobsAssumption DEF Seeded, Job, Execution
<1>1. benchmarks \subseteq Execution
  BY <1>0 DEF Init, SeedBenchmarks, Seeded
<1>2. TypeOK
  BY <1>0, <1>1, JobsAssumption DEF Init, TypeOK, Daemon
<1>3. OneRunPerPost
  BY <1>0 DEF Init, OneRunPerPost, Seeded
<1>4. ClaimsWithinTier
  BY <1>0 DEF Init, ClaimsWithinTier
<1>5. RunsWereClaimed
  BY DEF Init, RunsWereClaimed, Down
<1>6. ResultsAreStored
  BY <1>0 DEF Init, ResultsAreStored, SeedBenchmarks, Seeded
<1>. QED BY <1>2, <1>3, <1>4, <1>5, <1>6 DEF IInv

LEMMA PostStep ==
  ASSUME IInv, NEW j \in Jobs, NEW need \in Needs, Post(j, need)
  PROVE  IInv'
<1>0. TypeOK /\ need \in Nat
  BY JobsAssumption DEF IInv
<1>1. /\ jobs' = [jobs EXCEPT ![j] = [status |-> "queued", need |-> need,
                                      by |-> NoWorker, result |-> NoResult]]
      /\ posted' = [posted EXCEPT ![j] = posted[j] + 1]
      /\ UNCHANGED << registered, benchmarks, daemon, late, reports, restarts, claimed >>
  BY DEF Post
<1>2. \A k \in Jobs : k # j => jobs'[k] = jobs[k] /\ posted'[k] = posted[k]
  BY <1>0, <1>1 DEF TypeOK
<1>3. /\ jobs'[j].status = "queued" /\ jobs'[j].by = NoWorker
      /\ posted'[j] = posted[j] + 1
  BY <1>0, <1>1 DEF TypeOK
<1>4. TypeOK'
  <2>1. jobs' \in [Jobs -> Job]
    BY <1>0, <1>1 DEF TypeOK, Job
  <2>2. order' \in Seq(Jobs)
    BY <1>0 DEF TypeOK, Post
  <2>3. posts' \in 0 .. MaxPosts
    BY <1>0, JobsAssumption DEF TypeOK, Post
  <2>4. posted' \in [Jobs -> Nat]
    BY <1>0, <1>1 DEF TypeOK
  <2>. QED BY <1>0, <1>1, <2>1, <2>2, <2>3, <2>4 DEF TypeOK
<1>5. OneRunPerPost'
  <2> SUFFICES ASSUME NEW k \in Jobs
               PROVE  /\ claimed[k] <= posted'[k]
                      /\ jobs'[k].status = "queued" => claimed[k] < posted'[k]
    BY <1>1 DEF OneRunPerPost
  <2>1. claimed[k] \in Nat /\ posted[k] \in Nat /\ claimed[k] <= posted[k]
    BY <1>0 DEF IInv, OneRunPerPost, TypeOK
  <2>2. CASE k = j
    BY <1>3, <2>1, <2>2
  <2>3. CASE k # j
    BY <1>2, <2>3 DEF IInv, OneRunPerPost
  <2>. QED BY <2>2, <2>3
<1>6. ClaimsWithinTier'
  BY <1>2, <1>3 DEF IInv, ClaimsWithinTier
<1>7. RunsWereClaimed'
  BY <1>1 DEF IInv, RunsWereClaimed
<1>8. ResultsAreStored'
  <2> SUFFICES ASSUME NEW k \in Jobs, jobs'[k].status = "completed"
               PROVE  /\ jobs'[k].result \in benchmarks
                      /\ jobs'[k].result.job = k
                      /\ jobs'[k].result.turn <= claimed[k]
    BY <1>1 DEF ResultsAreStored
  <2>1. k # j
    BY <1>3
  <2>. QED BY <1>2, <2>1 DEF IInv, ResultsAreStored
<1>. QED BY <1>4, <1>5, <1>6, <1>7, <1>8 DEF IInv

LEMMA CompleteStep ==
  ASSUME IInv, NEW e \in reports, Complete(e)
  PROVE  IInv'
<1>0. /\ TypeOK /\ e \in Execution /\ e.job \in Jobs
      /\ e.turn <= claimed[e.job]
  BY DEF IInv, TypeOK, RunsWereClaimed, Execution
<1>1. /\ benchmarks' = benchmarks \cup {e}
      /\ reports' = reports \ {e}
      /\ UNCHANGED << order, registered, daemon, late, posts, restarts, posted, claimed >>
  BY DEF Complete, AddBenchmark, history
<1>2. \A k \in Jobs : k # e.job => jobs'[k] = jobs[k]
  BY <1>0 DEF Complete, CompleteJob, TypeOK
<1>3. \/ jobs'[e.job] = jobs[e.job] /\ jobs'[e.job].status = "absent"
      \/ /\ jobs'[e.job] \in Job /\ jobs'[e.job].status = "completed"
         /\ jobs'[e.job].result = e
         /\ jobs'[e.job].by = jobs[e.job].by /\ jobs'[e.job].need = jobs[e.job].need
  <2>1. CASE jobs[e.job].status = "absent"
    BY <2>1 DEF Complete, CompleteJob
  <2>2. CASE jobs[e.job].status # "absent"
    <3>1. jobs' = [jobs EXCEPT ![e.job].status = "completed", ![e.job].result = e]
      BY <2>2 DEF Complete, CompleteJob
    <3>2. jobs[e.job] \in Job /\ "completed" \in {"absent", "queued", "assigned", "completed"}
          /\ e \in Execution \cup {NoResult}
      BY <1>0 DEF TypeOK
    <3>3. jobs'[e.job] = [jobs[e.job] EXCEPT !.status = "completed", !.result = e]
      BY <1>0, <3>1 DEF TypeOK
    <3>. QED BY <3>2, <3>3 DEF Job
  <2>. QED BY <2>1, <2>2
<1>4. jobs' \in [Jobs -> Job]
  <2>1. \A k \in Jobs : jobs'[k] \in Job
    BY <1>0, <1>2, <1>3 DEF TypeOK
  <2>2. jobs' = [k \in Jobs |-> jobs'[k]]
    BY <1>0 DEF Complete, CompleteJob, TypeOK
  <2>. QED BY <2>1, <2>2
<1>5. TypeOK'
  BY <1>0, <1>1, <1>4 DEF TypeOK
<1>6. OneRunPerPost'
  BY <1>1, <1>2, <1>3 DEF IInv, OneRunPerPost
<1>7. ClaimsWithinTier'
  BY <1>2, <1>3 DEF IInv, ClaimsWithinTier
<1>8. RunsWereClaimed'
  BY <1>1 DEF IInv, RunsWereClaimed
<1>9. ResultsAreStored'
  <2> SUFFICES ASSUME NEW k \in Jobs, jobs'[k].status = "completed"
               PROVE  /\ jobs'[k].result \in benchmarks'
                      /\ jobs'[k].result.job = k
                      /\ jobs'[k].result.turn <= claimed[k]
    BY <1>1 DEF ResultsAreStored
  <2>1. CASE k = e.job
    BY <1>0, <1>1, <1>3, <2>1
  <2>2. CASE k # e.job
    BY <1>1, <1>2, <2>2 DEF IInv, ResultsAreStored
  <2>. QED BY <2>1, <2>2
<1>. QED BY <1>5, <1>6, <1>7, <1>8, <1>9 DEF IInv

LEMMA RestartStep == IInv /\ Restart => IInv'
<1> SUFFICES ASSUME IInv, Restart PROVE IInv'
  OBVIOUS
<1>0. /\ SeedJobs \in [Jobs -> Job]
      /\ \A j \in Jobs : SeedJobs[j].status \in {"absent", "queued", "completed"}
      /\ \A j \in Jobs : SeedJobs[j].status = "completed" =>
           /\ SeedJobs[j].result \in Execution
           /\ SeedJobs[j].result.job = j /\ SeedJobs[j].result.turn = 0
           /\ SeedJobs[j].need <= Tier[SeedJobs[j].by]
      /\ \A j \in Jobs : SeedJobs[j].status # "completed" => SeedJobs[j].by = NoWorker
  BY JobsAssumption DEF Seeded, Job, Execution
<1>1. /\ jobs' = SeedJobs /\ order' = SeedOrder
      /\ registered' = SeedWorkers /\ benchmarks' = SeedBenchmarks
      /\ posted' = [j \in Jobs |-> IF j \in Seeded("queued") THEN posted[j] + 1 ELSE posted[j]]
      /\ UNCHANGED << daemon, late, reports, posts, claimed >>
      /\ restarts < MaxRestarts /\ restarts' = restarts + 1
  BY DEF Restart
<1>2. /\ benchmarks' \subseteq Execution
      /\ \A j \in Jobs : SeedJobs[j].status = "completed" => SeedJobs[j].result \in benchmarks'
  BY <1>0, <1>1 DEF SeedBenchmarks, Seeded
<1>3. claimed \in [Jobs -> Nat] /\ posted \in [Jobs -> Nat] /\ restarts \in 0 .. MaxRestarts
  BY DEF IInv, TypeOK
<1>4. TypeOK'
  BY <1>0, <1>1, <1>2, <1>3, JobsAssumption DEF IInv, TypeOK
<1>5. OneRunPerPost'
  <2> SUFFICES ASSUME NEW k \in Jobs
               PROVE  /\ claimed[k] <= posted'[k]
                      /\ jobs'[k].status = "queued" => claimed[k] < posted'[k]
    BY <1>1 DEF OneRunPerPost
  <2>1. claimed[k] \in Nat /\ posted[k] \in Nat /\ claimed[k] <= posted[k]
    BY <1>3 DEF IInv, OneRunPerPost
  <2>2. posted'[k] = IF SeedJobs[k].status = "queued" THEN posted[k] + 1 ELSE posted[k]
    BY <1>1 DEF Seeded
  <2>. QED BY <1>1, <2>1, <2>2
<1>6. ClaimsWithinTier'
  BY <1>0, <1>1 DEF ClaimsWithinTier
<1>7. RunsWereClaimed'
  BY <1>1 DEF IInv, RunsWereClaimed
<1>8. ResultsAreStored'
  BY <1>0, <1>1, <1>2, <1>3 DEF ResultsAreStored
<1>. QED BY <1>4, <1>5, <1>6, <1>7, <1>8 DEF IInv

LEMMA RegisterStep ==
  ASSUME IInv, NEW w \in Workers, RegisterWorker(w)
  PROVE  IInv'
<1>1. TypeOK'
  BY DEF IInv, TypeOK, RegisterWorker, history
<1>2. OneRunPerPost' /\ ResultsAreStored'
  BY DEF IInv, OneRunPerPost, ResultsAreStored, RegisterWorker, history
<1>3. ClaimsWithinTier' /\ RunsWereClaimed'
  BY DEF IInv, ClaimsWithinTier, RunsWereClaimed, RegisterWorker, history
<1>. QED BY <1>1, <1>2, <1>3 DEF IInv

\* Starting, polling, giving up and stopping put a daemon where nothing runs.
LEMMA IdleStep ==
  ASSUME IInv, NEW w \in Workers,
         Start(w) \/ Poll(w) \/ GiveUp(w) \/ Stop(w)
  PROVE  IInv'
<1>1. PICK d \in {Down, Resting, Polling} : At(w, d)
  BY DEF Start, Poll, GiveUp, Stop
<1>2. UNCHANGED << store, history, reports, posts, restarts >> /\ late' \subseteq Workers
  BY DEF IInv, TypeOK, Start, Poll, GiveUp, Stop
<1>3. d.at # "running"
  BY DEF Down, Resting, Polling
<1>4. daemon \in [Workers -> Daemon] /\ reports \subseteq Execution
  BY DEF IInv, TypeOK
<1>5. daemon' \in [Workers -> Daemon]
  BY <1>1, <1>4 DEF At, Daemon
<1>6. \A v \in Workers : daemon'[v].at = "running" =>
        daemon'[v].run.turn <= claimed[daemon'[v].run.job]
  BY <1>1, <1>3, <1>4 DEF IInv, RunsWereClaimed, At
<1>7. reports' \subseteq Execution /\ \A e \in reports' : e.turn <= claimed[e.job]
  BY <1>2, <1>4 DEF IInv, RunsWereClaimed
<1>. QED BY DaemonStep, <1>2, <1>5, <1>6, <1>7

LEMMA FinishStep ==
  ASSUME IInv, NEW w \in Workers, Finish(w)
  PROVE  IInv'
<1>1. PICK d \in {Down, Resting} : At(w, d)
  BY DEF Finish
<1>2. /\ UNCHANGED << store, history, late, posts, restarts >>
      /\ daemon[w].at = "running"
      /\ reports' \subseteq reports \cup {daemon[w].run}
  BY DEF Finish
<1>3. daemon \in [Workers -> Daemon] /\ reports \subseteq Execution /\ late \subseteq Workers
  BY DEF IInv, TypeOK
<1>4. daemon[w].run \in Execution
  BY <1>2, <1>3 DEF Daemon, Down, Resting, Polling
<1>5. daemon' \in [Workers -> Daemon]
  BY <1>1, <1>3 DEF At, Daemon
<1>6. d.at # "running"
  BY DEF Down, Resting
<1>7. \A v \in Workers : daemon'[v].at = "running" =>
        daemon'[v].run.turn <= claimed[daemon'[v].run.job]
  BY <1>1, <1>3, <1>6 DEF IInv, RunsWereClaimed, At
<1>8. reports' \subseteq Execution /\ \A e \in reports' : e.turn <= claimed[e.job]
  BY <1>2, <1>3, <1>4 DEF IInv, RunsWereClaimed
<1>. QED BY DaemonStep, <1>2, <1>3, <1>5, <1>7, <1>8

LEMMA ServeClaimStep ==
  ASSUME IInv, NEW w \in Workers, ServeClaim(w)
  PROVE  IInv'
<1>0. /\ TypeOK
      /\ UNCHANGED << order, registered, benchmarks, late, reports, posts, restarts, posted >>
  BY DEF IInv, ServeClaim
<1>1. CASE At(w, Resting) /\ UNCHANGED << jobs, claimed >>
  <2>1. UNCHANGED << store, history >>
    BY <1>0, <1>1 DEF store, history
  <2>2. daemon' \in [Workers -> Daemon]
    BY <1>0, <1>1 DEF At, Daemon, TypeOK
  <2>3. \A v \in Workers : daemon'[v].at = "running" =>
          daemon'[v].run.turn <= claimed[daemon'[v].run.job]
    BY <1>0, <1>1 DEF IInv, RunsWereClaimed, At, Resting, TypeOK
  <2>4. reports' \subseteq Execution /\ \A e \in reports' : e.turn <= claimed[e.job]
    BY <1>0 DEF IInv, RunsWereClaimed, TypeOK
  <2>5. late' \subseteq Workers
    BY <1>0 DEF TypeOK
  <2>. QED BY DaemonStep, <1>0, <2>1, <2>2, <2>3, <2>4, <2>5
<1>2. ASSUME NEW j \in Jobs, ClaimJob(w, j),
             \/ At(w, Running([job |-> j, by |-> w, turn |-> claimed'[j]]))
             \/ At(w, Resting)
      PROVE  IInv'
  <2>1. jobs' \in [Jobs -> Job] /\ claimed' \in [Jobs -> Nat]
    BY <1>2, ClaimStep
  <2>2. [job |-> j, by |-> w, turn |-> claimed'[j]] \in Execution
    BY <2>1 DEF Execution
  <2>3. PICK d \in Daemon : /\ At(w, d)
                            /\ d.at = "running" => d.run.turn <= claimed'[d.run.job]
    BY <1>2, <2>1, <2>2 DEF Daemon, Running, Resting
  <2>4. daemon' \in [Workers -> Daemon]
    BY <1>0, <2>3 DEF At, TypeOK
  <2>5. TypeOK'
    BY <1>0, <2>1, <2>4 DEF TypeOK
  <2>6. OneRunPerPost' /\ ClaimsWithinTier' /\ ResultsAreStored'
    BY <1>0, <1>2, ClaimKeepsStore
  <2>7. RunsWereClaimed'
    BY <1>0, <1>2, <2>3, ClaimsKept DEF RunsWereClaimed, At, TypeOK
  <2>. QED BY <2>5, <2>6, <2>7 DEF IInv
<1>. QED BY <1>1, <1>2 DEF ServeClaim

LEMMA ServeLateStep ==
  ASSUME IInv, NEW w \in Workers, ServeLate(w)
  PROVE  IInv'
<1>0. /\ TypeOK /\ late' \subseteq Workers
      /\ UNCHANGED << order, registered, benchmarks, daemon, reports, posts, restarts, posted >>
  BY DEF IInv, TypeOK, ServeLate
<1>1. CASE UNCHANGED << jobs, claimed >>
  <2>1. UNCHANGED << store, history >>
    BY <1>0, <1>1 DEF store, history
  <2>2. /\ daemon' \in [Workers -> Daemon] /\ reports' \subseteq Execution
        /\ \A v \in Workers : daemon'[v].at = "running" =>
             daemon'[v].run.turn <= claimed[daemon'[v].run.job]
        /\ \A e \in reports' : e.turn <= claimed[e.job]
    BY <1>0 DEF IInv, RunsWereClaimed, TypeOK
  <2>. QED BY DaemonStep, <1>0, <2>1, <2>2
<1>2. ASSUME NEW j \in Jobs, ClaimJob(w, j)
      PROVE  IInv'
  <2>1. TypeOK'
    BY <1>0, <1>2, ClaimStep DEF TypeOK
  <2>2. OneRunPerPost' /\ ClaimsWithinTier' /\ ResultsAreStored'
    BY <1>0, <1>2, ClaimKeepsStore
  <2>3. RunsWereClaimed'
    BY <1>0, <1>2, ClaimsKept DEF RunsWereClaimed
  <2>. QED BY <2>1, <2>2, <2>3 DEF IInv
<1>. QED BY <1>1, <1>2 DEF ServeLate

LEMMA StepPreserves == IInv /\ [Next]_vars => IInv'
<1> SUFFICES ASSUME IInv, [Next]_vars PROVE IInv'
  OBVIOUS
<1>1. ASSUME NEW j \in Jobs, NEW need \in Needs, Post(j, need) PROVE IInv'
  BY <1>1, PostStep
<1>2. ASSUME NEW w \in Workers,
             RegisterWorker(w) \/ Start(w) \/ Poll(w) \/ GiveUp(w) \/ Stop(w)
      PROVE  IInv'
  BY <1>2, RegisterStep, IdleStep
<1>3. ASSUME NEW w \in Workers, ServeClaim(w) \/ ServeLate(w) \/ Finish(w) PROVE IInv'
  BY <1>3, ServeClaimStep, ServeLateStep, FinishStep
<1>4. ASSUME NEW e \in reports, Complete(e) PROVE IInv'
  BY <1>4, CompleteStep
<1>5. CASE Restart
  BY <1>5, RestartStep
<1>6. CASE UNCHANGED vars
  <2>1. /\ UNCHANGED << store, history >> /\ posts' = posts /\ restarts' = restarts
        /\ UNCHANGED << daemon, late, reports >>
    BY <1>6 DEF vars
  <2>2. /\ daemon' \in [Workers -> Daemon] /\ late' \subseteq Workers /\ reports' \subseteq Execution
        /\ \A v \in Workers : daemon'[v].at = "running" =>
             daemon'[v].run.turn <= claimed[daemon'[v].run.job]
        /\ \A e \in reports' : e.turn <= claimed[e.job]
    BY <2>1 DEF IInv, RunsWereClaimed, TypeOK
  <2>. QED BY DaemonStep, <2>1, <2>2
<1>. QED BY <1>1, <1>2, <1>3, <1>4, <1>5, <1>6 DEF Next

-----------------------------------------------------------------------------
\* The inductive invariant, for any workers, seeds and bounds: what is handed
\* out, run, reported and stored by the queue agrees.
THEOREM JobsInvariant == Spec => []IInv
<1>. QED BY InitEstablishes, StepPreserves, PTL DEF Spec

\* Every record, daemon, report and count of the queue keeps its type.
THEOREM TypeCorrect == Spec => []TypeOK
<1>1. IInv => TypeOK
  BY DEF IInv
<1>. QED BY <1>1, JobsInvariant, PTL

\* claimJob hands a job out at most once for each time it was queued.
THEOREM HandedOutOnce == Spec => []OneRunPerPost
<1>1. IInv => OneRunPerPost
  BY DEF IInv
<1>. QED BY <1>1, JobsInvariant, PTL

\* A completed job's result is in the benchmark store, is a run of that job,
\* and that run was handed out before it was reported.
THEOREM StoredResults == Spec => []ResultsAreStored
<1>1. IInv => ResultsAreStored
  BY DEF IInv
<1>. QED BY <1>1, JobsInvariant, PTL

\* No job is assigned to a worker below the tier the job requires.
THEOREM TiersRespected == Spec => []ClaimsWithinTier
<1>1. IInv => ClaimsWithinTier
  BY DEF IInv
<1>. QED BY <1>1, JobsInvariant, PTL

=============================================================================
