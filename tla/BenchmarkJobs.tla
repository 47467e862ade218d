---------------------------- MODULE BenchmarkJobs ----------------------------
(***************************************************************************)
(* The distributed benchmark queue: the job store of the web app (a Map in *)
(* memory, lost with the process), the routes that post, claim and complete *)
(* jobs, and the worker daemons that poll, run and report over HTTP.       *)
(*                                                                         *)
(* A route handler runs from its body's parse to its answer without an     *)
(* await, so it is one action.  A request or an answer may be lost, and a  *)
(* claim the daemon has given up on may still reach the server (late).     *)
(* Heartbeats and priority_score are left out: claimJob reads neither a    *)
(* worker's status nor the score.                                          *)
(***************************************************************************)
EXTENDS Integers, Sequences

CONSTANTS
  Workers,       \* ids of workers
  OneShot,       \* workers started with --max-jobs 1, the default
  Tier,          \* rank of the trust tier a worker's daemon claims with
  SeedWorkers,   \* SEED_WORKERS: registered in a fresh store
  Jobs,          \* ids of jobs
  Needs,         \* ranks of required_trust_tier that jobs are posted with
  SeedOrder,     \* SEED_BENCHMARK_JOBS: ids, in the order of the Map
  SeedJobs,      \* ... and their records
  NoWorker, NoResult,
  MaxPosts, MaxRestarts   \* bounds of the model

\* A worker's execution of a job, numbered by the job's claims.
Execution == [job : Jobs, by : Workers, turn : Nat]

Job == [status : {"absent", "queued", "assigned", "completed"},
        need : Nat, by : Workers \cup {NoWorker}, result : Execution \cup {NoResult}]

Seeded(status) == {j \in Jobs : SeedJobs[j].status = status}
SeedBenchmarks == {SeedJobs[j].result : j \in Seeded("completed")}

ASSUME JobsAssumption ==
  /\ OneShot \subseteq Workers /\ SeedWorkers \subseteq Workers
  /\ Tier \in [Workers -> Nat] /\ Needs \subseteq Nat
  /\ NoWorker \notin Workers /\ NoResult \notin Execution
  /\ MaxPosts \in Nat /\ MaxRestarts \in Nat
  /\ SeedOrder \in Seq(Jobs) /\ SeedJobs \in [Jobs -> Job]
  /\ \A j \in Jobs : SeedJobs[j].status # "assigned"
  /\ \A j \in Seeded("completed") :
       /\ SeedJobs[j].result \in [job : {j}, by : Workers, turn : {0}]
       /\ SeedJobs[j].by \in Workers /\ SeedJobs[j].need <= Tier[SeedJobs[j].by]
  /\ \A j \in Seeded("queued") \cup Seeded("absent") : SeedJobs[j].by = NoWorker

VARIABLES
  jobs,        \* DataLayer.jobs: the record of each id
  order,       \* ... and the insertion order of the Map
  registered,  \* DataLayer.workers
  benchmarks,  \* DataLayer.benchmarks
  daemon,      \* where each worker's daemon is
  late,        \* workers with a claim on its way that the daemon gave up on
  reports,     \* completions on their way to the server
  posts, restarts,
  posted,      \* history: how often a job was put in the queue
  claimed      \* history: how often a job was handed out

store == << jobs, order, registered, benchmarks >>
history == << posted, claimed >>
vars == << store, daemon, late, reports, posts, restarts, history >>

Down == [at |-> "down"]
Resting == [at |-> "idle"]
Polling == [at |-> "polling"]
Running(e) == [at |-> "running", run |-> e]
Daemon == {Down, Resting, Polling} \cup [at : {"running"}, run : Execution]

TypeOK ==
  /\ jobs \in [Jobs -> Job]
  /\ order \in Seq(Jobs)
  /\ registered \subseteq Workers
  /\ benchmarks \subseteq Execution
  /\ daemon \in [Workers -> Daemon]
  /\ late \subseteq Workers
  /\ reports \subseteq Execution
  /\ posts \in 0 .. MaxPosts /\ restarts \in 0 .. MaxRestarts
  /\ posted \in [Jobs -> Nat] /\ claimed \in [Jobs -> Nat]

Init ==
  /\ jobs = SeedJobs /\ order = SeedOrder
  /\ registered = SeedWorkers /\ benchmarks = SeedBenchmarks
  /\ daemon = [w \in Workers |-> Down]
  /\ late = {} /\ reports = {}
  /\ posts = 0 /\ restarts = 0
  /\ posted = [j \in Jobs |-> IF j \in Seeded("queued") THEN 1 ELSE 0]
  /\ claimed = [j \in Jobs |-> 0]

-----------------------------------------------------------------------------
(* The server                                                              *)

\* mutant: the tier is not looked at
ClaimableByAnyone(w, j) == w \in registered /\ jobs[j].status = "queued"

Claimable(w, j) ==
  w \in registered /\ jobs[j].status = "queued" /\ jobs[j].need <= Tier[w]

\* mutant: only the head of the queue is offered
NextForAtHead(w, j) ==
  \E i \in DOMAIN order :
    /\ order[i] = j /\ Claimable(w, j)
    /\ \A k \in 1 .. i - 1 : jobs[order[k]].status # "queued"

\* j is the first job of the Map that w may have.
NextFor(w, j) ==
  \E i \in DOMAIN order :
    /\ order[i] = j /\ Claimable(w, j)
    /\ \A k \in 1 .. i - 1 : ~Claimable(w, order[k])

\* mutant: the job is handed out and stays in the queue
ClaimJobInQueue(w, j) ==
  /\ NextFor(w, j)
  /\ jobs' = [jobs EXCEPT ![j].by = w]
  /\ claimed' = [claimed EXCEPT ![j] = @ + 1]

ClaimJob(w, j) ==
  /\ NextFor(w, j)
  /\ jobs' = [jobs EXCEPT ![j].status = "assigned", ![j].by = w]
  /\ claimed' = [claimed EXCEPT ![j] = @ + 1]

\* A body may name an id that is in use: the record is replaced, in place.
Post(j, need) ==
  /\ posts < MaxPosts
  /\ posts' = posts + 1
  /\ jobs' = [jobs EXCEPT ![j] = [status |-> "queued", need |-> need,
                                  by |-> NoWorker, result |-> NoResult]]
  /\ order' = IF jobs[j].status = "absent" THEN Append(order, j) ELSE order
  /\ posted' = [posted EXCEPT ![j] = @ + 1]
  /\ UNCHANGED << registered, benchmarks, daemon, late, reports, restarts, claimed >>

RegisterWorker(w) ==
  /\ w \notin registered
  /\ registered' = registered \cup {w}
  /\ UNCHANGED << jobs, order, benchmarks, daemon, late, reports, posts, restarts, history >>

\* completeJob asks neither what the job's status is nor who reports.
CompleteJob(e) ==
  jobs' = IF jobs[e.job].status = "absent" THEN jobs
          ELSE [jobs EXCEPT ![e.job].status = "completed", ![e.job].result = e]

\* mutant: the record is added for first reports only
AddBenchmarkOnce(e) ==
  benchmarks' = IF jobs[e.job].status = "assigned" THEN benchmarks \cup {e} ELSE benchmarks

AddBenchmark(e) == benchmarks' = benchmarks \cup {e}

\* POST /jobs/[id]/complete: the record is kept even if the job is unknown.
Complete(e) ==
  /\ e \in reports
  /\ AddBenchmark(e)
  /\ CompleteJob(e)
  /\ reports' = reports \ {e}
  /\ UNCHANGED << order, registered, daemon, late, posts, restarts, history >>

\* The process is started again: the Maps are seeded afresh.
Restart ==
  /\ restarts < MaxRestarts
  /\ restarts' = restarts + 1
  /\ jobs' = SeedJobs /\ order' = SeedOrder
  /\ registered' = SeedWorkers /\ benchmarks' = SeedBenchmarks
  /\ posted' = [j \in Jobs |-> IF j \in Seeded("queued") THEN posted[j] + 1 ELSE posted[j]]
  /\ UNCHANGED << daemon, late, reports, posts, claimed >>

-----------------------------------------------------------------------------
(* The daemons                                                             *)

At(w, d) == daemon' = [daemon EXCEPT ![w] = d]

Start(w) ==
  /\ daemon[w] = Down
  /\ At(w, Resting)
  /\ UNCHANGED << store, late, reports, posts, restarts, history >>

Poll(w) ==
  /\ daemon[w] = Resting /\ w \notin late
  /\ At(w, Polling)
  /\ UNCHANGED << store, late, reports, posts, restarts, history >>

\* POST /jobs/claim is served; the answer may be lost on its way back.
ServeClaim(w) ==
  /\ daemon[w] = Polling
  /\ \/ /\ \A j \in Jobs : ~Claimable(w, j)
        /\ At(w, Resting)
        /\ UNCHANGED << jobs, claimed >>
     \/ \E j \in Jobs :
          /\ ClaimJob(w, j)
          /\ \/ At(w, Running([job |-> j, by |-> w, turn |-> claimed'[j]]))
             \/ At(w, Resting)
  /\ UNCHANGED << order, registered, benchmarks, late, reports, posts, restarts, posted >>

\* The daemon's timeout: its request is lost, or will be served late.
GiveUp(w) ==
  /\ daemon[w] = Polling
  /\ At(w, Resting)
  /\ late' = late \cup {w} \/ UNCHANGED late
  /\ UNCHANGED << store, reports, posts, restarts, history >>

ServeLate(w) ==
  /\ w \in late
  /\ late' = late \ {w}
  /\ \/ (\A j \in Jobs : ~Claimable(w, j)) /\ UNCHANGED << jobs, claimed >>
     \/ \E j \in Jobs : ClaimJob(w, j)
  /\ UNCHANGED << order, registered, benchmarks, daemon, reports, posts, restarts, posted >>

\* execute_job ends and reports; a report that is lost is only logged.
Finish(w) ==
  /\ daemon[w].at = "running"
  /\ At(w, IF w \in OneShot THEN Down ELSE Resting)
  /\ reports' = reports \cup {daemon[w].run} \/ UNCHANGED reports
  /\ UNCHANGED << store, late, posts, restarts, history >>

\* An interrupt, or an exception out of execute_job: nothing is reported.
Stop(w) ==
  /\ daemon[w] # Down
  /\ At(w, Down)
  /\ late' = IF daemon[w] = Polling THEN late \cup {w} ELSE late
  /\ UNCHANGED << store, reports, posts, restarts, history >>

Next ==
  \/ \E j \in Jobs, need \in Needs : Post(j, need)
  \/ \E w \in Workers :
       \/ RegisterWorker(w) \/ Start(w) \/ Poll(w) \/ ServeClaim(w)
       \/ GiveUp(w) \/ ServeLate(w) \/ Finish(w) \/ Stop(w)
  \/ \E e \in reports : Complete(e)
  \/ Restart

(* A daemon that is not stopped goes on polling and its jobs end; of its   *)
(* claims infinitely many get through; a late claim is served.  Nobody has *)
(* to post, register or start anything.                                    *)
Spec ==
  /\ Init /\ [][Next]_vars
  /\ \A w \in Workers :
       WF_vars(Poll(w)) /\ SF_vars(ServeClaim(w)) /\ WF_vars(Finish(w)) /\ WF_vars(ServeLate(w))

-----------------------------------------------------------------------------
(* Properties                                                              *)

\* claimJob hands a job out at most once for every time it was queued, in
\* whatever order claims, late claims, posts of the same id and restarts
\* arrive.
OneRunPerPost ==
  \A j \in Jobs :
    /\ claimed[j] <= posted[j]
    /\ jobs[j].status = "queued" => claimed[j] < posted[j]

\* A completed job names a record that is in the store and that some worker
\* measured for this very job, after it had been handed the job (or that the
\* store was seeded with).
ResultsAreStored ==
  \A j \in Jobs : jobs[j].status = "completed" =>
    /\ jobs[j].result \in benchmarks
    /\ jobs[j].result.job = j
    /\ jobs[j].result.turn <= claimed[j]

\* Whoever a job is assigned to is of the tier it requires now, even if the
\* requirement was changed by a post of the same id while it ran.
ClaimsWithinTier ==
  \A j \in Jobs : jobs[j].by # NoWorker => jobs[j].need <= Tier[jobs[j].by]

\* A queued job does not wait for ever for a daemon that polls and may have
\* it, whatever stands before it in the queue.
QueuedJobsAreClaimed ==
  \A w \in Workers \ OneShot, j \in Jobs :
    LET MayHave == Claimable(w, j) /\ daemon[w] # Down
    IN  MayHave ~> ~MayHave

=============================================================================
