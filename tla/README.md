# Verification of model-tools

This directory holds TLA+ specifications of the parts of this repository that
keep state and meet concurrency, failures or restarts, the TLC configurations
that model-check them, and proofs, checked by TLAPS, of the properties that
matter most. Paths below are relative to the repository (`model-forge/`,
`inference-api/`, `ollama-router/`).

    tlasany M.tla                     parse a module
    tlc -workers 2 -config X.cfg MCM  model-check a configuration
    tlapm M_proofs.tla                check the proofs of a component

`PROJECT.json` is the index: components, runs, the source lines of every
definition (`map`), hazards, theorems, and for every property a plausible bug
that breaks it (`mutants`; the operators marked `mutant:` in the modules).

## 1. The system

Three programs share the repository and talk HTTP, if at all.

| program | what it is | language |
|---|---|---|
| `model-forge` | a control plane for inference deployments: plan an optimization, roll it out through a canary, roll it back; a benchmark catalogue with a distributed job queue | TypeScript (Next.js routes over packages), Python CLI and workers |
| `inference-api` | one FastAPI process in front of Ollama and ComfyUI, with a dashboard whose state is JSON files | Python, asyncio with some thread offloading |
| `ollama-router` | a proxy that spreads requests over Ollama servers ("lanes") on several GPUs and restarts dead ones; a watchdog process next to it | Python, asyncio, one refresh thread, systemd timers |

### 1.1 model-forge

**Canary engine** (`packages/reconciler/src/canary.ts`). Pure. From a run, the
telemetry of its stage and a policy it answers: roll back, promote a stage,
promote to full production, or hold. Correct when stages are walked in order,
full production is reached only from the last one, and a breach is judged
before anything else.

**Execution engine** (`execution-engine.ts`). State: a set of deployment
locks; everything else (action, canary run) is a record that is passed in and
handed back. Operations: `startExecution`, `progressCanary`,
`emergencyRollback`. Every one awaits several provider calls, which can answer
a failure or reject. Hard: five ways out of a start, of which each must settle
the lock; a lock taken in one call and given back in another; provider answers
that are not looked at; a candidate id that is not handed back.

**Providers** (`adapters/`). The simulated provider is a map of candidates
with injectable failures. The Vertex and GKE providers keep a table of models
and their traffic, the Kubernetes provider the weights and the primary of
several clusters. Hard: calls that fail half-way, and late calls that name a
model which has been promoted or deleted since.

**Planning** (`reconciler.ts`, `policy-engine.ts`). Pure: the difference of
two specs becomes an action with a type, a risk, a rollback plan; a policy
allows it, asks for approval, or rejects it, and judges by the type. Correct
when what passes without a person is as small as the policy's list says.

**Control routes** (`apps/web/app/api/v1/control`) over the **data layer**
(`packages/database/index.ts`, Maps in memory). State: actions, canary runs,
deployment versions, outcomes, freezes, the audit log. Operations: reconcile
or post an action, approve, execute, roll back, activate and lift a freeze. A
handler reads the store, awaits an engine it has constructed for itself, and
writes back. Hard: everything read before the await is stale after it.

**Smart router, hot patches, shadow traffic** (`smart-router.ts`,
`hot-patch.ts`, `shadow.ts`). Connection counts with draining; a registry of
patches with rollback tokens; sampling and scoring of mirrored requests, none
of which may mutate anything.

**Proof of execution** (`proof-of-execution.ts`). A challenge, the proof a
worker computes, its verification.

**Benchmark jobs** (data layer and `app/api/v1/jobs`) and **worker daemons**
(`packages/benchmark-cli/modelforge/worker_daemon.py`). State: the jobs and the
order of their Map, workers, benchmark records. Operations: post, claim,
complete, register. Hard: claims and reports that are lost or late, ids posted
twice, a store that is seeded afresh by every restart.

**Advisers**: fleet placement and configuration search (`packages/optimizer`
over `packages/model-fit`), the SLO compiler, the predictor over stored
benchmark records, the continuous optimizer, the CLI's deployment planner.
They search and rank a static hardware catalogue. Hard: arithmetic at the
boundary of what fits; first matches and ties; files of an interrupted command.

**The rest**: webhooks, billing and tenants (records written by one request),
the web UI, the rest of the CLI.

### 1.2 inference-api

**Dashboard job ledger** (`app/main.py`, `jobs.json`). State: a JSON list, and
the lists that suspended requests hold. Operations: register a generation,
poll ComfyUI for one job or all, prune. Hard: a poll writes back the list it
read before an await of up to five seconds; pruning runs in a thread while the
loop writes; a write empties the file first; a crash in between.

**Live feed** (`main.py`, `static/js/epic.js`). State: the subscribers and
what the push loop has seen. Hard: a broadcast awaits one socket after another.

**Rate limiting** (`app/middleware`). A clean-up, a count and an add on a Redis
sorted set in separate round trips.

**Model lanes** (`services/ollama.py`). A lane is chosen from cached model
lists that other requests refresh during the choice.

**Disk report, disk forecast, watchdog** (`main.py`). Reports cached in memory
and in a file; journals read, extended and written back by overlapping calls;
a heartbeat file from which the process tells whether it is alive.

**Dashboard page** (`static/js/dashboard.js`). Buttons, uploads, prompts and a
progress kept in localStorage, with requests answered in any order.

**Authentication, usage, GPU queue, alerts, Cloudflare worker.** Single lookups
and files written whole by one handler.

### 1.3 ollama-router

**Router and proxy** (`app/main.py`, `router.py`, `state.py`). State per lane:
healthy, failures, breaker, recovery attempts and cooldown. Operations: select
or pin a lane, proxy, mark success or failure, fail over once, recover a lane
through systemd, refresh. Hard: answers of overlapping requests arrive in any
order and write one count; health is as old as the last probe; the refresh is
a thread.

**Watchdog** (`app/watchdog.py`, a systemd timer). Restarts lanes that do not
answer, without knowing what the router does.

**Metrics, autoscale.** Latency averages that order the lanes; pulls of
models.

### 1.4 What makes each component correct, and what says so here

| component | promise | where |
|---|---|---|
| canary, execution engine | one live action per deployment and exact locks, but for rollbacks of actions that are not out; no traffic after a failed start; stages as the slot allows | `OneLiveActionPerDeployment`, `LockHeldIffLive`, `FailedStartsAreQuiet`, `RestoredMeansNoTraffic`, `ImplementsSlot` |
| control routes | the stored records agree with each other in whatever order write-backs land and whatever bodies are posted | `RunsBelongToTheirActions`, `VersionCountsOutcomes`, `EndsHaveWitnesses` |
| providers, federation | percentages add up and heal after rollbacks under another's feet, a primary remains, a sick cluster gains nothing | `TrafficAddsUp`, `KeepsAPrimary`, `NoTrafficToSick` |
| planning and policy | what passes without a person is small | `AutomaticPlansAreSmall` |
| smart router | a drain loses no request | `DrainsMigrate` |
| hot patches | a token undoes what it was given for, once | `RollbacksAreOwn` |
| shadow traffic | only reads are replayed | `OnlyReadsAreReplayed` |
| benchmark jobs | one hand-out per post, within the tier, a stored result of its own, no starvation | `OneRunPerPost`, `ClaimsWithinTier`, `ResultsAreStored`, `QueuedJobsAreClaimed` |
| fleet placement | no resource gives out more than it has; unplaced means it fits nowhere | `FleetIsNotOversold` |
| configuration search | what is recommended fits by the code's formula, is affordable and leads | `RecommendedRunsAndLeads` |
| SLO compiler | a plan shows every runtime, each candidate once, the best first | `PlansSpanRuntimes` |
| deployment planner | notes come with the plan and the launch file of their own command | `NotesLaunchThePlan` |
| evidence store | claims rest on the nearest real records | `ClaimsHaveEvidence` |
| continuous optimizer | an approval is of the content that was reviewed | does not hold: `ApprovedWasReviewed`, section 5 |
| ollama router | a lane is pulled for its strikes only and, while it is up, comes back; the router's restarts keep to their budget; a request ends | `BreakerIsHonest`, `RestartsAreEarned`, `RequestsAnswered`, `LiveLanesReturn` |
| job ledger | one record per prompt, true ends, ends that stay visible | `OneRecordPerPrompt`, `EndsAreReal`, `EndedJobsAreShown` |
| live feed | the last word heard is the current one | `HeardIsCurrent` |
| rate limit | nobody is refused without cause | `RefusalsAreEarned` |
| lanes | "not available" is true of a recent moment | `UnavailableIsEarned` |
| disk report, watchdog, forecast | bounded age; real alarms; ordered journals | `ReportsAgeBounded`, `AlarmsAreReal`, `JournalsTellTheStory` |
| dashboard page | buttons can be clicked again, progress survives a reload | `PageComesToRest` |

## 2. The modules

    CanaryEngine            canary.ts as operators
      ExecutionEngine       the engine and the simulated provider
        RolloutSlot         what the engine promises: the abstract specification
        ControlPlane        the routes and the store, one engine per request
    TrafficProviders, Federation                       the real providers
    Planning, SmartRouting, HotPatching,
    ShadowReplay, Attestation                          the rest of the reconciler
    FleetPlacement, ConfigurationSearch, SLOCompiler,
    DeploymentPlanner, EvidenceStore, ProductionLoop   the advisers
      Ranking, SeedData                                what they sort and start from
    BenchmarkJobs           job store, routes and worker daemons
    OllamaRouter            router, proxy, refresh thread, watchdog
    JobLedger               jobs.json, event loop, threads, ComfyUI
    EpicHub, RateLimit, InferenceLanes, RescueCache,
    Watchdog, DiskForecast, DashboardPage              the workstation
      Clock                                            the time they read

`MC*` give the constants finite values; `*_proofs` hold the theorems, the
workstation's together with the job ledger's, and `FiniteFacts` the lemmas on
finite sets that several of them need.
`MCReconciler`, `MCSizing` and `MCWorkstation` each hold several components
that share no state (at most a clock): a variable `machine` picks the one a
behaviour runs, so that their states add up instead of multiplying.

### CanaryEngine

`CreateCanaryRun`, `EvaluateStage` and `AdvanceStage` are the three methods.
The code divides floating point latencies; the module compares whole
milliseconds by cross-multiplication, and error rates in hundredths of a
percent. The three booleans of the code's verdict exclude each other and are
one value.

### ExecutionEngine

A caller drives one action. `pc[p]` is the provider call its method is
suspended at and `got[p]` that call's outcome; the code between two awaits is
one action (`StartExecution`, `AfterProvision`, `AfterWarmup`, `AfterSplit`,
`AfterUndo` make up `startExecution`; `ProgressCanary` with `AfterAbort`,
`AfterPromote`, `AfterDrain`, `AfterAdvance`, and `EmergencyRollback` with
`AfterEmergency` the other two). `rec` and `run` are the records the caller
holds, `locks` is `deploymentLocks`, `cands` the provider's map. A provider
call takes effect when issued; `Faults` says which of them may answer a
failure (no effect) or reject (effect or not).

`EmergencyRollback` may be called in any status, as the rollback route does,
and gives the deployment's lock up whoever holds it. `astray` is a history
variable: the deployments whose lock was given up by a rollback of an action
that was not the one out. `KnowsCandidate` is the set of callers that name the
candidate `startExecution` provisioned; the method does not return its id, and
no route knows it, so the set is empty in every run.

### RolloutSlot

The abstract specification: per deployment a slot; an action waits, is
refused or occupies the free slot, goes through the stages one by one, and
vacates it into an end, `completed` only from the last stage. A rollback of an
action that is not in the slot (`RollBackAnyway`) leaves the slot open under
the action that is: after that it keeps nobody out. `ImplementsSlot` maps an
action's phase to `live` while a method of it is suspended or its canary is
out, its stage to that of its run, and the open slots to `astray`.

### ControlPlane

A request is a process that is served once. `ExecuteStart`, `ExecuteProgress`
and `Rollback` read the store and enter the engine through an `INSTANCE` of
`ExecutionEngine`; `StartReturns`, `ProgressReturns` and `RollbackReturns`
are what the handlers do with its answer. Each handler constructs its own
engine and provider: every request is its own "deployment" of the instance, so
locks never meet, and nobody knows a candidate. Handlers that do not suspend
(`Create`, `Approve`, `ActivateFreeze`, `LiftFreeze`, refusals) are one action.
`Create` stores what is posted: any of the statuses of `Postable`, with any
stored run or a missing one, under a new id or over an action that is there.
`posted` is a history variable of these bodies; the properties exempt what a
body said about its own action, and nothing else.

### OllamaRouter

`Pin` and `Select` route a request; `Answer`, `Fail`, `FailAgain` end a try,
each with all of `mark_success`, or `mark_failure` and `_try_recover`.
`ProbeLane` is the refresh thread on one lane, `WatchdogRestart` the other
process, which asks for neither cooldown nor cap and counts nothing. Times are
the time left until they expire and `Tick` counts them down. Residency, latency
and VRAM only order the lanes that may be chosen: any of them is. `strikes` is
a history variable.

### BenchmarkJobs

`Post`, `RegisterWorker`, `ClaimJob` (inside `ServeClaim` and `ServeLate`) and
`Complete` are the routes, each without an await and so one action. A daemon
polls, runs, reports (`Poll`, `Finish`), gives a request up (`GiveUp`), is
stopped. An answer may be lost in `ServeClaim`, a report in `Finish`; a claim
that was given up may still be served. `Restart` seeds the Maps again while
daemons and reports live on. `posted` and `claimed` are history variables.

### JobLedger

A write is three steps, `WriteList`, `OpenFile`, `FillFile`: `write_text`
empties the file before it fills it, and another thread can come in between.
The event loop is one writer and holds its other handlers off while it writes;
each self-heal thread is one more. A status request polls its jobs one at a
time: `AskStatus` reads the list and is suspended with it, `TakeStatus` writes
it back. Two writes that overlap leave the later content, or a text that is
not JSON and reads as an empty list. ComfyUI and the clock are the
environment. A created_at is kept as its week, which is what pruning compares.

### The reconciler's other parts

- **TrafficProviders**: a table of models and percentages under the calls of
  the execution engine. A rollout starts under the deployment's lock; `Rollback`
  is asked for any candidate at any time and gives the lock up, so rollouts can
  overlap. `disturbed` is a history variable: the rollouts another's call has
  come in between. `kind` is Vertex or GKE, which differ in what promotion,
  rollback and draining do to the table.
- **Federation**: `SetMultiClusterTrafficSplit` keeps the weights it set before
  the entry it failed at, as the code does; `FailoverCluster` moves the weight
  and the primary.
- **SmartRouting**: a chat request routes, counts and completes in one turn
  (the route awaits nothing); draining moves a count to the first alternative.
- **HotPatching**: the Map by patch id, the token of the last application, and
  the route's audit records.
- **Planning**: a specification is a function from the facets the planner
  compares. `DetermineActionType`, `EvaluateChangeRisk` and `EvaluateAction` are
  operators; `Reconcile` and `Complete` accumulate plans and what a completed
  action leaves in the deployment (the execute route copies four facets only).
- **ShadowReplay**: a request is what the filters see of it.
- **Attestation**: an HMAC is the record of its inputs; durations are in
  thousandths of a millisecond, so that both roundings of the code happen.

### The advisers

`FleetPlacement` places one workload a step. `ConfigurationSearch`,
`SLOCompiler` compute a whole answer in one step, as the handlers do: a query
is drawn from a set, and the property compares the answer with a declarative
reading of it (what fits, what leads). A sort of the code is the ascending
list of a set of keys (`InOrder` of `Ranking`), the last key being the place in
the list that is sorted, since the sorts are stable. Numbers are integers in the units the
module heads name; where the code takes a power or a logarithm the value is a
table in the MC module. `DeploymentPlanner` writes its files one by one into a
directory in which an interrupted command may have left others.
`EvidenceStore` is every store of up to seven records; a record comes in with
the age its sender gives it (`PostedAges`). `ProductionLoop` is the telemetry
windows and the recommendations of one deployment; `reviewed` is a history
variable of what `ListRecommendations` has shown. `SeedData` is the code's own
tables.

### The workstation

- **EpicHub**: `queue` is what a broadcast still has to send; between two sends
  sockets die, return and synchronise. Both the server's subscriber entry and
  the browser's connection are kept.
- **RateLimit**: a check is four round trips (clean, count, add, expire). No
  check takes as long as its window.
- **InferenceLanes**: one choice is followed; other requests' choices are any
  lane's cache refreshed at any time in between (`AnotherAsks`).
- **RescueCache**: per worker a memory, one shared file, and reports in the
  making; opening the file (`OpenReport`) empties it.
- **Watchdog**: the loop's task, the heartbeat file, and readings of it from
  any thread. The disk may be full, which empties the file and fails the write.
- **DiskForecast**: each forecast is its measurement, its reads and its writes.
  One disk of the two is followed. `EpicHub` takes the disk's risk as it comes.
- **DashboardPage**: an action of the user is a process whose request is
  answered at any time, with success or failure; labels are saved and restored
  as `setLoading` does it.

## 3. The runs

| run | instance | distinct states | shows |
|---|---|---|---|
| `engine_locks` | three callers on one deployment, symmetric; the last two stages of the policy the execute route hard-codes, telemetries on the boundaries of the comparisons, every provider call may reject | 1,036,700 | two actions are live, and the lock is not exact, only where a rollback of an action that was not out has come in; failed starts leave no traffic; the engine implements the slot |
| `engine_other_candidate` | no fault, the caller makes up the candidate's id | violation | finding 1 |
| `control` | four requests, symmetric; an existing and a seeded action of one deployment, either of which may be posted again with four statuses and any run; two stages | 570,128 | write-backs in any order keep runs, versions, outcomes and end statuses consistent, up to what bodies claim of their own action |
| `control_two_canaries` | three requests, two actions of one deployment | violation | finding 2 |
| `router` | two requests, a lane and a compat lane on one GPU, one of them managed by systemd | 41,424 | breakers, restarts and failover, safety and liveness |
| `jobs` | a polling community daemon and a one-shot organization daemon, the store's two seeded jobs and a new one, one post, one restart | 46,528 | hand-outs, tiers, results and progress of the queue |
| `ledger` | one job, the two requests of a page refresh, a self-heal thread, one week, one crash | 14,202 | one record per prompt, true ends, ends shown again and again, for torn and overlapping writes |
| `reconciler` | two candidates of a provider, rolled back at any time; three clusters; four backends; two patch ids, three applications; 2 plans over specs that differ in up to three facets or in all; batches of 101 requests; two proofs | 194,810 | traffic, drains, tokens, automatic plans, replays |
| `attestation_rounding` | a duration of 2.496 ms | violation | finding 3 |
| `sizing` | 1,025 fleets, 240 queries, 204 requests, two commands for four workloads, stores of seven records that come in fresh or stale, two posts | 51,045 | placements, recommendations, plans, notes, evidence |
| `evidence_synthetic` | the same instance | violation | finding 4 |
| `workstation` | two tabs, two checks of a limit of 2, two lanes, two workers, one heartbeat, two forecasts at once, three actions of a user | 1,558,470 | the feed, the limit, the caches, the journals, the page |

### Bounds

- Engine: three callers are what it takes for a rollback of one to free the
  lock of a second and let a third in. Deployments share nothing but the set
  of locks, so one is enough. The engine has no counters; the model is finite
  as it is. The policy has a stage to advance from and a last one
  (`ShortPolicy`); the third of the code's stages adds no case of its own.
- Control: three requests take an action from its start through two stages to
  its completion; the fourth is then a second completion from the same read, a
  rollback, an approval, a freeze, a post over it, or a start of the rival
  action, and in other orders a post comes first, with a run that is stored or
  is not. Three requests are enough for the violation.
- Router: `Threshold` 2 is the smallest at which one strike does not pull a
  lane; `RecoveryTime` 2 outlasts `OpenTime` 1, as 600 s outlasts 120 s in the
  defaults, so that a breaker can close and open again inside the cooldown;
  `MaxAttempts` 2 lets the cap be reached. Two lanes on one GPU are where
  selection is not trivial; two requests are where answers are out of order.
- Jobs: one post is enough to replace a record in use or to add one, one
  restart to meet everything from before it. The two daemons differ in tier
  and in how long they live. The seeded community worker's daemon is not run.
- Ledger: one job, and everything that can overlap with it. One week makes a
  record stale. A crash mid-write is one crash. The page limit (25 jobs) is
  not reached by one job.
- Reconciler: a rollout and a rollback under its feet need two candidates. Of three
  clusters one is sick, one primary, one neither; weights are thirds. Three
  workers of one model let drains chain, and one of another has no
  alternative. Three applications replace a patch, active or reverted, and
  revert by an older token. Two plans: the second starts from what the first
  left. 101 requests pass the hundred at which sampling starts over.
- Sizing: fleets of three resources that differ in size, memory, price,
  reservation and maintenance, and the seeded one; the queries cross three
  seeded models, two contexts, two concurrencies, four filters and five
  objectives; requests lie on both sides of each limit. The rack
  `gb200-nvl72` is left out of the search, since its figures exceed TLC's
  integers. Seven records are the seeded five and two more, at each distance
  the predictor tells apart; ages are fresh, aging and stale, and a record can
  be stale when it comes in. Two commands are what it takes to mix two plans.
- Workstation: two tabs are a receiver and a bystander of one broadcast; five
  ticks outlast every timeout here twice (`Window` 3, `TTL` 2, `Silence` 2);
  lanes get three ticks (`LanesTime`), forecasts two (`ForecastTime`) and three
  forecasts (`MaxForecasts`), enough for two to overlap and a third to read
  what they left. Journals keep two samples, so that they are cut. Three user
  actions overlap in every pair, from progress below, near and just under the
  next level.

`CHECK_DEADLOCK FALSE` is set where the system stops: an engine whose actions
have ended, a control plane whose requests are served, a component whose
bounds (plans, posts, commands, ticks, actions) are used up. The router, the
queue and the ledger run for ever and are checked for deadlock.

### Fairness

- Router: a try ends (the HTTP client has timeouts), the refresh loop probes
  each lane, time passes. Clients need not send, and nothing is assumed of
  restarts, the router's or the watchdog's: that a dead lane comes back would
  only restate such an assumption, and is no property here.
- Jobs: a daemon that is not stopped polls and finishes, a late claim is
  served, and of its claims infinitely many get through. Nobody has to post,
  register or start.
- Ledger: the loop and the threads run on; an await ends; a job ComfyUI has
  ended is told ended sooner or later, however many polls time out. The
  dashboard asks for its jobs every five seconds (`setInterval` in
  `app/static/js/dashboard.js:2150`).

## 4. What is proved

Every invariant and every action property of a passing run is a theorem; the
refinement of `RolloutSlot` is one too. The column in the middle names the
inductive invariant.

| module | invariant | theorems |
|---|---|---|
| `ExecutionEngine_proofs` | `IInv`: `TypeOK`, `Suspended`, `OneLiveActionPerDeployment`, `LockHeldIffLive`; `QuietInv` | `TypeCorrect`, `MutualExclusion`, `LocksAreExact`, `SlotRefinement`, `FailedStartClaimsHold`, `EngineInvariant` |
| `ControlPlane_proofs` | `IInv`: `TypeOK`, `ExecutionInv`, `RollbackInv`, `RestInv`, `StoreInv` | `TypeCorrect`, `RunsBelong`, `EndsWitnessed`, `VersionsCount` |
| `OllamaRouter_proofs` | `IInv`: `TypeOK`, `BreakerIsHonest` | `TypeCorrect`, `HonestBreaker`, `EarnedRestarts` |
| `BenchmarkJobs_proofs` | `IInv`: `TypeOK`, `OneRunPerPost`, `ClaimsWithinTier`, `RunsWereClaimed`, `ResultsAreStored` | `TypeCorrect`, `HandedOutOnce`, `StoredResults`, `TiersRespected` |
| `Reconciler_proofs` | `FedTypeOK`, `PatchInv`, `ShadowInv`, `RouterInv`, `TrafficInv`, `PlansInv` | `PrimaryKept`, `SickGainNothing`, `RollbacksOwnTheirPatches`, `ReplaysReadOnly`, `DrainsKeepRequests`, `TrafficIsWhole`, `OnlySmallPlansAreAutomatic` |
| `Workstation_proofs` | `WatchdogInv`, `RescueInv`, `LimitInv`, `HubInv`, `LanesInv`, `ForecastInv`, `ProgressInv`, `ButtonsInv` | `RealAlarms`, `BoundedAge`, `EarnedRefusals`, `FeedIsCurrent`, `RefusedModelsAreMissing`, `JournalsAreHistories`, `ButtonsComeBack` |
| &nbsp;&nbsp;the job ledger | `IInv`: `TypeOK`, `Known`, `ListsAreGood` | `TypeCorrect`, `RecordsAreUnique`, `ShownEndsAreReal` |
| `Sizing_proofs` | `FleetInv`, `PlanInv`, `PlannerInv`, `EvidenceInv` | `FleetIsAccountedFor`, `BestAreRecommended`, `PlansAreDiverse`, `NotesAreBacked`, `EvidenceIsThere` |
| `FiniteFacts` | | lemmas on sums, least elements and sorting |

They hold for every value of the constants that satisfies the assumption of the
module, which says what the values are: a threshold is a positive number,
stages are percentages, seeds are records, prices are not negative. Where an
assumption says more than that, it is named below.

**Sums and sorts.** Several properties count (versions, drained requests,
devices) or sort (placements, candidates, journals). The library's induction
over finite sets takes an operator, which the prover cannot instantiate.
`FiniteFacts` uses its well-founded order instead: of the subsets a fact fails
for, one would have none of the others inside it (`LeastSubset`). So are proved
what a sum becomes when one term changes, that a nonempty finite set of integers
has a least element, and that `InOrder` of a set of keys lists each of them
once, the lower before the higher (`InOrderSorts`).

**Engine.** Neither the exclusion nor the lock invariant is inductive alone:
that a release does not open another's lock needs exclusion, and that an
acquisition keeps exclusion needs the lock to be exact. `Suspended` adds what
status an action has at each await, without which a method could resume on an
action that was never live. The proof has two levels: `StepKinds` reads the
code and shows that each step starts, refuses, keeps, advances, finishes or
rolls back one rollout; exclusion, exact locks and the refinement follow from
these kinds alone. Nothing is assumed of the callers: where a rollback of an
action that is not out gives away another's lock, `astray` records the
deployment, and the theorems say what holds of it still (a lock is taken only
for a live action) and what no longer does. `FailedStartClaimsHold` has the
invariant `Quiet`, which says at which awaits the candidate takes no traffic,
because the step that makes the claim does not look at the rollback's answer.

**Control routes.** A write-back overwrites what other handlers stored
meanwhile, so the invariant has to say what a handler holds while it is
suspended. `ExecutionInv` tells four kinds of waiting executions apart: inside
a start, not started, started with a run that is not stored yet, and judging a
run that was stored before the request was asked. `RollbackInv` and `RestInv`
do the same for rollbacks and for everybody else; `StoreInv` holds of the store
alone. Every record anywhere names a run stored for its action or one that a
body posted under the action's id has named, and both only grow, so a request
is disturbed by none of the others.
`EngineKinds` reads the engine's code, instantiated without faults.
`VersionsCount` needs little of this: a version is read and written in the one
step that records an outcome (`OutcomesAndVersion`), and that step changes one
term of the deployment's sum. It asks for finitely many actions.

**Router.** `BreakerIsHonest` relates the failure count and the breaker, which
overlapping requests write, to the strikes there really were. It is inductive
with the types, which bound the count below the threshold. `EarnedRestarts` is an
action property from the same invariant.

**Jobs.** Executions carry the number of the claim they come from.
`RunsWereClaimed` is the strengthening: that claim was made, for every
execution a daemon runs or a report carries. Results follow from it, since a
report may arrive after posts and restarts changed everything else.

**Ledger.** It is not enough to know the file. `ListsAreGood` says of every
list, in the file, in a writer and in a suspended request, that it has one
record per prompt and only ends that happened, and that the record a suspended
request asks about is running until it is answered. `Known` ties what ComfyUI
still answers to how it ended the prompt.

**Reconciler.** The components share no state and are proved each by itself.

- `PatchInv`: a patch is marked reverted exactly when a rollback with the token
  of its latest application is on record, and recorded tokens are never given
  out again. `ShadowInv` carries the check of a batch's configuration across the
  awaits of its requests.
- `RouterInv`: the counts add up to what they were at the start, whatever is
  routed or drained, and a draining worker is cold: no prefix is bound to it,
  and it holds requests only if no other worker serves its model. The second
  part is needed because routing prefers a warm worker.
- `TrafficInv`: only rollouts under way hold traffic beside the active model, the
  active model is short of a hundred only while a canary is out, and a rollout
  no other call came in between has what the active model has not. Each call
  rewrites the active model's row, which is why the shares heal.
  `TrafficAddsUp` alone is not inductive, since promotion, rollback and draining
  each write particular rows, whatever the others hold.
- `PlansInv`: plans are what `PlanReconciliation` made of two specifications.
  The rest is that the type of an action is decided by the first facet that
  differs and the replicas come last (`ReplicasComeLast`): an action a policy
  takes for a change of replicas changes nothing above them. The policy is
  assumed to let only changes of scale pass without a person (`OnlyScales`), a
  hypothesis of `AutomaticPlansAreSmall` itself.

**Workstation.** The invariants say what each copy may lag behind by.

- `WatchdogInv`, `RescueInv`, `LimitInv` say how old a copy is when its life
  begins: the stamp in the heartbeat's file is the last one written; a report is
  filed within `Longest` of its measurement and remembered within a `TTL` of
  that; what a check of the rate limit has cleaned stays clean until it counts,
  because what other checks add meanwhile was read off the clock less than a
  window ago. `RescueAssumption` and `LimitAssumption` ask for positive
  lifetimes, which the code's constants are.
- `HubInv`: an open connection was told what the push loop remembers or is still
  owed it, because the event that says so is in the queue and the connection is
  among those the first event goes to or will be asked for the next. A socket
  that is greeted has heard nothing, which is why a return in the middle of a
  round does no harm.
- `LanesInv`: a list without the model was read before the lane came to have it,
  and every lane has still to be asked or has not had the model since a
  `ModelTTL` before the request (`Earned`). Other requests refresh the lists at
  any time; what they store is true when stored. `ModelTTL` is positive.
- `ForecastInv`: the journals, and the copies that overlapping forecasts hold,
  are histories: stamps in order, every sample what the disk held within
  `Slowest` of its stamp. A forecast is never longer under way than that. The
  lost samples of overlapping writes leave a history a history. The windows in
  which the trend is read nest (`WindowsNest`).
- `ProgressInv`, `ButtonsInv`: progress is short of its next level and is what is
  stored; a disabled button has a request under way, and a button in use that
  was not made busy while it was has one user and remembers its own label. The
  exemption is the code's, and a button's own: with two users the second saves
  "loading" as the label to restore. An award leaves the progress short of the level it reaches
  because no level costs less than the first (`LevelsCost`, about rounded
  powers). `StartXP` is below the first level's cost.

**Advisers.** Most of these are one computation over a query, so that the
invariant is the property and the work is in the functions.

- *Fleet*: devices used are within what a resource has and add up with what is
  left, offers only shrink, and so a workload that found no place earlier finds
  none now.
- *Search*: sorting by objective and place is a total order, the first of it
  leads; what is viable satisfies the memory formula at the code's bytes a
  parameter, up to the three hundredths of a gigabyte the code rounds away
  (`ViableHolds`). `SearchAssumption` asks for
  positive sizes and contexts, as the request schema does.
- *SLO compiler*: the first pass over the sorted candidates takes one per
  runtime and cannot be cut short at eight, since there are five runtimes; the
  second pass fills up. Two passes together show each candidate at most once
  (`DiverseIs`, `Joined`, `ShownAre`).
- *Planner*: what the notes are about is written before them. `Backed` says so
  of every file that is still to be written, which is what an interruption
  leaves behind; what a compose file launches gets the devices its own
  command's plan counted, which hold the model.
- *Evidence*: stored records are those that were seeded, submitted or reported;
  the neighbours are the first of a sort by distance over the real ones, so
  none left out is nearer.

**Model-checked only.** Four properties of the passing runs:
`RequestsAnswered`, `LiveLanesReturn`, `QueuedJobsAreClaimed` and
`EndedJobsAreShown`. They are liveness under fairness, which the prover
cannot do, nor can it reason about ENABLED. The four violations are traces and
need no proof. The modules have no recursive operator.

## 5. Where the code and its documents disagree

Four have a run whose trace shows it:

1. `engine_other_candidate`. The id of the provisioned candidate is not
   returned, so the routes make one up; the provider accepts it, changes
   nothing, and says the last known good is restored.
   `docs/runbooks/INCIDENT_RESPONSE.md:34`: "To immediately revert an
   in-flight canary deployment".
2. `control_two_canaries`. Every request makes its own engine, so its locks
   protect nothing. `docs/THREAT_MODEL.md:103`: "Per-tenant deployment locks".
3. `attestation_rounding`. A duration is rounded once for the digest and twice
   for its check, so some honest proofs are rejected.
4. `evidence_synthetic`. A job's result is stored without the integrity check
   that a submission gets. `docs/BENCHMARKING.md:28`: synthetic fixtures "Can
   **never** be labeled as verified".

The rest is listed under `findings` in `PROJECT.json`, each with its line and
the text it contradicts: claims of restoration and the draining of the
candidate (engine); the freeze, rollbacks written over and unchecked hashes
(control routes); policies nobody evaluates (planning); timeouts and reporters
of jobs; recovery of dead lanes, and the guards the watchdog does not share;
targets the SLO compiler ignores; the bytes of an int4 weight and the latency
limits of the configuration search; neighbours nobody verified; an approval of
what was posted after the review; the two error thresholds of the continuous
optimizer; Dynamo roles that get half of what the model needs; an active model
GKE gives everything beside a candidate's share; the feed's subscriptions and its reconnection; the
heartbeat of a dead watchdog; the burst no rate limit reaches; the lanes
`ensure_model_available` does not ask; the life of a cached report; the 90 days
of a journal; "Optimize + Queue"; a button that says "Loading..." for good.

Several of these are stated in the modules by a definition that no run checks,
because the code breaks it; it can be added to the `.cfg` named here to see a
trace:

| definition | module | cfg |
|---|---|---|
| `HonestRestoreClaim`, `CompletedServes` | ExecutionEngine | `engine_locks.cfg` |
| `KillSwitchHalts`, `RollbackSticks` | ControlPlane | `control_two_canaries.cfg` |
| `WatchdogKeepsGuards` | OllamaRouter | `router.cfg` |
| `RolesHoldTheModel` | DeploymentPlanner | `sizing.cfg` |
| `HoldsByTheDocument`, `WithinLatency` | ConfigurationSearch | `sizing.cfg` |
| `RecommendationMeetsTargets` | SLOCompiler | `sizing.cfg` |
| `ErrorsAreCritical`, `ApprovedWasReviewed` | ProductionLoop | `sizing.cfg` |
| `FreshRunsCover`, `NeighboursAreVerified` | EvidenceStore | `sizing.cfg` |
| `DeadWatchdogShows` | Watchdog | `workstation.cfg` |
| `OptimizedIsQueued`, `OwnImageIsUsed`, `OwnLabelsReturn` | DashboardPage | `workstation.cfg` |

Noted while modelling, with nothing in the repository that promises otherwise:
a completion copies only runtime, version, accelerator and replicas into the
deployment, so the other differences are planned again; a rejected split leaves
the weights it set, a failover of a cluster that is not primary leaves two
primaries, one to itself a weight of zero; an empty shadow batch passes; the
coverage matrix looks at the first matching record only; a body posted to
`control/actions` is stored with the status and the run it names; freezes are
lifted whatever their status, so one lift can be logged twice; fleet resources
that are "allocated" count as free; `compiler.ts:97` compares an architecture
with "Ada" where the registry says "Ada Lovelace", and device names without
their memory ("NVIDIA L40S") fall back to the first device of the catalogue;
the dashboard counts services whose numeric `status` equals "ok" and asks for a
service "ollama" by a name no check has, so both are never so; uploads are
marked by their index in a batch as if it were one in the queue; the activity
log shows its oldest fifty; the worker's statistics read `count` where the SQL
says `c`. A generation that is registered while a poll is suspended is lost
when the poll writes its list back.

## 6. What is not modelled

| part | why |
|---|---|
| Dynamo adapter, dry runs, state provider, outcome recorder | constants, and arithmetic on one record |
| rest of the data layer | catalogue tables, tenants, usage and billing: records one request writes and nothing relates |
| analytical and speculative predictor, capacity planner, `confidence.ts` | floating point formulas whose value fills a field |
| api client, configuration | HTTP calls and settings |
| benchmark CLI beside the worker daemon and the planner | one process, one pass |
| webhooks | signatures and a set of seen ids; events change nothing |
| web UI, HF space, panels of the dashboard that only show a reply | rendering |
| authentication, usage | a lookup, single Redis increments |
| GPU queue, alerts, reports | whole-file writes by one handler each; queue entries are named by the second they come in (`main.py:4088`) |
| Cloudflare worker | single SQL statements; a daily cron that completes queued requests without running them |
| router metrics, autoscale | averages that only order lanes; pulls nothing depends on |

In `OllamaRouter`, the VRAM figures are data, so the double read of a lane's
gpu record in `fits()` (`state.py:117`) while the refresh thread replaces it
has nothing to go wrong with; heartbeats and `priority_score` are left out of
`BenchmarkJobs` because `claimJob` reads neither. Nothing in the code looks at
`timeout_s` of a job.

## 7. What is left

1. Composition of `Planning` with `ControlPlane`, so that the actions a control
   request executes come from a plan, and of `DiskForecast` with `EpicHub`.
2. Abstract specifications beside the slot, with their refinements proved: a
   queue that hands each post out once, for `BenchmarkJobs`; a window counter
   for `RateLimit`, which the code implements only for checks that do not overlap.
3. The properties section 5 lists as broken could each be proved under the
   condition that makes it true, as the exclusion of rollouts is.
