---------------------------- MODULE ControlPlane ----------------------------
(***************************************************************************)
(* The control routes of apps/web/app/api/v1/control over the in-memory    *)
(* data layer of packages/database.  A request is a process that is served *)
(* once.  Its handler reads the store when its body has arrived, calls the *)
(* execution engine, and writes back what the engine returns; other        *)
(* handlers run while it is suspended inside the engine.                   *)
(*                                                                         *)
(* Every handler constructs its own provider and its own engine.  The      *)
(* engine's module is therefore used with one lock per request: what       *)
(* request r locks is a lock of r's own engine, named r.  The simulated    *)
(* provider of a handler has no failure injected and has not provisioned   *)
(* the candidate a later request names.                                    *)
(*                                                                         *)
(* The id of a canary run or of a freeze is the request that created it.   *)
(* POST actions stores any body under any id; what was posted is kept in   *)
(* "posted", which no handler reads.                                       *)
(***************************************************************************)
EXTENDS Integers, Sequences, FiniteSetsExt

CONSTANTS
  Requests, Actions, Deployments,
  TargetOf,       \* the deployment of each action
  Existing,       \* the actions planned before the first request
  Seeded,         \* the actions the data layer is seeded with
  Postable,       \* the statuses clients post actions with
  Policy, Baseline, Telemetry,
  NoId, Global    \* no canary run; the scope of a global freeze

ASSUME ControlAssumption ==
  /\ TargetOf \in [Actions -> Deployments] /\ IsFiniteSet(Actions)
  /\ NoId \notin Requests \union Actions
  /\ Policy.stages \in Seq([traffic_percent : 0..100, min_requests : Nat,
                            min_duration_minutes : Nat])

VARIABLES pc, got, rec, run, locks, cands    \* the engines of the requests

VARIABLES
  actions,    \* the optimization actions stored
  runs,       \* the canary runs stored
  version,    \* deployment_version of each deployment
  outcomes,   \* how many production outcomes each action has recorded
  freezes,    \* the status of the freezes stored
  request,    \* what each request asks for and how far it is
  log,        \* the audit record each request has written
  posted      \* history: what the bodies posted under each id have said

store == << actions, runs, version, outcomes, freezes >>
engine == << pc, got, rec, run, locks, cands >>
vars == << pc, got, rec, run, locks, cands,
           actions, runs, version, outcomes, freezes, request, log, posted >>

Engine == INSTANCE ExecutionEngine
  WITH Callers <- Requests, Deployments <- Requests,
       DeploymentOf <- [r \in Requests |-> r],
       Faults <- {}, KnowsCandidate <- {}, astray <- {}

ASSUME PostableAssumption == Postable \subseteq Engine!ActionStatus

Unasked == [op |-> "none", arg |-> NoId, answer |-> "none"]

Ops == {"create", "approve", "execute", "rollback", "freeze", "lift"}

Events == {"none", "action_created", "action_approved", "execution_started",
           "rollback_triggered", "freeze_activated", "freeze_lifted"}

\* An action carries whether its action_hash is the hash of its specs.
StoredAction == [status : Engine!ActionStatus, restored : BOOLEAN,
                 canary_run : Requests \union {NoId}, bound : BOOLEAN]

\* what the handlers read of a posted body
Body == [status : Engine!ActionStatus, canary_run : Requests \union {NoId}]

Missing == [status |-> "none"]

TypeOK ==
  /\ pc \in [Requests -> Engine!Awaits \union {"idle"}]
  /\ rec \in [Requests -> StoredAction \union {Missing}]
  /\ run \in [Requests -> Engine!CanaryRun]
  /\ locks \subseteq Requests
  /\ actions \in [Actions -> StoredAction \union {Missing}]
  /\ runs \in [Requests -> Engine!CanaryRun]
  /\ version \in [Deployments -> Nat]
  /\ outcomes \in [Actions -> Nat]
  /\ freezes \in [Requests -> {"none", "active", "lifted"}]
  /\ request \in [Requests -> [op : Ops \union {"none"},
                               arg : Actions \union Deployments \union Requests
                                             \union {Global, NoId},
                               answer : {"none", "done", "refused"}]]
  /\ log \in [Requests -> Events]
  /\ posted \in [Actions -> SUBSET Body]

Planned(bound) == [status |-> "planned", restored |-> FALSE, canary_run |-> NoId,
                   bound |-> bound]

\* SEED_OPTIMIZATION_ACTIONS: canarying, with a made-up hash and
\* without the id of the run seeded next to it.
Seed == [status |-> "canarying", restored |-> FALSE, canary_run |-> NoId, bound |-> FALSE]

Init ==
  /\ pc = [r \in Requests |-> "idle"]
  /\ got = [r \in Requests |-> "ok"]
  /\ rec = [r \in Requests |-> Missing]
  /\ run = [r \in Requests |-> Engine!NoRun]
  /\ locks = {}
  /\ cands = [r \in Requests |-> Engine!Absent]
  /\ actions = [a \in Actions |-> IF a \in Existing THEN Planned(TRUE)
                                 ELSE IF a \in Seeded THEN Seed ELSE Missing]
  /\ runs = [r \in Requests |-> Engine!NoRun]
  /\ version = [d \in Deployments |-> 1]
  /\ outcomes = [a \in Actions |-> 0]
  /\ freezes = [r \in Requests |-> "none"]
  /\ request = [r \in Requests |-> Unasked]
  /\ log = [r \in Requests |-> "none"]
  /\ posted = [a \in Actions |-> {}]

-----------------------------------------------------------------------------
(* Requests.  "Ask" is the moment a handler has its body and reads.        *)

Ask(r, op, arg, answer) ==
  /\ request[r] = Unasked
  /\ request' = [request EXCEPT ![r] = [op |-> op, arg |-> arg, answer |-> answer]]

Answer(r) == request' = [request EXCEPT ![r].answer = "done"]

Audit(r, event) == log' = [log EXCEPT ![r] = event]

\* dataLayer.isFreezeActive; a freeze is known by the request that made it
FreezeActive(d) ==
  \E f \in Requests : freezes[f] = "active" /\ request[f].arg \in {Global, d}

-----------------------------------------------------------------------------
(* Handlers that do not suspend after they have read the store.            *)

\* reconcile plans an action whose hash binds its specs.  POST actions stores
\* whatever body it is sent over whatever has its id: in any status, and
\* naming no canary run, a stored one, or one there is not (for that, r, which
\* starts none).  Whether it says something was restored nothing reads.
Create(r, a) ==
  /\ Ask(r, "create", a, "done")
  /\ \E status \in Postable, bound \in BOOLEAN,
        id \in {NoId, r} \union {q \in Requests : runs[q].id = q} :
       /\ actions' = [actions EXCEPT ![a] = [status |-> status, restored |-> FALSE,
                                            canary_run |-> id, bound |-> bound]]
       /\ posted' = [posted EXCEPT ![a] = @ \union {[status |-> status, canary_run |-> id]}]
  /\ Audit(r, "action_created")
  /\ UNCHANGED << engine, runs, version, outcomes, freezes >>

\* The status of the action is not looked at.
Approve(r, a) ==
  /\ actions[a] # Missing
  /\ \/ /\ actions[a].bound
        /\ Ask(r, "approve", a, "done")
        /\ actions' = [actions EXCEPT ![a].status = "approved"]
        /\ Audit(r, "action_approved")
     \/ /\ ~actions[a].bound
        /\ Ask(r, "approve", a, "refused")
        /\ UNCHANGED << actions, log >>
  /\ UNCHANGED << engine, runs, version, outcomes, freezes, posted >>

ActivateFreeze(r, scope) ==
  /\ Ask(r, "freeze", scope, "done")
  /\ freezes' = [freezes EXCEPT ![r] = "active"]
  /\ Audit(r, "freeze_activated")
  /\ UNCHANGED << engine, actions, runs, version, outcomes, posted >>

\* A freeze that was lifted before is lifted, and logged, again.
LiftFreeze(r, f) ==
  /\ freezes[f] # "none"
  /\ Ask(r, "lift", f, "done")
  /\ freezes' = [freezes EXCEPT ![f] = "lifted"]
  /\ Audit(r, "freeze_lifted")
  /\ UNCHANGED << engine, actions, runs, version, outcomes, posted >>

-----------------------------------------------------------------------------
(* POST actions/[id]/execute                                               *)

\* dataLayer.getCanaryRun of the run the action names
HasRun(a) == actions[a].canary_run # NoId /\ runs[actions[a].canary_run].id # NoId

\* 423 under a freeze; 400 in a status that is neither to start nor to
\* progress, and for a canary whose run is not stored.
ExecuteRefused(r, a) ==
  /\ actions[a] # Missing
  /\ \/ FreezeActive(TargetOf[a])
     \/ actions[a].status \in {"completed", "rolled_back", "failed"}
     \/ actions[a].status = "canarying" /\ ~HasRun(a)
  /\ Ask(r, "execute", a, "refused")
  /\ UNCHANGED << engine, store, log, posted >>

ExecuteStart(r, a) ==
  /\ ~FreezeActive(TargetOf[a])
  /\ actions[a].status \in {"approved", "planned"}
  /\ Ask(r, "execute", a, "none")
  /\ Engine!StartExecution(r, actions[a], FALSE)
  /\ UNCHANGED << store, log, posted >>

ExecuteProgress(r, a) ==
  /\ ~FreezeActive(TargetOf[a])
  /\ actions[a].status = "canarying"
  /\ HasRun(a)
  /\ Ask(r, "execute", a, "none")
  /\ \E telemetry \in Telemetry :
       Engine!ProgressCanary(r, actions[a], runs[actions[a].canary_run], telemetry)
  /\ UNCHANGED << store, log, posted >>

\* What is waiting for the engine's answer to r, now that it is there.
Resumes(r, op) ==
  /\ request[r].op = op /\ request[r].answer = "none"
  /\ pc[r] = "idle"
  /\ Answer(r)
  /\ UNCHANGED << engine, freezes, posted >>

\* startExecution answered with a canary run of its own.
Started(r) == run[r].id = r

\* mutants: the run is not stored; the two records are swapped
WriteBackActionOnly(r, a) ==
  /\ actions' = [actions EXCEPT ![a] = rec[r]]
  /\ UNCHANGED runs

\* The record and the run are written over whatever is stored by now.
WriteBack(r, a) ==
  /\ actions' = [actions EXCEPT ![a] = rec[r]]
  /\ runs' = [runs EXCEPT ![run[r].id] = run[r]]

StartReturns(r) ==
  /\ Resumes(r, "execute")
  /\ Started(r)
  /\ WriteBack(r, request[r].arg)
  /\ Audit(r, "execution_started")
  /\ UNCHANGED << version, outcomes >>

Completions(r) == IF rec[r].status = "completed" THEN 1 ELSE 0

RecordOutcome(r, a) == outcomes' = [outcomes EXCEPT ![a] = @ + Completions(r)]

\* mutant: the version is bumped by every step of a rollout
BumpVersionAlways(r, d) == version' = [version EXCEPT ![d] = @ + 1]

BumpVersion(r, d) == version' = [version EXCEPT ![d] = @ + Completions(r)]

ProgressReturns(r) ==
  LET a == request[r].arg
  IN  /\ Resumes(r, "execute")
      /\ ~Started(r)
      /\ WriteBack(r, a)
      /\ RecordOutcome(r, a)
      /\ BumpVersion(r, TargetOf[a])
      /\ UNCHANGED log

-----------------------------------------------------------------------------
(* POST actions/[id]/rollback: neither the status nor a freeze is looked   *)
(* at, and the canary run stored for the action is left as it is.          *)

Rollback(r, a) ==
  /\ actions[a] # Missing
  /\ Ask(r, "rollback", a, "none")
  /\ Engine!EmergencyRollback(r, actions[a])
  /\ UNCHANGED << store, log, posted >>

\* mutant: a rollback that leaves no audit record
RollbackReturnsUnlogged(r) ==
  /\ Resumes(r, "rollback")
  /\ actions' = [actions EXCEPT ![request[r].arg] = rec[r]]
  /\ UNCHANGED << runs, version, outcomes, log >>

RollbackReturns(r) ==
  /\ Resumes(r, "rollback")
  /\ actions' = [actions EXCEPT ![request[r].arg] = rec[r]]
  /\ Audit(r, "rollback_triggered")
  /\ UNCHANGED << runs, version, outcomes >>

-----------------------------------------------------------------------------
EngineRuns(r) == Engine!EngineStep(r) /\ UNCHANGED << store, request, log, posted >>

\* what the server does on its own once a request has been read
Serve(r) == EngineRuns(r) \/ StartReturns(r) \/ ProgressReturns(r) \/ RollbackReturns(r)

Arrive(r) ==
  \/ \E a \in Actions : \/ Create(r, a) \/ Approve(r, a)
                        \/ ExecuteRefused(r, a) \/ ExecuteStart(r, a)
                        \/ ExecuteProgress(r, a) \/ Rollback(r, a)
  \/ \E scope \in Deployments \union {Global} : ActivateFreeze(r, scope)
  \/ \E f \in Requests : LiftFreeze(r, f)

Next == \E r \in Requests : Arrive(r) \/ Serve(r)

Spec == Init /\ [][Next]_vars

-----------------------------------------------------------------------------
(* Properties                                                              *)

\* The runs a may name: those stored that were started for it, and
\* those a body posted under its id has named.
RunsOf(a) ==
  {q \in Requests : runs[q].id = q /\ request[q].op = "execute" /\ request[q].arg = a}

NamedRuns(a) == RunsOf(a) \union ({body.canary_run : body \in posted[a]} \ {NoId})

\* The run a stored action names is stored, and was started for this action,
\* unless a body posted under the action's own id has named it: a write-back
\* never leaves an action pointing at another action's canary.
RunsBelongToTheirActions ==
  \A a \in Actions :
    actions[a] # Missing /\ actions[a].canary_run # NoId
      => actions[a].canary_run \in NamedRuns(a)

\* A deployment's version counts the completions recorded for its actions,
\* however requests overlap.
VersionCountsOutcomes ==
  \A d \in Deployments :
    version[d] = 1 + MapThenSumSet(LAMBDA a : outcomes[a], {a \in Actions : TargetOf[a] = d})

\* An end status that no body has claimed under the action's id has a witness
\* elsewhere in the store: a completed action has an outcome, a rolled back
\* one a rollback on the audit log or a run that its telemetry rolled back
\* (and that, where another action names the run too, may have moved on since).
EndHasWitness(a) ==
  actions[a] # Missing /\ (\A body \in posted[a] : body.status # actions[a].status) =>
    /\ actions[a].status = "completed" => outcomes[a] > 0
    /\ actions[a].status = "rolled_back" =>
         \/ \E r \in Requests : request[r].arg = a /\ log[r] = "rollback_triggered"
         \/ \E q \in NamedRuns(a) :
              \/ runs[q].status = "rolled_back"
              \/ \E b \in Actions \ {a} : q \in NamedRuns(b)

\* However handlers overlap, every stored action's end has its witness.
EndsHaveWitnesses == \A a \in Actions : EndHasWitness(a)

\* docs/THREAT_MODEL.md: deployments are locked, so one deployment never has
\* two actions canarying.
OneCanaryPerDeployment ==
  \A a, b \in Actions :
    /\ a # b /\ TargetOf[a] = TargetOf[b]
    /\ actions[a].status = "canarying"
    => actions[b].status # "canarying"

\* docs/LAUNCH_CERTIFICATION.md: the kill switch halts execution; no action
\* moves on to canarying or completed while its deployment is frozen.
KillSwitchHalts ==
  [][\A a \in Actions :
       FreezeActive(TargetOf[a]) /\ actions'[a].status # actions[a].status
         => actions'[a].status \notin {"canarying", "completed"}]_vars

\* docs/runbooks/INCIDENT_RESPONSE.md: a rollback reverts the canary; the
\* action does not find itself canarying or completed again.
RollbackSticks ==
  [][\A a \in Actions : actions[a].status = "rolled_back"
       => actions'[a].status \in {"rolled_back", "approved"}]_vars
=============================================================================
