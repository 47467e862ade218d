--------------------------- MODULE ExecutionEngine ---------------------------
(***************************************************************************)
(* packages/reconciler/src/execution-engine.ts: one ExecutionEngine object *)
(* shared by several callers, over the provider of                         *)
(* adapters/simulated-provider.ts.                                         *)
(*                                                                         *)
(* A caller drives one action on one deployment.  It calls startExecution, *)
(* then progressCanary or emergencyRollback, passing each time the record  *)
(* the previous call returned, and waits for a call before the next.  An   *)
(* engine method is asynchronous: it is suspended at each provider call,   *)
(* so pc[p] names the provider call p's method is suspended at, and the    *)
(* code between two awaits is one step.  As in the simulated provider, the *)
(* effect of a provider call takes place when it is issued and its outcome *)
(* is read by the step that resumes.                                       *)
(***************************************************************************)
EXTENDS CanaryEngine

CONSTANTS
  Callers,        \* the processes that drive an action each
  Deployments,    \* what the engine locks
  DeploymentOf,   \* the deployment_id of each caller's action
  Policy,         \* the CanaryPolicy every progressCanary is called with
  Baseline,       \* p95_ttft_ms and error_rate progressCanary compares with
  Telemetry,      \* the StageTelemetry values a caller may report
  Faults,         \* which provider calls may fail; "throw": any may reject
  KnowsCandidate  \* the callers that pass the id provisionCandidate returned

FaultModes == {"provision", "warmup", "traffic_split", "promote", "rollback", "throw"}

ASSUME EngineAssumption ==
  /\ DeploymentOf \in [Callers -> Deployments]
  /\ Faults \subseteq FaultModes
  /\ KnowsCandidate \subseteq Callers
  /\ Policy.stages \in Seq([traffic_percent : 0..100, min_requests : Nat,
                            min_duration_minutes : Nat])

VARIABLES
  pc,     \* the await each caller's method is suspended at, or "idle"
  got,    \* the outcome of the provider call it is suspended at ("ok" if none)
  rec,    \* the OptimizationAction record each caller holds
  run,    \* the CanaryRun record each caller holds
  locks,  \* deploymentLocks
  cands,  \* activeCandidates: the candidate each caller's start provisioned
  astray  \* history: the deployments whose lock was once given up by a
          \* rollback of an action that was not the one holding it

engine == << pc, got, rec, run, locks, cands >>
vars == << pc, got, rec, run, locks, cands, astray >>

Awaits == {"provision", "warmup", "split", "undo",
           "abort", "promote", "drain", "advance", "emergency"}

ActionStatus == {"planned", "approved", "canarying", "completed", "rolled_back", "failed"}

\* status, and of result whether restored_last_known_good is true and which
\* canary_run_id there is
ActionRecord == [status : ActionStatus,
                 restored : BOOLEAN,
                 canary_run : Callers \union {NoId}]

Absent == [state |-> "absent", traffic |-> 0]

Candidate == [state : {"absent", "cold", "ready"}, traffic : 0..100]

CanaryRun == [id : Callers \union {NoId}, stage : Nat, traffic : 0..100, status : RunStatus]

TypeOK ==
  /\ pc \in [Callers -> Awaits \union {"idle"}]
  /\ got \in [Callers -> {"ok", "fail", "throw"}]
  /\ rec \in [Callers -> ActionRecord]
  /\ run \in [Callers -> CanaryRun]
  /\ locks \in SUBSET Deployments
  /\ cands \in [Callers -> Candidate]
  /\ astray \in SUBSET Deployments

Init ==
  /\ pc = [p \in Callers |-> "idle"]
  /\ got = [p \in Callers |-> "ok"]
  /\ rec = [p \in Callers |-> [status |-> "approved", restored |-> FALSE,
                               canary_run |-> NoId]]
  /\ run = [p \in Callers |-> NoRun]
  /\ locks = {}
  /\ cands = [p \in Callers |-> Absent]
  /\ astray = {}

-----------------------------------------------------------------------------
(* What a provider call does to the candidate when it succeeds.            *)

Provisioned(c) == [state |-> "cold", traffic |-> 0]
WarmedUp(c)    == [c EXCEPT !.state = "ready"]
Drained(c)     == Absent

\* a candidate id the provider does not know is accepted and changes nothing
Split(c, pct)  == IF c.state = "absent" THEN c ELSE [c EXCEPT !.traffic = pct]
RolledBack(c)  == IF c.state = "absent" THEN c ELSE [state |-> "cold", traffic |-> 0]

(***************************************************************************)
(* Issue a provider call whose failure mode is "mode" and suspend p at it. *)
(* A failed call has no effect; a rejected one may have had it.            *)
(***************************************************************************)
Outcomes(mode) ==
  {"ok"} \union (Faults \intersect {"throw"})
         \union (IF mode \in Faults THEN {"fail"} ELSE {})

Invoke(p, at, mode, effect) ==
  /\ pc' = [pc EXCEPT ![p] = at]
  /\ \E out \in Outcomes(mode) :
       /\ got' = [got EXCEPT ![p] = out]
       /\ \/ /\ out \in {"ok", "throw"}
             /\ cands' = [cands EXCEPT ![p] = effect]
          \/ /\ out \in {"fail", "throw"}
             /\ UNCHANGED cands

\* The candidate progressCanary and emergencyRollback act on: startExecution
\* does not return the provisioned id, so a caller may well name another one.
Effect(p, new) == IF p \in KnowsCandidate THEN new ELSE cands[p]

\* mutant: a lock that is checked and never taken
AcquireLockForgotten(p) == UNCHANGED locks

AcquireLock(p) == locks' = locks \union {DeploymentOf[p]}
ReleaseLock(p) == locks' = locks \ {DeploymentOf[p]}

\* The method returns "act" and "r" to its caller; no outcome is awaited.
Return(p, act, r) ==
  /\ pc' = [pc EXCEPT ![p] = "idle"]
  /\ got' = [got EXCEPT ![p] = "ok"]
  /\ rec' = [rec EXCEPT ![p] = act]
  /\ run' = [run EXCEPT ![p] = r]
  /\ UNCHANGED cands

\* The method rejects: its caller keeps the records it had.
Reject(p) == Return(p, rec[p], run[p]) /\ UNCHANGED locks

\* The arguments a method is called with, kept while it is suspended.
Load(p, act, r) ==
  /\ rec' = [rec EXCEPT ![p] = act]
  /\ run' = [run EXCEPT ![p] = r]

\* mutant: every failed start is said to have been undone
FailedRecordHopeful(act, claim) ==
  [act EXCEPT !.status = "failed", !.restored = TRUE, !.canary_run = NoId]

\* {...act, status: "failed", result: {restored_last_known_good: claim}}
FailedRecord(act, claim) ==
  [act EXCEPT !.status = "failed", !.restored = claim, !.canary_run = NoId]

RolledBackRecord(act, out) ==
  [act EXCEPT !.status = "rolled_back", !.canary_run = NoId,
              !.restored = (out = "ok")]

\* mutant: an error path without its release
FailStartLeaky(p, claim) ==
  /\ Return(p, FailedRecord(rec[p], claim), run[p])
  /\ UNCHANGED locks

\* The answer of startExecution on a failure, once it holds the lock.
FailStart(p, claim) ==
  /\ ReleaseLock(p)
  /\ Return(p, FailedRecord(rec[p], claim), run[p])

-----------------------------------------------------------------------------
(* startExecution                                                          *)

\* The call, up to its first await: the kill switch, the lock, provisioning.
StartExecution(p, action, isFreezeActive) ==
  /\ pc[p] = "idle"
  /\ \/ /\ isFreezeActive
        /\ Return(p, FailedRecord(action, FALSE), run[p])
        /\ UNCHANGED locks
     \/ /\ ~isFreezeActive
        /\ DeploymentOf[p] \in locks
        /\ Return(p, action, run[p])
        /\ UNCHANGED locks
     \/ /\ ~isFreezeActive
        /\ DeploymentOf[p] \notin locks
        /\ AcquireLock(p)
        /\ Invoke(p, "provision", "provision", Provisioned(cands[p]))
        /\ Load(p, action, run[p])

AfterProvision(p) ==
  /\ pc[p] = "provision"
  /\ \/ /\ got[p] = "ok"
        /\ Invoke(p, "warmup", "warmup", WarmedUp(cands[p]))
        /\ UNCHANGED << rec, run, locks >>
     \/ /\ got[p] \in {"fail", "throw"}
        /\ FailStart(p, FALSE)

AfterWarmup(p) ==
  /\ pc[p] = "warmup"
  /\ \/ /\ got[p] = "ok"
        /\ Invoke(p, "split", "traffic_split", Split(cands[p], CreateCanaryRun(p).traffic))
        /\ UNCHANGED << rec, run, locks >>
     \/ /\ got[p] = "fail"
        /\ Invoke(p, "undo", "rollback", RolledBack(cands[p]))
        /\ UNCHANGED << rec, run, locks >>
     \/ /\ got[p] = "throw"
        /\ FailStart(p, FALSE)

\* Success keeps the lock: it is held for as long as the canary is out.
AfterSplit(p) ==
  /\ pc[p] = "split"
  /\ \/ /\ got[p] = "ok"
        /\ Return(p, [rec[p] EXCEPT !.status = "canarying", !.restored = FALSE,
                                    !.canary_run = p], CreateCanaryRun(p))
        /\ UNCHANGED locks
     \/ /\ got[p] = "fail"
        /\ Invoke(p, "undo", "rollback", RolledBack(cands[p]))
        /\ UNCHANGED << rec, run, locks >>
     \/ /\ got[p] = "throw"
        /\ FailStart(p, FALSE)

\* What the rollback answered is not looked at: the claim is unconditional.
AfterUndo(p) ==
  /\ pc[p] = "undo"
  /\ \/ /\ got[p] \in {"ok", "fail"}
        /\ FailStart(p, TRUE)
     \/ /\ got[p] = "throw"
        /\ FailStart(p, FALSE)

-----------------------------------------------------------------------------
(* progressCanary: nothing in it catches a provider that rejects.          *)

ProgressCanary(p, action, canaryRun, telemetry) ==
  LET verdict == EvaluateStage(canaryRun, telemetry, Baseline, Policy)
  IN  /\ pc[p] = "idle"
      /\ \/ /\ verdict = "rollback"
            /\ Invoke(p, "abort", "rollback", Effect(p, RolledBack(cands[p])))
         \/ /\ verdict = "promote_full"
            /\ Invoke(p, "promote", "promote", Effect(p, Split(cands[p], 100)))
         \/ /\ verdict = "promote_stage"
            /\ Invoke(p, "advance", "traffic_split",
                      Effect(p, Split(cands[p], AdvanceStage(canaryRun, Policy).traffic)))
         \/ /\ verdict = "hold"
            /\ UNCHANGED << pc, got, cands >>
      /\ Load(p, action, canaryRun)
      /\ UNCHANGED locks

AfterAbort(p) ==
  /\ pc[p] = "abort"
  /\ \/ /\ got[p] # "throw"
        /\ ReleaseLock(p)
        /\ Return(p, RolledBackRecord(rec[p], got[p]),
                     [run[p] EXCEPT !.status = "rolled_back"])
     \/ /\ got[p] = "throw"
        /\ Reject(p)

\* Whether the promotion worked is not looked at, and it is the candidate
\* itself that is drained.  draining never fails in the simulated provider.
AfterPromote(p) ==
  /\ pc[p] = "promote"
  /\ \/ /\ got[p] # "throw"
        /\ Invoke(p, "drain", "drain", Effect(p, Drained(cands[p])))
        /\ UNCHANGED << rec, run, locks >>
     \/ /\ got[p] = "throw"
        /\ Reject(p)

AfterDrain(p) ==
  /\ pc[p] = "drain"
  /\ \/ /\ got[p] # "throw"
        /\ ReleaseLock(p)
        /\ Return(p, [rec[p] EXCEPT !.status = "completed", !.restored = FALSE,
                                    !.canary_run = run[p].id],
                     [run[p] EXCEPT !.status = "completed"])
     \/ /\ got[p] = "throw"
        /\ Reject(p)

\* Whether the split worked is not looked at.
AfterAdvance(p) ==
  /\ pc[p] = "advance"
  /\ \/ /\ got[p] # "throw"
        /\ Return(p, rec[p], AdvanceStage(run[p], Policy))
        /\ UNCHANGED locks
     \/ /\ got[p] = "throw"
        /\ Reject(p)

-----------------------------------------------------------------------------
(* emergencyRollback: neither the status of the action nor who holds the   *)
(* lock is looked at, and the canary run is not among what it returns.     *)

EmergencyRollback(p, action) ==
  /\ pc[p] = "idle"
  /\ Invoke(p, "emergency", "rollback", Effect(p, RolledBack(cands[p])))
  /\ Load(p, action, run[p])
  /\ UNCHANGED locks

AfterEmergency(p) ==
  /\ pc[p] = "emergency"
  /\ \/ /\ got[p] # "throw"
        /\ ReleaseLock(p)
        /\ Return(p, RolledBackRecord(rec[p], got[p]), run[p])
     \/ /\ got[p] = "throw"
        /\ Reject(p)

-----------------------------------------------------------------------------
\* The engine's own steps: resuming a suspended method.
EngineStep(p) ==
  \/ AfterProvision(p) \/ AfterWarmup(p) \/ AfterSplit(p) \/ AfterUndo(p)
  \/ AfterAbort(p) \/ AfterPromote(p) \/ AfterDrain(p) \/ AfterAdvance(p)
  \/ AfterEmergency(p)

\* A caller starts an action that waits to be started, progresses a canary
\* that is out, and asks for a rollback whatever became of its action.
CallerStep(p) ==
  \/ /\ rec[p].status \in {"planned", "approved"}
     /\ \E isFreezeActive \in BOOLEAN : StartExecution(p, rec[p], isFreezeActive)
  \/ /\ rec[p].status = "canarying"
     /\ \E telemetry \in Telemetry : ProgressCanary(p, rec[p], run[p], telemetry)
  \/ EmergencyRollback(p, rec[p])

\* p has changed its deployment, or may have, and is not finished with it.
Live(p) == pc[p] \in {"provision", "warmup", "split", "undo"} \/ rec[p].status = "canarying"

\* The deployment that loses a lock by the answer to p's emergency rollback
\* although p, which has no rollout under way, does not hold it.
LosesItsLock(p) ==
  IF pc[p] = "emergency" /\ got[p] # "throw" /\ ~Live(p)
  THEN {DeploymentOf[p]} \intersect locks ELSE {}

Next ==
  \E p \in Callers : /\ EngineStep(p) \/ CallerStep(p)
                    /\ astray' = astray \union LosesItsLock(p)

Spec == Init /\ [][Next]_vars

-----------------------------------------------------------------------------
(* Properties                                                              *)

\* Per-deployment locking: between the provisioning of a candidate and the
\* answer that ends its rollout no other action works on the deployment,
\* unless a rollback asked for another action has given the lock away.
OneLiveActionPerDeployment ==
  \A p, q \in Callers :
    p # q /\ DeploymentOf[p] = DeploymentOf[q] /\ DeploymentOf[p] \notin astray
      => ~(Live(p) /\ Live(q))

\* Every path out of the engine gives the lock back: a deployment is locked
\* only while an action is live on it, whoever took and whoever lost the lock.
\* And none gives it up while the canary is out but emergencyRollback, called
\* for an action that is not the one out.
LockHeldIffLive ==
  \A d \in Deployments :
    LET occupied == \E p \in Callers : DeploymentOf[p] = d /\ Live(p)
    IN  /\ d \in locks => occupied
        /\ occupied /\ d \notin astray => d \in locks

\* A start that failed and says the last known good was restored is right
\* about the candidate, it takes no traffic, although the claim is made
\* without looking at what the rollback answered.
FailedStartsAreQuiet ==
  \A p \in Callers :
    rec[p].status = "failed" /\ rec[p].restored => cands[p].traffic = 0

\* docs/runbooks/INCIDENT_RESPONSE.md: a rollback reverts the canary, so any
\* record with the claim is right.
RestoredMeansNoTraffic ==
  \A p \in Callers : rec[p].restored => cands[p].traffic = 0

\* The claim restored_last_known_good is made only after a rollback that
\* succeeded: the step that sets it saw the provider answer so.
HonestRestoreClaim ==
  [][\A p \in Callers : rec'[p].restored /\ ~rec[p].restored
       => got[p] = "ok"]_vars

\* A completed action's candidate is what serves the deployment.
CompletedServes ==
  \A p \in Callers :
    rec[p].status = "completed" => cands[p].state = "ready" /\ cands[p].traffic = 100

-----------------------------------------------------------------------------
\* The promise of the engine: each caller's action is in a phase of the
\* slot of its deployment.
PhaseOf(p) == IF Live(p) THEN "live"
              ELSE IF rec[p].status \in {"planned", "approved"} THEN "waiting"
              ELSE rec[p].status

Slot == INSTANCE RolloutSlot WITH Actions <- Callers,
                                  LastStage <- Len(Policy.stages) - 1,
                                  phase <- [p \in Callers |-> PhaseOf(p)],
                                  stage <- [p \in Callers |-> run[p].stage],
                                  open <- astray

\* Every behaviour of the engine is one of the deployment slot: exclusive
\* occupation for as long as nobody rolls back what is not under way, a walk
\* through the stages one by one that completes only from the last, and ends
\* that only a rollback overwrites.
ImplementsSlot == Slot!Spec
=============================================================================
