----------------------- MODULE ExecutionEngine_proofs -----------------------
(***************************************************************************)
(* What the execution engine guarantees for any number of callers and      *)
(* deployments, any policy, telemetry and faults, whatever callers know of *)
(* their candidates and whenever they ask for a rollback.                  *)
(*                                                                         *)
(* The argument has two levels.  StepKinds looks at the code: every step   *)
(* starts, refuses, keeps, advances or finishes the rollout of one caller, *)
(* or rolls back what is not under way, and moves the deployment's lock    *)
(* with it.  The theorems about locks and slots look only at these kinds.  *)
(***************************************************************************)
EXTENDS ExecutionEngine, TLAPS

Starting == {"provision", "warmup", "split", "undo"}

Waiting == {"planned", "approved"}

\* The types of the program's own variables.
Typed ==
  /\ pc \in [Callers -> Awaits \union {"idle"}]
  /\ got \in [Callers -> {"ok", "fail", "throw"}]
  /\ rec \in [Callers -> ActionRecord]
  /\ run \in [Callers -> CanaryRun]
  /\ locks \in SUBSET Deployments
  /\ cands \in [Callers -> Candidate]

\* A method is suspended in the middle of a start, in the middle of a method
\* called for a canary that is out, or in an emergency rollback, of which
\* nothing is known.  A promotion is under way from the last stage, an
\* advance from one before it; an action that waits has come to none.
Suspended ==
  \A p \in Callers :
    /\ rec[p].status \in Waiting => run[p].stage = 0
    /\ pc[p] \in Starting => rec[p].status \in Waiting
    /\ pc[p] \in {"abort", "promote", "drain", "advance"} => rec[p].status = "canarying"
    /\ pc[p] \in {"promote", "drain"} => run[p].stage >= Len(Policy.stages) - 1
    /\ pc[p] = "advance" => run[p].stage < Len(Policy.stages) - 1

IInv ==
  /\ Typed /\ astray \in SUBSET Deployments
  /\ Suspended
  /\ OneLiveActionPerDeployment
  /\ LockHeldIffLive

-----------------------------------------------------------------------------
(* Types                                                                   *)

LEMMA NoRunType == NoRun \in CanaryRun
  BY DEF NoRun, CanaryRun, RunStatus

\* Any stage of the policy asks for a percentage.
LEMMA StageType ==
  ASSUME NEW i \in Nat, i + 1 \in 1 .. Len(Policy.stages)
  PROVE  Policy.stages[i + 1].traffic_percent \in 0..100
<1> DEFINE PolicyStage == [traffic_percent : 0..100, min_requests : Nat,
                           min_duration_minutes : Nat]
<1>1. Policy.stages \in Seq(PolicyStage)
  BY EngineAssumption
<1> HIDE DEF PolicyStage
<1>2. Policy.stages[i + 1] \in PolicyStage
  BY <1>1
<1> QED BY <1>2 DEF PolicyStage

LEMMA StatusType ==
  /\ "progressing" \in RunStatus /\ "promoting" \in RunStatus
  /\ "completed" \in RunStatus /\ "rolled_back" \in RunStatus
  BY DEF RunStatus

\* The policy moves a run to a run.
LEMMA AdvanceType ==
  ASSUME NEW r \in CanaryRun
  PROVE  AdvanceStage(r, Policy) \in CanaryRun
<1> DEFINE next == r.stage + 1
           percent == Policy.stages[next + 1].traffic_percent
<1>1. 100 \in 0..100 /\ r.stage \in Nat /\ next \in Nat
  BY DEF CanaryRun
<1>2. [r EXCEPT !.status = "promoting", !.traffic = 100] \in CanaryRun
  BY <1>1, StatusType DEF CanaryRun
<1>3. ASSUME ~(next >= Len(Policy.stages))
      PROVE  [r EXCEPT !.stage = next, !.status = "progressing", !.traffic = percent]
               \in CanaryRun
  <2>1. Len(Policy.stages) \in Nat
    BY EngineAssumption
  <2>2. next + 1 \in 1 .. Len(Policy.stages)
    BY <1>1, <1>3, <2>1
  <2>3. percent \in 0..100
    BY <1>1, <2>2, StageType
  <2> HIDE DEF next, percent
  <2> QED BY <1>1, <2>3, StatusType DEF CanaryRun
<1> QED BY <1>2, <1>3 DEF AdvanceStage

LEMMA CreateType ==
  ASSUME NEW p \in Callers
  PROVE  CreateCanaryRun(p) \in CanaryRun
  BY DEF CreateCanaryRun, DefaultStages, Stage, CanaryRun, RunStatus

\* What provider calls do to a candidate makes a candidate.
LEMMA CandidateType ==
  ASSUME NEW c \in Candidate
  PROVE  /\ Provisioned(c) \in Candidate
         /\ WarmedUp(c) \in Candidate
         /\ Drained(c) \in Candidate
         /\ RolledBack(c) \in Candidate
         /\ \A pct \in 0..100 : Split(c, pct) \in Candidate
<1>1. 0 \in 0..100
  OBVIOUS
<1> QED BY <1>1 DEF Provisioned, WarmedUp, Drained, RolledBack, Split, Absent, Candidate

\* The records an engine method answers with are action records, and the
\* status of each is the one its name says.
LEMMA RecordType ==
  ASSUME NEW act \in ActionRecord
  PROVE  /\ \A claim \in BOOLEAN :
              /\ FailedRecord(act, claim) \in ActionRecord
              /\ FailedRecord(act, claim).status = "failed"
         /\ \A out :
              /\ RolledBackRecord(act, out) \in ActionRecord
              /\ RolledBackRecord(act, out).status = "rolled_back"
<1>1. "failed" \in ActionStatus /\ "rolled_back" \in ActionStatus
  BY DEF ActionStatus
<1> QED BY <1>1 DEF FailedRecord, RolledBackRecord, ActionRecord

-----------------------------------------------------------------------------
(* The kinds of step                                                       *)

SameForOthers(p) ==
  \A q \in Callers \ {p} : pc'[q] = pc[q] /\ rec'[q] = rec[q] /\ run'[q] = run[q]

SameStage(p) == run'[p].stage = run[p].stage

Starts(p) ==
  /\ PhaseOf(p) = "waiting" /\ PhaseOf(p)' = "live" /\ SameStage(p)
  /\ DeploymentOf[p] \notin locks
  /\ locks' = locks \union {DeploymentOf[p]} /\ LosesItsLock(p) = {}

Refuses(p) ==
  /\ PhaseOf(p) = "waiting" /\ PhaseOf(p)' = "failed" /\ SameStage(p)
  /\ locks' = locks /\ LosesItsLock(p) = {}

Keeps(p) ==
  /\ PhaseOf(p)' = PhaseOf(p) /\ SameStage(p)
  /\ locks' = locks /\ LosesItsLock(p) = {}

Advances(p) ==
  /\ PhaseOf(p) = "live" /\ PhaseOf(p)' = "live"
  /\ run[p].stage < Len(Policy.stages) - 1 /\ run'[p].stage = run[p].stage + 1
  /\ locks' = locks /\ LosesItsLock(p) = {}

Finishes(p) ==
  /\ PhaseOf(p) = "live" /\ PhaseOf(p)' \in Slot!Ends /\ SameStage(p)
  /\ PhaseOf(p)' = "completed" => run[p].stage >= Len(Policy.stages) - 1
  /\ locks' = locks \ {DeploymentOf[p]} /\ LosesItsLock(p) = {}

Strays(p) ==
  /\ PhaseOf(p) # "live" /\ PhaseOf(p)' = "rolled_back" /\ SameStage(p)
  /\ locks' = locks \ {DeploymentOf[p]}
  /\ LosesItsLock(p) = {DeploymentOf[p]} \intersect locks

Kind(p) ==
  /\ Typed'
  /\ Suspended'
  /\ SameForOthers(p)
  /\ Starts(p) \/ Refuses(p) \/ Keeps(p) \/ Advances(p) \/ Finishes(p) \/ Strays(p)

\* Only the answer to a rollback of what is not under way loses a lock.
LEMMA NoLoss ==
  ASSUME NEW p \in Callers, pc[p] # "emergency" \/ got[p] = "throw" \/ Live(p)
  PROVE  LosesItsLock(p) = {}
  BY DEF LosesItsLock

\* Suspending p at a provider call, with the records it has.
LEMMA Suspends ==
  ASSUME Typed, Suspended, NEW p \in Callers, NEW at \in Awaits, NEW mode,
         NEW effect \in Candidate, Invoke(p, at, mode, effect),
         rec' = rec, run' = run, locks' \in SUBSET Deployments,
         at \in Starting => rec[p].status \in Waiting,
         at \in {"abort", "promote", "drain", "advance"} => rec[p].status = "canarying",
         at \in {"promote", "drain"} => run[p].stage >= Len(Policy.stages) - 1,
         at = "advance" => run[p].stage < Len(Policy.stages) - 1
  PROVE  /\ Typed' /\ Suspended' /\ SameForOthers(p) /\ SameStage(p)
         /\ at # "emergency" => PhaseOf(p)' = "live"
         /\ at = "emergency" /\ pc[p] = "idle" => PhaseOf(p)' = PhaseOf(p)
<1>1. pc' = [pc EXCEPT ![p] = at] /\ at # "idle"
  BY DEF Invoke, Awaits
<1>2. Typed'
  <2>1. \A out \in Outcomes(mode) : out \in {"ok", "fail", "throw"}
    BY DEF Outcomes
  <2>2. got' \in [Callers -> {"ok", "fail", "throw"}]
    BY <2>1 DEF Typed, Invoke
  <2>3. cands' \in [Callers -> Candidate]
    BY DEF Typed, Invoke
  <2> QED BY <1>1, <2>2, <2>3 DEF Typed
<1>3. Suspended'
  BY <1>1 DEF Suspended, Typed
<1>4. SameForOthers(p) /\ SameStage(p)
  BY <1>1 DEF SameForOthers, SameStage, Typed
<1>5. at # "emergency" => PhaseOf(p)' = "live"
  BY <1>1 DEF PhaseOf, Live, Typed, Awaits, Starting
<1>6. at = "emergency" /\ pc[p] = "idle" => PhaseOf(p)' = PhaseOf(p)
  BY <1>1 DEF PhaseOf, Live, Typed
<1> QED BY <1>2, <1>3, <1>4, <1>5, <1>6

\* Returning to p's caller: the record returned says which phase p is in.
LEMMA Returns ==
  ASSUME Typed, Suspended, NEW p \in Callers, NEW act \in ActionRecord,
         NEW r \in CanaryRun, Return(p, act, r), locks' \in SUBSET Deployments,
         act.status \in Waiting => r.stage = 0
  PROVE  /\ Typed' /\ Suspended' /\ SameForOthers(p) /\ run'[p] = r
         /\ act.status = "canarying" => PhaseOf(p)' = "live"
         /\ act.status \in Waiting => PhaseOf(p)' = "waiting"
         /\ act.status \in Slot!Ends => PhaseOf(p)' = act.status
<1>1. /\ pc' = [pc EXCEPT ![p] = "idle"]
      /\ got' = [got EXCEPT ![p] = "ok"]
      /\ rec' = [rec EXCEPT ![p] = act]
      /\ run' = [run EXCEPT ![p] = r]
      /\ cands' = cands
  BY DEF Return
<1>2. Typed'
  BY <1>1 DEF Typed
<1>3. Suspended'
  BY <1>1 DEF Suspended, Typed, Starting
<1>4. SameForOthers(p) /\ run'[p] = r
  BY <1>1 DEF SameForOthers, Typed
<1>5. pc'[p] = "idle" /\ rec'[p] = act
  BY <1>1 DEF Typed
<1> QED BY <1>2, <1>3, <1>4, <1>5 DEF PhaseOf, Live, Slot!Ends, Waiting

\* Calling a method with the records one has.
LEMMA LoadsSame ==
  ASSUME Typed, NEW p \in Callers, Load(p, rec[p], run[p])
  PROVE  rec' = rec /\ run' = run
  BY DEF Typed, Load

\* The deployment p works on, and the lock set without and with it.
LEMMA LockType ==
  ASSUME Typed, NEW p \in Callers
  PROVE  /\ DeploymentOf[p] \in Deployments
         /\ locks \in SUBSET Deployments
         /\ locks \ {DeploymentOf[p]} \in SUBSET Deployments
         /\ locks \union {DeploymentOf[p]} \in SUBSET Deployments
  BY EngineAssumption DEF Typed

\* What the phase of p is before a step, from where its method is suspended.
LEMMA PhaseBefore ==
  ASSUME Typed, NEW p \in Callers
  PROVE  /\ pc[p] \in Starting => PhaseOf(p) = "live"
         /\ rec[p].status = "canarying" => PhaseOf(p) = "live"
         /\ pc[p] \notin Starting /\ rec[p].status \in Waiting => PhaseOf(p) = "waiting"
         /\ rec[p].status \in ActionStatus
         /\ (PhaseOf(p) = "live") <=> Live(p)
<1>1. rec[p].status \in ActionStatus
  BY DEF Typed, ActionRecord
<1> QED BY <1>1 DEF PhaseOf, Live, ActionStatus, Starting, Waiting

\* Every failed start ends a rollout and gives the lock back.
LEMMA FailStartFinishes ==
  ASSUME Typed, Suspended, NEW p \in Callers, NEW claim \in BOOLEAN,
         pc[p] \in Starting, FailStart(p, claim)
  PROVE  Kind(p)
<1> DEFINE act == FailedRecord(rec[p], claim)
<1>1. act \in ActionRecord /\ act.status = "failed" /\ run[p] \in CanaryRun
  BY RecordType DEF Typed
<1>2. Return(p, act, run[p]) /\ locks' = locks \ {DeploymentOf[p]}
  BY DEF FailStart, ReleaseLock
<1>3. LosesItsLock(p) = {} /\ PhaseOf(p) = "live"
  BY NoLoss, PhaseBefore DEF Starting
<1> HIDE DEF act
<1>4. locks' \in SUBSET Deployments
  BY <1>2, LockType
<1>5. Typed' /\ Suspended' /\ SameForOthers(p) /\ PhaseOf(p)' = "failed" /\ SameStage(p)
  BY <1>1, <1>2, <1>4, Returns DEF Slot!Ends, Waiting, SameStage
<1> QED BY <1>2, <1>3, <1>5 DEF Kind, Finishes, Slot!Ends

\* The same for an answer that says the action was rolled back, unless its
\* rollout was not under way: then the lock given back is nobody's or another's.
LEMMA RollsBack ==
  ASSUME Typed, Suspended, NEW p \in Callers, NEW r \in CanaryRun, r.stage = run[p].stage,
         \/ pc[p] = "abort"
         \/ pc[p] = "emergency" /\ got[p] # "throw",
         ReleaseLock(p), Return(p, RolledBackRecord(rec[p], got[p]), r)
  PROVE  Kind(p)
<1> DEFINE act == RolledBackRecord(rec[p], got[p])
<1>1. act \in ActionRecord /\ act.status = "rolled_back"
  BY RecordType DEF Typed
<1>2. Return(p, act, r) /\ locks' = locks \ {DeploymentOf[p]}
  BY DEF ReleaseLock
<1> HIDE DEF act
<1>3. locks' \in SUBSET Deployments
  BY <1>2, LockType
<1>4. Typed' /\ Suspended' /\ SameForOthers(p) /\ PhaseOf(p)' = "rolled_back" /\ SameStage(p)
  BY <1>1, <1>2, <1>3, Returns DEF Slot!Ends, Waiting, SameStage
<1>5. CASE PhaseOf(p) = "live"
  <2>1. LosesItsLock(p) = {}
    BY <1>5, NoLoss, PhaseBefore
  <2> QED BY <1>2, <1>4, <1>5, <2>1 DEF Kind, Finishes, Slot!Ends
<1>6. CASE PhaseOf(p) # "live"
  <2>1. ~Live(p) /\ pc[p] = "emergency" /\ got[p] # "throw"
    BY <1>6, PhaseBefore DEF Suspended
  <2>2. LosesItsLock(p) = {DeploymentOf[p]} \intersect locks
    BY <2>1 DEF LosesItsLock
  <2> QED BY <1>2, <1>4, <1>6, <2>2 DEF Kind, Strays
<1> QED BY <1>5, <1>6

\* A method that rejects leaves the rollout as it is.
LEMMA RejectKeeps ==
  ASSUME Typed, Suspended, NEW p \in Callers, pc[p] \notin Starting,
         pc[p] # "emergency" \/ got[p] = "throw", Reject(p)
  PROVE  Kind(p)
<1>1. rec[p] \in ActionRecord /\ run[p] \in CanaryRun
  BY DEF Typed
<1>2. Return(p, rec[p], run[p]) /\ locks' = locks
  BY DEF Reject
<1>3. Typed' /\ Suspended' /\ SameForOthers(p) /\ run'[p] = run[p]
  BY <1>1, <1>2, LockType, Returns DEF Suspended
<1>4. pc'[p] = "idle" /\ rec'[p] = rec[p]
  BY <1>2 DEF Return, Typed
<1>5. PhaseOf(p)' = PhaseOf(p)
  BY <1>4 DEF PhaseOf, Live, Starting
<1>6. LosesItsLock(p) = {}
  BY NoLoss
<1> QED BY <1>2, <1>3, <1>5, <1>6 DEF Kind, Keeps, SameStage

\* A live rollout that goes on to its next provider call.
LEMMA SuspendKeeps ==
  ASSUME Typed, Suspended, NEW p \in Callers, NEW at \in Awaits, NEW mode,
         NEW effect \in Candidate, Invoke(p, at, mode, effect),
         rec' = rec, run' = run, locks' = locks,
         at # "emergency", PhaseOf(p) = "live",
         at \in Starting => rec[p].status \in Waiting,
         at \in {"abort", "promote", "drain", "advance"} => rec[p].status = "canarying",
         at \in {"promote", "drain"} => run[p].stage >= Len(Policy.stages) - 1,
         at = "advance" => run[p].stage < Len(Policy.stages) - 1
  PROVE  Kind(p)
<1>1. locks' \in SUBSET Deployments
  BY LockType
<1>2. Typed' /\ Suspended' /\ SameForOthers(p) /\ SameStage(p) /\ PhaseOf(p)' = "live"
  BY <1>1, Suspends
<1>3. LosesItsLock(p) = {}
  BY NoLoss, PhaseBefore
<1> QED BY <1>2, <1>3 DEF Kind, Keeps

\* The effects the calls of p are issued with are candidates.
LEMMA EffectType ==
  ASSUME Typed, NEW p \in Callers
  PROVE  /\ Provisioned(cands[p]) \in Candidate
         /\ WarmedUp(cands[p]) \in Candidate
         /\ Split(cands[p], CreateCanaryRun(p).traffic) \in Candidate
         /\ RolledBack(cands[p]) \in Candidate
         /\ Effect(p, RolledBack(cands[p])) \in Candidate
         /\ Effect(p, Drained(cands[p])) \in Candidate
         /\ Effect(p, Split(cands[p], 100)) \in Candidate
         /\ Effect(p, Split(cands[p], AdvanceStage(run[p], Policy).traffic)) \in Candidate
<1>1. cands[p] \in Candidate /\ run[p] \in CanaryRun
  BY DEF Typed
<1>2. \A r \in CanaryRun : r.traffic \in 0..100
  BY DEF CanaryRun
<1>3. 100 \in 0..100
  OBVIOUS
<1>4. CreateCanaryRun(p).traffic \in 0..100
  BY <1>2, CreateType
<1>5. AdvanceStage(run[p], Policy).traffic \in 0..100
  BY <1>1, <1>2, AdvanceType
<1>6. /\ Provisioned(cands[p]) \in Candidate
      /\ WarmedUp(cands[p]) \in Candidate
      /\ Drained(cands[p]) \in Candidate
      /\ RolledBack(cands[p]) \in Candidate
      /\ \A pct \in 0..100 : Split(cands[p], pct) \in Candidate
  BY <1>1, CandidateType
<1>7. \A new \in Candidate : Effect(p, new) \in Candidate
  BY <1>1 DEF Effect
<1> QED BY <1>3, <1>4, <1>5, <1>6, <1>7

-----------------------------------------------------------------------------
(* Each step of the engine is of one of these kinds.                       *)

LEMMA StartKind ==
  ASSUME Typed, Suspended, NEW p \in Callers, NEW frozen \in BOOLEAN,
         rec[p].status \in Waiting, StartExecution(p, rec[p], frozen)
  PROVE  Kind(p)
<1>1. pc[p] = "idle" /\ rec[p] \in ActionRecord /\ run[p] \in CanaryRun
  BY DEF StartExecution, Typed
<1>2. PhaseOf(p) = "waiting" /\ LosesItsLock(p) = {}
  BY <1>1, PhaseBefore, NoLoss DEF Starting
<1>3. CASE Return(p, FailedRecord(rec[p], FALSE), run[p]) /\ locks' = locks
  <2>1. /\ FailedRecord(rec[p], FALSE) \in ActionRecord
        /\ FailedRecord(rec[p], FALSE).status = "failed"
    BY <1>1, RecordType
  <2>2. Typed' /\ Suspended' /\ SameForOthers(p) /\ PhaseOf(p)' = "failed" /\ SameStage(p)
    BY <1>1, <1>3, <2>1, LockType, Returns DEF Slot!Ends, Waiting, SameStage
  <2> QED BY <1>2, <1>3, <2>2 DEF Kind, Refuses
<1>4. CASE Return(p, rec[p], run[p]) /\ locks' = locks
  <2>1. Typed' /\ Suspended' /\ SameForOthers(p) /\ PhaseOf(p)' = "waiting" /\ SameStage(p)
    BY <1>1, <1>4, LockType, Returns DEF SameStage, Suspended
  <2> QED BY <1>2, <1>4, <2>1 DEF Kind, Keeps
<1>5. CASE /\ DeploymentOf[p] \notin locks
           /\ AcquireLock(p)
           /\ Invoke(p, "provision", "provision", Provisioned(cands[p]))
           /\ Load(p, rec[p], run[p])
  <2>1. rec' = rec /\ run' = run
    BY <1>5, LoadsSame
  <2>2. locks' = locks \union {DeploymentOf[p]} /\ locks' \in SUBSET Deployments
    BY <1>5, LockType DEF AcquireLock
  <2>3. "provision" \in Awaits
    BY DEF Awaits
  <2>4. Typed' /\ Suspended' /\ SameForOthers(p) /\ PhaseOf(p)' = "live" /\ SameStage(p)
    BY <1>5, <2>1, <2>2, <2>3, EffectType, Suspends
  <2> QED BY <1>2, <1>5, <2>2, <2>4 DEF Kind, Starts
<1> QED BY <1>3, <1>4, <1>5 DEF StartExecution

LEMMA ProvisionKind ==
  ASSUME Typed, Suspended, NEW p \in Callers, AfterProvision(p)
  PROVE  Kind(p)
<1>1. pc[p] \in Starting /\ rec[p].status \in Waiting
  BY DEF AfterProvision, Suspended, Starting
<1>2. CASE Invoke(p, "warmup", "warmup", WarmedUp(cands[p])) /\ UNCHANGED << rec, run, locks >>
  BY <1>1, <1>2, PhaseBefore, EffectType, SuspendKeeps DEF Awaits, Starting
<1>3. CASE FailStart(p, FALSE)
  BY <1>1, <1>3, FailStartFinishes
<1> QED BY <1>2, <1>3 DEF AfterProvision

LEMMA WarmupKind ==
  ASSUME Typed, Suspended, NEW p \in Callers, AfterWarmup(p)
  PROVE  Kind(p)
<1>1. pc[p] \in Starting /\ rec[p].status \in Waiting
  BY DEF AfterWarmup, Suspended, Starting
<1>2. CASE /\ Invoke(p, "split", "traffic_split", Split(cands[p], CreateCanaryRun(p).traffic))
           /\ UNCHANGED << rec, run, locks >>
  BY <1>1, <1>2, PhaseBefore, EffectType, SuspendKeeps DEF Awaits, Starting
<1>3. CASE Invoke(p, "undo", "rollback", RolledBack(cands[p])) /\ UNCHANGED << rec, run, locks >>
  BY <1>1, <1>3, PhaseBefore, EffectType, SuspendKeeps DEF Awaits, Starting
<1>4. CASE FailStart(p, FALSE)
  BY <1>1, <1>4, FailStartFinishes
<1> QED BY <1>2, <1>3, <1>4 DEF AfterWarmup

\* A start that succeeds hands its run out; run[p] is at stage 0 until then.
LEMMA SplitKind ==
  ASSUME Typed, Suspended, NEW p \in Callers, AfterSplit(p)
  PROVE  Kind(p)
<1> DEFINE act == [rec[p] EXCEPT !.status = "canarying", !.restored = FALSE,
                                 !.canary_run = p]
<1>1. pc[p] \in Starting /\ rec[p].status \in Waiting /\ run[p].stage = 0
  BY DEF AfterSplit, Suspended, Starting
<1>2. CASE Return(p, act, CreateCanaryRun(p)) /\ locks' = locks
  <2>1. "canarying" \in ActionStatus /\ rec[p] \in ActionRecord
    BY DEF ActionStatus, Typed
  <2>2. act \in ActionRecord /\ act.status = "canarying"
    BY <2>1 DEF ActionRecord
  <2>3. LosesItsLock(p) = {} /\ PhaseOf(p) = "live"
    BY <1>1, NoLoss, PhaseBefore DEF Starting
  <2>4. CreateCanaryRun(p).stage = 0
    BY DEF CreateCanaryRun
  <2> HIDE DEF act
  <2>5. Typed' /\ Suspended' /\ SameForOthers(p) /\ PhaseOf(p)' = "live"
        /\ run'[p] = CreateCanaryRun(p)
    BY <1>2, <2>2, CreateType, LockType, Returns DEF Waiting
  <2> QED BY <1>1, <1>2, <2>3, <2>4, <2>5 DEF Kind, Keeps, SameStage
<1>3. CASE Invoke(p, "undo", "rollback", RolledBack(cands[p])) /\ UNCHANGED << rec, run, locks >>
  BY <1>1, <1>3, PhaseBefore, EffectType, SuspendKeeps DEF Awaits, Starting
<1>4. CASE FailStart(p, FALSE)
  BY <1>1, <1>4, FailStartFinishes
<1> QED BY <1>2, <1>3, <1>4 DEF AfterSplit

LEMMA UndoKind ==
  ASSUME Typed, Suspended, NEW p \in Callers, AfterUndo(p)
  PROVE  Kind(p)
<1>1. pc[p] \in Starting
  BY DEF AfterUndo, Starting
<1> QED BY <1>1, FailStartFinishes DEF AfterUndo

LEMMA ProgressKind ==
  ASSUME Typed, Suspended, NEW p \in Callers, NEW telemetry,
         rec[p].status = "canarying", ProgressCanary(p, rec[p], run[p], telemetry)
  PROVE  Kind(p)
<1> DEFINE verdict == EvaluateStage(run[p], telemetry, Baseline, Policy)
<1>1. PhaseOf(p) = "live" /\ locks' = locks /\ LosesItsLock(p) = {} /\ Live(p)
  BY PhaseBefore, NoLoss DEF ProgressCanary
<1>2. rec' = rec /\ run' = run
  BY LoadsSame DEF ProgressCanary
<1>3. run[p].stage \in Nat /\ Len(Policy.stages) \in Nat
  BY EngineAssumption DEF Typed, CanaryRun
<1>4. /\ verdict = "promote_full" => run[p].stage >= Len(Policy.stages) - 1
      /\ verdict = "promote_stage" => run[p].stage < Len(Policy.stages) - 1
  BY <1>3 DEF EvaluateStage
<1>5. CASE Invoke(p, "abort", "rollback", Effect(p, RolledBack(cands[p])))
  BY <1>1, <1>2, <1>5, EffectType, SuspendKeeps DEF Awaits, Starting
<1>6. CASE verdict = "promote_full" /\ Invoke(p, "promote", "promote", Effect(p, Split(cands[p], 100)))
  BY <1>1, <1>2, <1>4, <1>6, EffectType, SuspendKeeps DEF Awaits, Starting
<1>7. CASE /\ verdict = "promote_stage"
           /\ Invoke(p, "advance", "traffic_split",
                     Effect(p, Split(cands[p], AdvanceStage(run[p], Policy).traffic)))
  BY <1>1, <1>2, <1>4, <1>7, EffectType, SuspendKeeps DEF Awaits, Starting
<1>8. CASE UNCHANGED << pc, got, cands >>
  <2>1. Typed' /\ Suspended' /\ SameForOthers(p) /\ SameStage(p)
    BY <1>1, <1>2, <1>8 DEF Typed, Suspended, SameForOthers, SameStage
  <2>2. PhaseOf(p)' = PhaseOf(p)
    BY <1>2, <1>8 DEF PhaseOf, Live
  <2> QED BY <1>1, <2>1, <2>2 DEF Kind, Keeps
<1> QED BY <1>5, <1>6, <1>7, <1>8 DEF ProgressCanary

LEMMA AbortKind ==
  ASSUME Typed, Suspended, NEW p \in Callers, AfterAbort(p)
  PROVE  Kind(p)
<1> DEFINE r == [run[p] EXCEPT !.status = "rolled_back"]
<1>1. pc[p] = "abort" /\ run[p] \in CanaryRun
  BY DEF AfterAbort, Typed
<1>2. r \in CanaryRun /\ r.stage = run[p].stage
  BY <1>1, StatusType DEF CanaryRun
<1>3. CASE ReleaseLock(p) /\ Return(p, RolledBackRecord(rec[p], got[p]), r)
  <2> HIDE DEF r
  <2> QED BY <1>1, <1>2, <1>3, RollsBack
<1>4. CASE Reject(p)
  BY <1>1, <1>4, RejectKeeps DEF Starting
<1> QED BY <1>3, <1>4 DEF AfterAbort

LEMMA PromoteKind ==
  ASSUME Typed, Suspended, NEW p \in Callers, AfterPromote(p)
  PROVE  Kind(p)
<1>1. /\ pc[p] = "promote" /\ rec[p].status = "canarying"
      /\ run[p].stage >= Len(Policy.stages) - 1
  BY DEF AfterPromote, Suspended
<1>2. CASE /\ Invoke(p, "drain", "drain", Effect(p, Drained(cands[p])))
           /\ UNCHANGED << rec, run, locks >>
  BY <1>1, <1>2, PhaseBefore, EffectType, SuspendKeeps DEF Awaits, Starting
<1>3. CASE Reject(p)
  BY <1>1, <1>3, RejectKeeps DEF Starting
<1> QED BY <1>2, <1>3 DEF AfterPromote

LEMMA DrainKind ==
  ASSUME Typed, Suspended, NEW p \in Callers, AfterDrain(p)
  PROVE  Kind(p)
<1> DEFINE act == [rec[p] EXCEPT !.status = "completed", !.restored = FALSE,
                                 !.canary_run = run[p].id]
           r == [run[p] EXCEPT !.status = "completed"]
<1>1. /\ pc[p] = "drain" /\ rec[p].status = "canarying"
      /\ run[p].stage >= Len(Policy.stages) - 1
      /\ rec[p] \in ActionRecord /\ run[p] \in CanaryRun
  BY DEF AfterDrain, Suspended, Typed
<1>2. CASE ReleaseLock(p) /\ Return(p, act, r)
  <2>1. "completed" \in ActionStatus /\ run[p].id \in Callers \union {NoId}
    BY <1>1 DEF ActionStatus, CanaryRun
  <2>2. act \in ActionRecord /\ act.status = "completed"
    BY <1>1, <2>1 DEF ActionRecord
  <2>3. r \in CanaryRun /\ r.stage = run[p].stage
    BY <1>1, StatusType DEF CanaryRun
  <2>4. locks' = locks \ {DeploymentOf[p]} /\ locks' \in SUBSET Deployments
    BY <1>2, LockType DEF ReleaseLock
  <2>5. LosesItsLock(p) = {} /\ PhaseOf(p) = "live"
    BY <1>1, NoLoss, PhaseBefore
  <2> HIDE DEF act, r
  <2>6. Typed' /\ Suspended' /\ SameForOthers(p) /\ PhaseOf(p)' = "completed" /\ run'[p] = r
    BY <1>2, <2>2, <2>3, <2>4, Returns DEF Slot!Ends, Waiting
  <2> QED BY <1>1, <2>3, <2>4, <2>5, <2>6 DEF Kind, Finishes, Slot!Ends, SameStage
<1>3. CASE Reject(p)
  BY <1>1, <1>3, RejectKeeps DEF Starting
<1> QED BY <1>2, <1>3 DEF AfterDrain

LEMMA AdvanceKind ==
  ASSUME Typed, Suspended, NEW p \in Callers, AfterAdvance(p)
  PROVE  Kind(p)
<1>1. /\ pc[p] = "advance" /\ rec[p].status = "canarying" /\ rec[p] \in ActionRecord
      /\ run[p] \in CanaryRun /\ run[p].stage < Len(Policy.stages) - 1
  BY DEF AfterAdvance, Suspended, Typed
<1>2. CASE Return(p, rec[p], AdvanceStage(run[p], Policy)) /\ locks' = locks
  <2>1. AdvanceStage(run[p], Policy).stage = run[p].stage + 1
    <3>1. run[p].stage \in Nat /\ Len(Policy.stages) \in Nat
      BY <1>1, EngineAssumption DEF CanaryRun
    <3>2. ~(run[p].stage + 1 >= Len(Policy.stages))
      BY <1>1, <3>1
    <3> QED BY <1>1, <3>2 DEF AdvanceStage, CanaryRun
  <2>2. AdvanceStage(run[p], Policy) \in CanaryRun
    BY <1>1, AdvanceType
  <2>3. Typed' /\ Suspended' /\ SameForOthers(p) /\ PhaseOf(p)' = "live"
        /\ run'[p] = AdvanceStage(run[p], Policy)
    BY <1>1, <1>2, <2>2, LockType, Returns DEF Waiting
  <2>4. LosesItsLock(p) = {} /\ PhaseOf(p) = "live"
    BY <1>1, NoLoss, PhaseBefore
  <2> QED BY <1>1, <1>2, <2>1, <2>3, <2>4 DEF Kind, Advances
<1>3. CASE Reject(p)
  BY <1>1, <1>3, RejectKeeps DEF Starting
<1> QED BY <1>2, <1>3 DEF AfterAdvance

LEMMA EmergencyKind ==
  ASSUME Typed, Suspended, NEW p \in Callers, EmergencyRollback(p, rec[p])
  PROVE  Kind(p)
<1>1. pc[p] = "idle" /\ rec' = rec /\ run' = run /\ locks' = locks
  BY LoadsSame DEF EmergencyRollback
<1>2. locks' \in SUBSET Deployments /\ "emergency" \in Awaits
  BY <1>1, LockType DEF Awaits
<1>3. Invoke(p, "emergency", "rollback", Effect(p, RolledBack(cands[p])))
  BY DEF EmergencyRollback
<1>4. /\ Typed' /\ Suspended' /\ SameForOthers(p) /\ SameStage(p)
      /\ PhaseOf(p)' = PhaseOf(p)
  BY <1>1, <1>2, <1>3, EffectType, Suspends DEF Starting
<1>5. LosesItsLock(p) = {}
  BY <1>1, NoLoss
<1> QED BY <1>1, <1>4, <1>5 DEF Kind, Keeps

LEMMA AfterEmergencyKind ==
  ASSUME Typed, Suspended, NEW p \in Callers, AfterEmergency(p)
  PROVE  Kind(p)
<1>1. pc[p] = "emergency" /\ run[p] \in CanaryRun
  BY DEF AfterEmergency, Typed
<1>2. CASE /\ got[p] # "throw" /\ ReleaseLock(p)
           /\ Return(p, RolledBackRecord(rec[p], got[p]), run[p])
  BY <1>1, <1>2, RollsBack
<1>3. CASE got[p] = "throw" /\ Reject(p)
  BY <1>1, <1>3, RejectKeeps DEF Starting
<1> QED BY <1>2, <1>3 DEF AfterEmergency

\* Every step of Next is of one of these kinds for the caller it is about,
\* and keeps count of the lock it loses.
LEMMA StepKinds ==
  ASSUME Typed, Suspended, Next
  PROVE  \E p \in Callers : Kind(p) /\ astray' = astray \union LosesItsLock(p)
<1>1. PICK p \in Callers : /\ EngineStep(p) \/ CallerStep(p)
                          /\ astray' = astray \union LosesItsLock(p)
  BY DEF Next
<1>2. ASSUME EngineStep(p) PROVE Kind(p)
  BY <1>2, ProvisionKind, WarmupKind, SplitKind, UndoKind, AbortKind, PromoteKind,
     DrainKind, AdvanceKind, AfterEmergencyKind DEF EngineStep
<1>3. ASSUME CallerStep(p) PROVE Kind(p)
  BY <1>3, StartKind, ProgressKind, EmergencyKind DEF CallerStep, Waiting
<1> QED BY <1>1, <1>2, <1>3

-----------------------------------------------------------------------------
(* Locks                                                                   *)

LEMMA InitIInv == Init => IInv
<1> SUFFICES ASSUME Init PROVE IInv
  OBVIOUS
<1>1. Typed
  <2>1. Absent \in Candidate
    BY DEF Absent, Candidate
  <2>2. [status |-> "approved", restored |-> FALSE, canary_run |-> NoId] \in ActionRecord
    BY DEF ActionRecord, ActionStatus
  <2> QED BY <2>1, <2>2, NoRunType DEF Init, Typed
<1>2. \A p \in Callers : ~Live(p)
  BY DEF Init, Live
<1>3. Suspended
  BY DEF Init, Suspended, Starting, NoRun
<1> QED BY <1>1, <1>2, <1>3 DEF Init, IInv, OneLiveActionPerDeployment, LockHeldIffLive

\* Who is live after a step: those who were, but for the caller it is about.
LEMMA LiveAfter ==
  ASSUME NEW p \in Callers, Typed, Kind(p)
  PROVE  /\ \A q \in Callers \ {p} : Live(q)' <=> Live(q)
         /\ Live(p)' <=> PhaseOf(p)' = "live"
         /\ Live(p) <=> PhaseOf(p) = "live"
<1>1. rec'[p].status \in ActionStatus
  BY DEF Kind, Typed, ActionRecord
<1>2. Live(p)' <=> PhaseOf(p)' = "live"
  BY <1>1 DEF PhaseOf, Live, ActionStatus
<1>3. \A q \in Callers \ {p} : Live(q)' <=> Live(q)
  BY DEF Kind, SameForOthers, Live
<1> QED BY <1>2, <1>3, PhaseBefore

\* The locks of the other deployments are not touched by a step of p.
LEMMA KindKeepsIInv ==
  ASSUME IInv, NEW p \in Callers, Kind(p), astray' = astray \union LosesItsLock(p)
  PROVE  IInv'
<1> DEFINE d == DeploymentOf[p]
<1>1. Typed' /\ Suspended' /\ Typed
  BY DEF Kind, IInv
<1>2. /\ \A q \in Callers \ {p} : Live(q)' <=> Live(q)
      /\ Live(p)' <=> PhaseOf(p)' = "live"
      /\ Live(p) <=> PhaseOf(p) = "live"
  BY LiveAfter DEF IInv
<1>3. d \in Deployments /\ locks \in SUBSET Deployments
  BY <1>1, LockType
<1>4. LosesItsLock(p) \subseteq {d}
  BY DEF LosesItsLock
<1>5. astray' \in SUBSET Deployments
  BY <1>3, <1>4 DEF IInv
<1>6. OneLiveActionPerDeployment /\ LockHeldIffLive
  BY DEF IInv
<1>7. CASE Starts(p)
  <2>1. ~Live(p) /\ Live(p)' /\ d \notin locks /\ locks' = locks \union {d} /\ astray' = astray
    BY <1>2, <1>7 DEF Starts
  <2>2. d \notin astray => \A q \in Callers : Live(q) => DeploymentOf[q] # d
    BY <1>3, <1>6, <2>1 DEF LockHeldIffLive
  <2> HIDE DEF d
  <2>3. OneLiveActionPerDeployment'
    BY <1>2, <1>6, <2>1, <2>2 DEF OneLiveActionPerDeployment, d
  <2>4. LockHeldIffLive'
    BY <1>2, <1>6, <2>1 DEF LockHeldIffLive, d
  <2> QED BY <1>1, <1>5, <2>3, <2>4 DEF IInv
<1>8. CASE Refuses(p) \/ Keeps(p) \/ Advances(p)
  <2>1. Live(p)' <=> Live(p)
    BY <1>2, <1>8 DEF Refuses, Keeps, Advances
  <2>2. locks' = locks /\ astray' = astray
    BY <1>8 DEF Refuses, Keeps, Advances
  <2>3. \A q \in Callers : Live(q)' <=> Live(q)
    BY <1>2, <2>1
  <2>4. OneLiveActionPerDeployment'
    BY <1>6, <2>2, <2>3 DEF OneLiveActionPerDeployment
  <2>5. LockHeldIffLive'
    BY <1>6, <2>2, <2>3 DEF LockHeldIffLive
  <2> QED BY <1>1, <1>5, <2>4, <2>5 DEF IInv
<1>9. CASE Finishes(p) \/ Strays(p)
  <2>1. ~Live(p)' /\ locks' = locks \ {d}
    BY <1>2, <1>9 DEF Finishes, Strays, Slot!Ends
  <2>2. \A q \in Callers : Live(q)' => Live(q) /\ q # p
    BY <1>2, <2>1
  <2>3. d \notin astray' => \A q \in Callers \ {p} : Live(q) => DeploymentOf[q] # d
    <3>1. CASE Finishes(p)
      BY <1>2, <1>6, <3>1 DEF Finishes, OneLiveActionPerDeployment
    <3>2. CASE Strays(p)
      BY <1>3, <1>6, <3>2 DEF Strays, LockHeldIffLive
    <3> QED BY <1>9, <3>1, <3>2
  <2> HIDE DEF d
  <2>4. OneLiveActionPerDeployment'
    BY <1>6, <2>2 DEF OneLiveActionPerDeployment
  <2>5. \A e \in Deployments \ {d} : \A q \in Callers :
          DeploymentOf[q] = e => (Live(q)' <=> Live(q))
    BY <1>2 DEF d
  <2>6. LockHeldIffLive'
    <3> SUFFICES ASSUME NEW e \in Deployments
                 PROVE  /\ e \in locks' => \E q \in Callers : DeploymentOf[q] = e /\ Live(q)'
                        /\ (\E q \in Callers : DeploymentOf[q] = e /\ Live(q)') /\ e \notin astray'
                             => e \in locks'
      BY DEF LockHeldIffLive
    <3>1. CASE e = d
      BY <2>1, <2>2, <2>3, <3>1
    <3>2. CASE e # d
      BY <1>6, <2>1, <2>5, <3>2 DEF LockHeldIffLive
    <3> QED BY <3>1, <3>2
  <2> QED BY <1>1, <1>5, <2>4, <2>6 DEF IInv
<1> QED BY <1>7, <1>8, <1>9 DEF Kind

LEMMA NextIInv ==
  ASSUME IInv, [Next]_vars
  PROVE  IInv'
<1>1. CASE Next
  BY <1>1, StepKinds, KindKeepsIInv DEF IInv
<1>2. CASE UNCHANGED vars
  BY <1>2 DEF vars, IInv, Typed, Suspended, OneLiveActionPerDeployment,
              LockHeldIffLive, Live
<1> QED BY <1>1, <1>2

\* The inductive invariant holds in every reachable state of the engine.
THEOREM EngineInvariant == Spec => []IInv
<1>1. Init => IInv
  BY InitIInv
<1>2. IInv /\ [Next]_vars => IInv'
  BY NextIInv
<1> QED BY <1>1, <1>2, PTL DEF Spec

\* The records, runs, locks and candidates of the engine keep their types:
\* every traffic percentage a rollout sets is one, whatever the policy.
THEOREM TypeCorrect == Spec => []TypeOK
<1>1. IInv => TypeOK
  BY DEF IInv, TypeOK, Typed
<1> QED BY <1>1, EngineInvariant, PTL

\* No two actions are at work on one deployment between the lock that starts
\* a rollout and the answer that ends it, until somebody rolls back an action
\* that has no rollout under way there.
THEOREM MutualExclusion == Spec => []OneLiveActionPerDeployment
<1>1. IInv => OneLiveActionPerDeployment
  BY DEF IInv
<1> QED BY <1>1, EngineInvariant, PTL

\* No way out of the engine leaks a deployment's lock, and only the emergency
\* rollback of an action that has no rollout under way gives it up while a
\* canary is out.
THEOREM LocksAreExact == Spec => []LockHeldIffLive
<1>1. IInv => LockHeldIffLive
  BY DEF IInv
<1> QED BY <1>1, EngineInvariant, PTL

-----------------------------------------------------------------------------
(* The engine implements the slot                                          *)

\* A step of p's rollout is a step of p in the slot, or none.
LEMMA KindIsSlotStep ==
  ASSUME IInv, NEW p \in Callers, Kind(p), astray' = astray \union LosesItsLock(p)
  PROVE  [Slot!Next]_(Slot!vars)
<1> DEFINE ph == [q \in Callers |-> PhaseOf(q)]
           st == [q \in Callers |-> run[q].stage]
           d == DeploymentOf[p]
<1>1. \A q \in Callers \ {p} : PhaseOf(q)' = PhaseOf(q) /\ run'[q].stage = run[q].stage
  BY DEF Kind, SameForOthers, PhaseOf, Live
<1>2. ph' = [ph EXCEPT ![p] = PhaseOf(p)'] /\ st' = [st EXCEPT ![p] = run'[p].stage]
  BY <1>1
<1>3. SameStage(p) => st' = st
  BY <1>1 DEF SameStage
<1>4. \A q \in Callers : PhaseOf(q) = "live" <=> Live(q)
  BY PhaseBefore DEF IInv
<1>5. Slot!Free(d) <=> ~ \E q \in Callers : DeploymentOf[q] = d /\ Live(q)
  BY <1>4 DEF Slot!Free
<1>6. /\ d \in Deployments
      /\ d \in locks => ~Slot!Free(d)
      /\ d \notin locks => Slot!Free(d) \/ d \in astray
  <2>1. d \in Deployments
    BY LockType DEF IInv
  <2> QED BY <1>5, <2>1 DEF IInv, LockHeldIffLive
<1>7. CASE Starts(p)
  <2>1. astray' = astray /\ st' = st
    BY <1>3, <1>7 DEF Starts
  <2>2. Slot!Occupy(p)
    BY <1>2, <1>6, <1>7, <2>1 DEF Slot!Occupy, Starts
  <2> QED BY <2>2 DEF Slot!Next
<1>8. CASE Refuses(p)
  <2>1. astray' = astray /\ st' = st
    BY <1>3, <1>8 DEF Refuses
  <2>2. Slot!Refuse(p)
    BY <1>2, <1>8, <2>1 DEF Slot!Refuse, Refuses
  <2> QED BY <2>2 DEF Slot!Next
<1>9. CASE Keeps(p)
  <2>1. astray' = astray /\ st' = st /\ ph' = ph
    BY <1>1, <1>3, <1>9 DEF Keeps
  <2> QED BY <2>1 DEF Slot!vars
<1>10. CASE Advances(p)
  <2>1. astray' = astray /\ ph' = ph /\ st' = [st EXCEPT ![p] = st[p] + 1]
    BY <1>1, <1>2, <1>10 DEF Advances
  <2>2. Slot!Advance(p)
    BY <1>10, <2>1 DEF Slot!Advance, Advances
  <2> QED BY <2>2 DEF Slot!Next
<1>11. CASE Finishes(p)
  <2>1. astray' = astray /\ st' = st
    BY <1>3, <1>11 DEF Finishes
  <2>2. Slot!Vacate(p)
    BY <1>2, <1>11, <2>1 DEF Slot!Vacate, Finishes
  <2> QED BY <2>2 DEF Slot!Next
<1>12. CASE Strays(p)
  <2>1. astray' = astray \union ({d} \intersect locks) /\ st' = st
    BY <1>3, <1>12 DEF Strays
  <2>2. astray' = IF Slot!Free(d) THEN astray ELSE astray \union {d}
    BY <1>6, <2>1
  <2>3. Slot!RollBackAnyway(p)
    BY <1>2, <1>12, <2>1, <2>2 DEF Slot!RollBackAnyway, Strays
  <2> QED BY <2>3 DEF Slot!Next
<1> QED BY <1>7, <1>8, <1>9, <1>10, <1>11, <1>12 DEF Kind

\* Every behaviour of the engine is a behaviour of the deployment slot: one
\* occupant until the slot is opened by a stray rollback, stages one by one,
\* completion only from the last.
THEOREM SlotRefinement == Spec => ImplementsSlot
<1>1. Init => Slot!Init
  BY DEF Init, Slot!Init, PhaseOf, Live, NoRun
<1>2. IInv /\ [Next]_vars => [Slot!Next]_(Slot!vars)
  <2> SUFFICES ASSUME IInv, [Next]_vars
               PROVE  [Slot!Next]_(Slot!vars)
    OBVIOUS
  <2>1. CASE Next
    BY <2>1, StepKinds, KindIsSlotStep DEF IInv
  <2>2. CASE UNCHANGED vars
    BY <2>2 DEF vars, PhaseOf, Live, Slot!vars
  <2> QED BY <2>1, <2>2
<1> QED BY <1>1, <1>2, EngineInvariant, PTL DEF Spec, ImplementsSlot, Slot!Spec
-----------------------------------------------------------------------------
(* What a failed start says of the candidate                               *)
(*                                                                         *)
(* FailedStartsAreQuiet is not inductive: the claim is made by a step      *)
(* that does not look at what the rollback answered.  It is right because  *)
(* a start only ever comes to its rollback with a candidate that takes no  *)
(* traffic: Quiet says where that is so.                                   *)

Quiet(p) ==
  /\ cands[p].state = "absent" => cands[p].traffic = 0
  /\ rec[p].status = "failed" /\ rec[p].restored => cands[p].traffic = 0
  /\ pc[p] \notin Starting /\ rec[p].status \in Waiting => cands[p].traffic = 0
  /\ pc[p] \in {"provision", "warmup", "undo"} => cands[p].traffic = 0
  /\ pc[p] = "split" /\ got[p] = "fail" => cands[p].traffic = 0

QuietInv == \A p \in Callers : Quiet(p)

\* What is left of a call by the step that issues it.
LEMMA InvokeLeaves ==
  ASSUME Typed, NEW p \in Callers, NEW at, NEW mode, NEW effect,
         Invoke(p, at, mode, effect)
  PROVE  /\ pc'[p] = at
         /\ got'[p] = "fail" => cands'[p] = cands[p]
         /\ cands'[p] \in {effect, cands[p]}
         /\ \A q \in Callers \ {p} :
              pc'[q] = pc[q] /\ got'[q] = got[q] /\ cands'[q] = cands[q]
  BY DEF Typed, Invoke

LEMMA ReturnLeaves ==
  ASSUME Typed, NEW p \in Callers, NEW act, NEW r, Return(p, act, r)
  PROVE  /\ pc'[p] = "idle" /\ rec'[p] = act /\ cands' = cands
         /\ \A q \in Callers \ {p} : pc'[q] = pc[q] /\ rec'[q] = rec[q] /\ got'[q] = got[q]
  BY DEF Typed, Return

\* A candidate that is not there takes no traffic.
Silent(c) == c.state = "absent" => c.traffic = 0

\* The traffic of a candidate after each call.
LEMMA TrafficOf ==
  ASSUME NEW c \in Candidate, Silent(c)
  PROVE  /\ Provisioned(c).traffic = 0
         /\ WarmedUp(c).traffic = c.traffic /\ Silent(WarmedUp(c))
         /\ RolledBack(c).traffic = 0
         /\ Silent(Drained(c))
         /\ \A pct \in 0..100 : Silent(Split(c, pct))
<1>1. WarmedUp(c).traffic = c.traffic /\ WarmedUp(c).state = "ready"
  BY DEF WarmedUp, Candidate
<1>2. \A pct \in 0..100 : Silent(Split(c, pct))
  BY DEF Split, Silent, Candidate
<1>3. RolledBack(c).traffic = 0
  BY DEF RolledBack, Silent
<1> QED BY <1>1, <1>2, <1>3 DEF Provisioned, Drained, Absent, Silent

\* Issuing a call keeps the candidate quiet if it is quiet where it has to be.
LEMMA InvokeQuiet ==
  ASSUME Typed, QuietInv, NEW p \in Callers, NEW at \in Awaits, NEW mode, NEW effect,
         Invoke(p, at, mode, effect), rec' = rec, Silent(effect),
         at \in {"provision", "warmup", "undo"}
           => cands[p].traffic = 0 /\ effect.traffic = 0,
         at = "split" => cands[p].traffic = 0,
         \/ at \in Starting
         \/ rec[p].status = "canarying"
         \/ pc[p] \notin Starting /\ (cands[p].traffic = 0 => effect.traffic = 0),
         at \in Starting => rec[p].status \in Waiting
  PROVE  QuietInv'
<1>1. /\ pc'[p] = at
      /\ got'[p] = "fail" => cands'[p] = cands[p]
      /\ cands'[p] \in {effect, cands[p]}
      /\ \A q \in Callers \ {p} :
           pc'[q] = pc[q] /\ got'[q] = got[q] /\ cands'[q] = cands[q]
  BY InvokeLeaves
<1>2. Quiet(p)'
  BY <1>1 DEF Quiet, QuietInv, Silent, Starting, Waiting
<1>3. \A q \in Callers \ {p} : Quiet(q)'
  BY <1>1 DEF Quiet, QuietInv
<1> QED BY <1>2, <1>3 DEF QuietInv

\* Returning keeps it quiet if what the record says is so.
LEMMA ReturnQuiet ==
  ASSUME Typed, QuietInv, NEW p \in Callers, NEW act, NEW r, Return(p, act, r),
         act.status = "failed" /\ act.restored => cands[p].traffic = 0,
         act.status \in Waiting => cands[p].traffic = 0
  PROVE  QuietInv'
<1>1. /\ pc'[p] = "idle" /\ rec'[p] = act /\ cands' = cands
      /\ \A q \in Callers \ {p} : pc'[q] = pc[q] /\ rec'[q] = rec[q] /\ got'[q] = got[q]
  BY ReturnLeaves
<1>2. Quiet(p)'
  BY <1>1 DEF Quiet, QuietInv
<1>3. \A q \in Callers \ {p} : Quiet(q)'
  BY <1>1 DEF Quiet, QuietInv
<1> QED BY <1>2, <1>3 DEF QuietInv

\* A method that rejects changes nothing of this.
LEMMA RejectQuiet ==
  ASSUME Typed, QuietInv, NEW p \in Callers, pc[p] \notin Starting, Reject(p)
  PROVE  QuietInv'
<1>1. /\ rec[p].status = "failed" /\ rec[p].restored => cands[p].traffic = 0
      /\ rec[p].status \in Waiting => cands[p].traffic = 0
  BY DEF QuietInv, Quiet
<1> QED BY <1>1, ReturnQuiet DEF Reject

LEMMA FailStartQuiet ==
  ASSUME Typed, QuietInv, NEW p \in Callers, NEW claim \in BOOLEAN, FailStart(p, claim),
         claim => cands[p].traffic = 0
  PROVE  QuietInv'
<1> DEFINE act == FailedRecord(rec[p], claim)
<1>1. act.restored = claim /\ act.status = "failed"
  BY DEF FailedRecord, Typed, ActionRecord
<1>2. Return(p, act, run[p])
  BY DEF FailStart
<1>3. act.status \notin Waiting
  BY <1>1 DEF Waiting
<1>4. act.restored => cands[p].traffic = 0
  BY <1>1
<1> HIDE DEF act
<1> QED BY <1>2, <1>3, <1>4, ReturnQuiet

\* So does an answer whose record is neither failed nor waiting.
LEMMA OtherEndQuiet ==
  ASSUME Typed, QuietInv, NEW p \in Callers, NEW act, NEW r, Return(p, act, r),
         act.status \in {"canarying", "completed", "rolled_back"}
  PROVE  QuietInv'
<1>1. act.status # "failed" /\ act.status \notin Waiting
  BY DEF Waiting
<1> QED BY <1>1, ReturnQuiet

\* The steps of a start.
LEMMA StartQuiet ==
  ASSUME Typed, Suspended, QuietInv, NEW p \in Callers,
         \/ AfterProvision(p) \/ AfterWarmup(p) \/ AfterSplit(p) \/ AfterUndo(p)
         \/ /\ rec[p].status \in Waiting
            /\ \E frozen \in BOOLEAN : StartExecution(p, rec[p], frozen)
  PROVE  QuietInv'
<1>1. /\ cands[p] \in Candidate /\ Silent(cands[p])
      /\ CreateCanaryRun(p).traffic \in 0..100
      /\ "provision" \in Awaits /\ "warmup" \in Awaits /\ "split" \in Awaits /\ "undo" \in Awaits
      /\ "provision" \in Starting /\ "warmup" \in Starting /\ "split" \in Starting
      /\ "undo" \in Starting
      /\ pc[p] \in Starting => rec[p].status \in Waiting
  BY CreateType DEF Typed, QuietInv, Quiet, Silent, CanaryRun, Awaits, Starting, Suspended
<1>2. /\ Provisioned(cands[p]).traffic = 0 /\ Silent(Provisioned(cands[p]))
      /\ WarmedUp(cands[p]).traffic = cands[p].traffic /\ Silent(WarmedUp(cands[p]))
      /\ RolledBack(cands[p]).traffic = 0 /\ Silent(RolledBack(cands[p]))
      /\ Silent(Split(cands[p], CreateCanaryRun(p).traffic))
  BY <1>1, TrafficOf DEF Silent
<1>3. CASE AfterProvision(p)
  <2>1. pc[p] = "provision" /\ cands[p].traffic = 0 /\ rec[p].status \in Waiting
    BY <1>1, <1>3 DEF AfterProvision, QuietInv, Quiet
  <2>2. CASE Invoke(p, "warmup", "warmup", WarmedUp(cands[p])) /\ UNCHANGED << rec, run, locks >>
    BY <1>1, <1>2, <2>1, <2>2, InvokeQuiet
  <2>3. CASE FailStart(p, FALSE)
    BY <2>3, FailStartQuiet
  <2> QED BY <1>3, <2>2, <2>3 DEF AfterProvision
<1>4. CASE AfterWarmup(p)
  <2>1. pc[p] = "warmup" /\ cands[p].traffic = 0 /\ rec[p].status \in Waiting
    BY <1>1, <1>4 DEF AfterWarmup, QuietInv, Quiet
  <2>2. CASE /\ Invoke(p, "split", "traffic_split", Split(cands[p], CreateCanaryRun(p).traffic))
             /\ UNCHANGED << rec, run, locks >>
    BY <1>1, <1>2, <2>1, <2>2, InvokeQuiet
  <2>3. CASE Invoke(p, "undo", "rollback", RolledBack(cands[p])) /\ UNCHANGED << rec, run, locks >>
    BY <1>1, <1>2, <2>1, <2>3, InvokeQuiet
  <2>4. CASE FailStart(p, FALSE)
    BY <2>4, FailStartQuiet
  <2> QED BY <1>4, <2>2, <2>3, <2>4 DEF AfterWarmup
<1>5. CASE AfterSplit(p)
  <2> DEFINE act == [rec[p] EXCEPT !.status = "canarying", !.restored = FALSE,
                                   !.canary_run = p]
  <2>1. pc[p] = "split" /\ rec[p].status \in Waiting
    BY <1>1, <1>5 DEF AfterSplit
  <2>2. CASE Return(p, act, CreateCanaryRun(p))
    <3>1. act.status = "canarying"
      BY DEF Typed, ActionRecord
    <3> HIDE DEF act
    <3> QED BY <2>2, <3>1, OtherEndQuiet
  <2>3. CASE /\ got[p] = "fail"
             /\ Invoke(p, "undo", "rollback", RolledBack(cands[p]))
             /\ UNCHANGED << rec, run, locks >>
    <3>1. cands[p].traffic = 0
      BY <2>1, <2>3 DEF QuietInv, Quiet
    <3> QED BY <1>1, <1>2, <2>1, <2>3, <3>1, InvokeQuiet
  <2>4. CASE FailStart(p, FALSE)
    BY <2>4, FailStartQuiet
  <2> QED BY <1>5, <2>2, <2>3, <2>4 DEF AfterSplit
<1>6. CASE AfterUndo(p)
  <2>1. cands[p].traffic = 0
    BY <1>6 DEF AfterUndo, QuietInv, Quiet
  <2> QED BY <1>6, <2>1, FailStartQuiet DEF AfterUndo
<1>7. ASSUME NEW frozen \in BOOLEAN, StartExecution(p, rec[p], frozen),
             rec[p].status \in Waiting
      PROVE  QuietInv'
  <2>1. pc[p] = "idle" /\ cands[p].traffic = 0
    BY <1>7 DEF StartExecution, QuietInv, Quiet, Starting
  <2>2. CASE Return(p, FailedRecord(rec[p], FALSE), run[p])
    BY <2>1, <2>2, ReturnQuiet
  <2>3. CASE Return(p, rec[p], run[p])
    BY <2>1, <2>3, ReturnQuiet
  <2>4. CASE /\ Invoke(p, "provision", "provision", Provisioned(cands[p]))
             /\ Load(p, rec[p], run[p])
    BY <1>1, <1>2, <1>7, <2>1, <2>4, LoadsSame, InvokeQuiet
  <2> QED BY <1>7, <2>2, <2>3, <2>4 DEF StartExecution
<1> QED BY <1>3, <1>4, <1>5, <1>6, <1>7

\* The steps of a canary that is out.
LEMMA CanaryQuiet ==
  ASSUME Typed, Suspended, QuietInv, NEW p \in Callers,
         \/ AfterAbort(p) \/ AfterPromote(p) \/ AfterDrain(p) \/ AfterAdvance(p)
         \/ /\ rec[p].status = "canarying"
            /\ \E telemetry \in Telemetry : ProgressCanary(p, rec[p], run[p], telemetry)
  PROVE  QuietInv'
<1>1. rec[p].status = "canarying" /\ pc[p] \notin Starting
  BY DEF Suspended, AfterAbort, AfterPromote, AfterDrain, AfterAdvance, Starting, Waiting,
         ProgressCanary
<1>2. /\ cands[p] \in Candidate /\ Silent(cands[p])
      /\ 100 \in 0..100 /\ AdvanceStage(run[p], Policy).traffic \in 0..100
      /\ "abort" \in Awaits /\ "promote" \in Awaits /\ "drain" \in Awaits /\ "advance" \in Awaits
      /\ "abort" \notin Starting /\ "promote" \notin Starting /\ "drain" \notin Starting
      /\ "advance" \notin Starting
  BY AdvanceType DEF Typed, QuietInv, Quiet, Silent, CanaryRun, Awaits, Starting
<1>3. /\ Silent(RolledBack(cands[p]))
      /\ Silent(Drained(cands[p]))
      /\ Silent(Split(cands[p], 100))
      /\ Silent(Split(cands[p], AdvanceStage(run[p], Policy).traffic))
  BY <1>2, TrafficOf DEF Silent
<1>4. \A new : Silent(new) => Silent(Effect(p, new))
  BY <1>2 DEF Effect
<1>5. CASE AfterAbort(p)
  <2>1. RolledBackRecord(rec[p], got[p]).status = "rolled_back"
    BY RecordType DEF Typed
  <2> QED BY <1>1, <1>5, <2>1, OtherEndQuiet, RejectQuiet DEF AfterAbort
<1>6. CASE AfterPromote(p)
  BY <1>1, <1>2, <1>3, <1>4, <1>6, InvokeQuiet, RejectQuiet DEF AfterPromote
<1>7. CASE AfterDrain(p)
  <2> DEFINE act == [rec[p] EXCEPT !.status = "completed", !.restored = FALSE,
                                   !.canary_run = run[p].id]
  <2>1. act.status = "completed"
    BY DEF Typed, ActionRecord
  <2>2. CASE Return(p, act, [run[p] EXCEPT !.status = "completed"])
    <3> HIDE DEF act
    <3> QED BY <2>1, <2>2, OtherEndQuiet
  <2>3. CASE Reject(p)
    BY <1>1, <2>3, RejectQuiet
  <2> QED BY <1>7, <2>2, <2>3 DEF AfterDrain
<1>8. CASE AfterAdvance(p)
  BY <1>1, <1>8, OtherEndQuiet, RejectQuiet DEF AfterAdvance
<1>9. ASSUME NEW telemetry \in Telemetry, ProgressCanary(p, rec[p], run[p], telemetry)
      PROVE  QuietInv'
  <2>1. rec' = rec /\ run' = run
    BY <1>9, LoadsSame DEF ProgressCanary
  <2>2. CASE UNCHANGED << pc, got, cands >>
    BY <2>1, <2>2 DEF QuietInv, Quiet
  <2> QED BY <1>1, <1>2, <1>3, <1>4, <1>9, <2>1, <2>2, InvokeQuiet DEF ProgressCanary
<1> QED BY <1>5, <1>6, <1>7, <1>8, <1>9

\* An emergency rollback takes traffic from the candidate, or none.
LEMMA EmergencyQuiet ==
  ASSUME Typed, Suspended, QuietInv, NEW p \in Callers,
         AfterEmergency(p) \/ EmergencyRollback(p, rec[p])
  PROVE  QuietInv'
<1>1. CASE AfterEmergency(p)
  <2>1. RolledBackRecord(rec[p], got[p]).status = "rolled_back"
    BY RecordType DEF Typed
  <2>2. pc[p] \notin Starting
    BY <1>1 DEF AfterEmergency, Starting
  <2> QED BY <1>1, <2>1, <2>2, OtherEndQuiet, RejectQuiet DEF AfterEmergency
<1>2. CASE EmergencyRollback(p, rec[p])
  <2> DEFINE effect == Effect(p, RolledBack(cands[p]))
  <2>1. cands[p] \in Candidate /\ Silent(cands[p])
    BY DEF Typed, QuietInv, Quiet, Silent
  <2>2. RolledBack(cands[p]).traffic = 0
    BY <2>1, TrafficOf
  <2>3. Silent(effect) /\ (cands[p].traffic = 0 => effect.traffic = 0)
    BY <2>1, <2>2 DEF Effect, Silent
  <2>4. /\ pc[p] \notin Starting /\ rec' = rec /\ Invoke(p, "emergency", "rollback", effect)
        /\ "emergency" \in Awaits /\ "emergency" \notin Starting
    BY <1>2, LoadsSame DEF EmergencyRollback, Starting, Awaits
  <2> HIDE DEF effect
  <2> QED BY <2>3, <2>4, InvokeQuiet
<1> QED BY <1>1, <1>2

\* A start that failed and says it restored the last known good is right,
\* whatever calls failed or rejected, the rollback itself included, and
\* whatever is rolled back later.
THEOREM FailedStartClaimsHold == Spec => []FailedStartsAreQuiet
<1>1. Init => QuietInv
  BY DEF Init, QuietInv, Quiet, Absent
<1>2. IInv /\ QuietInv /\ [Next]_vars => QuietInv'
  <2> SUFFICES ASSUME IInv, QuietInv, [Next]_vars PROVE QuietInv'
    OBVIOUS
  <2>1. ASSUME NEW p \in Callers, EngineStep(p) PROVE QuietInv'
    BY <2>1, StartQuiet, CanaryQuiet, EmergencyQuiet DEF IInv, EngineStep
  <2>2. ASSUME NEW p \in Callers, CallerStep(p) PROVE QuietInv'
    BY <2>2, StartQuiet, CanaryQuiet, EmergencyQuiet DEF IInv, CallerStep, Waiting
  <2>3. CASE UNCHANGED vars
    BY <2>3 DEF vars, QuietInv, Quiet
  <2> QED BY <2>1, <2>2, <2>3 DEF Next
<1>3. QuietInv => FailedStartsAreQuiet
  BY DEF QuietInv, Quiet, FailedStartsAreQuiet
<1> QED BY <1>1, <1>2, <1>3, EngineInvariant, PTL DEF Spec
=============================================================================
