------------------------- MODULE ControlPlane_proofs -------------------------
(***************************************************************************)
(* What the control routes guarantee for any number of requests, actions   *)
(* and deployments, whatever the policy and the telemetry.                 *)
(*                                                                         *)
(* The argument has two levels.  EngineKinds looks at the engine's code:   *)
(* a step of a request's engine suspends it at the next provider call or   *)
(* ends the call with a record and a run.  What requests, write-backs and  *)
(* arrivals do to each other is then a matter of the store: the runs an    *)
(* action may name only grow in number, and every record that a suspended  *)
(* handler holds names one of them.                                        *)
(***************************************************************************)
EXTENDS ControlPlane, FiniteFacts

Names(action, a) == action.canary_run \in NamedRuns(a) \union {NoId}

\* Runs stay stored and bodies stay posted.
Grows ==
  /\ \A a \in Actions : NamedRuns(a) \subseteq NamedRuns(a)'
  /\ \A q \in Requests : runs[q].id = q => runs'[q].id = q

Waits(r, op) == request[r].op = op /\ request[r].answer = "none"

-----------------------------------------------------------------------------
(* How far an execution is.  No provider call of a handler fails, so that  *)
(* the await of a failed start, "undo", is never reached.                  *)

Starting(r) ==
  /\ pc[r] \in {"provision", "warmup", "split"}
  /\ run[r] = Engine!NoRun /\ rec[r].status \in {"planned", "approved"}

NotStarted(r) ==
  /\ pc[r] = "idle"
  /\ run[r] = Engine!NoRun /\ rec[r].status \in {"planned", "approved", "failed"}

JustStarted(r) ==
  /\ pc[r] = "idle"
  /\ run[r].id = r /\ rec[r].canary_run = r /\ rec[r].status = "canarying"

\* the run it judges was stored before r was asked
Judging(r) ==
  /\ run[r].id \in NamedRuns(request[r].arg) \ {r}
  /\ runs[run[r].id].id = run[r].id
  /\ \/ /\ pc[r] \in {"idle", "abort", "promote", "drain", "advance"}
        /\ rec[r].status = "canarying"
     \/ pc[r] = "idle" /\ rec[r].status = "completed"
     \/ pc[r] = "idle" /\ rec[r].status = "rolled_back" /\ run[r].status = "rolled_back"

ExecutionInv(r) ==
  Waits(r, "execute") =>
    /\ request[r].arg \in Actions
    /\ rec[r] \in StoredAction
    /\ \/ JustStarted(r)
       \/ /\ Starting(r) \/ NotStarted(r) \/ Judging(r)
          /\ Names(rec[r], request[r].arg)

RollbackInv(r) ==
  Waits(r, "rollback") =>
    /\ request[r].arg \in Actions
    /\ rec[r] \in StoredAction
    /\ run[r] = Engine!NoRun
    /\ Names(rec[r], request[r].arg)
    /\ pc[r] = "emergency" \/ (pc[r] = "idle" /\ rec[r].status = "rolled_back")

\* Only an execution or a rollback that waits is inside its engine.
RestInv(r) ==
  /\ ~Waits(r, "execute") /\ ~Waits(r, "rollback") => pc[r] = "idle"
  /\ request[r] = Unasked => run[r] = Engine!NoRun
  /\ request[r].answer = "none" => log[r] = "none"
  /\ got[r] = "ok"

StoreInv ==
  /\ \A q \in Requests :
       runs[q].id \in {q, NoId} /\ (runs[q].id = q => request[q].op = "execute")
  /\ \A a \in Actions : actions[a] # Missing => Names(actions[a], a)
  /\ EndsHaveWitnesses

IInv ==
  /\ TypeOK
  /\ got \in [Requests -> {"ok"}]
  /\ \A r \in Requests : ExecutionInv(r) /\ RollbackInv(r) /\ RestInv(r)
  /\ StoreInv

-----------------------------------------------------------------------------
(* Types                                                                   *)

LEMMA NoRunType == Engine!NoRun \in Engine!CanaryRun
  BY DEF Engine!NoRun, Engine!CanaryRun, Engine!RunStatus

LEMMA CreateType ==
  ASSUME NEW r \in Requests
  PROVE  /\ Engine!CreateCanaryRun(r) \in Engine!CanaryRun
         /\ Engine!CreateCanaryRun(r).id = r
  BY DEF Engine!CreateCanaryRun, Engine!CanaryRun, Engine!RunStatus, Engine!DefaultStages,
         Engine!Stage

\* The policy moves a run to a run, and ends one under its own id.
LEMMA AdvanceType ==
  ASSUME NEW x \in Engine!CanaryRun
  PROVE  /\ Engine!AdvanceStage(x, Policy) \in Engine!CanaryRun
         /\ Engine!AdvanceStage(x, Policy).id = x.id
<1> DEFINE PolicyStage == [traffic_percent : 0..100, min_requests : Nat, min_duration_minutes : Nat]
           next == x.stage + 1
<1>1. Policy.stages \in Seq(PolicyStage)
  BY ControlAssumption
<1>2. x.stage \in Nat
  BY DEF Engine!CanaryRun
<1> HIDE DEF PolicyStage
<1>3. next < Len(Policy.stages) => Policy.stages[next + 1] \in PolicyStage
  BY <1>1, <1>2
<1>4. next < Len(Policy.stages) => Policy.stages[next + 1].traffic_percent \in 0..100
  BY <1>3 DEF PolicyStage
<1>5. Len(Policy.stages) \in Nat
  BY <1>1
<1>6. CASE next >= Len(Policy.stages)
  <2>1. Engine!AdvanceStage(x, Policy) = [x EXCEPT !.status = "promoting", !.traffic = 100]
    BY <1>2, <1>5, <1>6 DEF Engine!AdvanceStage
  <2>2. 100 \in 0..100 /\ "promoting" \in Engine!RunStatus
    BY DEF Engine!RunStatus
  <2> HIDE DEF next, PolicyStage
  <2>3. [x EXCEPT !.status = "promoting", !.traffic = 100] \in Engine!CanaryRun
    BY <2>2 DEF Engine!CanaryRun
  <2>4. [x EXCEPT !.status = "promoting", !.traffic = 100].id = x.id
    BY DEF Engine!CanaryRun
  <2> QED BY <2>1, <2>3, <2>4
<1>7. CASE next < Len(Policy.stages)
  <2> DEFINE percent == Policy.stages[next + 1].traffic_percent
  <2>1. Engine!AdvanceStage(x, Policy)
          = [x EXCEPT !.stage = next, !.status = "progressing", !.traffic = percent]
    BY <1>2, <1>5, <1>7 DEF Engine!AdvanceStage
  <2>2. percent \in 0..100 /\ next \in Nat /\ "progressing" \in Engine!RunStatus
    BY <1>2, <1>4, <1>7 DEF Engine!RunStatus
  <2> HIDE DEF percent, next
  <2> QED BY <2>1, <2>2 DEF Engine!CanaryRun
<1> QED BY <1>2, <1>5, <1>6, <1>7

LEMMA EndType ==
  ASSUME NEW x \in Engine!CanaryRun, NEW end \in {"rolled_back", "completed"}
  PROVE  /\ [x EXCEPT !.status = end] \in Engine!CanaryRun
         /\ [x EXCEPT !.status = end].id = x.id
         /\ [x EXCEPT !.status = end].status = end
  BY DEF Engine!CanaryRun, Engine!RunStatus

\* No failure is injected in the provider of a handler.
LEMMA InvokeSucceeds ==
  ASSUME NEW r \in Requests, NEW at, NEW mode, NEW effect, Engine!Invoke(r, at, mode, effect)
  PROVE  pc' = [pc EXCEPT ![r] = at] /\ got' = [got EXCEPT ![r] = "ok"]
  BY DEF Engine!Invoke, Engine!Outcomes

-----------------------------------------------------------------------------
(* What a step of an engine does                                           *)

\* r's engine moves on to the await at, with the records act and x.
Moves(r, at, act, x) ==
  /\ pc' = [pc EXCEPT ![r] = at]
  /\ rec' = [rec EXCEPT ![r] = act]
  /\ run' = [run EXCEPT ![r] = x]
  /\ at \in Engine!Awaits \union {"idle"} /\ act \in StoredAction /\ x \in Engine!CanaryRun
  /\ got' \in [Requests -> {"ok"}] /\ locks' \subseteq Requests

Goes(r, from, at) ==
  /\ pc[r] \in from
  /\ Moves(r, at, rec[r], run[r])

\* The call ends.
Ends(r, from, status, id, x) ==
  /\ pc[r] = from
  /\ \E act \in StoredAction :
       act.status = status /\ act.canary_run = id /\ Moves(r, "idle", act, x)

EngineKind(r) ==
  \/ Goes(r, {"provision"}, "warmup") \/ Goes(r, {"warmup"}, "split") \/ Goes(r, {"promote"}, "drain")
  \/ Ends(r, "split", "canarying", r, Engine!CreateCanaryRun(r))
  \/ Ends(r, "abort", "rolled_back", NoId, [run[r] EXCEPT !.status = "rolled_back"])
  \/ Ends(r, "drain", "completed", run[r].id, [run[r] EXCEPT !.status = "completed"])
  \/ pc[r] = "advance" /\ Moves(r, "idle", rec[r], Engine!AdvanceStage(run[r], Policy))
  \/ Ends(r, "emergency", "rolled_back", NoId, run[r])

LEMMA GoesKind ==
  ASSUME TypeOK, got \in [Requests -> {"ok"}], NEW r \in Requests, rec[r] \in StoredAction,
         NEW from, NEW at \in Engine!Awaits, NEW mode, NEW effect,
         pc[r] \in from, Engine!Invoke(r, at, mode, effect), UNCHANGED << rec, run, locks >>
  PROVE  Goes(r, from, at)
<1>1. pc' = [pc EXCEPT ![r] = at] /\ got' = [got EXCEPT ![r] = "ok"]
  BY InvokeSucceeds
<1>2. rec' = [rec EXCEPT ![r] = rec[r]] /\ run' = [run EXCEPT ![r] = run[r]]
  BY DEF TypeOK
<1>3. run[r] \in Engine!CanaryRun /\ locks' \subseteq Requests
  BY DEF TypeOK
<1>4. got' \in [Requests -> {"ok"}]
  BY <1>1
<1> QED BY <1>1, <1>2, <1>3, <1>4 DEF Goes, Moves

LEMMA EndsKind ==
  ASSUME TypeOK, got \in [Requests -> {"ok"}], NEW r \in Requests,
         NEW act \in StoredAction, NEW x \in Engine!CanaryRun,
         Engine!Return(r, act, x), locks' \subseteq locks
  PROVE  Moves(r, "idle", act, x)
BY DEF TypeOK, Moves, Engine!Return

LEMMA EngineKinds ==
  ASSUME TypeOK, got \in [Requests -> {"ok"}], NEW r \in Requests, rec[r] \in StoredAction,
         pc[r] # "undo", Engine!EngineStep(r)
  PROVE  EngineKind(r)
<1>0. got[r] = "ok" /\ run[r] \in Engine!CanaryRun /\ run[r].id \in Requests \union {NoId}
  BY DEF TypeOK, Engine!CanaryRun
<1>a. /\ "rolled_back" \in Engine!ActionStatus /\ "completed" \in Engine!ActionStatus
      /\ "canarying" \in Engine!ActionStatus
  BY DEF Engine!ActionStatus
<1>b. "warmup" \in Engine!Awaits /\ "split" \in Engine!Awaits /\ "drain" \in Engine!Awaits
  BY DEF Engine!Awaits
<1>1. CASE Engine!AfterProvision(r)
  <2>1. Goes(r, {"provision"}, "warmup")
    BY <1>0, <1>1, <1>b, GoesKind DEF Engine!AfterProvision
  <2> QED BY <2>1 DEF EngineKind
<1>2. CASE Engine!AfterWarmup(r)
  <2>1. Goes(r, {"warmup"}, "split")
    BY <1>0, <1>2, <1>b, GoesKind DEF Engine!AfterWarmup
  <2> QED BY <2>1 DEF EngineKind
<1>3. CASE Engine!AfterSplit(r)
  <2> DEFINE act == [rec[r] EXCEPT !.status = "canarying", !.restored = FALSE, !.canary_run = r]
  <2>1. act \in StoredAction /\ act.status = "canarying" /\ act.canary_run = r
    BY <1>a DEF StoredAction
  <2> HIDE DEF act
  <2>2. Engine!Return(r, act, Engine!CreateCanaryRun(r)) /\ locks' = locks /\ pc[r] = "split"
    BY <1>0, <1>3 DEF Engine!AfterSplit, act
  <2>3. Moves(r, "idle", act, Engine!CreateCanaryRun(r))
    BY <2>1, <2>2, CreateType, EndsKind
  <2> QED BY <2>1, <2>2, <2>3 DEF EngineKind, Ends
<1>4. CASE Engine!AfterUndo(r)
  BY <1>4 DEF Engine!AfterUndo
<1>5. CASE Engine!AfterAbort(r)
  <2> DEFINE act == [rec[r] EXCEPT !.status = "rolled_back", !.canary_run = NoId, !.restored = TRUE]
             x == [run[r] EXCEPT !.status = "rolled_back"]
  <2>1. act \in StoredAction /\ act.status = "rolled_back" /\ act.canary_run = NoId
    BY <1>a DEF StoredAction
  <2>2. x \in Engine!CanaryRun
    BY <1>0, EndType
  <2>3. Engine!Return(r, act, x) /\ locks' \subseteq locks /\ pc[r] = "abort"
    BY <1>0, <1>5 DEF Engine!AfterAbort, Engine!RolledBackRecord, Engine!ReleaseLock
  <2> HIDE DEF act, x
  <2>4. Moves(r, "idle", act, x)
    BY <2>1, <2>2, <2>3, EndsKind
  <2>5. Ends(r, "abort", "rolled_back", NoId, x)
    BY <2>1, <2>3, <2>4 DEF Ends
  <2> QED BY <2>5 DEF EngineKind, x
<1>6. CASE Engine!AfterPromote(r)
  <2>1. Goes(r, {"promote"}, "drain")
    BY <1>0, <1>6, <1>b, GoesKind DEF Engine!AfterPromote
  <2> QED BY <2>1 DEF EngineKind
<1>7. CASE Engine!AfterDrain(r)
  <2> DEFINE act == [rec[r] EXCEPT !.status = "completed", !.restored = FALSE, !.canary_run = run[r].id]
             x == [run[r] EXCEPT !.status = "completed"]
  <2>1. act \in StoredAction /\ act.status = "completed" /\ act.canary_run = run[r].id
    BY <1>0, <1>a DEF StoredAction
  <2>2. x \in Engine!CanaryRun
    BY <1>0, EndType
  <2>3. Engine!Return(r, act, x) /\ locks' \subseteq locks /\ pc[r] = "drain"
    BY <1>0, <1>7 DEF Engine!AfterDrain, Engine!ReleaseLock
  <2> HIDE DEF act, x
  <2>4. Moves(r, "idle", act, x)
    BY <2>1, <2>2, <2>3, EndsKind
  <2>5. Ends(r, "drain", "completed", run[r].id, x)
    BY <2>1, <2>3, <2>4 DEF Ends
  <2> QED BY <2>5 DEF EngineKind, x
<1>8. CASE Engine!AfterAdvance(r)
  <2>1. /\ Engine!Return(r, rec[r], Engine!AdvanceStage(run[r], Policy))
        /\ locks' = locks /\ pc[r] = "advance"
    BY <1>0, <1>8 DEF Engine!AfterAdvance
  <2>2. Moves(r, "idle", rec[r], Engine!AdvanceStage(run[r], Policy))
    BY <1>0, <2>1, AdvanceType, EndsKind
  <2> QED BY <2>1, <2>2 DEF EngineKind
<1>9. CASE Engine!AfterEmergency(r)
  <2> DEFINE act == [rec[r] EXCEPT !.status = "rolled_back", !.canary_run = NoId, !.restored = TRUE]
  <2>1. act \in StoredAction /\ act.status = "rolled_back" /\ act.canary_run = NoId
    BY <1>a DEF StoredAction
  <2>2. Engine!Return(r, act, run[r]) /\ locks' \subseteq locks /\ pc[r] = "emergency"
    BY <1>0, <1>9 DEF Engine!AfterEmergency, Engine!RolledBackRecord, Engine!ReleaseLock
  <2> HIDE DEF act
  <2>3. Moves(r, "idle", act, run[r])
    BY <1>0, <2>1, <2>2, EndsKind
  <2>4. Ends(r, "emergency", "rolled_back", NoId, run[r])
    BY <2>1, <2>2, <2>3 DEF Ends
  <2> QED BY <2>4 DEF EngineKind
<1> QED BY <1>1, <1>2, <1>3, <1>4, <1>5, <1>6, <1>7, <1>8, <1>9 DEF Engine!EngineStep

-----------------------------------------------------------------------------
(* Each step keeps the invariant                                           *)

RequestInv(q) == ExecutionInv(q) /\ RollbackInv(q) /\ RestInv(q)

\* What stays as it is for q, when the runs stored for an action stay stored.
Untouched(q) ==
  /\ pc'[q] = pc[q] /\ rec'[q] = rec[q] /\ run'[q] = run[q] /\ got'[q] = got[q]
  /\ request'[q] = request[q] /\ log'[q] = log[q]

LEMMA NamedAreRequests ==
  ASSUME TypeOK, NEW a \in Actions
  PROVE  NamedRuns(a) \subseteq Requests
BY DEF TypeOK, NamedRuns, RunsOf, Body

LEMMA WitnessKept ==
  ASSUME NEW a \in Actions, EndHasWitness(a), Grows,
         actions'[a] = actions[a], posted[a] \subseteq posted'[a],
         outcomes[a] > 0 => outcomes'[a] > 0,
         \A q \in Requests : request[q].arg = a /\ log[q] = "rollback_triggered" =>
                             request'[q].arg = a /\ log'[q] = "rollback_triggered",
         \A q \in NamedRuns(a) : \/ runs'[q].status = runs[q].status
                                \/ \E b \in Actions \ {a} : q \in NamedRuns(b)'
  PROVE  EndHasWitness(a)'
<1> SUFFICES ASSUME actions'[a] # Missing, \A body \in posted'[a] : body.status # actions'[a].status,
                    actions'[a].status \in {"completed", "rolled_back"}
             PROVE  EndHasWitness(a)'
  BY DEF EndHasWitness
<1>1. actions[a] # Missing /\ \A body \in posted[a] : body.status # actions[a].status
  OBVIOUS
<1>2. CASE actions[a].status = "completed"
  BY <1>1, <1>2 DEF EndHasWitness
<1>3. CASE actions[a].status = "rolled_back"
  <2>1. \/ \E r \in Requests : request[r].arg = a /\ log[r] = "rollback_triggered"
        \/ \E q \in NamedRuns(a) :
             \/ runs[q].status = "rolled_back"
             \/ \E b \in Actions \ {a} : q \in NamedRuns(b)
    BY <1>1, <1>3 DEF EndHasWitness
  <2>2. ASSUME NEW q \in NamedRuns(a), \/ runs[q].status = "rolled_back"
                                       \/ \E b \in Actions \ {a} : q \in NamedRuns(b)
        PROVE  /\ q \in NamedRuns(a)'
               /\ \/ runs'[q].status = "rolled_back"
                  \/ \E b \in Actions \ {a} : q \in NamedRuns(b)'
    BY <2>2 DEF Grows
  <2> QED BY <1>3, <2>1, <2>2 DEF EndHasWitness
<1> QED BY <1>2, <1>3

\* Runs and bodies that stay are still named.
LEMMA GrowsWith ==
  ASSUME \A q \in Requests : runs[q].id = q => runs'[q].id = q,
         \A q \in Requests : request[q].op = "execute" =>
                             request'[q].op = "execute" /\ request'[q].arg = request[q].arg,
         \A a \in Actions : posted[a] \subseteq posted'[a]
  PROVE  Grows
BY DEF Grows, NamedRuns, RunsOf

LEMMA OthersKeep ==
  ASSUME TypeOK, NEW q \in Requests, RequestInv(q), Untouched(q),
         Grows
  PROVE  RequestInv(q)'
<1>1. RestInv(q)'
  BY DEF RequestInv, RestInv, Untouched, Waits
<1>2. RollbackInv(q)'
  <2> SUFFICES ASSUME Waits(q, "rollback")' PROVE RollbackInv(q)'
    BY DEF RollbackInv
  <2>1. Waits(q, "rollback") /\ request[q].arg \in Actions
    BY DEF Untouched, Waits, RequestInv, RollbackInv
  <2>2. Names(rec[q], request[q].arg)'
    BY <2>1 DEF Untouched, RequestInv, RollbackInv, Names, Grows
  <2> QED BY <2>1, <2>2 DEF Untouched, RequestInv, RollbackInv
<1>3. ExecutionInv(q)'
  <2> SUFFICES ASSUME Waits(q, "execute")' PROVE ExecutionInv(q)'
    BY DEF ExecutionInv
  <2>1. Waits(q, "execute") /\ request[q].arg \in Actions
    BY DEF Untouched, Waits, RequestInv, ExecutionInv
  <2>2. Names(rec[q], request[q].arg) => Names(rec[q], request[q].arg)'
    BY <2>1 DEF Untouched, Names, Grows
  <2>3. Judging(q) => Judging(q)'
    BY <2>1, NamedAreRequests DEF Untouched, Judging, Grows
  <2>4. /\ Starting(q) => Starting(q)'
        /\ NotStarted(q) => NotStarted(q)'
        /\ JustStarted(q) => JustStarted(q)'
    BY DEF Untouched, Starting, NotStarted, JustStarted
  <2>5. \/ JustStarted(q)
        \/ (Starting(q) \/ NotStarted(q) \/ Judging(q)) /\ Names(rec[q], request[q].arg)
    BY <2>1 DEF RequestInv, ExecutionInv
  <2>6. \/ JustStarted(q)'
        \/ (Starting(q)' \/ NotStarted(q)' \/ Judging(q)') /\ Names(rec[q], request[q].arg)'
    BY <2>2, <2>3, <2>4, <2>5
  <2>7. request'[q].arg \in Actions /\ rec'[q] \in StoredAction
    BY <2>1 DEF RequestInv, ExecutionInv, Untouched
  <2> QED BY <2>6, <2>7 DEF ExecutionInv
<1> QED BY <1>1, <1>2, <1>3 DEF RequestInv

LEMMA MovesKeep ==
  ASSUME TypeOK, got \in [Requests -> {"ok"}], NEW r \in Requests,
         NEW at, NEW act, NEW x, Moves(r, at, act, x),
         UNCHANGED << store, request, log, posted >>
  PROVE  /\ TypeOK' /\ pc'[r] = at /\ rec'[r] = act /\ run'[r] = x
         /\ \A q \in Requests \ {r} : Untouched(q)
BY DEF TypeOK, Moves, store, Untouched

LEMMA EngineKeeps ==
  ASSUME IInv, NEW r \in Requests, EngineRuns(r)
  PROVE  IInv'
<1>1. /\ TypeOK /\ got \in [Requests -> {"ok"}] /\ \A q \in Requests : RequestInv(q)
      /\ UNCHANGED << store, request, log, posted >> /\ Engine!EngineStep(r)
  BY DEF IInv, RequestInv, EngineRuns
<1>2. pc[r] # "idle"
  BY <1>1 DEF Engine!EngineStep, Engine!AfterProvision, Engine!AfterWarmup, Engine!AfterSplit,
       Engine!AfterUndo, Engine!AfterAbort, Engine!AfterPromote, Engine!AfterDrain,
       Engine!AfterAdvance, Engine!AfterEmergency
<1>3. Waits(r, "execute") \/ Waits(r, "rollback")
  BY <1>1, <1>2 DEF RequestInv, RestInv
<1>4. rec[r] \in StoredAction /\ pc[r] # "undo" /\ request[r].arg \in Actions
  BY <1>1, <1>2, <1>3 DEF RequestInv, ExecutionInv, RollbackInv, JustStarted, Starting,
       NotStarted, Judging
<1>5. EngineKind(r)
  BY <1>1, <1>4, EngineKinds
<1>6. Grows /\ (\A a \in Actions : NamedRuns(a)' = NamedRuns(a)) /\ runs' = runs
  BY <1>1 DEF Grows, NamedRuns, RunsOf, store
<1>7. StoreInv'
  <2>1. ASSUME NEW a \in Actions PROVE EndHasWitness(a)'
    BY <1>1, <1>6, WitnessKept DEF IInv, StoreInv, EndsHaveWitnesses, store
  <2> QED BY <1>1, <1>6, <2>1 DEF IInv, StoreInv, EndsHaveWitnesses, Names, store
<1>8. PICK at, act, x : Moves(r, at, act, x)
  BY <1>5 DEF EngineKind, Goes, Ends
<1>9. /\ TypeOK' /\ \A q \in Requests \ {r} : Untouched(q)
      /\ got' \in [Requests -> {"ok"}]
  BY <1>1, <1>8, MovesKeep DEF Moves
<1>10. \A q \in Requests \ {r} : RequestInv(q)'
  BY <1>1, <1>6, <1>9, OthersKeep
<1>11. RestInv(r)'
  BY <1>1, <1>3, <1>9 DEF RequestInv, RestInv, Waits, Unasked
<1>12. CASE Waits(r, "execute")
  <2>1. Starting(r) \/ Judging(r)
    BY <1>1, <1>2, <1>12 DEF RequestInv, ExecutionInv, JustStarted, NotStarted
  <2>2. Names(rec[r], request[r].arg)
    BY <1>1, <1>2, <1>12 DEF RequestInv, ExecutionInv, JustStarted
  <2>3. Waits(r, "execute")' /\ request'[r] = request[r] /\ ~Waits(r, "rollback")'
    BY <1>1, <1>12 DEF Waits
  <2>4. rec'[r] \in StoredAction
    BY <1>8, <1>9, <1>4, <1>1, MovesKeep DEF Moves
  <2>5. ASSUME Starting(r) PROVE RequestInv(r)'
    <3>1. \/ Goes(r, {"provision"}, "warmup") \/ Goes(r, {"warmup"}, "split")
          \/ Ends(r, "split", "canarying", r, Engine!CreateCanaryRun(r))
      BY <1>5, <2>5 DEF EngineKind, Starting, Goes, Ends
    <3>2. CASE Goes(r, {"provision"}, "warmup") \/ Goes(r, {"warmup"}, "split")
      <4>1. rec'[r] = rec[r] /\ run'[r] = run[r] /\ pc'[r] \in {"warmup", "split"}
        BY <1>1, <3>2, MovesKeep DEF Goes
      <4>2. Starting(r)' /\ Names(rec[r], request[r].arg)'
        BY <1>4, <1>6, <2>2, <2>3, <2>5, <4>1 DEF Starting, Names
      <4> QED BY <1>4, <1>11, <2>3, <2>4, <4>2 DEF ExecutionInv, RollbackInv, RequestInv
    <3>3. CASE Ends(r, "split", "canarying", r, Engine!CreateCanaryRun(r))
      <4>1. /\ pc'[r] = "idle" /\ run'[r] = Engine!CreateCanaryRun(r)
            /\ rec'[r].status = "canarying" /\ rec'[r].canary_run = r
        BY <1>1, <3>3, MovesKeep DEF Ends
      <4>2. JustStarted(r)'
        BY <4>1, CreateType DEF JustStarted
      <4> QED BY <1>4, <1>11, <2>3, <2>4, <4>2 DEF ExecutionInv, RollbackInv, RequestInv
    <3> QED BY <3>1, <3>2, <3>3
  <2>6. ASSUME Judging(r) PROVE RequestInv(r)'
    <3>1. /\ run[r].id \in NamedRuns(request[r].arg) \ {r} /\ run[r] \in Engine!CanaryRun
          /\ rec[r].status = "canarying" /\ pc[r] \in {"abort", "promote", "drain", "advance"}
          /\ runs[run[r].id].id = run[r].id
      BY <1>1, <1>2, <2>6 DEF Judging, TypeOK
    <3>2. \/ Goes(r, {"promote"}, "drain")
          \/ Ends(r, "abort", "rolled_back", NoId, [run[r] EXCEPT !.status = "rolled_back"])
          \/ Ends(r, "drain", "completed", run[r].id, [run[r] EXCEPT !.status = "completed"])
          \/ Moves(r, "idle", rec[r], Engine!AdvanceStage(run[r], Policy))
      BY <1>5, <3>1 DEF EngineKind, Goes, Ends
    <3>3. CASE Goes(r, {"promote"}, "drain")
      <4>1. rec'[r] = rec[r] /\ run'[r] = run[r] /\ pc'[r] = "drain"
        BY <1>1, <3>3, MovesKeep DEF Goes
      <4>2. Judging(r)' /\ Names(rec[r], request[r].arg)'
        BY <1>4, <1>6, <2>2, <2>3, <3>1, <4>1 DEF Judging, Names
      <4> QED BY <1>4, <1>11, <2>3, <2>4, <4>2 DEF ExecutionInv, RollbackInv, RequestInv
    <3>4. CASE Ends(r, "abort", "rolled_back", NoId, [run[r] EXCEPT !.status = "rolled_back"])
      <4>1. /\ pc'[r] = "idle" /\ run'[r] = [run[r] EXCEPT !.status = "rolled_back"]
            /\ rec'[r].status = "rolled_back" /\ rec'[r].canary_run = NoId
        BY <1>1, <3>4, MovesKeep DEF Ends
      <4>2. run'[r].id = run[r].id /\ run'[r].status = "rolled_back"
        BY <3>1, <4>1, EndType
      <4>3. Judging(r)' /\ Names(rec[r], request[r].arg)'
        BY <1>4, <1>6, <2>3, <3>1, <4>1, <4>2 DEF Judging, Names
      <4> QED BY <1>4, <1>11, <2>3, <2>4, <4>3 DEF ExecutionInv, RollbackInv, RequestInv
    <3>5. CASE Ends(r, "drain", "completed", run[r].id, [run[r] EXCEPT !.status = "completed"])
      <4>1. /\ pc'[r] = "idle" /\ run'[r] = [run[r] EXCEPT !.status = "completed"]
            /\ rec'[r].status = "completed" /\ rec'[r].canary_run = run[r].id
        BY <1>1, <3>5, MovesKeep DEF Ends
      <4>2. run'[r].id = run[r].id
        BY <3>1, <4>1, EndType
      <4>3. Judging(r)' /\ Names(rec[r], request[r].arg)'
        BY <1>4, <1>6, <2>3, <3>1, <4>1, <4>2 DEF Judging, Names
      <4> QED BY <1>4, <1>11, <2>3, <2>4, <4>3 DEF ExecutionInv, RollbackInv, RequestInv
    <3>6. CASE Moves(r, "idle", rec[r], Engine!AdvanceStage(run[r], Policy))
      <4>1. /\ pc'[r] = "idle" /\ run'[r] = Engine!AdvanceStage(run[r], Policy) /\ rec'[r] = rec[r]
        BY <1>1, <3>6, MovesKeep
      <4>2. run'[r].id = run[r].id
        BY <3>1, <4>1, AdvanceType
      <4>3. Judging(r)' /\ Names(rec[r], request[r].arg)'
        BY <1>4, <1>6, <2>2, <2>3, <3>1, <4>1, <4>2 DEF Judging, Names
      <4> QED BY <1>4, <1>11, <2>3, <2>4, <4>3 DEF ExecutionInv, RollbackInv, RequestInv
    <3> QED BY <3>2, <3>3, <3>4, <3>5, <3>6
  <2>7. RequestInv(r)'
    BY <2>1, <2>5, <2>6
  <2> QED BY <1>7, <1>9, <1>10, <2>7 DEF IInv, RequestInv
<1>13. CASE Waits(r, "rollback")
  <2>1. pc[r] = "emergency" /\ run[r] = Engine!NoRun
    BY <1>1, <1>2, <1>13 DEF RequestInv, RollbackInv
  <2>2. Ends(r, "emergency", "rolled_back", NoId, run[r])
    BY <1>5, <2>1 DEF EngineKind, Goes, Ends
  <2>3. /\ pc'[r] = "idle" /\ run'[r] = run[r] /\ rec'[r] \in StoredAction
        /\ rec'[r].status = "rolled_back" /\ rec'[r].canary_run = NoId
    BY <1>1, <2>2, MovesKeep DEF Ends
  <2>4. ~Waits(r, "execute")' /\ request'[r] = request[r]
    BY <1>1, <1>13 DEF Waits
  <2>5. RequestInv(r)'
    BY <1>4, <1>11, <2>1, <2>3, <2>4 DEF RequestInv, ExecutionInv, RollbackInv, Names
  <2> QED BY <1>7, <1>9, <1>10, <2>5 DEF IInv, RequestInv
<1> QED BY <1>3, <1>12, <1>13

-----------------------------------------------------------------------------
(* Write-backs                                                             *)

RequestType == [op : Ops \union {"none"},
                arg : Actions \union Deployments \union Requests \union {Global, NoId},
                answer : {"none", "done", "refused"}]

\* Once r is answered, its engine has nothing left to do.
LEMMA Answered ==
  ASSUME IInv, NEW r \in Requests, Waits(r, "execute") \/ Waits(r, "rollback"), pc[r] = "idle",
         Answer(r), UNCHANGED engine, log' \in [Requests -> Events],
         \A q \in Requests \ {r} : log'[q] = log[q],
         Grows
  PROVE  /\ request' \in [Requests -> RequestType]
         /\ \A q \in Requests : RequestInv(q)'
<1>1. request \in [Requests -> RequestType]
  BY DEF IInv, TypeOK, RequestType
<1>2. /\ request' = [request EXCEPT ![r].answer = "done"] /\ request[r] \in RequestType
  BY <1>1 DEF Answer
<1>3. request'[r].answer = "done" /\ request' \in [Requests -> RequestType]
  BY <1>1, <1>2 DEF RequestType
<1>4. request'[r] # Unasked
  BY <1>3 DEF Unasked
<1>5. RequestInv(r)'
  BY <1>3, <1>4 DEF RequestInv, ExecutionInv, RollbackInv, RestInv, Waits, engine, IInv
<1>6. \A q \in Requests \ {r} : Untouched(q)
  BY <1>1, <1>2 DEF Untouched, engine
<1>7. \A q \in Requests \ {r} : RequestInv(q)
  BY DEF IInv, RequestInv
<1> QED BY <1>3, <1>5, <1>6, <1>7, OthersKeep DEF IInv

LEMMA AnswerKeepsQuestion ==
  ASSUME TypeOK, NEW r \in Requests, Answer(r)
  PROVE  \A q \in Requests : request'[q].op = request[q].op /\ request'[q].arg = request[q].arg
<1>1. request \in [Requests -> RequestType]
  BY DEF TypeOK, RequestType
<1> QED BY <1>1 DEF Answer, RequestType

LEMMA StartReturnsKeeps ==
  ASSUME IInv, NEW r \in Requests, StartReturns(r)
  PROVE  IInv'
<1> DEFINE a == request[r].arg
<1>1. /\ Waits(r, "execute") /\ pc[r] = "idle" /\ Answer(r) /\ UNCHANGED engine
      /\ run[r].id = r
      /\ actions' = [actions EXCEPT ![a] = rec[r]]
      /\ runs' = [runs EXCEPT ![r] = run[r]]
      /\ log' = [log EXCEPT ![r] = "execution_started"]
      /\ UNCHANGED << version, outcomes, freezes, posted >>
  BY DEF StartReturns, Resumes, Waits, Started, WriteBack, Audit
<1>2. TypeOK /\ ExecutionInv(r) /\ RestInv(r) /\ StoreInv
  BY DEF IInv
<1>3. NoId # r
  BY ControlAssumption
<1>4. /\ a \in Actions /\ rec[r] \in StoredAction
      /\ rec[r].canary_run = r /\ rec[r].status = "canarying"
  BY <1>1, <1>2, <1>3 DEF ExecutionInv, JustStarted, Starting, NotStarted, Judging, Engine!NoRun
<1>5. log[r] = "none"
  BY <1>1, <1>2 DEF RestInv, Waits
<1>6. \A q \in Requests : request'[q].op = request[q].op /\ request'[q].arg = request[q].arg
  BY <1>1, <1>2, AnswerKeepsQuestion
<1>7. Grows
  <2>1. \A q \in Requests : runs[q].id = q => runs'[q].id = q
    BY <1>1, <1>2 DEF TypeOK
  <2> QED BY <1>1, <1>6, <2>1, GrowsWith
<1>8. log' \in [Requests -> Events]
  BY <1>1, <1>2 DEF TypeOK, Events
<1>9. request' \in [Requests -> RequestType] /\ \A q \in Requests : RequestInv(q)'
  BY <1>1, <1>2, <1>7, <1>8, Answered DEF TypeOK
<1>10. TypeOK' /\ got' \in [Requests -> {"ok"}]
  BY <1>1, <1>2, <1>4, <1>8, <1>9 DEF IInv, TypeOK, RequestType, engine
<1>11. \A q \in Requests :
          runs'[q].id \in {q, NoId} /\ (runs'[q].id = q => request'[q].op = "execute")
  BY <1>1, <1>2, <1>6 DEF StoreInv, TypeOK, Waits
<1>12. ASSUME NEW b \in Actions, actions'[b] # Missing PROVE Names(actions[b], b)'
  <2>1. CASE b = a
    <3>1. actions'[b] = rec[r]
      BY <1>1, <1>2, <2>1 DEF TypeOK
    <3>2. r \in NamedRuns(b)'
      BY <1>1, <1>2, <1>6, <2>1 DEF NamedRuns, RunsOf, TypeOK, Waits
    <3> QED BY <1>4, <3>1, <3>2 DEF Names
  <2>2. CASE b # a
    BY <1>1, <1>2, <1>7, <1>12, <2>2 DEF Names, Grows, StoreInv, TypeOK
  <2> QED BY <2>1, <2>2
<1>13. EndsHaveWitnesses'
  <2> SUFFICES ASSUME NEW b \in Actions PROVE EndHasWitness(b)'
    BY DEF EndsHaveWitnesses
  <2>1. CASE b = a
    BY <1>1, <1>2, <1>4, <2>1 DEF TypeOK, EndHasWitness
  <2>2. CASE b # a
    <3>1. actions'[b] = actions[b] /\ outcomes'[b] = outcomes[b] /\ posted' = posted
      BY <1>1, <1>2, <2>2 DEF TypeOK
    <3>2. \A q \in Requests : request[q].arg = b => request'[q].arg = b /\ log'[q] = log[q]
      BY <1>1, <1>2, <1>6, <2>2 DEF TypeOK
    <3>3. \A q \in NamedRuns(b) \ {r} : runs'[q].status = runs[q].status
      BY <1>1, <1>2, NamedAreRequests DEF TypeOK
    <3>4. r \in NamedRuns(a)'
      BY <1>1, <1>2, <1>4, <1>6 DEF NamedRuns, RunsOf, TypeOK, Waits
    <3>5. EndHasWitness(b)
      BY <1>2 DEF StoreInv, EndsHaveWitnesses
    <3>6. ASSUME NEW q \in NamedRuns(b), runs'[q].status # runs[q].status
          PROVE  \E c \in Actions \ {b} : q \in NamedRuns(c)'
      <4>1. PICK c \in Actions \ {b} : c = a
        BY <1>4, <2>2
      <4>2. r \in NamedRuns(c)'
        BY <1>6, <3>4, <4>1
      <4> QED BY <3>3, <3>6, <4>2
    <3> QED BY <1>7, <3>1, <3>2, <3>5, <3>6, WitnessKept
  <2> QED BY <2>1, <2>2
<1> QED BY <1>9, <1>10, <1>11, <1>12, <1>13 DEF IInv, StoreInv, RequestInv

LEMMA ProgressReturnsKeeps ==
  ASSUME IInv, NEW r \in Requests, ProgressReturns(r)
  PROVE  IInv'
<1> DEFINE a == request[r].arg
<1>1. /\ Waits(r, "execute") /\ pc[r] = "idle" /\ Answer(r) /\ UNCHANGED engine
      /\ run[r].id # r
      /\ actions' = [actions EXCEPT ![a] = rec[r]]
      /\ runs' = [runs EXCEPT ![run[r].id] = run[r]]
      /\ outcomes' = [outcomes EXCEPT ![a] = @ + Completions(r)]
      /\ version' = [version EXCEPT ![TargetOf[a]] = @ + Completions(r)]
      /\ UNCHANGED << log, freezes, posted >>
  BY DEF ProgressReturns, Resumes, Waits, Started, WriteBack, RecordOutcome, BumpVersion
<1>2. TypeOK /\ ExecutionInv(r) /\ RestInv(r) /\ StoreInv
  BY DEF IInv
<1>3. /\ a \in Actions /\ rec[r] \in StoredAction /\ run[r] \in Engine!CanaryRun
      /\ NotStarted(r) \/ Judging(r)
  BY <1>1, <1>2 DEF ExecutionInv, JustStarted, Starting, TypeOK
<1>4. Names(rec[r], a)
  BY <1>1, <1>2 DEF ExecutionInv, JustStarted
<1>5. \A q \in Requests : request'[q].op = request[q].op /\ request'[q].arg = request[q].arg
  BY <1>1, <1>2, AnswerKeepsQuestion
<1>6. /\ runs' \in [Requests -> Engine!CanaryRun] /\ \A q \in Requests : runs'[q].id = runs[q].id
      /\ \A q \in Requests : q \notin NamedRuns(a) => runs'[q] = runs[q]
  <2>1. CASE NotStarted(r)
    <3>1. run[r].id = NoId /\ NoId \notin Requests
      BY <2>1, ControlAssumption DEF NotStarted, Engine!NoRun
    <3> QED BY <1>1, <1>2, <3>1 DEF TypeOK
  <2>2. CASE Judging(r)
    <3>1. run[r].id \in Requests /\ runs[run[r].id].id = run[r].id /\ run[r].id \in NamedRuns(a)
      BY <1>2, <1>3, <2>2, NamedAreRequests DEF Judging
    <3> QED BY <1>1, <1>2, <1>3, <3>1 DEF TypeOK
  <2> QED BY <1>3, <2>1, <2>2
<1>7. Grows /\ \A b \in Actions : NamedRuns(b)' = NamedRuns(b)
  BY <1>1, <1>5, <1>6 DEF Grows, NamedRuns, RunsOf
<1>8. Completions(r) \in Nat /\ (rec[r].status = "completed" => Completions(r) = 1)
  BY DEF Completions
<1>9. request' \in [Requests -> RequestType] /\ \A q \in Requests : RequestInv(q)'
  BY <1>1, <1>2, <1>7, Answered DEF TypeOK
<1>10. TargetOf[a] \in Deployments
  BY <1>3, ControlAssumption
<1>11. /\ version' \in [Deployments -> Nat] /\ outcomes' \in [Actions -> Nat]
       /\ outcomes'[a] = outcomes[a] + Completions(r)
       /\ \A b \in Actions \ {a} : outcomes'[b] = outcomes[b]
  BY <1>1, <1>2, <1>3, <1>8, <1>10 DEF TypeOK
<1>12. actions' \in [Actions -> StoredAction \union {Missing}]
  BY <1>1, <1>2, <1>3 DEF TypeOK
<1>13. TypeOK' /\ got' \in [Requests -> {"ok"}]
  BY <1>1, <1>2, <1>6, <1>9, <1>11, <1>12 DEF IInv, TypeOK, RequestType, engine
<1>14. \A q \in Requests :
          runs'[q].id \in {q, NoId} /\ (runs'[q].id = q => request'[q].op = "execute")
  BY <1>2, <1>5, <1>6 DEF StoreInv
<1>15. ASSUME NEW b \in Actions, actions'[b] # Missing PROVE Names(actions[b], b)'
  <2>1. CASE b = a
    BY <1>1, <1>2, <1>4, <1>7, <2>1 DEF TypeOK, Names
  <2>2. CASE b # a
    BY <1>1, <1>2, <1>7, <1>15, <2>2 DEF Names, StoreInv, TypeOK
  <2> QED BY <2>1, <2>2
<1>16. EndsHaveWitnesses'
  <2> SUFFICES ASSUME NEW b \in Actions PROVE EndHasWitness(b)'
    BY DEF EndsHaveWitnesses
  <2>1. CASE b = a
    <3>1. actions'[b] = rec[r]
      BY <1>1, <1>2, <2>1 DEF TypeOK
    <3>2. rec[r].status = "completed" => outcomes'[b] > 0
      BY <1>2, <1>8, <1>11, <2>1 DEF TypeOK
    <3>3. ASSUME rec[r].status = "rolled_back"
          PROVE  \E q \in NamedRuns(b)' : runs'[q].status = "rolled_back"
      <4>1. run[r].id \in NamedRuns(a) /\ run[r].status = "rolled_back"
        BY <1>3, <3>3 DEF NotStarted, Judging
      <4>2. run[r].id \in Requests
        BY <1>2, <1>3, <4>1, NamedAreRequests
      <4>3. runs'[run[r].id] = run[r]
        BY <1>1, <1>2, <4>2 DEF TypeOK
      <4> QED BY <1>3, <1>7, <2>1, <4>1, <4>3
    <3> QED BY <3>1, <3>2, <3>3 DEF EndHasWitness
  <2>2. CASE b # a
    <3>1. actions'[b] = actions[b] /\ outcomes'[b] = outcomes[b] /\ posted' = posted
      BY <1>1, <1>2, <1>11, <2>2 DEF TypeOK
    <3>2. \A q \in Requests : request[q].arg = b => request'[q].arg = b /\ log'[q] = log[q]
      BY <1>1, <1>5, <2>2
    <3>3. ASSUME NEW q \in NamedRuns(b), runs'[q].status # runs[q].status
          PROVE  \E c \in Actions \ {b} : q \in NamedRuns(c)'
      <4>1. PICK c \in Actions \ {b} : c = a
        BY <1>3, <2>2
      <4>2. q \in NamedRuns(c)
        BY <1>2, <1>6, <3>3, <4>1, NamedAreRequests
      <4> QED BY <1>7, <4>2
    <3>4. EndHasWitness(b)
      BY <1>2 DEF StoreInv, EndsHaveWitnesses
    <3> QED BY <1>7, <3>1, <3>2, <3>3, <3>4, WitnessKept
  <2> QED BY <2>1, <2>2
<1> QED BY <1>9, <1>13, <1>14, <1>15, <1>16 DEF IInv, StoreInv, RequestInv

LEMMA RollbackReturnsKeeps ==
  ASSUME IInv, NEW r \in Requests, RollbackReturns(r)
  PROVE  IInv'
<1> DEFINE a == request[r].arg
<1>1. /\ Waits(r, "rollback") /\ pc[r] = "idle" /\ Answer(r) /\ UNCHANGED engine
      /\ actions' = [actions EXCEPT ![a] = rec[r]]
      /\ log' = [log EXCEPT ![r] = "rollback_triggered"]
      /\ UNCHANGED << runs, version, outcomes, freezes, posted >>
  BY DEF RollbackReturns, Resumes, Waits, Audit
<1>2. TypeOK /\ RollbackInv(r) /\ RestInv(r) /\ StoreInv
  BY DEF IInv
<1>3. /\ a \in Actions /\ rec[r] \in StoredAction
      /\ rec[r].status = "rolled_back" /\ Names(rec[r], a)
  BY <1>1, <1>2 DEF RollbackInv
<1>4. \A q \in Requests : request'[q].op = request[q].op /\ request'[q].arg = request[q].arg
  BY <1>1, <1>2, AnswerKeepsQuestion
<1>5. Grows /\ \A b \in Actions : NamedRuns(b)' = NamedRuns(b)
  BY <1>1, <1>4 DEF Grows, NamedRuns, RunsOf
<1>6. log' \in [Requests -> Events]
  BY <1>1, <1>2 DEF TypeOK, Events
<1>7. request' \in [Requests -> RequestType] /\ \A q \in Requests : RequestInv(q)'
  BY <1>1, <1>2, <1>5, <1>6, Answered DEF TypeOK
<1>8. TypeOK' /\ got' \in [Requests -> {"ok"}]
  BY <1>1, <1>2, <1>3, <1>6, <1>7 DEF IInv, TypeOK, RequestType, engine
<1>9. ASSUME NEW b \in Actions, actions'[b] # Missing PROVE Names(actions[b], b)'
  <2>1. CASE b = a
    BY <1>1, <1>2, <1>3, <1>5, <2>1 DEF TypeOK, Names
  <2>2. CASE b # a
    BY <1>1, <1>2, <1>5, <1>9, <2>2 DEF Names, StoreInv, TypeOK
  <2> QED BY <2>1, <2>2
<1>10. EndsHaveWitnesses'
  <2> SUFFICES ASSUME NEW b \in Actions PROVE EndHasWitness(b)'
    BY DEF EndsHaveWitnesses
  <2>1. CASE b = a
    <3>1. actions'[b] = rec[r] /\ log'[r] = "rollback_triggered" /\ request'[r].arg = b
      BY <1>1, <1>2, <1>4, <2>1 DEF TypeOK
    <3> QED BY <1>3, <3>1 DEF EndHasWitness
  <2>2. CASE b # a
    <3>1. actions'[b] = actions[b] /\ outcomes'[b] = outcomes[b] /\ runs' = runs /\ posted' = posted
      BY <1>1, <1>2, <2>2 DEF TypeOK
    <3>2. \A q \in Requests : request[q].arg = b => request'[q].arg = b /\ log'[q] = log[q]
      BY <1>1, <1>2, <1>4, <2>2 DEF TypeOK
    <3>3. EndHasWitness(b)
      BY <1>2 DEF StoreInv, EndsHaveWitnesses
    <3> QED BY <1>5, <3>1, <3>2, <3>3, WitnessKept
  <2> QED BY <2>1, <2>2
<1> QED BY <1>1, <1>2, <1>4, <1>7, <1>8, <1>9, <1>10 DEF IInv, StoreInv, RequestInv

-----------------------------------------------------------------------------
(* Arrivals                                                                *)

LEMMA Asked ==
  ASSUME IInv, NEW r \in Requests, NEW op \in Ops, NEW answer \in {"none", "done", "refused"},
         NEW arg \in Actions \union Deployments \union Requests \union {Global, NoId},
         Ask(r, op, arg, answer), UNCHANGED runs,
         \A a \in Actions : posted[a] \subseteq posted'[a]
  PROVE  /\ request' \in [Requests -> RequestType]
         /\ request'[r] = [op |-> op, arg |-> arg, answer |-> answer]
         /\ \A q \in Requests \ {r} : request'[q] = request[q]
         /\ request[r] = Unasked /\ log[r] = "none"
         /\ pc[r] = "idle" /\ run[r] = Engine!NoRun
         /\ Grows /\ runs[r].id # r
<1>1. request \in [Requests -> RequestType]
  BY DEF IInv, TypeOK, RequestType
<1>2. request[r] = Unasked /\ request' = [request EXCEPT ![r] = [op |-> op, arg |-> arg, answer |-> answer]]
  BY DEF Ask
<1>3. request[r].op = "none" /\ request[r].answer = "none"
  BY <1>2 DEF Unasked
<1>4. log[r] = "none" /\ pc[r] = "idle" /\ run[r] = Engine!NoRun
  BY <1>2, <1>3 DEF IInv, RestInv, Waits
<1>5. [op |-> op, arg |-> arg, answer |-> answer] \in RequestType
  BY DEF RequestType
<1>6. Grows /\ runs[r].id # r
  BY <1>1, <1>2, <1>3, GrowsWith DEF IInv, StoreInv
<1> QED BY <1>1, <1>2, <1>4, <1>5, <1>6

\* An arrival stores what is named with reason and, an end, what is posted.
Stores(a) ==
  actions'[a] # Missing =>
    \/ actions'[a] = actions[a]
    \/ /\ Names(actions[a], a)'
       /\ \/ actions'[a].status \notin {"completed", "rolled_back"}
          \/ \E body \in posted'[a] : body.status = actions'[a].status

\* What an arrival stores keeps the invariant of the store.
LEMMA StoreKeeps ==
  ASSUME StoreInv, NEW r \in Requests, UNCHANGED << runs, outcomes >>, log[r] = "none",
         \A q \in Requests \ {r} : request'[q] = request[q] /\ log'[q] = log[q],
         Grows, \A a \in Actions : posted[a] \subseteq posted'[a],
         request[r] = Unasked, \A a \in Actions : Stores(a)
  PROVE  StoreInv'
<1>0. request[r].op = "none" /\ request[r].arg = NoId /\ NoId \notin Actions
  BY ControlAssumption DEF Unasked
<1>1. \A q \in Requests :
        runs'[q].id \in {q, NoId} /\ (runs'[q].id = q => request'[q].op = "execute")
  BY <1>0 DEF StoreInv
<1>2. ASSUME NEW a \in Actions, actions'[a] # Missing PROVE Names(actions[a], a)'
  BY <1>2 DEF StoreInv, Names, Stores, Grows
<1>3. ASSUME NEW a \in Actions PROVE EndHasWitness(a)'
  <2>1. CASE actions'[a] = actions[a]
    <3>1. \A q \in Requests : request[q].arg = a => request'[q].arg = a /\ log'[q] = log[q]
      BY <1>0
    <3>2. EndHasWitness(a)
      BY DEF StoreInv, EndsHaveWitnesses
    <3> QED BY <2>1, <3>1, <3>2, WitnessKept
  <2>2. CASE actions'[a] # actions[a]
    BY <2>2 DEF EndHasWitness, Stores
  <2> QED BY <2>1, <2>2
<1> QED BY <1>1, <1>2, <1>3 DEF StoreInv, EndsHaveWitnesses

\* A handler that answers without its engine.
LEMMA AnswersAtOnce ==
  ASSUME IInv, NEW r \in Requests, NEW op \in Ops, NEW answer \in {"done", "refused"},
         NEW arg \in Actions \union Deployments \union Requests \union {Global, NoId},
         Ask(r, op, arg, answer), UNCHANGED << engine, runs, version, outcomes >>,
         actions' \in [Actions -> StoredAction \union {Missing}],
         freezes' \in [Requests -> {"none", "active", "lifted"}],
         log' \in [Requests -> Events], \A q \in Requests \ {r} : log'[q] = log[q],
         posted' \in [Actions -> SUBSET Body], \A a \in Actions : posted[a] \subseteq posted'[a],
         \A a \in Actions : Stores(a)
  PROVE  IInv'
<1>1. /\ request' \in [Requests -> RequestType]
      /\ request'[r] = [op |-> op, arg |-> arg, answer |-> answer]
      /\ \A q \in Requests \ {r} : request'[q] = request[q]
      /\ request[r] = Unasked /\ log[r] = "none"
      /\ pc[r] = "idle" /\ run[r] = Engine!NoRun
      /\ Grows
  BY Asked
<1>2. TypeOK' /\ got' \in [Requests -> {"ok"}]
  BY <1>1 DEF IInv, TypeOK, RequestType, engine
<1>3. request'[r].answer \in {"done", "refused"} /\ request'[r] # Unasked
  BY <1>1 DEF Unasked
<1>4. RequestInv(r)'
  BY <1>1, <1>3 DEF RequestInv, ExecutionInv, RollbackInv, RestInv, Waits, engine, IInv
<1>5. \A q \in Requests \ {r} : Untouched(q) /\ RequestInv(q)
  BY <1>1 DEF Untouched, engine, IInv, RequestInv
<1>6. \A q \in Requests \ {r} : RequestInv(q)'
  BY <1>1, <1>5, OthersKeep DEF IInv
<1>7. StoreInv'
  BY <1>1, StoreKeeps DEF IInv
<1> QED BY <1>2, <1>4, <1>6, <1>7 DEF IInv, RequestInv

\* A handler that calls its engine and waits for it.
LEMMA CallsItsEngine ==
  ASSUME IInv, NEW r \in Requests, NEW op \in {"execute", "rollback"}, NEW a \in Actions,
         Ask(r, op, a, "none"), UNCHANGED << store, log, posted >>,
         actions[a] # Missing,
         NEW at \in Engine!Awaits \union {"idle"}, NEW x \in Engine!CanaryRun,
         Moves(r, at, actions[a], x),
         op = "execute" => \/ Starting(r)' \/ NotStarted(r)' \/ Judging(r)',
         op = "rollback" => at = "emergency" /\ x = Engine!NoRun
  PROVE  IInv'
<1>0. op \in Ops
  BY DEF Ops
<1>1. /\ request' \in [Requests -> RequestType]
      /\ request'[r] = [op |-> op, arg |-> a, answer |-> "none"]
      /\ \A q \in Requests \ {r} : request'[q] = request[q]
      /\ request[r] = Unasked /\ log[r] = "none"
      /\ Grows
  BY <1>0, Asked DEF store
<1>2. /\ TypeOK' /\ pc'[r] = at /\ rec'[r] = actions[a] /\ run'[r] = x
      /\ got' \in [Requests -> {"ok"}]
      /\ \A q \in Requests \ {r} : Untouched(q)
  <2>1. /\ TypeOK /\ got \in [Requests -> {"ok"}]
        /\ pc' = [pc EXCEPT ![r] = at] /\ rec' = [rec EXCEPT ![r] = actions[a]]
        /\ run' = [run EXCEPT ![r] = x] /\ got' \in [Requests -> {"ok"}] /\ locks' \subseteq Requests
        /\ actions[a] \in StoredAction
    BY DEF IInv, Moves
  <2>2. TypeOK'
    BY <1>1, <2>1 DEF TypeOK, RequestType, store
  <2>3. \A q \in Requests \ {r} : Untouched(q)
    BY <1>1, <2>1 DEF TypeOK, Untouched, store
  <2> QED BY <2>1, <2>2, <2>3 DEF TypeOK
<1>3. request'[r].op = op /\ request'[r].arg = a /\ request'[r].answer = "none" /\ request'[r] # Unasked
  <2>1. request'[r].op = op /\ request'[r].arg = a /\ request'[r].answer = "none"
    BY <1>1
  <2> QED BY <2>1 DEF Unasked
<1>4. actions[a] \in StoredAction /\ rec'[r] \in StoredAction
  BY <1>2 DEF IInv, TypeOK
<1>5. Names(rec[r], request[r].arg)'
  BY <1>1, <1>2, <1>3 DEF IInv, StoreInv, Names, Grows
<1>6. RestInv(r)'
  BY <1>1, <1>2, <1>3 DEF RestInv, Waits
<1>7. ExecutionInv(r)'
  BY <1>3, <1>4, <1>5 DEF ExecutionInv, Waits
<1>8. RollbackInv(r)'
  BY <1>2, <1>3, <1>4, <1>5 DEF RollbackInv, Waits
<1>9. \A q \in Requests \ {r} : RequestInv(q)'
  BY <1>1, <1>2, OthersKeep DEF IInv, RequestInv
<1>10. StoreInv'
  BY <1>1, StoreKeeps DEF IInv, Stores, store
<1> QED BY <1>2, <1>6, <1>7, <1>8, <1>9, <1>10 DEF IInv, RequestInv

LEMMA ExecuteStartKeeps ==
  ASSUME IInv, NEW r \in Requests, NEW a \in Actions, ExecuteStart(r, a)
  PROVE  IInv'
<1>1. /\ Ask(r, "execute", a, "none") /\ UNCHANGED << store, log, posted >>
      /\ actions[a].status \in {"approved", "planned"}
      /\ Engine!StartExecution(r, actions[a], FALSE)
  BY DEF ExecuteStart
<1>2. actions[a] # Missing /\ actions[a] \in StoredAction
  BY <1>1 DEF IInv, TypeOK, Missing
<1>3. run[r] = Engine!NoRun /\ Engine!NoRun \in Engine!CanaryRun
  BY <1>1, NoRunType, Asked DEF Ops, store
<1>4. CASE /\ Engine!AcquireLock(r) /\ Engine!Load(r, actions[a], run[r])
           /\ Engine!Invoke(r, "provision", "provision", Engine!Provisioned(cands[r]))
  <2>1. pc' = [pc EXCEPT ![r] = "provision"] /\ got' = [got EXCEPT ![r] = "ok"]
    BY <1>4, InvokeSucceeds
  <2>2. "provision" \in Engine!Awaits
    BY DEF Engine!Awaits
  <2>3. Moves(r, "provision", actions[a], Engine!NoRun)
    BY <1>2, <1>3, <1>4, <2>1, <2>2 DEF Moves, Engine!Load, Engine!AcquireLock, IInv, TypeOK
  <2>4. Starting(r)'
    BY <1>1, <2>3 DEF Starting, Moves, IInv, TypeOK
  <2> QED BY <1>1, <1>2, <1>3, <2>2, <2>3, <2>4, CallsItsEngine
<1>5. CASE Engine!Return(r, actions[a], run[r]) /\ UNCHANGED locks
  <2>1. Moves(r, "idle", actions[a], Engine!NoRun)
    BY <1>2, <1>3, <1>5, EndsKind DEF IInv
  <2>2. NotStarted(r)'
    BY <1>1, <2>1 DEF NotStarted, Moves, IInv, TypeOK
  <2> QED BY <1>1, <1>2, <1>3, <2>1, <2>2, CallsItsEngine
<1> QED BY <1>1, <1>4, <1>5 DEF Engine!StartExecution

LEMMA ExecuteProgressKeeps ==
  ASSUME IInv, NEW r \in Requests, NEW a \in Actions, ExecuteProgress(r, a)
  PROVE  IInv'
<1> DEFINE x == runs[actions[a].canary_run]
<1>1. /\ Ask(r, "execute", a, "none") /\ UNCHANGED << store, log, posted >>
      /\ actions[a].status = "canarying" /\ HasRun(a)
  BY DEF ExecuteProgress
<1>2. PICK telemetry \in Telemetry : Engine!ProgressCanary(r, actions[a], x, telemetry)
  BY DEF ExecuteProgress
<1>3. actions[a] # Missing /\ actions[a] \in StoredAction
  BY <1>1 DEF IInv, TypeOK, Missing
<1>4. /\ request'[r] = [op |-> "execute", arg |-> a, answer |-> "none"]
      /\ pc[r] = "idle" /\ runs[r].id # r /\ Grows
  BY <1>1, Asked DEF Ops, store
<1>5. actions[a].canary_run \in NamedRuns(a) /\ actions[a].canary_run \in Requests
  BY <1>1, <1>3, NamedAreRequests DEF IInv, StoreInv, Names, HasRun
<1>6. x \in Engine!CanaryRun /\ x.id \in NamedRuns(a) \ {r} /\ runs[x.id].id = x.id
  BY <1>1, <1>4, <1>5 DEF HasRun, IInv, TypeOK, StoreInv
<1>7. \/ pc' = [pc EXCEPT ![r] = "abort"] /\ got' = [got EXCEPT ![r] = "ok"]
      \/ pc' = [pc EXCEPT ![r] = "promote"] /\ got' = [got EXCEPT ![r] = "ok"]
      \/ pc' = [pc EXCEPT ![r] = "advance"] /\ got' = [got EXCEPT ![r] = "ok"]
      \/ UNCHANGED << pc, got >>
  BY <1>2, InvokeSucceeds DEF Engine!ProgressCanary
<1>8. PICK at \in {"idle", "abort", "promote", "advance"} : pc' = [pc EXCEPT ![r] = at]
  BY <1>4, <1>7 DEF IInv, TypeOK
<1>9. at \in Engine!Awaits \union {"idle"}
  BY DEF Engine!Awaits
<1>10. got' \in [Requests -> {"ok"}]
  BY <1>7 DEF IInv
<1> HIDE DEF x
<1>11. /\ rec' = [rec EXCEPT ![r] = actions[a]] /\ run' = [run EXCEPT ![r] = x] /\ locks' = locks
  BY <1>2 DEF Engine!ProgressCanary, Engine!Load
<1>12. Moves(r, at, actions[a], x)
  BY <1>3, <1>6, <1>8, <1>9, <1>10, <1>11 DEF Moves, IInv, TypeOK
<1>13. Judging(r)'
  <2>1. pc'[r] = at /\ rec'[r] = actions[a] /\ run'[r] = x /\ request'[r].arg = a
    BY <1>4, <1>8, <1>11 DEF IInv, TypeOK
  <2>2. x.id \in NamedRuns(a)' /\ runs'[x.id].id = x.id
    BY <1>1, <1>4, <1>6 DEF Grows, store
  <2> QED BY <1>1, <1>4, <1>6, <2>1, <2>2 DEF Judging
<1> QED BY <1>1, <1>3, <1>6, <1>9, <1>12, <1>13, CallsItsEngine

LEMMA RollbackKeeps ==
  ASSUME IInv, NEW r \in Requests, NEW a \in Actions, Rollback(r, a)
  PROVE  IInv'
<1>1. /\ Ask(r, "rollback", a, "none") /\ UNCHANGED << store, log, posted >>
      /\ actions[a] # Missing /\ Engine!EmergencyRollback(r, actions[a])
  BY DEF Rollback
<1>2. actions[a] \in StoredAction
  BY <1>1 DEF IInv, TypeOK
<1>3. run[r] = Engine!NoRun /\ Engine!NoRun \in Engine!CanaryRun
  BY <1>1, NoRunType, Asked DEF Ops, store
<1>4. pc' = [pc EXCEPT ![r] = "emergency"] /\ got' = [got EXCEPT ![r] = "ok"]
  BY <1>1, InvokeSucceeds DEF Engine!EmergencyRollback
<1>5. "emergency" \in Engine!Awaits
  BY DEF Engine!Awaits
<1>6. Moves(r, "emergency", actions[a], Engine!NoRun)
  BY <1>1, <1>2, <1>3, <1>4, <1>5 DEF Moves, Engine!EmergencyRollback, Engine!Load, IInv, TypeOK
<1> QED BY <1>1, <1>3, <1>5, <1>6, CallsItsEngine

LEMMA ArriveKeeps ==
  ASSUME IInv, NEW r \in Requests, Arrive(r)
  PROVE  IInv'
<1>0. TypeOK
  BY DEF IInv
<1>1. ASSUME NEW a \in Actions, Create(r, a) PROVE IInv'
  <2>1. PICK status \in Postable, bound \in BOOLEAN,
             id \in {NoId, r} \union {q \in Requests : runs[q].id = q} :
          /\ actions' = [actions EXCEPT ![a] = [status |-> status, restored |-> FALSE,
                                               canary_run |-> id, bound |-> bound]]
          /\ posted' = [posted EXCEPT ![a] = @ \union {[status |-> status, canary_run |-> id]}]
    BY <1>1 DEF Create
  <2> DEFINE act == [status |-> status, restored |-> FALSE, canary_run |-> id, bound |-> bound]
             body == [status |-> status, canary_run |-> id]
  <2>2. act \in StoredAction /\ body \in Body
    BY PostableAssumption DEF StoredAction, Body
  <2>3. /\ Ask(r, "create", a, "done") /\ log' = [log EXCEPT ![r] = "action_created"]
        /\ UNCHANGED << engine, runs, version, outcomes, freezes >>
    BY <1>1 DEF Create, Audit
  <2>4. log' \in [Requests -> Events] /\ \A q \in Requests \ {r} : log'[q] = log[q]
    BY <1>0, <2>3 DEF TypeOK, Events
  <2>5. act.canary_run = id /\ act.status = status /\ body.canary_run = id /\ body.status = status
    OBVIOUS
  <2> HIDE DEF act, body
  <2>6. /\ actions' \in [Actions -> StoredAction \union {Missing}]
        /\ actions'[a] = act /\ \A b \in Actions \ {a} : actions'[b] = actions[b]
    BY <1>0, <2>1, <2>2 DEF TypeOK, act
  <2>7. /\ posted' \in [Actions -> SUBSET Body] /\ body \in posted'[a]
        /\ \A b \in Actions : posted[b] \subseteq posted'[b]
    BY <1>0, <2>1, <2>2 DEF TypeOK, body
  <2>8. id \in NamedRuns(a)' \union {NoId}
    BY <2>5, <2>7 DEF NamedRuns
  <2>9. \A b \in Actions : Stores(b)
    BY <2>5, <2>6, <2>7, <2>8 DEF Stores, Names
  <2>10. freezes' \in [Requests -> {"none", "active", "lifted"}] /\ "create" \in Ops
    BY <1>0, <2>3 DEF TypeOK, Ops
  <2> QED BY <2>3, <2>4, <2>6, <2>7, <2>9, <2>10, AnswersAtOnce
<1>2. ASSUME NEW a \in Actions, Approve(r, a) PROVE IInv'
  <2>1. /\ actions[a] # Missing /\ actions[a] \in StoredAction
        /\ UNCHANGED << engine, runs, version, outcomes, freezes, posted >>
        /\ posted' \in [Actions -> SUBSET Body]
    BY <1>0, <1>2 DEF Approve, TypeOK
  <2>2. freezes' \in [Requests -> {"none", "active", "lifted"}] /\ "approve" \in Ops
    BY <1>0, <2>1 DEF TypeOK, Ops
  <2>3. CASE /\ Ask(r, "approve", a, "done") /\ Audit(r, "action_approved")
             /\ actions' = [actions EXCEPT ![a].status = "approved"]
    <3> DEFINE act == [actions[a] EXCEPT !.status = "approved"]
    <3>1. /\ act \in StoredAction /\ act.canary_run = actions[a].canary_run
          /\ act.status = "approved"
      BY <2>1 DEF StoredAction, Engine!ActionStatus
    <3>2. actions' = [actions EXCEPT ![a] = act]
      BY <2>3
    <3> HIDE DEF act
    <3>3. log' \in [Requests -> Events] /\ \A q \in Requests \ {r} : log'[q] = log[q]
      BY <1>0, <2>3 DEF TypeOK, Events, Audit
    <3>4. /\ actions' \in [Actions -> StoredAction \union {Missing}]
          /\ \A b \in Actions : actions'[b] = actions[b] \/ (b = a /\ actions'[b] = act)
      BY <1>0, <3>1, <3>2 DEF TypeOK
    <3>5. Names(actions[a], a)
      BY <2>1 DEF IInv, StoreInv
    <3>6. \A b \in Actions : NamedRuns(b) \subseteq NamedRuns(b)'
      BY <2>1, <2>2, <2>3, Asked DEF Grows
    <3>7. \A b \in Actions : Stores(b)
      BY <3>1, <3>4, <3>5, <3>6 DEF Stores, Names
    <3> QED BY <2>1, <2>2, <2>3, <3>3, <3>4, <3>7, AnswersAtOnce
  <2>4. CASE Ask(r, "approve", a, "refused") /\ UNCHANGED << actions, log >>
    <3>1. \A b \in Actions : Stores(b)
      BY <2>4 DEF Stores
    <3> QED BY <1>0, <2>1, <2>2, <2>4, <3>1, AnswersAtOnce DEF TypeOK
  <2> QED BY <1>2, <2>3, <2>4 DEF Approve
<1>3. ASSUME NEW a \in Actions, ExecuteRefused(r, a) PROVE IInv'
  <2>1. Ask(r, "execute", a, "refused") /\ UNCHANGED << engine, store, log, posted >>
    BY <1>3 DEF ExecuteRefused
  <2>2. "execute" \in Ops
    BY DEF Ops
  <2>3. \A b \in Actions : Stores(b)
    BY <2>1 DEF Stores, store
  <2>4. /\ actions' \in [Actions -> StoredAction \union {Missing}] /\ log' \in [Requests -> Events]
        /\ freezes' \in [Requests -> {"none", "active", "lifted"}]
        /\ posted' \in [Actions -> SUBSET Body]
    BY <1>0, <2>1 DEF TypeOK, store
  <2>5. /\ UNCHANGED << engine, runs, version, outcomes >> /\ log' = log /\ posted' = posted
    BY <2>1 DEF store
  <2> QED BY <2>1, <2>2, <2>3, <2>4, <2>5, AnswersAtOnce
<1>4. ASSUME NEW scope \in Deployments \union {Global}, ActivateFreeze(r, scope) PROVE IInv'
  <2>1. /\ Ask(r, "freeze", scope, "done") /\ log' = [log EXCEPT ![r] = "freeze_activated"]
        /\ freezes' = [freezes EXCEPT ![r] = "active"]
        /\ UNCHANGED << engine, actions, runs, version, outcomes, posted >>
    BY <1>4 DEF ActivateFreeze, Audit
  <2>2. "freeze" \in Ops /\ "freeze_activated" \in Events
    BY DEF Ops, Events
  <2> QED BY <1>0, <2>1, <2>2, AnswersAtOnce DEF TypeOK, Stores
<1>5. ASSUME NEW f \in Requests, LiftFreeze(r, f) PROVE IInv'
  <2>1. /\ Ask(r, "lift", f, "done") /\ log' = [log EXCEPT ![r] = "freeze_lifted"]
        /\ freezes' = [freezes EXCEPT ![f] = "lifted"]
        /\ UNCHANGED << engine, actions, runs, version, outcomes, posted >>
    BY <1>5 DEF LiftFreeze, Audit
  <2>2. "lift" \in Ops /\ "freeze_lifted" \in Events
    BY DEF Ops, Events
  <2> QED BY <1>0, <2>1, <2>2, AnswersAtOnce DEF TypeOK, Stores
<1> QED BY <1>1, <1>2, <1>3, <1>4, <1>5, ExecuteStartKeeps, ExecuteProgressKeeps, RollbackKeeps
        DEF Arrive

-----------------------------------------------------------------------------
(* Theorems                                                                *)

LEMMA Initially == Init => IInv
<1> SUFFICES ASSUME Init PROVE IInv
  OBVIOUS
<1>1. \A bound \in BOOLEAN : Planned(bound) \in StoredAction /\ Planned(bound).canary_run = NoId
                            /\ Planned(bound).status = "planned"
  BY DEF Planned, StoredAction, Engine!ActionStatus
<1>2. Seed \in StoredAction /\ Seed.canary_run = NoId /\ Seed.status = "canarying"
  BY DEF Seed, StoredAction, Engine!ActionStatus
<1>3. /\ actions \in [Actions -> StoredAction \union {Missing}]
      /\ \A a \in Actions : actions[a] # Missing =>
           actions[a].canary_run = NoId /\ actions[a].status \notin {"completed", "rolled_back"}
  BY <1>1, <1>2 DEF Init
<1>4. \A r \in Requests : request[r] = Unasked /\ request[r].op = "none" /\ request[r].answer = "none"
  BY DEF Init, Unasked
<1>5. TypeOK
  BY <1>3, NoRunType DEF Init, TypeOK, Unasked, Ops, Events
<1>6. \A r \in Requests : ExecutionInv(r) /\ RollbackInv(r) /\ RestInv(r)
  BY <1>4 DEF Init, ExecutionInv, RollbackInv, RestInv, Waits
<1>7. StoreInv
  <2>1. \A q \in Requests : runs[q].id = NoId /\ NoId # q
    BY ControlAssumption DEF Init, Engine!NoRun
  <2> QED BY <1>3, <2>1 DEF StoreInv, EndsHaveWitnesses, EndHasWitness, Names
<1> QED BY <1>5, <1>6, <1>7 DEF IInv, Init

LEMMA Kept == IInv /\ [Next]_vars => IInv'
<1> SUFFICES ASSUME IInv, [Next]_vars PROVE IInv'
  OBVIOUS
<1>1. ASSUME NEW r \in Requests, Arrive(r) \/ Serve(r) PROVE IInv'
  BY <1>1, ArriveKeeps, EngineKeeps, StartReturnsKeeps, ProgressReturnsKeeps, RollbackReturnsKeeps
     DEF Serve
<1>2. CASE UNCHANGED vars
  <2>1. TypeOK' /\ got' \in [Requests -> {"ok"}]
    BY <1>2 DEF IInv, TypeOK, vars
  <2>2. \A q \in Requests : RequestInv(q)'
    BY <1>2, OthersKeep DEF IInv, RequestInv, Untouched, Grows, NamedRuns, RunsOf, vars
  <2>3. StoreInv'
    BY <1>2 DEF IInv, StoreInv, EndsHaveWitnesses, EndHasWitness, Names, NamedRuns, RunsOf, vars
  <2> QED BY <2>1, <2>2, <2>3 DEF IInv, RequestInv
<1> QED BY <1>1, <1>2 DEF Next

LEMMA Invariant == Spec => []IInv
BY Initially, Kept, PTL DEF Spec

\* The engines, the store, the requests and the audit log keep their types
\* for any requests, actions, deployments, policy and telemetry.
THEOREM TypeCorrect == Spec => []TypeOK
<1>1. IInv => TypeOK
  BY DEF IInv
<1> QED BY <1>1, Invariant, PTL

\* However many handlers overlap and whatever bodies are posted, a write-back
\* leaves an action with a stored run that was started for it, or with one a
\* body posted under its own id has named.
THEOREM RunsBelong == Spec => []RunsBelongToTheirActions
<1>1. IInv => RunsBelongToTheirActions
  BY DEF IInv, StoreInv, Names, RunsBelongToTheirActions
<1> QED BY <1>1, Invariant, PTL

\* However many handlers overlap and whatever bodies are posted, an action
\* whose end no body of its own has claimed is completed only with an outcome
\* on record, and rolled back only with a rollback on the audit log or a run
\* that its telemetry rolled back or that another action names too.
THEOREM EndsWitnessed == Spec => []EndsHaveWitnesses
<1>1. IInv => EndsHaveWitnesses
  BY DEF IInv, StoreInv
<1> QED BY <1>1, Invariant, PTL

-----------------------------------------------------------------------------
(* The version of a deployment.  Only the end of a progress step writes    *)
(* the versions and the outcomes, and it writes both.                      *)

ActionsOf(d) == {a \in Actions : TargetOf[a] = d}

LEMMA VersionIsTotal ==
  VersionCountsOutcomes <=> \A d \in Deployments : version[d] = 1 + Total(outcomes, ActionsOf(d))
BY DEF VersionCountsOutcomes, Total, ActionsOf, MapThenSumSet, MapThenFoldSet

LEMMA OutcomesAndVersion ==
  ASSUME IInv, [Next]_vars
  PROVE  \/ UNCHANGED << version, outcomes >>
         \/ \E r \in Requests, a \in Actions :
              RecordOutcome(r, a) /\ BumpVersion(r, TargetOf[a])
<1>1. ASSUME NEW r \in Requests, Arrive(r) PROVE UNCHANGED << version, outcomes >>
  BY <1>1 DEF Arrive, Create, Approve, ExecuteRefused, ExecuteStart, ExecuteProgress, Rollback,
              ActivateFreeze, LiftFreeze, store
<1>2. ASSUME NEW r \in Requests, EngineRuns(r) \/ StartReturns(r) \/ RollbackReturns(r)
      PROVE  UNCHANGED << version, outcomes >>
  BY <1>2 DEF EngineRuns, StartReturns, RollbackReturns, store
<1>3. ASSUME NEW r \in Requests, ProgressReturns(r)
      PROVE  \E a \in Actions : RecordOutcome(r, a) /\ BumpVersion(r, TargetOf[a])
  <2>1. request[r].op = "execute" /\ request[r].answer = "none"
    BY <1>3 DEF ProgressReturns, Resumes
  <2>2. request[r].arg \in Actions
    BY <2>1 DEF IInv, ExecutionInv, Waits
  <2> QED BY <1>3, <2>2 DEF ProgressReturns
<1>4. CASE UNCHANGED vars
  BY <1>4 DEF vars
<1> QED BY <1>1, <1>2, <1>3, <1>4 DEF Next, Serve

LEMMA VersionKept ==
  ASSUME IInv, VersionCountsOutcomes, [Next]_vars
  PROVE  VersionCountsOutcomes'
<1>0. /\ version \in [Deployments -> Nat] /\ outcomes \in [Actions -> Nat]
      /\ \A d \in Deployments : version[d] = 1 + Total(outcomes, ActionsOf(d))
  BY VersionIsTotal DEF IInv, TypeOK
<1>1. CASE UNCHANGED << version, outcomes >>
  <2>1. ASSUME \A d \in Deployments : version'[d] = 1 + Total(outcomes', ActionsOf(d))
        PROVE  VersionCountsOutcomes'
    BY <2>1 DEF VersionCountsOutcomes, Total, ActionsOf, MapThenSumSet, MapThenFoldSet
  <2> QED BY <1>0, <1>1, <2>1
<1>2. ASSUME NEW r \in Requests, NEW a \in Actions,
             RecordOutcome(r, a), BumpVersion(r, TargetOf[a])
      PROVE  VersionCountsOutcomes'
  <2> DEFINE n == Completions(r)
  <2>1. n \in Nat /\ TargetOf[a] \in Deployments
    BY ControlAssumption DEF Completions
  <2>2. outcomes' = [outcomes EXCEPT ![a] = @ + n] /\ version' = [version EXCEPT ![TargetOf[a]] = @ + n]
    BY <1>2 DEF RecordOutcome, BumpVersion
  <2> HIDE DEF n
  <2>3. SUFFICES ASSUME NEW d \in Deployments
                 PROVE  version'[d] = 1 + Total(outcomes', ActionsOf(d))
    <3>1. ASSUME \A d \in Deployments : version'[d] = 1 + Total(outcomes', ActionsOf(d))
          PROVE  VersionCountsOutcomes'
      BY <3>1 DEF VersionCountsOutcomes, Total, ActionsOf, MapThenSumSet, MapThenFoldSet
    <3> QED BY <3>1
  <2>4. ActionsOf(d) \subseteq Actions /\ IsFiniteSet(ActionsOf(d))
    BY ControlAssumption, FS_Subset DEF ActionsOf
  <2>5. \A x \in ActionsOf(d) : outcomes[x] \in Int /\ outcomes'[x] \in Int
    BY <1>0, <2>1, <2>2, <2>4
  <2>6. Total(outcomes, ActionsOf(d)) \in Int
    BY <2>4, <2>5, TotalIsInteger
  <2>7. CASE TargetOf[a] = d
    <3>1. a \in ActionsOf(d) /\ \A x \in ActionsOf(d) \ {a} : outcomes'[x] = outcomes[x]
      BY <1>0, <2>2, <2>4, <2>7 DEF ActionsOf
    <3>2. Total(outcomes', ActionsOf(d)) = Total(outcomes, ActionsOf(d)) - outcomes[a] + outcomes'[a]
      BY <2>4, <2>5, <3>1, TotalFollowsChange
    <3> QED BY <1>0, <2>1, <2>2, <2>6, <2>7, <3>2
  <2>8. CASE TargetOf[a] # d
    <3>1. \A x \in ActionsOf(d) : outcomes'[x] = outcomes[x]
      BY <1>0, <2>2, <2>4, <2>8 DEF ActionsOf
    <3>2. Total(outcomes', ActionsOf(d)) = Total(outcomes, ActionsOf(d))
      BY <2>4, <3>1, TotalsAgree
    <3> QED BY <1>0, <2>2, <2>8, <3>2
  <2> QED BY <2>7, <2>8
<1> QED BY <1>1, <1>2, OutcomesAndVersion

\* However executions, progress steps and rollbacks of a deployment's actions
\* overlap, its version is one more than the completions on record for them.
THEOREM VersionsCount == Spec => []VersionCountsOutcomes
<1>1. Init => VersionCountsOutcomes
  <2> SUFFICES ASSUME Init, NEW d \in Deployments
               PROVE  version[d] = 1 + Total(outcomes, ActionsOf(d))
    BY VersionIsTotal
  <2>1. ActionsOf(d) \subseteq Actions /\ IsFiniteSet(ActionsOf(d))
    BY ControlAssumption, FS_Subset DEF ActionsOf
  <2>2. \A x \in ActionsOf(d) : outcomes[x] = 0
    BY <2>1 DEF Init
  <2>3. Total(outcomes, ActionsOf(d)) = 0
    BY <2>1, <2>2, TotalOfZeros
  <2> QED BY <2>3 DEF Init
<1>2. VersionCountsOutcomes /\ IInv /\ [Next]_vars => VersionCountsOutcomes'
  BY VersionKept
<1> QED BY <1>1, <1>2, Invariant, PTL DEF Spec
=============================================================================
