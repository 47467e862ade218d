-------------------------- MODULE TrafficProviders --------------------------
(***************************************************************************)
(* The execution providers that keep a traffic table, Vertex AI and GKE    *)
(* TPU, under the calls of the execution engine: rollouts that start under *)
(* the deployment's lock, each of provision, warmup, splits, then promote  *)
(* and drain, or a rollback.  An emergency rollback names any candidate at *)
(* any time, that of a rollout under way, of another's or of an earlier    *)
(* one; it asks for no lock and gives the lock up, so that rollouts may    *)
(* come to overlap.  Callers are taken to name the candidate that was      *)
(* provisioned for them.  A candidate's id is made of the model's name and *)
(* the start of the action's id: a later action may name one again, also   *)
(* the one that is active.                                                 *)
(* The Kubernetes and Dynamo providers keep no table: their calls succeed. *)
(***************************************************************************)
EXTENDS Integers, FiniteSets, FiniteSetsExt, Functions

CONSTANTS
  Initial,   \* the model that serves when the provider is made
  Actions,   \* the candidates' ids
  Splits     \* percentages the canary's stages ask for; any integers

ASSUME ProviderAssumption == Initial \notin Actions /\ Splits \subseteq Int

VARIABLES
  kind,      \* "vertex" or "gke"
  models,    \* deployedModels: partial function to [traffic, status]
  active,    \* activeModelId
  stage,     \* how far the rollout of each candidate is
  locked,    \* whether the engine's lock of the deployment is taken
  disturbed  \* history: the rollouts under way that another's call has come
             \* in between since their own last one, or that started over the
             \* active model

providerVars == << kind, models, active, stage, locked, disturbed >>

Open == {a \in Actions : stage[a] # "none"}

\* the constructor
ProviderInit ==
  /\ kind \in {"vertex", "gke"}
  /\ models = [m \in {Initial} |-> [traffic |-> 100, status |-> "serving"]]
  /\ active = Initial
  /\ stage = [a \in Actions |-> "none"]
  /\ locked = FALSE
  /\ disturbed = {}

Deployed == DOMAIN models

\* f with g's values where g is defined
With(f, g) == [x \in DOMAIN f \union DOMAIN g |-> IF x \in DOMAIN g THEN g[x] ELSE f[x]]

Row(m, traffic, st) == [x \in {m} |-> [traffic |-> traffic, status |-> st]]

\* m's row is set if there is one
SetRow(table, m, traffic, st) ==
  IF m \in DOMAIN table THEN With(table, Row(m, traffic, st)) ELSE table

\* GKE keeps percentages alone: its rows have one status.
VertexProvision(c) == With(models, Row(c, 0, "deploying"))
GkeProvision(c)    == With(models, Row(c, 0, "serving"))

VertexWarmup(c) ==
  IF c \in Deployed THEN [models EXCEPT ![c].status = "serving"] ELSE models
GkeWarmup(c) == models

Clamped(pct) == IF pct < 0 THEN 0 ELSE IF pct > 100 THEN 100 ELSE pct

\* the candidate's percentage first, then what is left to the active one
VertexSplit(c, pct) ==
  IF c \notin Deployed THEN models
  ELSE [models EXCEPT ![c].traffic = Clamped(pct), ![active].traffic = 100 - Clamped(pct)]

GkeSplit(c, pct) ==
  IF c \notin Deployed THEN models
  ELSE [models EXCEPT ![c].traffic = Clamped(pct), ![active].traffic = 100 - Clamped(pct)]

VertexPromote(c) ==
  IF c \notin Deployed THEN models
  ELSE SetRow(SetRow(models, active, 0, "draining"), c, 100, models[c].status)

GkePromote(c) ==
  IF c \notin Deployed THEN models
  ELSE With(With(models, Row(active, 0, "serving")), Row(c, 100, "serving"))

VertexRollback(c) ==
  SetRow(SetRow(models, c, 0, "draining"), active, 100, "serving")

\* a candidate the cluster does not know gets a row
GkeRollback(c) ==
  With(With(models, Row(c, 0, "serving")), Row(active, 100, "serving"))

\* mutant: the engine drains what it has promoted, and nothing stops it
GkeDrainAny(c) == Restrict(models, Deployed \ {c})

\* The engine drains what it has promoted: the active model is never removed.
VertexDrain(c) == IF c = active THEN models ELSE Restrict(models, Deployed \ {c})
GkeDrain(c)    == IF c = active THEN models ELSE Restrict(models, Deployed \ {c})

-----------------------------------------------------------------------------
(* The engine's calls; one call of a provider has no await in it.          *)

Goes(a, to) == stage' = [stage EXCEPT ![a] = to]

Others(a) == Open \ {a}

StartRollout(a) ==
  /\ stage[a] = "none" /\ ~locked
  /\ models' = IF kind = "vertex" THEN VertexProvision(a) ELSE GkeProvision(a)
  /\ Goes(a, "provisioned")
  /\ locked' = TRUE
  /\ disturbed' = IF a = active \/ Open # {} THEN Open \union {a} ELSE {}
  /\ UNCHANGED << kind, active >>

Warm(a) ==
  /\ stage[a] = "provisioned"
  /\ models' = IF kind = "vertex" THEN VertexWarmup(a) ELSE GkeWarmup(a)
  /\ Goes(a, "canary")
  /\ UNCHANGED << kind, active, locked, disturbed >>

Stage(a, pct) ==
  /\ stage[a] = "canary"
  /\ models' = IF kind = "vertex" THEN VertexSplit(a, pct) ELSE GkeSplit(a, pct)
  /\ disturbed' = Others(a) \union ({a} \intersect {active})
  /\ UNCHANGED << kind, active, stage, locked >>

Promote(a) ==
  /\ stage[a] = "canary"
  /\ models' = IF kind = "vertex" THEN VertexPromote(a) ELSE GkePromote(a)
  /\ active' = IF a \in Deployed THEN a ELSE active
  /\ Goes(a, "promoted")
  /\ disturbed' = Others(a)
  /\ UNCHANGED << kind, locked >>

Drain(a) ==
  /\ stage[a] = "promoted"
  /\ models' = IF kind = "vertex" THEN VertexDrain(a) ELSE GkeDrain(a)
  /\ Goes(a, "none")
  /\ locked' = FALSE
  /\ disturbed' = disturbed \ {a}
  /\ UNCHANGED << kind, active >>

\* of any candidate at any time; where it is not the rollout itself that gives
\* up, a rollout under way does not learn of it
Rollback(a) ==
  /\ models' = IF kind = "vertex" THEN VertexRollback(a) ELSE GkeRollback(a)
  /\ Goes(a, "none") \/ UNCHANGED stage
  /\ locked' = FALSE
  /\ disturbed' = Others(a)
  /\ UNCHANGED << kind, active >>

ProviderNext ==
  \E a \in Actions :
    \/ StartRollout(a) \/ Warm(a) \/ Promote(a) \/ Drain(a) \/ Rollback(a)
    \/ \E pct \in Splits : Stage(a, pct)

ProviderSpec == ProviderInit /\ [][ProviderNext]_providerVars

-----------------------------------------------------------------------------
(* Properties                                                              *)

Shares == [m \in Deployed |-> models[m].traffic]

\* However rollouts overlap and are undone, late or under another's feet, the
\* shares heal: with no rollout under way the active model has all the traffic,
\* and with one that no other call has come in between since its own last one,
\* every request is served by exactly one deployed model, the percentages add
\* up to 100 (setTrafficSplit, promoteCandidate, rollback,
\* drainAndDecommission of both providers).  The active model stays deployed.
TrafficAddsUp ==
  /\ active \in Deployed
  /\ \A m \in Deployed : Shares[m] \in 0..100
  /\ disturbed = {} => MapThenSumSet(LAMBDA m : Shares[m], Deployed) = 100
  /\ Open = {} => Shares[active] = 100
=============================================================================
