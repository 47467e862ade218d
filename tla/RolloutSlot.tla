----------------------------- MODULE RolloutSlot -----------------------------
(***************************************************************************)
(* What the execution engine promises the teams that use it, without       *)
(* providers, locks or candidates.  A deployment is a slot one action at a *)
(* time occupies.  An action waits, walks through the stages of its        *)
(* rollout in the slot, and ends; one may roll it back at any time.  A     *)
(* rollback of an action that is not in the slot opens the slot under the  *)
(* action that is: from then on it keeps nobody out.                       *)
(***************************************************************************)
EXTENDS Integers

CONSTANTS Actions, DeploymentOf, LastStage

VARIABLES
  phase,   \* of each action
  stage,   \* the stage of the policy each action has come to
  open     \* the deployments whose slot no longer keeps anyone out

vars == << phase, stage, open >>

Ends == {"completed", "rolled_back", "failed"}

Free(d) == \A a \in Actions : DeploymentOf[a] = d => phase[a] # "live"

Init ==
  /\ phase = [a \in Actions |-> "waiting"]
  /\ stage = [a \in Actions |-> 0]
  /\ open = {}

Occupy(a) ==
  /\ phase[a] = "waiting"
  /\ Free(DeploymentOf[a]) \/ DeploymentOf[a] \in open
  /\ phase' = [phase EXCEPT ![a] = "live"]
  /\ UNCHANGED << stage, open >>

\* the kill switch is on
Refuse(a) ==
  /\ phase[a] = "waiting"
  /\ phase' = [phase EXCEPT ![a] = "failed"]
  /\ UNCHANGED << stage, open >>

Advance(a) ==
  /\ phase[a] = "live" /\ stage[a] < LastStage
  /\ stage' = [stage EXCEPT ![a] = @ + 1]
  /\ UNCHANGED << phase, open >>

Vacate(a) ==
  /\ phase[a] = "live"
  /\ \E end \in Ends :
       /\ end = "completed" => stage[a] >= LastStage
       /\ phase' = [phase EXCEPT ![a] = end]
  /\ UNCHANGED << stage, open >>

RollBackAnyway(a) ==
  /\ phase[a] # "live"
  /\ phase' = [phase EXCEPT ![a] = "rolled_back"]
  /\ open' = IF Free(DeploymentOf[a]) THEN open ELSE open \union {DeploymentOf[a]}
  /\ UNCHANGED stage

Next ==
  \E a \in Actions : Occupy(a) \/ Refuse(a) \/ Advance(a) \/ Vacate(a) \/ RollBackAnyway(a)

Spec == Init /\ [][Next]_vars
=============================================================================
