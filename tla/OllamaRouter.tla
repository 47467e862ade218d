---------------------------- MODULE OllamaRouter ----------------------------
(***************************************************************************)
(* The Ollama GPU router: requests are proxied to lanes (one Ollama server *)
(* per lane, several lanes may share a GPU), a breaker per lane pulls it   *)
(* after Threshold strikes, a pulled lane is restarted through systemd     *)
(* under a cooldown and an attempt cap, a refresh thread probes the lanes, *)
(* and a watchdog process of its own restarts lanes that do not answer.    *)
(*                                                                         *)
(* One action is what the event loop does between two awaits of a request. *)
(* Clock times are kept as the time that is left: openFor[l] > 0 is        *)
(* circuit_open_until > now, and wait[l] > 0 is now - last_recovery <      *)
(* recovery_cooldown_sec.  Residency, learned latency and free VRAM are    *)
(* data: they pick one of the lanes select() chooses from, any of them     *)
(* here.  Requests that get 503 without a try change nothing.              *)
(***************************************************************************)
EXTENDS Naturals

CONSTANTS
  Requests,          \* requests that can be open at once
  Lanes,             \* RouterConfig.lanes
  Rank,              \* position of a lane in the configuration
  Gpu,               \* physical_gpu of a lane
  Compat,            \* lanes whose role is "compat"
  Managed,           \* lanes with a systemd unit
  Threshold,         \* circuit_breaker_threshold
  OpenTime,          \* circuit_breaker_cooldown_sec, in ticks
  RecoveryTime,      \* recovery_cooldown_sec, in ticks
  MaxAttempts        \* recovery_max_attempts

ASSUME RouterAssumption ==
  /\ Threshold \in Nat \ {0}
  /\ OpenTime \in Nat \ {0}
  /\ RecoveryTime \in Nat
  /\ MaxAttempts \in Nat
  /\ Compat \subseteq Lanes /\ Managed \subseteq Lanes
  /\ Rank \in [Lanes -> Nat]
  /\ \A l, m \in Lanes : Rank[l] = Rank[m] => l = m

VARIABLES
  up,         \* does the lane's server answer
  healthy,    \* LaneState.healthy: what the last probe saw
  failures,   \* LaneState.failures
  openFor,    \* LaneState.circuit_open_until, as time left
  wait,       \* recovery cooldown, as time left
  attempts,   \* LaneState.recovery_attempts
  req,        \* where each open request is
  strikes     \* history: tries of the lane that failed since one succeeded

lane == << healthy, failures, openFor, wait, attempts >>
vars == << up, lane, req, strikes >>

\* A request is at its first try, or at its one failover, on a lane.
Idle == [at : {"idle"}]
Tries == [at : {"first", "failover"}, on : Lanes]
NoTry == [at |-> "idle"]
Try(stage, l) == [at |-> stage, on |-> l]

TypeOK ==
  /\ up \in [Lanes -> BOOLEAN]
  /\ healthy \in [Lanes -> BOOLEAN]
  /\ failures \in [Lanes -> 0 .. Threshold - 1]
  /\ openFor \in [Lanes -> 0 .. OpenTime]
  /\ wait \in [Lanes -> 0 .. RecoveryTime]
  /\ attempts \in [Lanes -> 0 .. MaxAttempts]
  /\ req \in [Requests -> Idle \cup Tries]
  /\ strikes \in [Lanes -> 0 .. Threshold]

\* ClusterState.__init__ refreshes before the first request is taken.
Init ==
  /\ up \in [Lanes -> BOOLEAN]
  /\ healthy = up
  /\ failures = [l \in Lanes |-> 0]
  /\ openFor = [l \in Lanes |-> 0]
  /\ wait = [l \in Lanes |-> 0]
  /\ attempts = [l \in Lanes |-> 0]
  /\ req = [r \in Requests |-> NoTry]
  /\ strikes = [l \in Lanes |-> 0]

-----------------------------------------------------------------------------
(* Selection.  The breakers are a parameter: a failover selects after the  *)
(* strike has been marked.                                                 *)

Eligible(open) == {l \in Lanes : healthy[l] /\ open[l] = 0}

EarliestOf(S) == CHOOSE l \in S : \A m \in S : Rank[l] <= Rank[m]

\* The one listener of a GPU that select() looks at.
Listener(S) == EarliestOf(IF S \ Compat # {} THEN S \ Compat ELSE S)

Routed(open) ==
  {l \in Eligible(open) : l = Listener({m \in Eligible(open) : Gpu[m] = Gpu[l]})}

-----------------------------------------------------------------------------
(* Strikes, the breaker and recovery                                       *)

Opens(l) == failures[l] + 1 >= Threshold

MarkFailure(l) ==
  /\ failures' = [failures EXCEPT ![l] = IF Opens(l) THEN 0 ELSE failures[l] + 1]
  /\ openFor' = [openFor EXCEPT ![l] = IF Opens(l) THEN OpenTime ELSE openFor[l]]
  /\ strikes' = [strikes EXCEPT ![l] = IF @ < Threshold THEN @ + 1 ELSE @]

\* mutant: the breaker is closed but the count goes on
MarkSuccessKeepsCount(l) ==
  /\ openFor' = [openFor EXCEPT ![l] = 0]
  /\ strikes' = [strikes EXCEPT ![l] = 0]
  /\ UNCHANGED failures

MarkSuccess(l) ==
  /\ failures' = [failures EXCEPT ![l] = 0]
  /\ openFor' = [openFor EXCEPT ![l] = 0]
  /\ strikes' = [strikes EXCEPT ![l] = 0]

\* systemctl restart: a failed restart is logged and leaves the lane as it is.
RestartUnit(l) == up' = [up EXCEPT ![l] = TRUE] \/ UNCHANGED up

\* mutant: the attempt cap is all that limits restarts
MayRecoverAtOnce(l) == l \in Managed /\ attempts[l] < MaxAttempts

MayRecover(l) == l \in Managed /\ wait[l] = 0 /\ attempts[l] < MaxAttempts

TryRecover(l) ==
  IF MayRecover(l)
  THEN /\ wait' = [wait EXCEPT ![l] = RecoveryTime]
       /\ attempts' = [attempts EXCEPT ![l] = @ + 1]
       /\ RestartUnit(l)
  ELSE UNCHANGED << wait, attempts, up >>

OnFailure(l) ==
  /\ MarkFailure(l)
  /\ IF openFor'[l] > 0 THEN TryRecover(l) ELSE UNCHANGED << wait, attempts, up >>
  /\ UNCHANGED healthy

-----------------------------------------------------------------------------
(* Requests                                                                *)

\* A client may pin any lane that is healthy and closed, compat or not.
Pin(r, l) ==
  /\ req[r].at = "idle"
  /\ l \in Eligible(openFor)
  /\ req' = [req EXCEPT ![r] = Try("first", l)]
  /\ UNCHANGED << up, lane, strikes >>

Select(r, l) ==
  /\ req[r].at = "idle"
  /\ l \in Routed(openFor)
  /\ req' = [req EXCEPT ![r] = Try("first", l)]
  /\ UNCHANGED << up, lane, strikes >>

\* The lane answers with a status below 500.
Answer(r) ==
  /\ req[r].at # "idle"
  /\ up[req[r].on]
  /\ MarkSuccess(req[r].on)
  /\ req' = [req EXCEPT ![r] = NoTry]
  /\ UNCHANGED << up, healthy, wait, attempts >>

\* The first try ends in a 5xx or a transport error.  select() is asked for
\* an alternative; the failing lane itself is not one.
Fail(r) ==
  /\ req[r].at = "first"
  /\ OnFailure(req[r].on)
  /\ \/ /\ Routed(openFor') = {} \/ req[r].on \in Routed(openFor')
        /\ req' = [req EXCEPT ![r] = NoTry]
     \/ \E alt \in Routed(openFor') \ {req[r].on} :
          req' = [req EXCEPT ![r] = Try("failover", alt)]

\* mutant: a failed failover is failed over again
FailAgainElsewhere(r) ==
  /\ req[r].at = "failover"
  /\ OnFailure(req[r].on)
  /\ IF Routed(openFor') \ {req[r].on} = {}
     THEN req' = [req EXCEPT ![r] = NoTry]
     ELSE \E alt \in Routed(openFor') \ {req[r].on} :
            req' = [req EXCEPT ![r] = Try("failover", alt)]

\* The failover fails as well: the caller gets the error.
FailAgain(r) ==
  /\ req[r].at = "failover"
  /\ OnFailure(req[r].on)
  /\ req' = [req EXCEPT ![r] = NoTry]

Settle(r) == Answer(r) \/ Fail(r) \/ FailAgain(r)

-----------------------------------------------------------------------------
(* The rest of the host                                                    *)

\* mutant: a lane that was down is not probed again
ProbeLaneWhileHealthy(l) ==
  /\ healthy[l] /\ ~up[l]
  /\ healthy' = [healthy EXCEPT ![l] = FALSE]
  /\ UNCHANGED << up, failures, openFor, wait, attempts, req, strikes >>

\* The refresh thread probes one lane.
ProbeLane(l) ==
  /\ healthy[l] # up[l]
  /\ healthy' = [healthy EXCEPT ![l] = up[l]]
  /\ UNCHANGED << up, failures, openFor, wait, attempts, req, strikes >>

Crash(l) ==
  /\ up[l]
  /\ up' = [up EXCEPT ![l] = FALSE]
  /\ UNCHANGED << lane, req, strikes >>

Tick ==
  /\ \E l \in Lanes : openFor[l] > 0 \/ wait[l] > 0
  /\ openFor' = [l \in Lanes |-> IF openFor[l] > 0 THEN openFor[l] - 1 ELSE 0]
  /\ wait' = [l \in Lanes |-> IF wait[l] > 0 THEN wait[l] - 1 ELSE 0]
  /\ UNCHANGED << up, healthy, failures, attempts, req, strikes >>

\* The watchdog's timer: a lane that does not answer is restarted, whatever
\* the router's cooldown and attempt cap say and without drawing on them.
WatchdogRestart(l) ==
  /\ ~up[l] /\ l \in Managed
  /\ RestartUnit(l)
  /\ UNCHANGED << lane, req, strikes >>

RouterNext ==
  \/ \E r \in Requests : Settle(r) \/ \E l \in Lanes : Pin(r, l) \/ Select(r, l)
  \/ \E l \in Lanes : ProbeLane(l) \/ Crash(l)
  \/ Tick

Next == RouterNext \/ \E l \in Lanes : WatchdogRestart(l)

(* Every try ends (the client has timeouts), the refresh loop runs for     *)
(* ever and time passes.  Clients need not send, and nothing is assumed of *)
(* restarts.                                                               *)
Spec ==
  /\ Init /\ [][Next]_vars
  /\ \A r \in Requests : WF_vars(Settle(r))
  /\ \A l \in Lanes : WF_vars(ProbeLane(l))
  /\ WF_vars(Tick)

-----------------------------------------------------------------------------
(* Properties                                                              *)

\* Threshold is the number of consecutive failures (config.toml): whatever
\* order the answers of overlapping requests come in, a lane is pulled only
\* after that many failed tries of it with no success among them.
BreakerIsHonest ==
  \A l \in Lanes :
    /\ openFor[l] > 0 => strikes[l] = Threshold
    /\ failures[l] <= strikes[l]

\* The router restarts only a lane it has pulled for its strikes, never
\* within the cooldown of the last restart and never beyond the cap.  The
\* watchdog's restarts are not bound by this, nor counted.
RestartsAreEarned ==
  [][\A l \in Lanes : attempts'[l] # attempts[l] =>
       /\ strikes'[l] = Threshold /\ openFor'[l] > 0
       /\ wait[l] = 0 /\ wait'[l] = RecoveryTime
       /\ attempts'[l] = attempts[l] + 1 /\ attempts'[l] <= MaxAttempts]_vars

\* Every proxied request is answered: failing lanes are not tried in turn
\* for ever.
RequestsAnswered ==
  \A r \in Requests : (req[r].at # "idle") ~> (req[r].at = "idle")

\* A lane whose server stays up is offered again and again: neither a stale
\* probe nor late failures of old tries keep it out for ever.
LiveLanesReturn ==
  \A l \in Lanes : <>[]up[l] => []<>(l \in Eligible(openFor))

\* app/watchdog.py:9: the watchdog restarts lanes "under the same guards as
\* the router".  Not so: it restarts one inside the router's cooldown and
\* after its last attempt.
WatchdogKeepsGuards ==
  [][\A l \in Lanes : WatchdogRestart(l) => MayRecover(l)]_vars
=============================================================================
