------------------------ MODULE OllamaRouter_proofs ------------------------
(***************************************************************************)
(* What the router guarantees for any lanes, requests, threshold and       *)
(* cooldowns: types, an honest breaker, and restarts within their budget.  *)
(***************************************************************************)
EXTENDS OllamaRouter, TLAPS

(* The breaker is honest because of how its count and the strikes move     *)
(* together: the count never passes the strikes, so the step that opens a  *)
(* breaker is the step that brings the strikes to the threshold.           *)
IInv == TypeOK /\ BreakerIsHonest

-----------------------------------------------------------------------------
(* Types                                                                   *)

LEMMA InitType == Init => TypeOK
  BY RouterAssumption DEF Init, TypeOK, Idle, NoTry

LEMMA TryType ==
  ASSUME NEW l \in Lanes, NEW stage \in {"first", "failover"}
  PROVE  Try(stage, l) \in Idle \cup Tries
  BY DEF Try, Tries

LEMMA NoTryType == NoTry \in Idle \cup Tries
  BY DEF NoTry, Idle

\* A request that is not idle is on a lane.
LEMMA OnLane ==
  ASSUME TypeOK, NEW r \in Requests, req[r].at # "idle"
  PROVE  req[r].on \in Lanes
  BY DEF TypeOK, Idle, Tries

\* The types of what a settled try writes.
LaneTyped ==
  /\ up' \in [Lanes -> BOOLEAN]
  /\ healthy' \in [Lanes -> BOOLEAN]
  /\ failures' \in [Lanes -> 0 .. Threshold - 1]
  /\ openFor' \in [Lanes -> 0 .. OpenTime]
  /\ wait' \in [Lanes -> 0 .. RecoveryTime]
  /\ attempts' \in [Lanes -> 0 .. MaxAttempts]
  /\ strikes' \in [Lanes -> 0 .. Threshold]

LEMMA OnFailureType ==
  ASSUME TypeOK, NEW l \in Lanes, OnFailure(l)
  PROVE  LaneTyped
<1>1. failures' \in [Lanes -> 0 .. Threshold - 1]
  BY RouterAssumption DEF TypeOK, OnFailure, MarkFailure, Opens
<1>2. openFor' \in [Lanes -> 0 .. OpenTime]
  BY RouterAssumption DEF TypeOK, OnFailure, MarkFailure, Opens
<1>3. strikes' \in [Lanes -> 0 .. Threshold]
  BY RouterAssumption DEF TypeOK, OnFailure, MarkFailure
<1>4. /\ up' \in [Lanes -> BOOLEAN]
      /\ wait' \in [Lanes -> 0 .. RecoveryTime]
      /\ attempts' \in [Lanes -> 0 .. MaxAttempts]
  <2>1. CASE openFor'[l] > 0 /\ MayRecover(l)
    <3>1. /\ up' = [up EXCEPT ![l] = TRUE] \/ up' = up
          /\ wait' = [wait EXCEPT ![l] = RecoveryTime]
          /\ attempts' = [attempts EXCEPT ![l] = attempts[l] + 1]
      BY <2>1 DEF OnFailure, TryRecover, RestartUnit
    <3>2. up' \in [Lanes -> BOOLEAN]
      BY <3>1 DEF TypeOK
    <3>3. wait' \in [Lanes -> 0 .. RecoveryTime]
      BY <3>1, RouterAssumption DEF TypeOK
    <3>4. attempts' \in [Lanes -> 0 .. MaxAttempts]
      BY <2>1, <3>1, RouterAssumption DEF TypeOK, MayRecover
    <3> QED BY <3>2, <3>3, <3>4
  <2>2. CASE ~(openFor'[l] > 0 /\ MayRecover(l))
    BY <2>2 DEF TypeOK, OnFailure, TryRecover
  <2> QED BY <2>1, <2>2
<1>5. healthy' \in [Lanes -> BOOLEAN]
  BY DEF TypeOK, OnFailure
<1> QED BY <1>1, <1>2, <1>3, <1>4, <1>5 DEF LaneTyped

LEMMA RoutedAreLanes ==
  ASSUME NEW open
  PROVE  Routed(open) \subseteq Lanes /\ Eligible(open) \subseteq Lanes
  BY DEF Routed, Eligible

LEMMA NextType == TypeOK /\ [Next]_vars => TypeOK'
<1> SUFFICES ASSUME TypeOK, [Next]_vars PROVE TypeOK'
  OBVIOUS
<1>1. ASSUME NEW r \in Requests, Settle(r) PROVE TypeOK'
  <2>1. CASE Answer(r)
    <3>1. req[r].on \in Lanes
      BY <2>1, OnLane DEF Answer
    <3>2. req' \in [Requests -> Idle \cup Tries]
      BY <2>1, NoTryType DEF Answer, TypeOK
    <3> QED BY <2>1, <3>1, <3>2, RouterAssumption DEF Answer, MarkSuccess, TypeOK
  <2>2. CASE Fail(r)
    <3>1. req[r].on \in Lanes
      BY <2>2, OnLane DEF Fail
    <3>2. LaneTyped
      BY <2>2, <3>1, OnFailureType DEF Fail
    <3>3. ASSUME NEW alt \in Routed(openFor'),
                 req' = [req EXCEPT ![r] = Try("failover", alt)]
          PROVE  req' \in [Requests -> Idle \cup Tries]
      <4>1. alt \in Lanes
        BY <3>3, RoutedAreLanes
      <4>2. Try("failover", alt) \in Idle \cup Tries
        BY <4>1, TryType
      <4> QED BY <3>3, <4>2 DEF TypeOK
    <3>4. ASSUME req' = [req EXCEPT ![r] = NoTry]
          PROVE  req' \in [Requests -> Idle \cup Tries]
      BY <3>4, NoTryType DEF TypeOK
    <3>5. req' \in [Requests -> Idle \cup Tries]
      BY <2>2, <3>3, <3>4 DEF Fail
    <3> QED BY <3>2, <3>5 DEF LaneTyped, TypeOK
  <2>3. CASE FailAgain(r)
    <3>1. req[r].on \in Lanes
      BY <2>3, OnLane DEF FailAgain
    <3>2. LaneTyped
      BY <2>3, <3>1, OnFailureType DEF FailAgain
    <3>3. req' \in [Requests -> Idle \cup Tries]
      BY <2>3, NoTryType DEF FailAgain, TypeOK
    <3> QED BY <3>2, <3>3 DEF LaneTyped, TypeOK
  <2> QED BY <1>1, <2>1, <2>2, <2>3 DEF Settle
<1>2. ASSUME NEW r \in Requests, NEW l \in Lanes, Pin(r, l) \/ Select(r, l)
      PROVE  TypeOK'
  <2>1. Try("first", l) \in Idle \cup Tries
    BY TryType
  <2>2. req' = [req EXCEPT ![r] = Try("first", l)] /\ UNCHANGED << up, lane, strikes >>
    BY <1>2 DEF Pin, Select
  <2> QED BY <2>1, <2>2 DEF lane, TypeOK
<1>3. ASSUME NEW l \in Lanes, ProbeLane(l) PROVE TypeOK'
  BY <1>3 DEF ProbeLane, TypeOK
<1>4. ASSUME NEW l \in Lanes, Crash(l) PROVE TypeOK'
  BY <1>4 DEF Crash, lane, TypeOK
<1>5. ASSUME Tick PROVE TypeOK'
  BY <1>5, RouterAssumption DEF Tick, TypeOK
<1>6. ASSUME NEW l \in Lanes, WatchdogRestart(l) PROVE TypeOK'
  BY <1>6 DEF WatchdogRestart, RestartUnit, lane, TypeOK
<1>7. CASE UNCHANGED vars
  BY <1>7 DEF vars, lane, TypeOK
<1> QED BY <1>1, <1>2, <1>3, <1>4, <1>5, <1>6, <1>7 DEF Next, RouterNext

\* Every variable keeps its type, whatever the order of answers, crashes,
\* probes, ticks and restarts.
THEOREM TypeCorrect == Spec => []TypeOK
  BY InitType, NextType, PTL DEF Spec

-----------------------------------------------------------------------------
(* The breaker                                                             *)

LEMMA FailureHonest ==
  ASSUME IInv, NEW l \in Lanes, OnFailure(l)
  PROVE  BreakerIsHonest'
<1> SUFFICES ASSUME NEW m \in Lanes
             PROVE  /\ openFor'[m] > 0 => strikes'[m] = Threshold
                    /\ failures'[m] <= strikes'[m]
  BY DEF BreakerIsHonest
<1>1. /\ failures[m] \in Nat /\ strikes[m] \in Nat /\ Threshold \in Nat \ {0}
      /\ failures[m] <= Threshold - 1 /\ strikes[m] <= Threshold
      /\ openFor[m] \in Nat
      /\ openFor[m] > 0 => strikes[m] = Threshold
      /\ failures[m] <= strikes[m]
  BY RouterAssumption DEF IInv, TypeOK, BreakerIsHonest
<1>2. CASE m = l
  <2>1. /\ failures'[m] = IF Opens(m) THEN 0 ELSE failures[m] + 1
        /\ openFor'[m] = IF Opens(m) THEN OpenTime ELSE openFor[m]
        /\ strikes'[m] = IF strikes[m] < Threshold THEN strikes[m] + 1 ELSE strikes[m]
    BY <1>2 DEF OnFailure, MarkFailure, IInv, TypeOK
  <2> QED BY <1>1, <2>1 DEF Opens
<1>3. CASE m # l
  <2>1. /\ failures'[m] = failures[m] /\ openFor'[m] = openFor[m]
        /\ strikes'[m] = strikes[m]
    BY <1>3 DEF OnFailure, MarkFailure, IInv, TypeOK
  <2> QED BY <1>1, <2>1
<1> QED BY <1>2, <1>3

LEMMA NextHonest == IInv /\ [Next]_vars => BreakerIsHonest'
<1> SUFFICES ASSUME IInv, [Next]_vars PROVE BreakerIsHonest'
  OBVIOUS
<1>1. ASSUME NEW r \in Requests, Answer(r) PROVE BreakerIsHonest'
  <2>1. req[r].on \in Lanes
    BY <1>1, OnLane DEF Answer, IInv
  <2> QED BY <1>1, <2>1 DEF Answer, MarkSuccess, IInv, TypeOK, BreakerIsHonest
<1>2. ASSUME NEW r \in Requests, Fail(r) \/ FailAgain(r) PROVE BreakerIsHonest'
  <2>1. req[r].on \in Lanes
    BY <1>2, OnLane DEF Fail, FailAgain, IInv
  <2>2. OnFailure(req[r].on)
    BY <1>2 DEF Fail, FailAgain
  <2> QED BY <2>1, <2>2, FailureHonest
<1>3. CASE UNCHANGED << failures, openFor, strikes >>
  BY <1>3 DEF IInv, BreakerIsHonest
<1>4. ASSUME Tick PROVE BreakerIsHonest'
  BY <1>4, RouterAssumption DEF Tick, IInv, TypeOK, BreakerIsHonest
<1> QED BY <1>1, <1>2, <1>3, <1>4
        DEF Next, RouterNext, Settle, Pin, Select, ProbeLane, Crash, WatchdogRestart,
            vars, lane

\* The invariant of the proofs: types and the honest breaker.
THEOREM RouterInvariant == Spec => []IInv
<1>1. Init => IInv
  BY InitType, RouterAssumption DEF IInv, Init, BreakerIsHonest
<1>2. IInv /\ [Next]_vars => IInv'
  BY NextType, NextHonest DEF IInv
<1> QED BY <1>1, <1>2, PTL DEF Spec

\* A breaker is open only after Threshold failed tries with no success among
\* them, however the answers of overlapping requests interleave.
THEOREM HonestBreaker == Spec => []BreakerIsHonest
  BY RouterInvariant, PTL DEF IInv

-----------------------------------------------------------------------------
(* Restarts                                                                *)

\* The router restarts a lane only once its breaker is open, after the
\* cooldown and within the cap.
THEOREM EarnedRestarts == Spec => RestartsAreEarned
<1> DEFINE Earned ==
      \A l \in Lanes : attempts'[l] # attempts[l] =>
        /\ strikes'[l] = Threshold /\ openFor'[l] > 0
        /\ wait[l] = 0 /\ wait'[l] = RecoveryTime
        /\ attempts'[l] = attempts[l] + 1 /\ attempts'[l] <= MaxAttempts
<1>1. ASSUME IInv, NEW l \in Lanes, OnFailure(l) PROVE Earned
  <2>1. BreakerIsHonest'
    BY <1>1, FailureHonest
  <2>2. CASE openFor'[l] > 0 /\ MayRecover(l)
    BY <1>1, <2>1, <2>2, RouterAssumption
       DEF OnFailure, TryRecover, MayRecover, IInv, TypeOK, BreakerIsHonest
  <2>3. CASE ~(openFor'[l] > 0 /\ MayRecover(l))
    BY <1>1, <2>3 DEF OnFailure, TryRecover
  <2> QED BY <2>2, <2>3
<1>2. ASSUME IInv, [Next]_vars PROVE Earned
  <2>1. ASSUME NEW r \in Requests, Fail(r) \/ FailAgain(r) PROVE Earned
    <3>1. req[r].on \in Lanes
      BY <1>2, <2>1, OnLane DEF Fail, FailAgain, IInv
    <3>2. OnFailure(req[r].on)
      BY <2>1 DEF Fail, FailAgain
    <3> QED BY <1>1, <1>2, <3>1, <3>2
  <2>2. CASE UNCHANGED attempts
    BY <2>2
  <2> HIDE DEF Earned
  <2> QED BY <1>2, <2>1, <2>2
          DEF Next, RouterNext, Settle, Answer, Pin, Select, ProbeLane, Crash, Tick,
              WatchdogRestart, vars, lane
<1>3. IInv /\ [Next]_vars => [Earned]_vars
  BY <1>2
<1> QED BY <1>3, RouterInvariant, PTL DEF Spec, RestartsAreEarned
=============================================================================
