------------------------- MODULE Workstation_proofs -------------------------
(***************************************************************************)
(* Proofs about the workstation's machines, each for any workers, callers, *)
(* sockets, lanes, forecasts, actions, jobs and times: the heartbeat, the  *)
(* cached disk report, the rate limit, the live feed, the choice of a      *)
(* lane, the disk forecast, a tab of the page and the job ledger.          *)
(***************************************************************************)
EXTENDS JobLedger, Watchdog, RescueCache, RateLimit, EpicHub, InferenceLanes, DiskForecast, DashboardPage,
        FiniteFacts

-----------------------------------------------------------------------------
(* The heartbeat                                                           *)

\* What the file holds is the last heartbeat or nothing, so that a reading
\* which finds an old stamp has not missed a newer one.
WatchdogInv ==
  /\ now \in Nat /\ lastBeat \in Nat
  /\ heartbeat \subseteq {lastBeat}
  /\ AlarmsAreReal

\* An alarm is only raised for a heartbeat as old as it says, whatever file
\* the reading finds and however often the process was restarted.
THEOREM RealAlarms == WatchdogSpec => []AlarmsAreReal
<1> USE WatchdogAssumption, ClockAssumption
<1>1. WatchdogInit => WatchdogInv
  BY DEF WatchdogInit, WatchdogInv, AlarmsAreReal
<1>2. WatchdogInv /\ [WatchdogNext]_watchdogVars => WatchdogInv'
  <2> SUFFICES ASSUME WatchdogInv, [WatchdogNext]_watchdogVars PROVE WatchdogInv'
    OBVIOUS
  <2> USE DEF WatchdogInv, AlarmsAreReal
  <2>1. CASE Passes /\ UNCHANGED << task, dueAt, heartbeat, lastBeat, diskFull, verdict >>
    BY <2>1 DEF Passes
  <2>2. CASE DiskChanges
    BY <2>2 DEF DiskChanges
  <2>3. CASE OpenHeartbeat
    BY <2>3 DEF OpenHeartbeat
  <2>4. CASE WriteHeartbeat
    BY <2>4 DEF WriteHeartbeat
  <2>5. CASE ProcessRestarts
    BY <2>5 DEF ProcessRestarts
  <2>6. CASE ReadHeartbeat
    <3>1. PICK seen \in SeenLast(heartbeat) :
            verdict' = [ok |-> now < seen + Silence, at |-> now, beat |-> lastBeat]
      BY <2>6 DEF ReadHeartbeat
    <3>2. seen = now \/ seen = lastBeat
      BY <3>1 DEF SeenLast
    <3>3. /\ verdict'.ok = (now < seen + Silence)
          /\ verdict'.at = now /\ verdict'.beat = lastBeat
      BY <3>1
    <3>4. ~verdict'.ok => ~(now < seen + Silence)
      BY <3>3, Zenon
    <3>5. AlarmsAreReal'
      BY <3>2, <3>3, <3>4
    <3> QED BY <2>6, <3>5 DEF ReadHeartbeat
  <2>7. CASE UNCHANGED watchdogVars
    BY <2>7 DEF watchdogVars
  <2> QED BY <2>1, <2>2, <2>3, <2>4, <2>5, <2>6, <2>7 DEF WatchdogNext
<1>3. WatchdogInv => AlarmsAreReal
  BY DEF WatchdogInv
<1> QED BY <1>1, <1>2, <1>3, PTL DEF WatchdogSpec

-----------------------------------------------------------------------------
(* The disk report                                                         *)

ReportStates == [made : Nat, stamp : Nat]
Filed      == [readable : {TRUE}, made : Nat, written : Nat]
InMaking   == [made : Nat, writing : BOOLEAN]

\* How old each copy of a report may be when it begins its life: one that is
\* filed, the time it took to make; one that is remembered, that and the life
\* of the file it may have been read from.
RescueInv ==
  /\ now \in Nat /\ age \in Int
  /\ memory \in [Workers -> SUBSET ReportStates]
  /\ making \in [Workers -> SUBSET InMaking]
  /\ filed \subseteq {torn} \union Filed
  /\ \A w \in Workers : \A m \in memory[w] : m.stamp < m.made + Longest + TTL
  /\ \A f \in filed : f.readable => f.written <= f.made + Longest
  /\ \A w \in Workers : \A r \in making[w] : now <= r.made + Longest
  /\ ReportsAgeBounded

LEMMA RescueKept == RescueInv /\ [RescueNext]_rescueVars => RescueInv'
<1> SUFFICES ASSUME RescueInv, [RescueNext]_rescueVars PROVE RescueInv'
  OBVIOUS
<1> USE RescueAssumption, ClockAssumption DEF RescueInv, ReportsAgeBounded
<1>1. CASE /\ Passes /\ UNCHANGED << memory, filed, making, age >>
           /\ \A w \in Workers : \A r \in making[w] : now < r.made + Longest
  <2>1. ASSUME NEW w \in Workers, NEW r \in making[w] PROVE now' <= r.made + Longest
    <3>1. r.made \in Nat /\ now < r.made + Longest
      BY <1>1 DEF InMaking
    <3> QED BY <1>1, <3>1 DEF Passes
  <2> QED BY <1>1, <2>1 DEF Passes
<1>2. ASSUME NEW w \in Workers, FromMemory(w) PROVE RescueInv'
  <2>1. PICK m \in memory[w] : now < m.stamp + TTL /\ age' = now - m.made
    BY <1>2 DEF FromMemory, RememberedReports
  <2>2. m.made \in Nat /\ m.stamp \in Nat /\ m.stamp < m.made + Longest + TTL
    BY <2>1 DEF ReportStates
  <2>3. age' \in Int /\ age' < 2 * TTL + Longest
    BY <2>1, <2>2
  <2> QED BY <1>2, <2>3 DEF FromMemory, Untouched
<1>3. ASSUME NEW w \in Workers, FromFile(w) PROVE RescueInv'
  <2>1. PICK f \in filed : /\ f.readable /\ now < f.written + TTL
                          /\ age' = now - f.made
                          /\ memory' = [memory EXCEPT ![w] = {[made |-> f.made, stamp |-> now]}]
    BY <1>3 DEF FromFile, FiledReports
  <2>2. f.made \in Nat /\ f.written \in Nat /\ f.written <= f.made + Longest
    <3>0. ~torn.readable
      BY DEF torn
    <3>1. f \in Filed
      BY <2>1, <3>0
    <3> QED BY <2>1, <3>1 DEF Filed
  <2>3. age' \in Int /\ age' < 2 * TTL + Longest /\ now < f.made + Longest + TTL
    BY <2>1, <2>2
  <2>4. memory' \in [Workers -> SUBSET ReportStates]
    BY <2>1, <2>2 DEF ReportStates
  <2>5. ASSUME NEW v \in Workers, NEW m \in memory'[v] PROVE m.stamp < m.made + Longest + TTL
    <3>1. m \in memory[v] \/ m = [made |-> f.made, stamp |-> now]
      BY <2>1, Zenon
    <3> QED BY <2>3, <3>1
  <2> QED BY <1>3, <2>3, <2>4, <2>5 DEF FromFile
<1>4. ASSUME NEW w \in Workers, StartReport(w) PROVE RescueInv'
  <2>1. making' \in [Workers -> SUBSET InMaking]
    <3>1. [made |-> now, writing |-> FALSE] \in InMaking
      BY DEF InMaking
    <3> QED BY <1>4, <3>1 DEF StartReport
  <2>2. ASSUME NEW v \in Workers, NEW r \in making'[v] PROVE now <= r.made + Longest
    <3>1. r \in making[v] \/ r = [made |-> now, writing |-> FALSE]
      BY <1>4 DEF StartReport
    <3> QED BY <3>1
  <2> QED BY <1>4, <2>1, <2>2 DEF StartReport
<1>5. ASSUME NEW w \in Workers, WorkerRestarts(w) PROVE RescueInv'
  BY <1>5 DEF WorkerRestarts
<1>6. ASSUME NEW w \in Workers, NEW r \in making[w], OpenReport(w, r) PROVE RescueInv'
  <2>1. r \in InMaking /\ now <= r.made + Longest
    OBVIOUS
  <2>2. [r EXCEPT !.writing = TRUE] \in InMaking /\ [r EXCEPT !.writing = TRUE].made = r.made
    BY <2>1 DEF InMaking
  <2>3. making' \in [Workers -> SUBSET InMaking]
    BY <1>6, <2>2 DEF OpenReport
  <2>4. ASSUME NEW v \in Workers, NEW q \in making'[v] PROVE now <= q.made + Longest
    BY <1>6, <2>1, <2>2, <2>4 DEF OpenReport
  <2>5. filed' \subseteq {torn} \union Filed /\ \A f \in filed' : ~f.readable
    BY <1>6 DEF OpenReport, torn
  <2> QED BY <1>6, <2>3, <2>4, <2>5 DEF OpenReport
<1>7. ASSUME NEW w \in Workers, NEW r \in making[w], NEW failed \in BOOLEAN,
             FinishReport(w, r, failed)
      PROVE  RescueInv'
  <2>1. r.made \in Nat /\ now <= r.made + Longest
    BY DEF InMaking
  <2>2. age' \in Int /\ age' < 2 * TTL + Longest
    BY <1>7, <2>1 DEF FinishReport
  <2>3. /\ making' \in [Workers -> SUBSET InMaking]
        /\ \A v \in Workers : making'[v] \subseteq making[v]
    BY <1>7 DEF FinishReport
  <2>4. CASE failed
    BY <1>7, <2>2, <2>3, <2>4 DEF FinishReport
  <2>5. CASE ~failed
    <3>1. /\ filed' = {[readable |-> TRUE, made |-> r.made, written |-> now]}
          /\ memory' = [memory EXCEPT ![w] = {[made |-> r.made, stamp |-> now]}]
          /\ now' = now
      BY <1>7, <2>5 DEF FinishReport
    <3>2. filed' \subseteq {torn} \union Filed /\ \A f \in filed' : f.written <= f.made + Longest
      BY <2>1, <3>1 DEF Filed
    <3>3. memory' \in [Workers -> SUBSET ReportStates]
      BY <2>1, <3>1 DEF ReportStates
    <3>4. ASSUME NEW v \in Workers, NEW m \in memory'[v] PROVE m.stamp < m.made + Longest + TTL
      BY <2>1, <3>1, <3>4
    <3> QED BY <2>2, <2>3, <3>1, <3>2, <3>3, <3>4
  <2> QED BY <2>4, <2>5
<1>8. CASE UNCHANGED rescueVars
  BY <1>8 DEF rescueVars
<1> QED BY <1>1, <1>2, <1>3, <1>4, <1>5, <1>6, <1>7, <1>8 DEF RescueNext

\* The age of an answer is bounded for any number of workers and threads: a
\* report is filed at most Longest after it was measured, is read from the file
\* for a TTL, and lives in memory for another.
THEOREM BoundedAge == RescueSpec => []ReportsAgeBounded
<1>1. RescueInit => RescueInv
  BY RescueAssumption DEF RescueInit, RescueInv, ReportsAgeBounded
<1>2. RescueInv => ReportsAgeBounded
  BY DEF RescueInv
<1> QED BY <1>1, <1>2, RescueKept, PTL DEF RescueSpec

-----------------------------------------------------------------------------
(* The rate limit                                                          *)

CheckUnderWay == [phase : {"cleaned", "counted"}, caller : Callers, at : Nat]

\* What a check has cleaned stays clean until it counts: whatever other checks
\* add meanwhile they read off the clock less than a window ago.
LimitInv ==
  /\ now \in Nat
  /\ seconds \in [Callers -> SUBSET Nat]
  /\ admitted \in [Callers -> SUBSET Nat]
  /\ check \in [Calls -> {noCheck} \union CheckUnderWay]
  /\ refusals \subseteq Callers \X Nat
  /\ \A k \in Callers : IsFiniteSet(admitted[k]) /\ seconds[k] \subseteq admitted[k]
  /\ \A r \in Calls : check[r].phase # "none" =>
       /\ check[r].at <= now /\ now < check[r].at + Window
       /\ check[r].phase = "cleaned" =>
            \A s \in seconds[check[r].caller] : s + Window > check[r].at
  /\ RefusalsAreEarned

LEMMA LiveIsKept == \A k \in Callers : Live(k) \subseteq seconds[k]
BY DEF Live

LEMMA UnderWay ==
  ASSUME LimitInv, NEW r \in Calls, check[r].phase # "none"
  PROVE  check[r] \in CheckUnderWay
BY DEF LimitInv, noCheck

\* A request stays earned as more are admitted.
LEMMA EarnedStays ==
  ASSUME RefusalsAreEarned, refusals \subseteq Callers \X Nat,
         NEW more, \A k \in Callers : admitted[k] \subseteq more[k] /\ IsFiniteSet(more[k])
  PROVE  \A x \in refusals : Cardinality({s \in more[x[1]] : s + Window > x[2]}) >= Limit
<1> SUFFICES ASSUME NEW x \in refusals
             PROVE  Cardinality({s \in more[x[1]] : s + Window > x[2]}) >= Limit
  OBVIOUS
<1> DEFINE old == {s \in admitted[x[1]] : s + Window > x[2]}
           new == {s \in more[x[1]] : s + Window > x[2]}
<1>1. x[1] \in Callers
  OBVIOUS
<1>2. old \subseteq new /\ new \subseteq more[x[1]] /\ IsFiniteSet(more[x[1]])
  BY <1>1
<1>3. IsFiniteSet(new)
  BY <1>2, FS_Subset
<1>4. Cardinality(old) <= Cardinality(new) /\ Cardinality(new) \in Nat
  BY <1>2, <1>3, FS_Subset, FS_CardinalityType
<1>5. Cardinality(old) \in Nat /\ Cardinality(old) >= Limit
  BY <1>2, <1>3, FS_Subset, FS_CardinalityType DEF RefusalsAreEarned
<1> HIDE DEF old, new
<1>6. Cardinality(new) >= Limit
  BY <1>4, <1>5, LimitAssumption
<1> QED BY <1>6 DEF new

LEMMA LimitKept == LimitInv /\ [LimitNext]_limitVars => LimitInv'
<1> SUFFICES ASSUME LimitInv, [LimitNext]_limitVars PROVE LimitInv'
  OBVIOUS
<1> USE LimitAssumption, ClockAssumption
<1>1. CASE SecondPasses
  <2>1. ASSUME NEW r \in Calls, check[r].phase # "none"
        PROVE  check[r].at <= now' /\ now' < check[r].at + Window
    BY <1>1, <2>1, UnderWay DEF LimitInv, SecondPasses, Passes, CheckUnderWay
  <2> QED BY <1>1, <2>1 DEF LimitInv, RefusalsAreEarned, SecondPasses, Passes
<1>2. ASSUME NEW r \in Calls, NEW k \in Callers, Arrive(r, k) PROVE LimitInv'
  <2> DEFINE new == [phase |-> "cleaned", caller |-> k, at |-> now]
  <2>1. new \in CheckUnderWay /\ new.phase = "cleaned" /\ new.caller = k /\ new.at = now
    BY DEF LimitInv, CheckUnderWay
  <2>2. Cleaned(k, now) \subseteq seconds[k] /\ \A s \in Cleaned(k, now) : s + Window > now
    BY LiveIsKept DEF Cleaned
  <2> HIDE DEF new
  <2>3. /\ check' = [check EXCEPT ![r] = new]
        /\ seconds' = [seconds EXCEPT ![k] = Cleaned(k, now)]
        /\ UNCHANGED << now, admitted, refusals >>
    BY <1>2 DEF Arrive, new
  <2>4. seconds' \in [Callers -> SUBSET Nat] /\ \A j \in Callers : seconds'[j] \subseteq seconds[j]
    BY <2>2, <2>3 DEF LimitInv
  <2>5. check' \in [Calls -> {noCheck} \union CheckUnderWay]
    BY <2>1, <2>3 DEF LimitInv
  <2>6. ASSUME NEW q \in Calls, check'[q].phase # "none"
        PROVE  /\ check'[q].at <= now /\ now < check'[q].at + Window
               /\ check'[q].phase = "cleaned" =>
                    \A s \in seconds'[check'[q].caller] : s + Window > check'[q].at
    <3>1. CASE q = r
      <4>1. check'[q] = new /\ seconds'[k] = Cleaned(k, now) /\ now \in Nat
        BY <2>3, <3>1 DEF LimitInv
      <4> QED BY <2>1, <2>2, <4>1
    <3>2. CASE q # r
      <4>1. check'[q] = check[q] /\ check[q].phase # "none"
        BY <2>3, <2>6, <3>2 DEF LimitInv
      <4>2. check[q].caller \in Callers
        BY <4>1, UnderWay DEF CheckUnderWay
      <4> QED BY <2>4, <4>1, <4>2 DEF LimitInv
    <3> QED BY <3>1, <3>2
  <2> QED BY <2>3, <2>4, <2>5, <2>6 DEF LimitInv, RefusalsAreEarned
<1>3. ASSUME NEW r \in Calls, CountFor(r) PROVE LimitInv'
  <2> DEFINE c == check[r]
  <2>1. /\ c.phase = "cleaned" /\ c \in CheckUnderWay
        /\ c.caller \in Callers /\ c.at \in Nat
    BY <1>3, UnderWay DEF CountFor, CheckUnderWay
  <2>2. UNCHANGED << now, seconds, admitted >>
    BY <1>3 DEF CountFor
  <2>3. CASE Cardinality(Live(c.caller)) >= Limit
    <3>1. check' = [check EXCEPT ![r] = noCheck] /\ refusals' = refusals \union {<< c.caller, c.at >>}
      BY <1>3, <2>3 DEF CountFor
    <3> DEFINE counted == {s \in admitted[c.caller] : s + Window > c.at}
    <3>2. Live(c.caller) \subseteq counted
      BY <2>1, LiveIsKept DEF LimitInv
    <3>3. IsFiniteSet(counted)
      BY <2>1, FS_Subset DEF LimitInv
    <3>4. /\ Cardinality(Live(c.caller)) <= Cardinality(counted)
          /\ Cardinality(Live(c.caller)) \in Nat /\ Cardinality(counted) \in Nat
      BY <3>2, <3>3, FS_Subset, FS_CardinalityType
    <3> HIDE DEF counted
    <3>5. Cardinality(counted) >= Limit
      BY <2>3, <3>4
    <3>6. RefusalsAreEarned'
      <4> SUFFICES ASSUME NEW x \in refusals'
                   PROVE  Cardinality({s \in admitted'[x[1]] : s + Window > x[2]}) >= Limit
        BY DEF RefusalsAreEarned
      <4>1. CASE x \in refusals
        BY <2>2, <4>1 DEF LimitInv, RefusalsAreEarned
      <4>2. CASE x = << c.caller, c.at >>
        BY <2>2, <3>5, <4>2 DEF counted
      <4> QED BY <3>1, <4>1, <4>2
    <3>7. refusals' \subseteq Callers \X Nat
      BY <2>1, <3>1 DEF LimitInv
    <3>8. \A q \in Calls : check'[q] = check[q] \/ check'[q] = noCheck
      BY <3>1 DEF LimitInv
    <3>9. check' \in [Calls -> {noCheck} \union CheckUnderWay]
      BY <3>1 DEF LimitInv
    <3> QED BY <2>2, <3>6, <3>7, <3>8, <3>9 DEF LimitInv, noCheck
  <2>4. CASE ~(Cardinality(Live(c.caller)) >= Limit)
    <3> DEFINE next == [c EXCEPT !.phase = "counted"]
    <3>1. next \in CheckUnderWay /\ next.phase = "counted" /\ next.at = c.at
      BY <2>1 DEF CheckUnderWay
    <3>2. check' = [check EXCEPT ![r] = next] /\ refusals' = refusals
      BY <1>3, <2>4 DEF CountFor
    <3> HIDE DEF next
    <3>3. check' \in [Calls -> {noCheck} \union CheckUnderWay]
      BY <3>1, <3>2 DEF LimitInv
    <3>4. ASSUME NEW q \in Calls
          PROVE  check'[q] = check[q] \/ (q = r /\ check'[q] = next)
      BY <3>2 DEF LimitInv
    <3>5. c.at <= now /\ now < c.at + Window
      BY <2>1 DEF LimitInv
    <3> QED BY <2>2, <3>1, <3>2, <3>3, <3>4, <3>5 DEF LimitInv, RefusalsAreEarned
  <2> QED BY <2>3, <2>4
<1>4. ASSUME NEW r \in Calls, Admit(r) PROVE LimitInv'
  <2> DEFINE c == check[r]
  <2>1. /\ c.phase # "none" /\ c.caller \in Callers /\ c.at \in Nat
        /\ c.at <= now /\ now < c.at + Window
    BY <1>4, UnderWay DEF Admit, CheckUnderWay, LimitInv
  <2>2. /\ seconds' = [seconds EXCEPT ![c.caller] = Live(c.caller) \union {c.at}]
        /\ admitted' = [admitted EXCEPT ![c.caller] = admitted[c.caller] \union {c.at}]
        /\ check' = [check EXCEPT ![r] = noCheck]
        /\ UNCHANGED << now, refusals >>
    BY <1>4 DEF Admit
  <2> HIDE DEF c
  <2>3. /\ seconds' \in [Callers -> SUBSET Nat] /\ admitted' \in [Callers -> SUBSET Nat]
        /\ \A k \in Callers : /\ seconds'[k] \subseteq seconds[k] \union {c.at}
                               /\ admitted[k] \subseteq admitted'[k]
    BY <2>1, <2>2, LiveIsKept DEF LimitInv
  <2>4. ASSUME NEW k \in Callers PROVE IsFiniteSet(admitted'[k]) /\ seconds'[k] \subseteq admitted'[k]
    <3>1. IsFiniteSet(admitted[k] \union {c.at})
      BY FS_AddElement DEF LimitInv
    <3>2. admitted'[k] = admitted[k] \/ admitted'[k] = admitted[k] \union {c.at}
      BY <2>2 DEF LimitInv
    <3>3. seconds'[k] \subseteq admitted'[k]
      BY <2>1, <2>2, LiveIsKept DEF LimitInv
    <3> QED BY <3>1, <3>2, <3>3 DEF LimitInv
  <2>5. check' \in [Calls -> {noCheck} \union CheckUnderWay]
    BY <2>2 DEF LimitInv
  <2>6. ASSUME NEW q \in Calls, check'[q].phase # "none"
        PROVE  /\ check'[q].at <= now /\ now < check'[q].at + Window
               /\ check'[q].phase = "cleaned" =>
                    \A s \in seconds'[check'[q].caller] : s + Window > check'[q].at
    <3>1. check'[q] = check[q] /\ check[q].phase # "none"
      BY <2>2, <2>6 DEF LimitInv, noCheck
    <3>2. check[q].caller \in Callers /\ check[q].at \in Nat /\ check[q].at <= now
      BY <3>1, UnderWay DEF CheckUnderWay, LimitInv
    <3>3. c.at + Window > check[q].at
      BY <2>1, <3>2 DEF LimitInv
    <3> QED BY <2>3, <3>1, <3>2, <3>3 DEF LimitInv
  <2>7. RefusalsAreEarned'
    <3>1. \A k \in Callers : admitted[k] \subseteq admitted'[k] /\ IsFiniteSet(admitted'[k])
      BY <2>3, <2>4
    <3>2. \A x \in refusals : Cardinality({s \in admitted'[x[1]] : s + Window > x[2]}) >= Limit
      BY <3>1, EarnedStays DEF LimitInv
    <3> QED BY <2>2, <3>2 DEF RefusalsAreEarned
  <2> QED BY <2>2, <2>3, <2>4, <2>5, <2>6, <2>7 DEF LimitInv
<1>5. CASE UNCHANGED limitVars
  BY <1>5 DEF limitVars, LimitInv, RefusalsAreEarned
<1> QED BY <1>1, <1>2, <1>3, <1>4, <1>5 DEF LimitNext

\* A refusal is earned for any number of callers and of checks in flight:
\* what a check counts was let through, and was cleaned up to its own window.
THEOREM EarnedRefusals == LimitSpec => []RefusalsAreEarned
<1>1. LimitInit => LimitInv
  <2> SUFFICES ASSUME LimitInit PROVE LimitInv
    OBVIOUS
  <2>1. IsFiniteSet({})
    BY FS_EmptySet
  <2> QED BY <2>1 DEF LimitInit, LimitInv, RefusalsAreEarned, noCheck
<1>2. LimitInv => RefusalsAreEarned
  BY DEF LimitInv
<1> QED BY <1>1, <1>2, LimitKept, PTL DEF LimitSpec

-----------------------------------------------------------------------------
(* The live feed                                                           *)

Kinds == {"tick", "revenue_change", "disk_alert", "service_down", "prediction_update"}
Events == [kind : Kinds, service : Services, ok : BOOLEAN]
Reading == [ok : [Services -> BOOLEAN], ready : BOOLEAN]

Listens(c) == entry[c] \in {"syncing", "live"}

\* the queue owes c an event about s
Owed(c, s) ==
  \E i \in 1..Len(queue) :
    queue[i].kind = "service_down" /\ queue[i].service = s /\ (i > 1 \/ c \in sending)

HubTypes ==
  /\ up \in [Services -> BOOLEAN]
  /\ last = {} \/ \E r \in Reading : last = {r}
  /\ queue \in Seq(Events)
  /\ entry \in [Clients -> {"none", "hello", "syncing", "live", "dead"}]
  /\ heard \in [Clients -> [Services -> {"nothing", "up", "down"}]]

\* What is still to be sent is what the loop remembers; a socket that is open
\* was told so or is owed it; one that greets has heard nothing.
HubInv ==
  /\ HubTypes
  /\ sending \subseteq Subscribers
  /\ queue = << >> => sending = {}
  /\ \A i \in 1..Len(queue) : queue[i].kind = "service_down" =>
       \E known \in last : queue[i].ok = known.ok[queue[i].service]
  /\ \A c \in Clients, s \in Services : Listens(c) /\ heard[c][s] # "nothing" =>
       Owed(c, s) \/ \E known \in last : heard[c][s] = Said(known.ok[s])
  /\ \A c \in Clients : entry[c] = "hello" => heard[c] = nothingHeard

Differs(ok) == {s \in Services : \E old \in last : old.ok[s] # ok[s]}

\* a sequence of events that are no service's
Plain(q) == q \in Seq(Events) /\ \A i \in 1..Len(q) : q[i].kind # "service_down"

\* The loop of a round over the services makes one event of each that differs.
LEMMA ServiceEventsAre ==
  ASSUME NEW ok \in [Services -> BOOLEAN]
  PROVE  /\ ServiceEvents(ok) \in Seq(Events)
         /\ \A i \in 1..Len(ServiceEvents(ok)) :
              ServiceEvents(ok)[i].ok = ok[ServiceEvents(ok)[i].service]
         /\ \A s \in Differs(ok) : \E i \in 1..Len(ServiceEvents(ok)) :
              ServiceEvents(ok)[i].kind = "service_down" /\ ServiceEvents(ok)[i].service = s
<1> DEFINE changed == Ascending(Differs(ok))
           n == Cardinality(Differs(ok))
<1>1. IsFiniteSet(Differs(ok)) /\ \A s \in Differs(ok) : s \in Int
  <2>1. IsFiniteSet(Services) /\ \A s \in Services : s \in Int
    BY HubAssumption, FS_Interval DEF Services
  <2>2. Differs(ok) \subseteq Services
    BY DEF Differs
  <2> QED BY <2>1, <2>2, FS_Subset
<1>2. n \in Nat /\ changed \in [1..n -> Differs(ok)] /\ \A s \in Differs(ok) : \E i \in 1..n : changed[i] = s
  <2>1. Lists(changed, Differs(ok)) /\ n \in Nat
    BY <1>1, AscendingLists
  <2> QED BY <2>1 DEF Lists
<1>3. ServiceEvents(ok) = [i \in 1..Len(changed) |->
         [kind |-> "service_down", service |-> changed[i], ok |-> ok[changed[i]]]]
  BY DEF ServiceEvents, Differs
<1> HIDE DEF n, changed
<1>4. changed \in Seq(Services) /\ Len(changed) = n
  BY <1>2 DEF Differs
<1>5. ServiceEvents(ok) \in Seq(Events) /\ Len(ServiceEvents(ok)) = n
  BY <1>2, <1>3, <1>4 DEF Events, Kinds
<1> QED BY <1>2, <1>3, <1>4, <1>5

\* q tells each service that differs from what is remembered, as ok has it
Tells(q, ok) ==
  /\ q \in Seq(Events) /\ q # << >>
  /\ \A i \in 1..Len(q) : q[i].kind = "service_down" => q[i].ok = ok[q[i].service]
  /\ \A s \in Differs(ok) : \E i \in 1..Len(q) : q[i].kind = "service_down" /\ q[i].service = s

\* What a round broadcasts: of each service that differs an event, and others
\* that are no service's.
LEMMA RoundEventsAre ==
  ASSUME NEW ok \in [Services -> BOOLEAN], NEW ready \in BOOLEAN,
         NEW risk \in BOOLEAN, NEW forecast \in BOOLEAN
  PROVE  Tells(RoundEvents(ok, ready, risk, forecast), ok)
<1> DEFINE tick == Event("tick")
           revenue == IF \E old \in last : old.ready # ready THEN Event("revenue_change") ELSE << >>
           alert == IF risk /\ last # {} THEN Event("disk_alert") ELSE << >>
           services == ServiceEvents(ok)
           update == IF forecast THEN Event("prediction_update") ELSE << >>
           q == RoundEvents(ok, ready, risk, forecast)
           before == (tick \o revenue) \o alert
<1>1. q = (before \o services) \o update
  BY DEF RoundEvents
<1>2. Plain(tick) /\ Plain(revenue) /\ Plain(alert) /\ Plain(update)
  <2>1. \A kind \in Kinds \ {"service_down"} : Plain(Event(kind))
    BY HubAssumption DEF Plain, Event, Events, Kinds, Services
  <2>2. Plain(<< >>)
    BY DEF Plain
  <2> QED BY <2>1, <2>2 DEF Kinds
<1>3. /\ services \in Seq(Events)
      /\ \A i \in 1..Len(services) : services[i].ok = ok[services[i].service]
      /\ \A s \in Differs(ok) : \E i \in 1..Len(services) :
            services[i].kind = "service_down" /\ services[i].service = s
  BY ServiceEventsAre
<1>a. Len(tick) = 1
  BY DEF Event
<1> HIDE DEF tick, revenue, alert, services, update, q
<1>b. before # << >>
  <2>0. tick \in Seq(Events) /\ revenue \in Seq(Events) /\ alert \in Seq(Events)
    BY <1>2 DEF Plain
  <2>1. Len(tick \o revenue) = 1 + Len(revenue) /\ Len(revenue) \in Nat /\ tick \o revenue \in Seq(Events)
    <3>1. Len(tick \o revenue) = Len(tick) + Len(revenue) /\ tick \o revenue \in Seq(Events)
      BY <2>0
    <3> QED BY <2>0, <3>1, <1>a
  <2>2. Len(before) = Len(tick \o revenue) + Len(alert) /\ Len(alert) \in Nat
    BY <2>0, <2>1
  <2> QED BY <2>1, <2>2
<1>4. Plain(before)
  <2>1. \A a, b : Plain(a) /\ Plain(b) => Plain(a \o b)
    BY DEF Plain
  <2> QED BY <1>2, <2>1
<1> HIDE DEF before
<1> USE DEF Plain
<1>5. q \in Seq(Events) /\ q # << >>
  <2>1. q \in Seq(Events) /\ Len(q) = Len(before) + Len(services) + Len(update)
    BY <1>1, <1>2, <1>3, <1>4
  <2>2. Len(before) > 0 /\ Len(before) \in Nat /\ Len(services) \in Nat /\ Len(update) \in Nat
    BY <1>b, <1>2, <1>3, <1>4
  <2> QED BY <2>1, <2>2
<1>6. \A i \in 1..Len(q) :
        \/ i \in 1..Len(before) /\ q[i] = before[i]
        \/ i - Len(before) \in 1..Len(services) /\ q[i] = services[i - Len(before)]
        \/ i - Len(before) - Len(services) \in 1..Len(update) /\ q[i] = update[i - Len(before) - Len(services)]
  BY <1>1, <1>2, <1>3, <1>4
<1>7. \A i \in 1..Len(services) : Len(before) + i \in 1..Len(q) /\ q[Len(before) + i] = services[i]
  <2>1. Len(before) \in Nat /\ Len(services) \in Nat /\ Len(update) \in Nat
    BY <1>2, <1>3, <1>4
  <2>2. before \o services \in Seq(Events) /\ Len(before \o services) = Len(before) + Len(services)
    BY <1>3, <1>4
  <2>3. \A i \in 1..Len(services) : (before \o services)[Len(before) + i] = services[i]
    BY <1>3, <1>4
  <2>4. \A i \in 1..Len(before \o services) : q[i] = (before \o services)[i] /\ i \in 1..Len(q)
    BY <1>1, <1>2, <2>2
  <2> QED BY <2>1, <2>2, <2>3, <2>4
<1>8. \A i \in 1..Len(q) : q[i].kind = "service_down" => q[i].ok = ok[q[i].service]
  <2> SUFFICES ASSUME NEW i \in 1..Len(q), q[i].kind = "service_down" PROVE q[i].ok = ok[q[i].service]
    OBVIOUS
  <2>1. ~(i \in 1..Len(before) /\ q[i] = before[i])
    BY <1>4
  <2>2. ~(i - Len(before) - Len(services) \in 1..Len(update) /\ q[i] = update[i - Len(before) - Len(services)])
    BY <1>2
  <2>3. i - Len(before) \in 1..Len(services) /\ q[i] = services[i - Len(before)]
    BY <1>6, <2>1, <2>2
  <2> QED BY <1>3, <2>3
<1>9. \A s \in Differs(ok) : \E i \in 1..Len(q) : q[i].kind = "service_down" /\ q[i].service = s
  <2> SUFFICES ASSUME NEW s \in Differs(ok)
               PROVE  \E i \in 1..Len(q) : q[i].kind = "service_down" /\ q[i].service = s
    OBVIOUS
  <2>1. PICK k \in 1..Len(services) : services[k].kind = "service_down" /\ services[k].service = s
    BY <1>3
  <2>2. Len(before) + k \in 1..Len(q) /\ q[Len(before) + k] = services[k]
    BY <1>7
  <2> QED BY <2>1, <2>2
<1>10. Tells(q, ok)
  BY <1>5, <1>8, <1>9 DEF Tells
<1> QED BY <1>10 DEF q

LEMMA HubInitially == HubInit => HubInv
<1> SUFFICES ASSUME HubInit PROVE HubInv
  OBVIOUS
<1> QED BY DEF HubInit, HubInv, HubTypes, Listens, Subscribers, nothingHeard

LEMMA RoundKeeps ==
  ASSUME HubInv, NEW failed \in BOOLEAN, NEW ready \in BOOLEAN, NEW risk \in BOOLEAN,
         NEW forecast \in BOOLEAN, PushRound(failed, ready, risk, forecast)
  PROVE  HubInv'
<1>1. CASE failed
  BY <1>1 DEF PushRound, Remembered, HubInv, HubTypes, Listens, Owed, Subscribers
<1>2. CASE ~failed
  <2> DEFINE q == RoundEvents(up, ready, risk, forecast)
             r == [ok |-> up, ready |-> ready]
  <2>1. /\ queue = << >> /\ queue' = q /\ sending' = Subscribers /\ last' = {r}
        /\ UNCHANGED << up, entry, heard >>
    BY <1>2 DEF PushRound, Remembered
  <2>2. up \in [Services -> BOOLEAN] /\ r \in Reading
    BY DEF HubInv, HubTypes, Reading
  <2>3. /\ q \in Seq(Events) /\ q # << >>
        /\ \A i \in 1..Len(q) : q[i].kind = "service_down" => q[i].ok = up[q[i].service]
        /\ \A s \in Differs(up) : \E i \in 1..Len(q) : q[i].kind = "service_down" /\ q[i].service = s
    <3>1. Tells(q, up)
      BY <2>2, RoundEventsAre
    <3> HIDE DEF q
    <3> QED BY <3>1 DEF Tells
  <2> HIDE DEF q
  <2>4. HubTypes'
    BY <2>1, <2>2, <2>3 DEF HubInv, HubTypes
  <2>5. sending' \subseteq Subscribers' /\ queue' # << >>
    BY <2>1, <2>3 DEF Subscribers
  <2>6. \A i \in 1..Len(queue') : queue'[i].kind = "service_down" =>
          \E known \in last' : queue'[i].ok = known.ok[queue'[i].service]
    BY <2>1, <2>3
  <2>7. ASSUME NEW c \in Clients, NEW s \in Services, Listens(c), heard[c][s] # "nothing"
        PROVE  Owed(c, s)' \/ \E known \in last' : heard'[c][s] = Said(known.ok[s])
    <3>1. PICK old \in last : heard[c][s] = Said(old.ok[s])
      BY <2>1, <2>7 DEF HubInv, Owed
    <3>2. c \in sending'
      BY <2>1, <2>7 DEF Listens, Subscribers
    <3>3. CASE s \in Differs(up)
      BY <2>1, <2>3, <3>2, <3>3 DEF Owed
    <3>4. CASE s \notin Differs(up)
      <4>1. old.ok[s] = up[s]
        BY <3>1, <3>4 DEF Differs
      <4>2. r \in last' /\ r.ok[s] = up[s]
        BY <2>1
      <4> QED BY <2>1, <3>1, <4>1, <4>2
    <3> QED BY <3>3, <3>4
  <2>8. \A c \in Clients, s \in Services : Listens(c)' /\ heard'[c][s] # "nothing" =>
          Owed(c, s)' \/ \E known \in last' : heard'[c][s] = Said(known.ok[s])
    BY <2>1, <2>7 DEF Listens
  <2>9. \A c \in Clients : entry'[c] = "hello" => heard'[c] = nothingHeard
    BY <2>1 DEF HubInv
  <2> QED BY <2>4, <2>5, <2>6, <2>8, <2>9 DEF HubInv
<1> QED BY <1>1, <1>2

LEMMA NextEventKeeps == ASSUME HubInv, NextEvent PROVE HubInv'
<1>1. /\ queue # << >> /\ sending = {} /\ queue' = Tail(queue)
      /\ sending' = IF Len(queue) = 1 THEN {} ELSE Subscribers
      /\ UNCHANGED << up, last, entry, heard >>
  BY DEF NextEvent
<1>2. queue \in Seq(Events) /\ queue' \in Seq(Events) /\ Len(queue') = Len(queue) - 1
      /\ \A i \in 1..Len(queue') : queue'[i] = queue[i + 1] /\ i + 1 \in 1..Len(queue)
  BY <1>1 DEF HubInv, HubTypes
<1>3. HubTypes' /\ sending' \subseteq Subscribers' /\ (queue' = << >> => sending' = {})
  <2>1. queue' = << >> => Len(queue') = 0
    OBVIOUS
  <2>2. Len(queue') = 0 => Len(queue) = 1
    <3>1. Len(queue) \in Nat /\ Len(queue') = Len(queue) - 1
      BY <1>2
    <3> QED BY <3>1
  <2> QED BY <1>1, <1>2, <2>1, <2>2 DEF HubInv, HubTypes, Subscribers
<1>4. \A i \in 1..Len(queue') : queue'[i].kind = "service_down" =>
        \E known \in last' : queue'[i].ok = known.ok[queue'[i].service]
  BY <1>1, <1>2 DEF HubInv
<1>5. ASSUME NEW c \in Clients, NEW s \in Services, Listens(c), Owed(c, s) PROVE Owed(c, s)'
  <2>1. PICK i \in 1..Len(queue) : queue[i].kind = "service_down" /\ queue[i].service = s /\ i > 1
    BY <1>1, <1>5 DEF Owed
  <2>2. i - 1 \in 1..Len(queue') /\ queue'[i - 1] = queue[i] /\ Len(queue) # 1
    BY <1>2, <2>1
  <2>3. c \in sending'
    BY <1>1, <1>5, <2>2 DEF Listens, Subscribers
  <2> QED BY <2>1, <2>2, <2>3 DEF Owed
<1>6. \A c \in Clients, s \in Services : Listens(c)' /\ heard'[c][s] # "nothing" =>
        Owed(c, s)' \/ \E known \in last' : heard'[c][s] = Said(known.ok[s])
  BY <1>1, <1>5 DEF HubInv, Listens
<1> QED BY <1>1, <1>3, <1>4, <1>6 DEF HubInv

LEMMA SendKeeps == ASSUME HubInv, NEW c \in Clients, SendTo(c) PROVE HubInv'
<1>1. c \in sending /\ sending' = sending \ {c} /\ UNCHANGED << up, last, queue >>
  BY DEF SendTo
<1>2. CASE entry[c] = "dead"
  <2>1. entry' = [entry EXCEPT ![c] = "none"] /\ UNCHANGED heard
    BY <1>2 DEF SendTo
  <2>2. \A d \in Clients : Listens(d)' => Listens(d) /\ d # c
    BY <2>1 DEF HubInv, HubTypes, Listens
  <2>3. \A d \in Clients, s \in Services : d # c => (Owed(d, s)' <=> Owed(d, s))
    BY <1>1 DEF Owed
  <2> QED BY <1>1, <2>1, <2>2, <2>3 DEF HubInv, HubTypes, Subscribers
<1>3. CASE entry[c] # "dead"
  <2> DEFINE e == Head(queue)
  <2>1. UNCHANGED entry /\ queue # << >> /\ e = queue[1] /\ 1 \in 1..Len(queue) /\ e \in Events
    BY <1>1, <1>3 DEF SendTo, HubInv, HubTypes
  <2>2. heard' = IF e.kind # "service_down" THEN heard ELSE [heard EXCEPT ![c][e.service] = Said(e.ok)]
    BY <1>3 DEF SendTo
  <2>3. entry[c] # "hello"
    BY <1>1 DEF HubInv, Subscribers
  <2> HIDE DEF e
  <2>4. HubTypes'
    BY <1>1, <2>1, <2>2 DEF HubInv, HubTypes, Events, Said
  <2>5. ASSUME NEW d \in Clients, NEW s \in Services, Listens(d), heard'[d][s] # "nothing"
        PROVE  Owed(d, s)' \/ \E known \in last : heard'[d][s] = Said(known.ok[s])
    <3>1. CASE d = c /\ e.kind = "service_down" /\ s = e.service
      <4>1. heard'[d][s] = Said(e.ok)
        BY <2>2, <3>1 DEF HubInv, HubTypes
      <4>2. \E known \in last : e.ok = known.ok[s]
        BY <2>1, <3>1 DEF HubInv
      <4> QED BY <4>1, <4>2
    <3>2. CASE ~(d = c /\ e.kind = "service_down" /\ s = e.service)
      <4>1. heard'[d][s] = heard[d][s]
        BY <2>1, <2>2, <3>2 DEF HubInv, HubTypes, Events
      <4>2. Owed(d, s) => Owed(d, s)'
        <5> SUFFICES ASSUME Owed(d, s) PROVE Owed(d, s)'
          OBVIOUS
        <5>1. PICK i \in 1..Len(queue) :
                queue[i].kind = "service_down" /\ queue[i].service = s /\ (i > 1 \/ d \in sending)
          BY DEF Owed
        <5>2. i > 1 \/ d \in sending'
          BY <1>1, <2>1, <3>2, <5>1
        <5> QED BY <1>1, <5>1, <5>2 DEF Owed
      <4> QED BY <2>5, <4>1, <4>2 DEF HubInv
    <3> QED BY <3>1, <3>2
  <2>6. \A d \in Clients : entry'[d] = "hello" => heard'[d] = nothingHeard
    BY <2>1, <2>2, <2>3 DEF HubInv, HubTypes
  <2>7. sending' \subseteq Subscribers'
    BY <1>1, <2>1 DEF HubInv, Subscribers
  <2> QED BY <1>1, <2>1, <2>4, <2>5, <2>6, <2>7 DEF HubInv, Listens
<1> QED BY <1>2, <1>3

LEMMA ConnectKeeps == ASSUME HubInv, NEW c \in Clients, Connect(c) PROVE HubInv'
<1>1. /\ entry[c] \in {"none", "dead"}
      /\ entry' = [entry EXCEPT ![c] = IF c \in Holders THEN "hello" ELSE "none"]
      /\ sending' = sending \ {c}
      /\ heard' = [heard EXCEPT ![c] = nothingHeard]
      /\ UNCHANGED << up, last, queue >>
  BY DEF Connect
<1>2. HubTypes'
  BY <1>1 DEF HubInv, HubTypes, nothingHeard
<1>3. \A d \in Clients : Listens(d)' => Listens(d) /\ d # c
  BY <1>1 DEF HubInv, HubTypes, Listens
<1>4. \A d \in Clients, s \in Services : d # c => (Owed(d, s)' <=> Owed(d, s)) /\ heard'[d] = heard[d]
  BY <1>1 DEF Owed, HubInv, HubTypes
<1>5. sending' \subseteq Subscribers'
  BY <1>1 DEF HubInv, HubTypes, Subscribers
<1>6. \A d \in Clients : entry'[d] = "hello" => heard'[d] = nothingHeard
  BY <1>1 DEF HubInv, HubTypes
<1> QED BY <1>1, <1>2, <1>3, <1>4, <1>5, <1>6 DEF HubInv

\* A socket whose place among the subscribers changes and that is told nothing.
LEMMA PlaceKeeps ==
  ASSUME HubInv, NEW c \in Clients, StartSync(c) \/ EndSync(c) \/ SocketLost(c) \/ HandlerEnds(c)
  PROVE  HubInv'
<1>1. UNCHANGED << up, last, queue, heard >>
  BY DEF StartSync, EndSync, SocketLost, HandlerEnds
<1>2. \A d \in Clients, s \in Services : (Listens(d) /\ Listens(d)' /\ Owed(d, s)) => Owed(d, s)'
  BY <1>1 DEF Owed, StartSync, EndSync, SocketLost, HandlerEnds, HubInv, HubTypes, Listens
<1>3. HubTypes'
  BY <1>1 DEF StartSync, EndSync, SocketLost, HandlerEnds, HubInv, HubTypes
<1>4. sending' \subseteq Subscribers' /\ sending' \subseteq sending
  BY <1>1 DEF StartSync, EndSync, SocketLost, HandlerEnds, HubInv, HubTypes, Subscribers
<1>5. \A d \in Clients : Listens(d)' => Listens(d) \/ entry[d] = "hello"
  BY DEF StartSync, EndSync, SocketLost, HandlerEnds, HubInv, HubTypes, Listens
<1>6. \A d \in Clients : entry'[d] = "hello" => entry[d] = "hello"
  BY DEF StartSync, EndSync, SocketLost, HandlerEnds, HubInv, HubTypes
<1>7. ASSUME NEW d \in Clients, NEW s \in Services, Listens(d)', heard[d][s] # "nothing"
      PROVE  Owed(d, s)' \/ \E known \in last : heard[d][s] = Said(known.ok[s])
  BY <1>2, <1>5, <1>7 DEF HubInv, nothingHeard
<1> QED BY <1>1, <1>3, <1>4, <1>6, <1>7 DEF HubInv

\* What an open socket was last told of a service is what the loop holds of
\* it, for any number of services and sockets, whichever rounds fail and
\* whichever sockets come and go while an event is sent.
THEOREM FeedIsCurrent == HubSpec => []HeardIsCurrent
<1>1. HubInit => HubInv
  BY HubInitially
<1>2. HubInv /\ [HubNext]_hubVars => HubInv'
  <2> SUFFICES ASSUME HubInv, [HubNext]_hubVars PROVE HubInv'
    OBVIOUS
  <2>1. CASE \E s \in Services : ServiceChanges(s)
    <3>1. up' \in [Services -> BOOLEAN] /\ UNCHANGED << last, queue, sending, entry, heard >>
      BY <2>1 DEF ServiceChanges, HubInv, HubTypes
    <3> QED BY <3>1 DEF HubInv, HubTypes, Subscribers, Listens, Owed
  <2>2. CASE \E failed, ready, risk, forecast \in BOOLEAN : PushRound(failed, ready, risk, forecast)
    BY <2>2, RoundKeeps
  <2>3. CASE NextEvent
    BY <2>3, NextEventKeeps
  <2>4. CASE \E c \in Clients : SendTo(c) \/ Connect(c) \/ StartSync(c) \/ EndSync(c)
                                \/ SocketLost(c) \/ HandlerEnds(c)
    BY <2>4, SendKeeps, ConnectKeeps, PlaceKeeps
  <2>5. CASE UNCHANGED hubVars
    BY <2>5 DEF hubVars, HubInv, HubTypes, Subscribers, Listens, Owed
  <2> QED BY <2>1, <2>2, <2>3, <2>4, <2>5 DEF HubNext
<1>3. HubInv => HeardIsCurrent
  BY DEF HubInv, HubTypes, HeardIsCurrent, Listens, Owed
<1> QED BY <1>1, <1>2, <1>3, PTL DEF HubSpec

-----------------------------------------------------------------------------
(* The choice of a lane                                                    *)

ChoiceStates == [phase : {"asking", "refused"}, since : Nat, left : Seq(Lanes)]

LaneTypes ==
  /\ now \in Nat
  /\ lane \in [Lanes -> Conditions] /\ withSince \in [Lanes -> Nat]
  /\ cached \in [Lanes -> {"empty", "with", "without"}] /\ cachedAt \in [Lanes -> Nat]
  /\ route \subseteq Advice
  /\ choice = noChoice \/ choice \in ChoiceStates

\* l is to be asked still
Left(l) == \E i \in 1..Len(choice.left) : choice.left[i] = l

\* l has not served the model since a ModelTTL before the request
Earned(l) == lane[l] = "with" => withSince[l] + ModelTTL > choice.since

\* A list without the model was read before the lane came to have it, and a
\* lane that is not to be asked any more has not had it for long.
LanesInv ==
  /\ LaneTypes
  /\ \A l \in Lanes : withSince[l] <= now /\ cachedAt[l] <= now
  /\ \A l \in Lanes : cached[l] = "without" /\ lane[l] = "with" => cachedAt[l] <= withSince[l]
  /\ choice # noChoice => choice.since <= now
  /\ choice.phase = "asking" => \A l \in Lanes : Left(l) \/ Earned(l)
  /\ choice.phase = "refused" => \A l \in Lanes : Earned(l)

LEMMA LaneCount == Cardinality(Lanes) \in Nat /\ Lanes = 1..Cardinality(Lanes)
BY LanesAssumption, FS_CardinalityType

\* The recommended lanes that are healthy are lanes, whatever their order.
LEMMA HealthyAreLanes ==
  ASSUME NEW recs \in Seq(Lanes), NEW healthy
  PROVE  Healthy(recs, healthy) \in Seq(Lanes)
<1> DEFINE inside == {i \in DOMAIN recs : recs[i] \in healthy}
           kept == Ascending(inside)
           n == Cardinality(inside)
<1>1. IsFiniteSet(inside) /\ \A i \in inside : i \in Int
  <2>1. DOMAIN recs = 1..Len(recs) /\ Len(recs) \in Nat
    OBVIOUS
  <2>2. IsFiniteSet(DOMAIN recs) /\ \A i \in DOMAIN recs : i \in Int
    BY <2>1, FS_Interval
  <2>3. inside \subseteq DOMAIN recs
    OBVIOUS
  <2> QED BY <2>2, <2>3, FS_Subset
<1>2. n \in Nat /\ kept \in [1..n -> inside]
  <2>1. Lists(kept, inside) /\ n \in Nat
    BY <1>1, AscendingLists
  <2> QED BY <2>1 DEF Lists
<1>3. inside \subseteq DOMAIN recs
  OBVIOUS
<1>4. Healthy(recs, healthy) = [i \in 1..Len(kept) |-> recs[kept[i]]]
  BY DEF Healthy
<1> HIDE DEF kept, n, inside
<1>5. kept \in Seq(inside) /\ Len(kept) = n
  BY <1>2
<1> QED BY <1>2, <1>3, <1>4, <1>5

\* The search comes to every lane.
LEMMA SearchReachesAll ==
  /\ SearchOrder \in Seq(Lanes)
  /\ \A l \in Lanes : \E i \in 1..Len(SearchOrder) : SearchOrder[i] = l
<1> DEFINE mapped == IF Mapped = 0 THEN << >> ELSE << Mapped >>
           all == [i \in 1..Cardinality(Lanes) |-> i]
<1>1. mapped \in Seq(Lanes)
  BY LanesAssumption
<1>2. all \in Seq(Lanes) /\ \A l \in Lanes : l \in 1..Len(all) /\ all[l] = l
  BY LaneCount
<1>3. SearchOrder = (mapped \o all) \o mapped
  BY DEF SearchOrder
<1> HIDE DEF mapped, all
<1>4. mapped \o all \in Seq(Lanes) /\ Len(mapped \o all) = Len(mapped) + Len(all)
  BY <1>1, <1>2
<1>5. \A l \in Lanes : Len(mapped) + l \in 1..Len(mapped \o all) /\ (mapped \o all)[Len(mapped) + l] = l
  BY <1>1, <1>2, <1>4
<1>6. SearchOrder \in Seq(Lanes)
  BY <1>1, <1>3, <1>4
<1>7. \A i \in 1..Len(mapped \o all) : i \in 1..Len(SearchOrder) /\ SearchOrder[i] = (mapped \o all)[i]
  BY <1>1, <1>3, <1>4
<1> QED BY <1>5, <1>6, <1>7

\* A lane is asked, by this choice or another: the caches stay right.
LEMMA CachesKeep ==
  ASSUME LanesInv, NEW l \in Lanes, CacheAfter(l), UNCHANGED << now, lane, withSince >>
  PROVE  /\ cached' \in [Lanes -> {"empty", "with", "without"}] /\ cachedAt' \in [Lanes -> Nat]
         /\ \A k \in Lanes : cachedAt'[k] <= now
         /\ \A k \in Lanes : cached'[k] = "without" /\ lane[k] = "with" => cachedAt'[k] <= withSince[k]
BY DEF LanesInv, LaneTypes, CacheAfter, ModelsOf, Conditions

LEMMA StartKeeps ==
  ASSUME LanesInv, NEW healthy, NEW advice \in Advice, StartChoice(healthy, advice)
  PROVE  LanesInv'
<1>1. /\ choice.phase = "none" /\ route' = RouteNow(advice)
      /\ UNCHANGED << now, lane, withSince, cached, cachedAt >>
  BY DEF StartChoice
<1>2. PICK recs \in route' :
        choice' = [phase |-> "asking", since |-> now, left |-> Healthy(recs, healthy) \o SearchOrder]
  BY DEF StartChoice
<1>3. route' \subseteq Advice
  BY <1>1 DEF LanesInv, LaneTypes, RouteNow
<1>4. recs \in Seq(Lanes)
  BY <1>2, <1>3, LanesAssumption
<1> DEFINE first == Healthy(recs, healthy)
<1>5. first \in Seq(Lanes) /\ SearchOrder \in Seq(Lanes)
  BY <1>4, HealthyAreLanes, SearchReachesAll
<1>6. choice'.phase = "asking" /\ choice'.since = now /\ choice'.left = first \o SearchOrder
  BY <1>2
<1> HIDE DEF first
<1>7. first \o SearchOrder \in Seq(Lanes)
      /\ \A i \in 1..Len(SearchOrder) : /\ Len(first) + i \in 1..Len(first \o SearchOrder)
                                        /\ (first \o SearchOrder)[Len(first) + i] = SearchOrder[i]
  BY <1>5
<1>8. choice' \in ChoiceStates
  BY <1>2, <1>7 DEF ChoiceStates, LanesInv, LaneTypes, first
<1>9. \A l \in Lanes : Left(l)'
  BY <1>6, <1>7, SearchReachesAll DEF Left
<1> QED BY <1>1, <1>3, <1>6, <1>8, <1>9 DEF LanesInv, LaneTypes

LEMMA AskKeeps == ASSUME LanesInv, Ask PROVE LanesInv'
<1> DEFINE l == Head(choice.left)
<1>1. /\ choice.phase = "asking" /\ choice.left # << >> /\ CacheAfter(l)
      /\ choice' = IF ModelsOf(l) = "with" THEN noChoice ELSE [choice EXCEPT !.left = Tail(@)]
      /\ UNCHANGED << now, lane, withSince, route, routeAt >>
  BY DEF Ask
<1>2. choice \in ChoiceStates /\ choice.left \in Seq(Lanes) /\ l \in Lanes /\ l = choice.left[1]
  BY <1>1 DEF LanesInv, LaneTypes, noChoice, ChoiceStates
<1> HIDE DEF l
<1>3. /\ cached' \in [Lanes -> {"empty", "with", "without"}] /\ cachedAt' \in [Lanes -> Nat]
      /\ \A k \in Lanes : cachedAt'[k] <= now
      /\ \A k \in Lanes : cached'[k] = "without" /\ lane[k] = "with" => cachedAt'[k] <= withSince[k]
  BY <1>1, <1>2, CachesKeep
<1>4. CASE ModelsOf(l) = "with"
  BY <1>1, <1>3, <1>4 DEF LanesInv, LaneTypes, noChoice
<1>5. CASE ModelsOf(l) # "with"
  <2>1. choice' = [choice EXCEPT !.left = Tail(@)]
    BY <1>1, <1>5
  <2>2. choice' \in ChoiceStates /\ choice'.phase = "asking" /\ choice'.since = choice.since /\ choice'.left = Tail(choice.left)
    <3>1. Tail(choice.left) \in Seq(Lanes)
      BY <1>1, <1>2
    <3>2. choice = [phase |-> "asking", since |-> choice.since, left |-> choice.left] /\ choice.since \in Nat
      BY <1>1, <1>2 DEF ChoiceStates
    <3>3. choice' = [phase |-> "asking", since |-> choice.since, left |-> Tail(choice.left)]
      <4> DEFINE s == choice.since  q == choice.left
      <4>1. choice = [phase |-> "asking", since |-> s, left |-> q]
        BY <3>2
      <4>2. choice' = [choice EXCEPT !.left = Tail(q)]
        BY <2>1
      <4> HIDE DEF s, q
      <4> QED BY <4>1, <4>2
    <3> QED BY <3>1, <3>2, <3>3 DEF ChoiceStates
  <2>3. choice.since \in Nat /\ choice.since <= now
    BY <1>1, <1>2 DEF LanesInv, noChoice, ChoiceStates
  <2>4. Earned(l)
    <3> SUFFICES ASSUME lane[l] = "with" PROVE withSince[l] + ModelTTL > choice.since
      BY DEF Earned
    <3>1. Believed(l) /\ cached[l] = "without"
      BY <1>2, <1>5 DEF ModelsOf, Believed, LanesInv, LaneTypes
    <3>2. now < cachedAt[l] + ModelTTL /\ cachedAt[l] <= withSince[l]
      BY <1>2, <3>1 DEF Believed, LanesInv
    <3>3. now \in Nat /\ cachedAt[l] \in Nat /\ withSince[l] \in Nat /\ ModelTTL \in Nat
      BY <1>2, LanesAssumption DEF LanesInv, LaneTypes
    <3> QED BY <2>3, <3>2, <3>3
  <2>5. \A k \in Lanes : Left(k)' \/ Earned(k)'
    <3> SUFFICES ASSUME NEW k \in Lanes, ~Earned(k) PROVE Left(k)'
      BY <1>1, <2>2 DEF Earned
    <3>1. PICK i \in 1..Len(choice.left) : choice.left[i] = k
      BY <1>1 DEF LanesInv, Left
    <3>2. i # 1
      BY <1>2, <2>4, <3>1
    <3>3. i - 1 \in 1..Len(Tail(choice.left)) /\ Tail(choice.left)[i - 1] = k
      BY <1>1, <1>2, <3>1, <3>2
    <3> QED BY <2>2, <3>3 DEF Left
  <2> QED BY <1>1, <1>3, <2>2, <2>3, <2>5 DEF LanesInv, LaneTypes
<1> QED BY <1>4, <1>5

LEMMA LaneBecomesKeeps ==
  ASSUME LanesInv, NEW l \in Lanes, NEW condition \in Conditions, LaneBecomes(l, condition)
  PROVE  LanesInv'
<1>1. /\ lane' = [lane EXCEPT ![l] = condition]
      /\ withSince' = [withSince EXCEPT ![l] = IF condition = "with" THEN now ELSE 0]
      /\ UNCHANGED << now, cached, cachedAt, route, routeAt, choice >>
  BY DEF LaneBecomes
<1>2. LaneTypes' /\ \A k \in Lanes : withSince'[k] <= now /\ cachedAt'[k] <= now
  BY <1>1 DEF LanesInv, LaneTypes
<1>3. \A k \in Lanes : cached'[k] = "without" /\ lane'[k] = "with" => cachedAt'[k] <= withSince'[k]
  BY <1>1 DEF LanesInv, LaneTypes
<1>4. ASSUME NEW k \in Lanes, choice # noChoice PROVE Earned(k) => Earned(k)'
  <2>1. choice.since \in Nat /\ choice.since <= now
    BY <1>4 DEF LanesInv, LaneTypes, ChoiceStates
  <2> QED BY <1>1, <2>1, LanesAssumption DEF LanesInv, LaneTypes, Earned
<1>5. \A k \in Lanes : Left(k)' <=> Left(k)
  BY <1>1 DEF Left
<1>6. choice.phase \in {"asking", "refused"} => choice # noChoice
  BY DEF noChoice
<1> QED BY <1>1, <1>2, <1>3, <1>4, <1>5, <1>6 DEF LanesInv

\* A model is only reported as not available when no lane has served it since
\* a ModelTTL before the request: for any lanes, any recommendations and any
\* requests of others that fill the caches while the lanes are asked.
THEOREM RefusedModelsAreMissing == LanesSpec => []UnavailableIsEarned
<1> USE ClockAssumption, LanesAssumption
<1>1. LanesInit => LanesInv
  BY DEF LanesInit, LanesInv, LaneTypes, noChoice
<1>2. LanesInv /\ [LanesNext]_laneVars => LanesInv'
  <2> SUFFICES ASSUME LanesInv, [LanesNext]_laneVars PROVE LanesInv'
    OBVIOUS
  <2>1. CASE Passes /\ UNCHANGED << lane, withSince, cached, cachedAt, route, routeAt, choice >>
    <3>1. choice # noChoice => choice.since \in Nat
      BY DEF LanesInv, LaneTypes, ChoiceStates
    <3>2. now \in Nat /\ now' = now + 1
      BY <2>1 DEF Passes, LanesInv, LaneTypes
    <3>3. LaneTypes'
      BY <2>1, <3>2 DEF LanesInv, LaneTypes, ChoiceStates
    <3>4. \A l \in Lanes : withSince[l] <= now' /\ cachedAt[l] <= now'
      BY <3>2 DEF LanesInv, LaneTypes
    <3>5. choice # noChoice => choice.since <= now'
      BY <3>1, <3>2 DEF LanesInv
    <3> QED BY <2>1, <3>3, <3>4, <3>5 DEF LanesInv, Left, Earned
  <2>2. CASE \E l \in Lanes, condition \in Conditions : LaneBecomes(l, condition)
    BY <2>2, LaneBecomesKeeps
  <2>3. CASE \E healthy \in SUBSET Lanes, advice \in Advice : StartChoice(healthy, advice)
    BY <2>3, StartKeeps
  <2>4. CASE Ask
    BY <2>4, AskKeeps
  <2>5. CASE GiveUp
    <3>1. /\ choice \in ChoiceStates /\ choice' = [choice EXCEPT !.phase = "refused"] /\ choice.left = << >>
          /\ choice.phase = "asking" /\ choice # noChoice
          /\ UNCHANGED << now, lane, withSince, cached, cachedAt, route, routeAt >>
      BY <2>5 DEF GiveUp, LanesInv, LaneTypes, noChoice
    <3>2. choice' \in ChoiceStates /\ choice'.since = choice.since /\ choice'.phase = "refused"
      BY <3>1 DEF ChoiceStates
    <3>3. \A l \in Lanes : Earned(l)
      BY <3>1 DEF LanesInv, Left
    <3> QED BY <3>1, <3>2, <3>3 DEF LanesInv, LaneTypes, Earned
  <2>6. CASE Answered
    BY <2>6 DEF Answered, LanesInv, LaneTypes, noChoice
  <2>7. CASE \E l \in Lanes : AnotherAsks(l)
    <3>1. PICK l \in Lanes : AnotherAsks(l)
      BY <2>7
    <3>2. CacheAfter(l) /\ UNCHANGED << now, lane, withSince, route, routeAt, choice >>
      BY <3>1 DEF AnotherAsks
    <3>3. /\ cached' \in [Lanes -> {"empty", "with", "without"}] /\ cachedAt' \in [Lanes -> Nat]
          /\ \A k \in Lanes : cachedAt'[k] <= now
          /\ \A k \in Lanes : cached'[k] = "without" /\ lane[k] = "with" => cachedAt'[k] <= withSince[k]
      BY <3>2, CachesKeep
    <3> QED BY <3>2, <3>3 DEF LanesInv, LaneTypes, Left, Earned
  <2>8. CASE UNCHANGED laneVars
    BY <2>8 DEF laneVars, LanesInv, LaneTypes, Left, Earned
  <2> QED BY <2>1, <2>2, <2>3, <2>4, <2>5, <2>6, <2>7, <2>8 DEF LanesNext
<1>3. LanesInv => UnavailableIsEarned
  BY DEF LanesInv, UnavailableIsEarned, Earned
<1> QED BY <1>1, <1>2, <1>3, PTL DEF LanesSpec

-----------------------------------------------------------------------------
(* The disk forecast                                                       *)

Runners == Loops \union Handlers
Sample == [ts : Nat, value : Nat]
RunStates == [stage : {"idle", "measured", "loaded", "writing"}, on : {"disk", "risk"},
              value : Nat, since : Nat, copy : Seq(Sample), rank : Nat]

\* the disk has been as full as x says within a forecast's time of its stamp
Backed(x, full) == \E t \in 0..x.ts : x.ts - Slowest <= t /\ x.value \in full[t]

InOrderOfStamps(q) == \A i, k \in 1..Len(q) : i <= k => q[i].ts <= q[k].ts

\* what a journal, and a copy of it, is
History(j, q, at, full) ==
  /\ q \in Seq(Sample) /\ InOrderOfStamps(q)
  /\ \A i \in 1..Len(q) : q[i].ts <= at /\ (j = "disk" => Backed(q[i], full))

ForecastTypes ==
  /\ now \in 0..MaxTime /\ percent \in Percents
  /\ held \in [0..MaxTime -> SUBSET Percents] /\ percent \in held[now]
  /\ DOMAIN journal = {"disk", "risk"} /\ journal = [j \in {"disk", "risk"} |-> journal[j]]
  /\ runs \in [Runners -> RunStates]

\* A forecast under way is in time, its reading was true when it was taken,
\* and its copy is a history as good as the journal's.
InTime(run, at, full) ==
  run.stage # "idle" =>
    /\ run.since <= at /\ at <= run.since + Slowest
    /\ run.on = "disk" => run.value \in full[run.since]
    /\ History(run.on, run.copy, at, full)

ForecastInv ==
  /\ ForecastTypes
  /\ \A j \in {"disk", "risk"} : \A q \in journal[j] : History(j, q, now, held)
  /\ \A r \in Runners : InTime(runs[r], now, held)

\* Time passes and the disk fills: nothing that was true of it is lost.
Later ==
  /\ now' \in 0..MaxTime /\ now <= now' /\ percent' \in Percents
  /\ held' \in [0..MaxTime -> SUBSET Percents] /\ percent' \in held'[now']
  /\ \A t \in 0..now : held[t] \subseteq held'[t]

LEMMA HistoryLasts ==
  ASSUME ForecastTypes, Later, NEW j, NEW q, History(j, q, now, held)
  PROVE  History(j, q, now', held')
<1>1. now \in Nat /\ now' \in Nat /\ now <= now'
  BY ClockAssumption DEF ForecastTypes, Later
<1>2. ASSUME NEW i \in 1..Len(q) PROVE q[i].ts <= now' /\ (j = "disk" => Backed(q[i], held'))
  <2>1. q[i].ts <= now /\ q[i].ts \in Nat /\ (j = "disk" => Backed(q[i], held))
    <3>1. q[i] \in Sample /\ q[i].ts <= now /\ (j = "disk" => Backed(q[i], held))
      BY <1>2 DEF History
    <3> QED BY <3>1 DEF Sample
  <2>2. \A t \in 0..q[i].ts : held[t] \subseteq held'[t]
    BY <1>1, <2>1 DEF Later
  <2> QED BY <1>1, <2>1, <2>2 DEF Backed
<1>3. q \in Seq(Sample) /\ InOrderOfStamps(q)
  BY DEF History, InOrderOfStamps
<1> QED BY <1>2, <1>3 DEF History, Sample

LEMMA NothingIsHistory == ASSUME NEW j, NEW at, NEW full PROVE History(j, << >>, at, full)
BY DEF History, InOrderOfStamps

\* What a forecast reads is a history, a file that cannot be read the empty one.
LEMMA SamplesAreHistory ==
  ASSUME ForecastInv, NEW j \in {"disk", "risk"}
  PROVE  History(j, Samples(j), now, held)
<1>1. CASE journal[j] = {}
  BY <1>1, NothingIsHistory DEF Samples
<1>2. CASE journal[j] # {}
  <2>1. Samples(j) \in journal[j]
    BY <1>2 DEF Samples
  <2> QED BY <2>1 DEF ForecastInv
<1> QED BY <1>1, <1>2

LEMMA RankIsNat == ASSUME NEW value, NEW samples PROVE Rank(value, samples) \in Nat
BY DEF Rank

\* A sample stamped now comes last.
LEMMA AppendedIsHistory ==
  ASSUME ForecastInv, NEW r \in Runners, runs[r].stage # "idle"
  PROVE  History(runs[r].on, Append(runs[r].copy, Stamped(runs[r])), now, held)
<1> DEFINE q == runs[r].copy
           x == Stamped(runs[r])
           p == Append(q, x)
<1>1. /\ runs[r] \in RunStates /\ now \in Nat /\ Slowest \in Nat /\ runs[r].since \in Nat
      /\ runs[r].since <= now /\ now <= runs[r].since + Slowest
      /\ runs[r].on = "disk" => runs[r].value \in held[runs[r].since]
      /\ History(runs[r].on, q, now, held)
  BY ForecastAssumption, ClockAssumption DEF ForecastInv, ForecastTypes, InTime, RunStates
<1>2. x \in Sample /\ x.ts = now /\ x.value = runs[r].value
  BY <1>1 DEF Stamped, Sample, RunStates
<1>3. runs[r].on = "disk" => Backed(x, held)
  <2>1. runs[r].since \in 0..x.ts /\ x.ts - Slowest <= runs[r].since
    BY <1>1, <1>2
  <2> QED BY <1>1, <1>2, <2>1 DEF Backed
<1>4. q \in Seq(Sample) /\ \A i \in 1..Len(q) : q[i].ts <= now /\ q[i].ts \in Nat
  <2>1. q \in Seq(Sample) /\ \A i \in 1..Len(q) : q[i].ts <= now /\ q[i] \in Sample
    BY <1>1 DEF History
  <2> QED BY <2>1 DEF Sample
<1> HIDE DEF x, q
<1>5. p \in Seq(Sample) /\ Len(p) = Len(q) + 1 /\ Len(q) \in Nat
      /\ \A i \in 1..Len(p) : p[i] = IF i = Len(q) + 1 THEN x ELSE q[i]
  BY <1>2, <1>4
<1> HIDE DEF p
<1>6. InOrderOfStamps(p)
  <2> SUFFICES ASSUME NEW i \in 1..Len(p), NEW k \in 1..Len(p), i <= k PROVE p[i].ts <= p[k].ts
    BY DEF InOrderOfStamps
  <2>1. CASE k = Len(q) + 1
    BY <1>1, <1>2, <1>4, <1>5, <2>1
  <2>2. CASE k # Len(q) + 1
    <3>1. i \in 1..Len(q) /\ k \in 1..Len(q) /\ p[i] = q[i] /\ p[k] = q[k]
      BY <1>5, <2>2
    <3> QED BY <1>1, <3>1 DEF History, InOrderOfStamps
  <2> QED BY <2>1, <2>2
<1>7. \A i \in 1..Len(p) : p[i].ts <= now /\ (runs[r].on = "disk" => Backed(p[i], held))
  <2> SUFFICES ASSUME NEW i \in 1..Len(p) PROVE p[i].ts <= now /\ (runs[r].on = "disk" => Backed(p[i], held))
    OBVIOUS
  <2>1. CASE i = Len(q) + 1
    BY <1>1, <1>2, <1>3, <1>5, <2>1
  <2>2. CASE i # Len(q) + 1
    BY <1>1, <1>5, <2>2 DEF History
  <2> QED BY <2>1, <2>2
<1>8. History(runs[r].on, p, now, held)
  BY <1>5, <1>6, <1>7 DEF History
<1> QED BY <1>8 DEF p, q, x

\* The latest samples of a history are one.
LEMMA LatestIsHistory ==
  ASSUME NEW j, NEW q, NEW at, NEW full, History(j, q, at, full)
  PROVE  History(j, Latest(q), at, full)
<1> DEFINE from == Max({1, Len(q) - Keep + 1})
<1>1. q \in Seq(Sample) /\ Len(q) \in Nat /\ Keep \in Nat \ {0}
  BY ForecastAssumption DEF History
<1>2. from \in Nat /\ from >= 1 /\ from <= Len(q) + 1
  <2> DEFINE S == {1, Len(q) - Keep + 1}
  <2>1. IsFiniteSet(S) /\ S # {} /\ \A x \in S : x \in Int
    <3> DEFINE n == Len(q) - Keep + 1
    <3>1. IsFiniteSet({1})
      BY FS_Singleton
    <3>2. IsFiniteSet({1} \union {n})
      BY <3>1, FS_AddElement
    <3>3. S = {1} \union {n}
      OBVIOUS
    <3>4. IsFiniteSet(S)
      BY <3>2, <3>3
    <3> QED BY <1>1, <3>4
  <2>2. Max(S) \in S /\ \A x \in S : x <= Max(S)
    BY <2>1, GreatestIsElement
  <2> QED BY <1>1, <2>2
<1>3. Latest(q) = SubSeq(q, from, Len(q))
  BY DEF Latest
<1> HIDE DEF from
<1>4. Latest(q) \in Seq(Sample) /\ Len(Latest(q)) = Len(q) - from + 1
      /\ \A i \in 1..Len(Latest(q)) : Latest(q)[i] = q[from + i - 1] /\ from + i - 1 \in 1..Len(q)
  BY <1>1, <1>2, <1>3
<1>5. InOrderOfStamps(Latest(q))
  <2> SUFFICES ASSUME NEW i \in 1..Len(Latest(q)), NEW k \in 1..Len(Latest(q)), i <= k
               PROVE  Latest(q)[i].ts <= Latest(q)[k].ts
    BY DEF InOrderOfStamps
  <2>1. from + i - 1 \in 1..Len(q) /\ from + k - 1 \in 1..Len(q) /\ from + i - 1 <= from + k - 1
    BY <1>2, <1>4
  <2>2. q[from + i - 1].ts <= q[from + k - 1].ts
    BY <2>1 DEF History, InOrderOfStamps
  <2> QED BY <1>4, <2>2
<1> QED BY <1>4, <1>5 DEF History

LEMMA RunIs ==
  ASSUME NEW run \in RunStates
  PROVE  /\ run = [stage |-> run.stage, on |-> run.on, value |-> run.value, since |-> run.since,
                   copy |-> run.copy, rank |-> run.rank]
         /\ run.stage \in {"idle", "measured", "loaded", "writing"} /\ run.on \in {"disk", "risk"}
         /\ run.value \in Nat /\ run.since \in Nat /\ run.copy \in Seq(Sample) /\ run.rank \in Nat
BY DEF RunStates

\* What the steps make of a forecast's record.
LEMMA RunOpened ==
  ASSUME NEW run \in RunStates, NEW s, NEW c
  PROVE  [run EXCEPT !.stage = s, !.copy = c]
           = [stage |-> s, on |-> run.on, value |-> run.value, since |-> run.since, copy |-> c, rank |-> run.rank]
<1> DEFINE a == [run EXCEPT !.stage = s]
<1>1. a = [stage |-> s, on |-> run.on, value |-> run.value, since |-> run.since,
           copy |-> run.copy, rank |-> run.rank]
  BY RunIs
<1>2. [a EXCEPT !.copy = c]
        = [stage |-> s, on |-> run.on, value |-> run.value, since |-> run.since, copy |-> c, rank |-> run.rank]
  <2> HIDE DEF a
  <2> QED BY <1>1
<1> QED BY <1>2, Zenon

LEMMA RunLoaded ==
  ASSUME NEW run \in RunStates, NEW s, NEW c, NEW k
  PROVE  [run EXCEPT !.stage = s, !.copy = c, !.rank = k]
           = [stage |-> s, on |-> run.on, value |-> run.value, since |-> run.since, copy |-> c, rank |-> k]
<1> DEFINE b == [run EXCEPT !.stage = s, !.copy = c]
<1>1. b = [stage |-> s, on |-> run.on, value |-> run.value, since |-> run.since, copy |-> c, rank |-> run.rank]
  BY RunOpened
<1>2. [b EXCEPT !.rank = k]
        = [stage |-> s, on |-> run.on, value |-> run.value, since |-> run.since, copy |-> c, rank |-> k]
  <2> HIDE DEF b
  <2> QED BY <1>1
<1> QED BY <1>2, Zenon

LEMMA IdleIs == idle \in RunStates /\ \A at, full : InTime(idle, at, full)
BY DEF idle, RunStates, InTime

\* A step that moves one forecast on: the disk and the clock stand still.
Still == UNCHANGED << now, percent, held >>

LEMMA OneRunKeeps ==
  ASSUME ForecastInv, Still, NEW r \in Runners, NEW run \in RunStates, InTime(run, now, held),
         runs' = [runs EXCEPT ![r] = run],
         DOMAIN journal' = {"disk", "risk"} /\ journal' = [j \in {"disk", "risk"} |-> journal'[j]],
         \A j \in {"disk", "risk"} : \A q \in journal'[j] : History(j, q, now, held)
  PROVE  ForecastInv'
<1>1. runs' \in [Runners -> RunStates] /\ \A s \in Runners : runs'[s] = run \/ runs'[s] = runs[s]
  BY DEF ForecastInv, ForecastTypes
<1>2. ForecastTypes'
  BY <1>1 DEF Still, ForecastInv, ForecastTypes
<1>3. \A s \in Runners : InTime(runs'[s], now', held')
  BY <1>1 DEF Still, ForecastInv
<1>4. \A j \in {"disk", "risk"} : \A q \in journal'[j] : History(j, q, now', held')
  BY DEF Still
<1> QED BY <1>2, <1>3, <1>4 DEF ForecastInv

LEMMA MeasureKeeps == ASSUME ForecastInv, NEW r \in Runners, Measure(r) PROVE ForecastInv'
<1> DEFINE run == Measured("disk", percent, now, 0)
<1>1. runs' = [runs EXCEPT ![r] = run] /\ Still /\ UNCHANGED journal
  BY DEF Measure, Still
<1>2. run = [stage |-> "measured", on |-> "disk", value |-> percent, since |-> now, copy |-> << >>, rank |-> 0]
  BY DEF Measured
<1>3. now \in Nat /\ percent \in Nat /\ Slowest \in Nat /\ percent \in held[now]
  <2>1. percent \in 0..100 /\ Slowest \in Nat /\ percent \in held[now]
    BY ForecastAssumption DEF ForecastInv, ForecastTypes
  <2>2. now \in 0..MaxTime
    BY DEF ForecastInv, ForecastTypes
  <2> QED BY <2>1, <2>2, ClockAssumption
<1> HIDE DEF run
<1>4. run \in RunStates
  BY <1>2, <1>3 DEF RunStates
<1>5. InTime(run, now, held)
  BY <1>2, <1>3, NothingIsHistory DEF InTime
<1> QED BY <1>1, <1>4, <1>5, OneRunKeeps DEF ForecastInv, ForecastTypes

LEMMA LoadKeeps == ASSUME ForecastInv, NEW r \in Runners, Load(r) PROVE ForecastInv'
<1> DEFINE old == runs[r]
           rank == IF old.on = "disk" THEN Rank(old.value, Samples("disk")) ELSE old.rank
           run == [old EXCEPT !.stage = "loaded", !.copy = Samples(old.on), !.rank = rank]
<1>1. runs' = [runs EXCEPT ![r] = run] /\ Still /\ UNCHANGED journal /\ old.stage = "measured"
  BY DEF Load, Still
<1>2. old \in RunStates /\ InTime(old, now, held)
  BY DEF ForecastInv, ForecastTypes
<1>3. old.on \in {"disk", "risk"} /\ rank \in Nat
  BY <1>2, RunIs, RankIsNat
<1>4. History(old.on, Samples(old.on), now, held)
  BY <1>3, SamplesAreHistory
<1>5. run = [stage |-> "loaded", on |-> old.on, value |-> old.value, since |-> old.since,
             copy |-> Samples(old.on), rank |-> rank]
  <2> DEFINE q == Samples(old.on)
  <2> HIDE DEF old, rank, q
  <2>1. [old EXCEPT !.stage = "loaded", !.copy = q, !.rank = rank]
          = [stage |-> "loaded", on |-> old.on, value |-> old.value, since |-> old.since,
             copy |-> q, rank |-> rank]
    BY <1>2, RunLoaded
  <2> QED BY <2>1 DEF q
<1> HIDE DEF old, rank, run
<1>6. run \in RunStates
  BY <1>2, <1>3, <1>4, <1>5, RunIs DEF RunStates, History
<1>7. InTime(run, now, held)
  BY <1>1, <1>2, <1>4, <1>5 DEF InTime
<1> QED BY <1>1, <1>6, <1>7, OneRunKeeps DEF ForecastInv, ForecastTypes

LEMMA OpenKeeps == ASSUME ForecastInv, NEW r \in Runners, Open(r) PROVE ForecastInv'
<1> DEFINE old == runs[r]
           p == Append(old.copy, Stamped(old))
           run == [old EXCEPT !.stage = "writing", !.copy = p]
<1>1. /\ runs' = [runs EXCEPT ![r] = run] /\ Still /\ old.stage = "loaded"
      /\ journal' = [journal EXCEPT ![old.on] = {}]
  BY DEF Open, Still
<1>2. old \in RunStates /\ InTime(old, now, held)
  BY DEF ForecastInv, ForecastTypes
<1>3. History(old.on, p, now, held)
  BY <1>1, AppendedIsHistory
<1>4. run = [stage |-> "writing", on |-> old.on, value |-> old.value, since |-> old.since,
             copy |-> p, rank |-> old.rank]
  BY <1>2, RunOpened
<1> HIDE DEF old, p, run
<1>5. run \in RunStates
  BY <1>2, <1>3, <1>4, RunIs DEF RunStates, History
<1>6. InTime(run, now, held)
  BY <1>1, <1>2, <1>3, <1>4 DEF InTime
<1>7. \A j \in {"disk", "risk"} : journal'[j] = {} \/ journal'[j] = journal[j]
  BY <1>1 DEF ForecastInv, ForecastTypes
<1>8. DOMAIN journal' = {"disk", "risk"} /\ journal' = [j \in {"disk", "risk"} |-> journal'[j]]
  BY <1>1 DEF ForecastInv, ForecastTypes
<1>9. \A j \in {"disk", "risk"} : \A q \in journal'[j] : History(j, q, now, held)
  BY <1>7 DEF ForecastInv
<1> QED BY <1>1, <1>5, <1>6, <1>8, <1>9, OneRunKeeps

LEMMA StoreKeeps ==
  ASSUME ForecastInv, NEW r \in Runners, NEW failed \in BOOLEAN, Store(r, failed)
  PROVE  ForecastInv'
<1> DEFINE old == runs[r]
           next == Measured("risk", old.rank, old.since, old.rank)
           run == IF r \in Handlers /\ old.on = "disk" THEN next ELSE idle
<1>1. /\ runs' = [runs EXCEPT ![r] = run] /\ Still /\ old.stage = "writing"
      /\ journal' = IF failed THEN journal ELSE [journal EXCEPT ![old.on] = {Latest(old.copy)}]
  BY DEF Store, Still
<1>2. old \in RunStates /\ InTime(old, now, held)
  BY DEF ForecastInv, ForecastTypes
<1>3. next = [stage |-> "measured", on |-> "risk", value |-> old.rank, since |-> old.since,
              copy |-> << >>, rank |-> old.rank]
  BY DEF Measured
<1> HIDE DEF old, next
<1>4. next \in RunStates
  BY <1>2, <1>3, RunIs DEF RunStates
<1>5. InTime(next, now, held)
  BY <1>1, <1>2, <1>3, NothingIsHistory DEF InTime
<1>6. run \in RunStates /\ InTime(run, now, held)
  BY <1>4, <1>5, IdleIs
<1> HIDE DEF run
<1>7. History(old.on, Latest(old.copy), now, held) /\ old.on \in {"disk", "risk"}
  BY <1>1, <1>2, LatestIsHistory, RunIs DEF InTime
<1>8. \A j \in {"disk", "risk"} : journal'[j] = journal[j] \/ (j = old.on /\ journal'[j] = {Latest(old.copy)})
  BY <1>1, <1>7 DEF ForecastInv, ForecastTypes
<1>9. DOMAIN journal' = {"disk", "risk"} /\ journal' = [j \in {"disk", "risk"} |-> journal'[j]]
  BY <1>1 DEF ForecastInv, ForecastTypes
<1>10. \A j \in {"disk", "risk"} : \A q \in journal'[j] : History(j, q, now, held)
  BY <1>7, <1>8 DEF ForecastInv
<1> QED BY <1>1, <1>6, <1>9, <1>10, OneRunKeeps

\* Time passes, or the disk fills, and everything else stands still.
LEMMA LaterKeeps ==
  ASSUME ForecastInv, Later, UNCHANGED << journal, runs >>,
         \A r \in Runners : runs[r].stage # "idle" => now' <= runs[r].since + Slowest
  PROVE  ForecastInv'
<1>1. ForecastTypes'
  BY DEF ForecastInv, ForecastTypes, Later
<1>2. \A j, q : History(j, q, now, held) => History(j, q, now', held')
  BY HistoryLasts DEF ForecastInv
<1>3. ASSUME NEW r \in Runners, runs[r].stage # "idle"
      PROVE  /\ runs[r].since <= now' /\ now' <= runs[r].since + Slowest
             /\ runs[r].on = "disk" => runs[r].value \in held'[runs[r].since]
             /\ History(runs[r].on, runs[r].copy, now', held')
  <2>1. /\ runs[r].since <= now /\ runs[r].since \in Nat
        /\ runs[r].on = "disk" => runs[r].value \in held[runs[r].since]
        /\ History(runs[r].on, runs[r].copy, now, held)
    <3>1. InTime(runs[r], now, held) /\ runs[r] \in RunStates
      BY DEF ForecastInv, ForecastTypes
    <3> QED BY <1>3, <3>1, RunIs DEF InTime
  <2>2. now \in Nat /\ now' \in Nat /\ now <= now' /\ held[runs[r].since] \subseteq held'[runs[r].since]
    BY <2>1, ClockAssumption DEF ForecastInv, ForecastTypes, Later
  <2> QED BY <1>2, <1>3, <2>1, <2>2
<1>4. \A r \in Runners : InTime(runs[r], now', held')
  BY <1>3 DEF InTime
<1> QED BY <1>1, <1>2, <1>4 DEF ForecastInv

LEMMA ForecastKeeps == ForecastInv /\ [ForecastNext]_forecastVars => ForecastInv'
<1> SUFFICES ASSUME ForecastInv, [ForecastNext]_forecastVars PROVE ForecastInv'
  OBVIOUS
<1>0. now \in 0..MaxTime /\ now \in Nat /\ DOMAIN runs = Runners
      /\ \A r \in Runners : runs[r].stage # "idle" => now <= runs[r].since + Slowest
  BY ClockAssumption DEF ForecastInv, ForecastTypes, InTime
<1>1. CASE TimePasses
  <2>1. now' = now + 1 /\ now' \in 0..MaxTime /\ held' = [held EXCEPT ![now'] = {percent}] /\ UNCHANGED percent
    BY <1>0, <1>1, ClockAssumption DEF TimePasses, Passes
  <2>2. Later
    BY <1>0, <2>1 DEF Later, ForecastInv, ForecastTypes
  <2>3. \A r \in Runners : runs[r].stage # "idle" => now' <= runs[r].since + Slowest
    <3> SUFFICES ASSUME NEW r \in Runners, runs[r].stage # "idle" PROVE now' <= runs[r].since + Slowest
      OBVIOUS
    <3>1. now < runs[r].since + Slowest /\ runs[r] \in RunStates
      BY <1>0, <1>1 DEF TimePasses, ForecastInv, ForecastTypes
    <3>2. runs[r].since \in Nat /\ Slowest \in Nat
      BY <3>1, RunIs, ForecastAssumption
    <3> QED BY <1>0, <2>1, <3>1, <3>2
  <2> QED BY <1>1, <2>2, <2>3, LaterKeeps DEF TimePasses
<1>2. CASE \E p \in Percents \ {percent} : DiskFills(p)
  <2>1. PICK p \in Percents : percent' = p /\ held' = [held EXCEPT ![now] = @ \union {p}]
                              /\ UNCHANGED << now, journal, runs, begun >>
    BY <1>2 DEF DiskFills
  <2>2. Later
    BY <1>0, <2>1 DEF Later, ForecastInv, ForecastTypes
  <2> QED BY <1>0, <2>1, <2>2, LaterKeeps
<1>3. CASE ForecastRestart
  <2>1. runs' = [r \in Runners |-> idle] /\ Still /\ UNCHANGED journal
    BY <1>0, <1>3 DEF ForecastRestart, Still
  <2>2. \A r \in Runners : InTime(runs'[r], now', held')
    BY <1>0, <2>1, IdleIs
  <2>3. \A j \in {"disk", "risk"} : \A q \in journal'[j] : History(j, q, now', held')
    BY <2>1 DEF ForecastInv, Still
  <2>4. ForecastTypes'
    BY <2>1, IdleIs DEF Still, ForecastInv, ForecastTypes
  <2> QED BY <2>2, <2>3, <2>4 DEF ForecastInv
<1>4. CASE \E r \in Loops \union Handlers :
             Measure(r) \/ Load(r) \/ Open(r) \/ \E failed \in BOOLEAN : Store(r, failed)
  BY <1>4, MeasureKeeps, LoadKeeps, OpenKeeps, StoreKeeps DEF Runners
<1>5. CASE UNCHANGED forecastVars
  <2>1. Still /\ UNCHANGED << journal, runs >>
    BY <1>5 DEF forecastVars, Still
  <2> QED BY <2>1 DEF ForecastInv, ForecastTypes, Still
<1> QED BY <1>1, <1>2, <1>3, <1>4, <1>5 DEF ForecastNext

-----------------------------------------------------------------------------
Inside(q, span) == {i \in DOMAIN q : q[i].ts >= now - span}
ValuesOf(q, I) == {q[i].value : i \in I}

LEMMA InsideIsFinite ==
  ASSUME NEW q \in Seq(Sample), NEW span
  PROVE  /\ IsFiniteSet(Inside(q, span)) /\ Inside(q, span) \subseteq 1..Len(q)
         /\ IsFiniteSet(ValuesOf(q, Inside(q, span)))
         /\ \A x \in ValuesOf(q, Inside(q, span)) : x \in Int
<1>1. DOMAIN q = 1..Len(q) /\ Len(q) \in Nat
  OBVIOUS
<1>2. IsFiniteSet(1..Len(q)) /\ Inside(q, span) \subseteq 1..Len(q)
  BY <1>1, FS_Interval DEF Inside
<1>3. IsFiniteSet(Inside(q, span))
  BY <1>2, FS_Subset
<1> DEFINE I == Inside(q, span)
           f == [i \in I |-> q[i].value]
<1>4. IsFiniteSet({f[i] : i \in I})
  <2> HIDE DEF I, f
  <2>1. IsFiniteSet(I)
    BY <1>3 DEF I
  <2> QED BY <2>1, ImageIsFinite
<1>5. ValuesOf(q, I) = {f[i] : i \in I}
  BY DEF ValuesOf
<1>6. \A i \in I : q[i] \in Sample
  BY <1>2
<1>7. \A x \in ValuesOf(q, I) : x \in Int
  BY <1>6 DEF ValuesOf, Sample
<1> QED BY <1>2, <1>3, <1>4, <1>5, <1>7

\* A window of a history ends in its last sample and counts those inside.
LEMMA WindowIs ==
  ASSUME NEW q \in Seq(Sample), InOrderOfStamps(q), now \in Nat, NEW span \in Nat
  PROVE  TrendWindow(q, span) =
           IF Inside(q, span) = {} THEN {}
           ELSE {[min |-> Min(ValuesOf(q, Inside(q, span))), max |-> Max(ValuesOf(q, Inside(q, span))),
                  last |-> q[Len(q)], count |-> Cardinality(Inside(q, span))]}
<1> DEFINE I == Inside(q, span)
           n == Cardinality(I)
           inside == Ascending(I)
           bucket == [i \in 1..Len(inside) |-> q[inside[i]]]
           values == {bucket[i].value : i \in DOMAIN bucket}
<1>1. TrendWindow(q, span) =
        IF bucket = << >> THEN {}
        ELSE {[min |-> Min(values), max |-> Max(values), last |-> bucket[Len(bucket)], count |-> Len(bucket)]}
  BY DEF TrendWindow, Inside
<1>2. IsFiniteSet(I) /\ I \subseteq 1..Len(q) /\ Len(q) \in Nat /\ \A i \in I : i \in Int
  BY InsideIsFinite
<1>3. Lists(inside, I) /\ n \in Nat
  BY <1>2, AscendingLists
<1>4. /\ inside \in [1..n -> I] /\ \A x \in I : \E i \in 1..n : inside[i] = x
      /\ \A i, j \in 1..n : i < j => inside[i] < inside[j]
  BY <1>3 DEF Lists
<1>5. n = 0 <=> I = {}
  BY <1>2, FS_EmptySet
<1> HIDE DEF n, inside
<1>6. Len(inside) = n
  BY <1>3, <1>4
<1>7. bucket = [i \in 1..n |-> q[inside[i]]] /\ bucket \in Seq(Sample) /\ Len(bucket) = n /\ DOMAIN bucket = 1..n
  BY <1>2, <1>3, <1>4, <1>6
<1>8. bucket = << >> <=> I = {}
  <2>1. bucket = << >> => Len(bucket) = 0
    OBVIOUS
  <2>2. bucket \in Seq(Sample) /\ Len(bucket) = n
    BY <1>7
  <2> HIDE DEF bucket
  <2>3. Len(bucket) = 0 => bucket = << >>
    BY <2>2
  <2> QED BY <1>5, <2>1, <2>2, <2>3
<1>9. values = ValuesOf(q, I)
  BY <1>4, <1>7 DEF ValuesOf
<1>10. ASSUME I # {} PROVE bucket[n] = q[Len(q)]
  <2>1. n \in 1..n /\ Len(q) \in 1..Len(q)
    BY <1>2, <1>3, <1>5, <1>10
  <2>2. Len(q) \in I
    <3>1. PICK i \in I : TRUE
      BY <1>10
    <3>2. i \in 1..Len(q) /\ q[i].ts >= now - span /\ q[i].ts <= q[Len(q)].ts
      BY <1>2, <2>1, <3>1 DEF Inside, InOrderOfStamps
    <3>3. q[i] \in Sample /\ q[Len(q)] \in Sample
      BY <2>1, <3>2
    <3>4. q[i].ts \in Nat /\ q[Len(q)].ts \in Nat
      BY <3>3 DEF Sample
    <3> QED BY <2>1, <3>2, <3>4 DEF Inside
  <2>3. PICK k \in 1..n : inside[k] = Len(q)
    BY <1>4, <2>2
  <2>4. inside[n] \in 1..Len(q)
    BY <1>2, <1>4, <2>1
  <2>5. k = n
    <3> SUFFICES ASSUME k # n PROVE FALSE
      OBVIOUS
    <3>1. k < n
      BY <1>3
    <3> QED BY <1>4, <2>1, <2>3, <2>4, <3>1
  <2> QED BY <1>7, <2>1, <2>3, <2>5
<1> HIDE DEF bucket, values, I
<1>11. TrendWindow(q, span) =
         IF I = {} THEN {}
         ELSE {[min |-> Min(ValuesOf(q, I)), max |-> Max(ValuesOf(q, I)), last |-> q[Len(q)], count |-> n]}
  BY <1>1, <1>7, <1>8, <1>9, <1>10
<1> QED BY <1>11 DEF n, I

\* A longer window of a history ends in the same sample and spans a shorter.
LEMMA WindowsNest ==
  ASSUME NEW q \in Seq(Sample), InOrderOfStamps(q), now \in Nat,
         NEW s \in Nat, NEW u \in Nat, s < u, NEW a \in TrendWindow(q, s)
  PROVE  \E b \in TrendWindow(q, u) :
           a.last = b.last /\ b.min <= a.min /\ a.max <= b.max /\ a.count <= b.count
<1> DEFINE S == Inside(q, s)  U == Inside(q, u)
           V == ValuesOf(q, S)  W == ValuesOf(q, U)
           b == [min |-> Min(W), max |-> Max(W), last |-> q[Len(q)], count |-> Cardinality(U)]
<1>1. S \subseteq U
  <2> SUFFICES ASSUME NEW i \in S PROVE i \in U
    OBVIOUS
  <2>1. i \in DOMAIN q /\ q[i] \in Sample /\ q[i].ts >= now - s
    BY DEF Inside
  <2>2. q[i].ts \in Nat
    BY <2>1 DEF Sample
  <2> QED BY <2>1, <2>2 DEF Inside
<1>2. S # {} /\ a = [min |-> Min(V), max |-> Max(V), last |-> q[Len(q)], count |-> Cardinality(S)]
  <2>1. S # {}
    BY WindowIs
  <2> QED BY <2>1, WindowIs
<1>3. TrendWindow(q, u) = {b}
  <2>1. U # {}
    BY <1>1, <1>2
  <2> QED BY <2>1, WindowIs
<1>4. IsFiniteSet(S) /\ IsFiniteSet(U) /\ IsFiniteSet(V) /\ IsFiniteSet(W)
      /\ (\A x \in V : x \in Int) /\ (\A x \in W : x \in Int)
  BY InsideIsFinite
<1>5. V # {} /\ V \subseteq W
  BY <1>1, <1>2 DEF ValuesOf
<1>6. Cardinality(S) <= Cardinality(U)
  BY <1>1, <1>4, FS_Subset
<1> HIDE DEF S, U, V, W
<1>7. Min(V) \in V /\ \A x \in W : Min(W) <= x
  <2>1. W # {}
    BY <1>5
  <2> QED BY <1>4, <1>5, <2>1, LeastIsElement
<1>8. Max(V) \in V /\ \A x \in W : x <= Max(W)
  <2>1. W # {}
    BY <1>5
  <2> QED BY <1>4, <1>5, <2>1, GreatestIsElement
<1>9. Min(W) <= Min(V) /\ Max(V) <= Max(W)
  BY <1>5, <1>7, <1>8
<1>10. a.last = b.last /\ b.min <= a.min /\ a.max <= b.max /\ a.count <= b.count
  BY <1>2, <1>6, <1>9
<1> HIDE DEF b
<1> QED BY <1>3, <1>10

\* Forecasts that overlap, fail and are cut off in the middle of a write, any
\* number of them: a journal that can be read is in the order of its stamps,
\* a sample says what the disk was within a forecast's time of its stamp, and
\* the windows of /api/trends nest.
THEOREM JournalsAreHistories == ForecastSpec => []JournalsTellTheStory
<1>1. ForecastInit => ForecastInv
  <2> SUFFICES ASSUME ForecastInit PROVE ForecastInv
    OBVIOUS
  <2>1. now = 0 /\ now \in 0..MaxTime /\ percent \in Percents
    BY ClockAssumption DEF ForecastInit
  <2>2. ForecastTypes
    BY <2>1, IdleIs DEF ForecastInit, ForecastTypes, Runners
  <2>3. \A j \in {"disk", "risk"} : \A q \in journal[j] : History(j, q, now, held)
    BY NothingIsHistory DEF ForecastInit
  <2>4. \A r \in Runners : InTime(runs[r], now, held)
    BY IdleIs DEF ForecastInit, Runners
  <2> QED BY <2>2, <2>3, <2>4 DEF ForecastInv
<1>2. ForecastInv => JournalsTellTheStory
  <2> SUFFICES ASSUME ForecastInv PROVE JournalsTellTheStory
    OBVIOUS
  <2>0. now \in Nat /\ DOMAIN journal = {"disk", "risk"}
    BY ClockAssumption DEF ForecastInv, ForecastTypes
  <2>1. \A j \in DOMAIN journal : \A samples \in journal[j] :
          \A i \in 2..Len(samples) : samples[i - 1].ts <= samples[i].ts
    <3> SUFFICES ASSUME NEW j \in {"disk", "risk"}, NEW q \in journal[j], NEW i \in 2..Len(q)
                 PROVE  q[i - 1].ts <= q[i].ts
      BY <2>0
    <3>1. q \in Seq(Sample) /\ InOrderOfStamps(q)
      BY DEF ForecastInv, History
    <3>2. i \in 1..Len(q) /\ i - 1 \in 1..Len(q) /\ i - 1 <= i
      BY <3>1
    <3> QED BY <3>1, <3>2 DEF InOrderOfStamps
  <2>2. \A samples \in journal["disk"] : \A i \in DOMAIN samples :
          \E t \in Max({0, samples[i].ts - Slowest})..samples[i].ts : samples[i].value \in held[t]
    <3> SUFFICES ASSUME NEW q \in journal["disk"], NEW i \in DOMAIN q
                 PROVE  \E t \in Max({0, q[i].ts - Slowest})..q[i].ts : q[i].value \in held[t]
      OBVIOUS
    <3>1. History("disk", q, now, held)
      BY DEF ForecastInv
    <3>2. q \in Seq(Sample) /\ i \in 1..Len(q)
      BY <3>1 DEF History
    <3>3. q[i] \in Sample /\ Backed(q[i], held)
      BY <3>1, <3>2 DEF History
    <3>4. q[i].ts \in Nat /\ Slowest \in Nat
      BY <3>3, ForecastAssumption DEF Sample
    <3>5. PICK t \in 0..q[i].ts : q[i].ts - Slowest <= t /\ q[i].value \in held[t]
      BY <3>3 DEF Backed
    <3> DEFINE m == q[i].ts - Slowest
               S == {0, m}
    <3>6. Max(S) \in S
      <4>1. IsFiniteSet({0}) /\ IsFiniteSet({0} \union {m}) /\ S = {0} \union {m}
        BY FS_Singleton, FS_AddElement
      <4>2. IsFiniteSet(S) /\ S # {} /\ \A x \in S : x \in Int
        BY <3>4, <4>1
      <4> HIDE DEF S
      <4> QED BY <4>2, GreatestIsElement
    <3>7. t \in Max(S)..q[i].ts
      BY <3>4, <3>5, <3>6
    <3> QED BY <3>5, <3>7
  <2>3. \A s, u \in Spans : s < u => \A a \in Trend(s) : \E b \in Trend(u) :
          a.last = b.last /\ b.min <= a.min /\ a.max <= b.max /\ a.count <= b.count
    <3>1. Samples("risk") \in Seq(Sample) /\ InOrderOfStamps(Samples("risk"))
      BY SamplesAreHistory DEF History
    <3> QED BY <2>0, <3>1, WindowsNest, ForecastAssumption DEF Trend
  <2> QED BY <2>1, <2>2, <2>3 DEF JournalsTellTheStory
<1> QED BY <1>1, <1>2, ForecastKeeps, PTL DEF ForecastSpec

-----------------------------------------------------------------------------
(* A tab of the page                                                       *)

\* p holds the powers of base up to n
Powers(p, base, n) == p = [i \in 0..n |-> IF i = 0 THEN 1 ELSE base * p[i - 1]]

LEMMA PowersExist == ASSUME NEW base, NEW n \in Nat PROVE \E p : Powers(p, base, n)
<1> DEFINE Q == {i \in 0..n : ~ \E p : Powers(p, base, i)}
<1> SUFFICES ASSUME Q # {} PROVE FALSE
  OBVIOUS
<1>1. IsFiniteSet(Q) /\ \A i \in Q : i \in Int
  <2>1. IsFiniteSet(0..n) /\ Q \subseteq 0..n
    BY FS_Interval
  <2> QED BY <2>1, FS_Subset
<1>2. PICK i \in Q : \A j \in Q : i <= j
  <2> HIDE DEF Q
  <2> QED BY <1>1, LeastIsElement
<1>3. i # 0
  <2>1. Powers([k \in 0..0 |-> 1], base, 0)
    BY DEF Powers
  <2> QED BY <1>2, <2>1
<1>4. i - 1 \in 0..n /\ i - 1 \notin Q
  BY <1>2, <1>3
<1>5. PICK p : Powers(p, base, i - 1)
  BY <1>4
<1> DEFINE q == [k \in 0..i |-> IF k = 0 THEN 1 ELSE base * p[k - 1]]
<1>6. \A k \in 0..(i - 1) : q[k] = p[k]
  BY <1>2, <1>5 DEF Powers
<1>7. Powers(q, base, i)
  <2>1. \A k \in 0..i : k # 0 => q[k - 1] = p[k - 1]
    <3> SUFFICES ASSUME NEW k \in 0..i, k # 0 PROVE q[k - 1] = p[k - 1]
      OBVIOUS
    <3>1. i \in Nat
      BY <1>2
    <3>2. k - 1 \in 0..(i - 1)
      BY <3>1
    <3> HIDE DEF q
    <3> QED BY <1>6, <3>2
  <2>2. q = [k \in 0..i |-> IF k = 0 THEN 1 ELSE base * q[k - 1]]
    BY <2>1
  <2> HIDE DEF q
  <2> QED BY <2>2 DEF Powers
<1> HIDE DEF q
<1> QED BY <1>2, <1>7

LEMMA PowerIsOne == ASSUME NEW base, NEW n \in Nat PROVE \E p : Powers(p, base, n) /\ Power(base, n) = p[n]
<1> DEFINE p == CHOOSE f : Powers(f, base, n)
<1>1. Powers(p, base, n)
  BY PowersExist
<1>2. Power(base, n) = p[n]
  BY DEF Power, Powers
<1> HIDE DEF p
<1> QED BY <1>1, <1>2

\* A level costs at least what the first one does.
LEMMA LevelsCost == \A level \in Nat \ {0} : XPPerLevel(level) \in Nat /\ XPPerLevel(level) >= 100
<1> SUFFICES ASSUME NEW level \in Nat \ {0} PROVE XPPerLevel(level) \in Nat /\ XPPerLevel(level) >= 100
  OBVIOUS
<1> DEFINE n == level - 1
<1>1. PICK p : Powers(p, 3, n) /\ Power(3, n) = p[n]
  BY PowerIsOne
<1>2. PICK q : Powers(q, 2, n) /\ Power(2, n) = q[n]
  BY PowerIsOne
<1>3. n \in Nat
  OBVIOUS
<1>4. XPPerLevel(level) = (100 * Power(3, n)) \div Power(2, n)
  BY DEF XPPerLevel
<1> HIDE DEF n
<1>5. p[n] \in Nat /\ q[n] \in Nat /\ p[n] >= q[n] /\ q[n] > 0
  <2> DEFINE Right(i) == p[i] \in Nat /\ q[i] \in Nat /\ p[i] >= q[i] /\ q[i] > 0
             Q == {i \in 0..n : ~Right(i)}
  <2> SUFFICES ASSUME Q # {} PROVE FALSE
    BY <1>3
  <2>1. IsFiniteSet(Q) /\ \A i \in Q : i \in Int
    <3>1. IsFiniteSet(0..n) /\ Q \subseteq 0..n
      BY <1>3, FS_Interval
    <3> QED BY <1>3, <3>1, FS_Subset
  <2>2. PICK i \in Q : \A j \in Q : i <= j
    <3> HIDE DEF Q
    <3> QED BY <2>1, LeastIsElement
  <2>3. i \in 0..n /\ ~Right(i)
    BY <2>2
  <2>4. CASE i = 0
    BY <1>1, <1>2, <1>3, <2>3, <2>4 DEF Powers
  <2>5. CASE i # 0
    <3>1. i - 1 \in 0..n /\ Right(i - 1)
      BY <1>3, <2>2, <2>3, <2>5
    <3>2. p[i] = 3 * p[i - 1] /\ q[i] = 2 * q[i - 1]
      BY <1>1, <1>2, <2>3, <2>5 DEF Powers
    <3> QED BY <2>3, <3>1, <3>2
  <2> QED BY <2>4, <2>5
<1>6. \A a, b \in Nat : a >= b /\ b > 0 => (100 * a) \div b \in Nat /\ (100 * a) \div b >= 100
  OBVIOUS
<1> QED BY <1>1, <1>2, <1>4, <1>5, <1>6

Badges == {"prompt-engineer", "first-gen", "upscale-king"}
Labels == {"own", "loading", "none"}
ButtonStates == [label : Labels, original : Labels, disabled : BOOLEAN]
Earnings == [xp : Nat, level : Nat \ {0}, badges : SUBSET Badges]

IsAction(a) ==
  /\ a = [id |-> a.id, kind |-> a.kind, stage |-> a.stage, sent |-> a.sent, files |-> a.files]
  /\ a.kind \in {"optimize", "direct", "improve", "drop", "image"}

InUse(b) == \E a \in running : b \in Uses(a)

\* The progress is that of a level that is not reached, and stored.
ProgressInv ==
  /\ progress \in Earnings /\ progress.xp < XPPerLevel(progress.level)
  /\ stored.progress = progress

\* A button that is disabled is in use; unless it was made busy while it was,
\* one in use is disabled, remembers its own label and has a single user.
ButtonsInv ==
  /\ button \in [Buttons -> ButtonStates]
  /\ \A a \in running : IsAction(a)
  /\ \A b \in Buttons : button[b].disabled => InUse(b)
  /\ \A b \in Buttons \ repeated :
       /\ InUse(b) => button[b].disabled /\ button[b].original = "own"
       /\ ~InUse(b) => button[b].label = "own"
       /\ \A a, c \in running : b \in Uses(a) /\ b \in Uses(c) => a = c

\* An award leaves a level that is not reached.
LEMMA AwardKeeps ==
  ASSUME NEW p \in Earnings, p.xp < XPPerLevel(p.level), NEW amount \in {10, 15}, NEW badge \in Badges,
         NEW q, q = Unlocked(Awarded(p, amount), badge)
  PROVE  q \in Earnings /\ q.xp < XPPerLevel(q.level)
<1> DEFINE x == XPPerLevel(p.level)  y == XPPerLevel(p.level + 1)
<1>1. p.level \in Nat \ {0} /\ p.level + 1 \in Nat \ {0} /\ p.xp \in Nat /\ p.badges \in SUBSET Badges
  BY DEF Earnings
<1>2. x \in Nat /\ x >= 100 /\ y \in Nat /\ y >= 100
  BY <1>1, LevelsCost
<1>3. p = [xp |-> p.xp, level |-> p.level, badges |-> p.badges]
  BY DEF Earnings
<1>4. CASE p.xp + amount < x
  <2>1. Awarded(p, amount) = [xp |-> p.xp + amount, level |-> p.level, badges |-> p.badges]
    BY <1>1, <1>2, <1>3, <1>4 DEF Awarded
  <2>2. q = [xp |-> p.xp + amount, level |-> p.level, badges |-> p.badges \union {badge}]
    BY <2>1 DEF Unlocked
  <2> QED BY <1>1, <1>4, <2>2 DEF Earnings
<1>5. CASE p.xp + amount >= x
  <2>1. Awarded(p, amount) = [xp |-> p.xp + amount - x, level |-> p.level + 1, badges |-> p.badges]
    <3>1. ~(p.xp + amount < x)
      BY <1>1, <1>2, <1>5
    <3> QED BY <1>1, <1>2, <3>1 DEF Awarded
  <2>2. q = [xp |-> p.xp + amount - x, level |-> p.level + 1, badges |-> p.badges \union {badge}]
    BY <2>1 DEF Unlocked
  <2>3. p.xp + amount - x \in Nat /\ p.xp + amount - x < y
    BY <1>1, <1>2, <1>5
  <2> HIDE DEF x
  <2> QED BY <1>1, <2>2, <2>3 DEF Earnings
<1> QED BY <1>1, <1>2, <1>4, <1>5

LEMMA ProgressKept == ProgressInv /\ [PageNext]_pageVars => ProgressInv'
<1> SUFFICES ASSUME ProgressInv, [PageNext]_pageVars PROVE ProgressInv'
  OBVIOUS
<1>1. ASSUME UNCHANGED << progress, stored >> \/ Progresses(progress) PROVE ProgressInv'
  BY <1>1 DEF ProgressInv, Progresses
<1>2. ASSUME NEW amount \in {10, 15}, NEW badge \in Badges, Progresses(Unlocked(Awarded(progress, amount), badge))
      PROVE  ProgressInv'
  <2>1. progress' = Unlocked(Awarded(progress, amount), badge) /\ stored'.progress = progress'
    BY <1>2 DEF Progresses
  <2>2. progress' \in Earnings /\ progress'.xp < XPPerLevel(progress'.level)
    BY <2>1, AwardKeeps DEF ProgressInv
  <2> QED BY <2>1, <2>2 DEF ProgressInv
<1>3. CASE \E keyboard \in BOOLEAN : Optimize(keyboard)
  BY <1>1, <1>3 DEF Optimize
<1>4. CASE DirectQueue \/ Improve \/ Types \/ ImageAction
  BY <1>1, <1>4 DEF DirectQueue, Improve, Types, ImageAction
<1>5. CASE Reload
  BY <1>5 DEF Reload, ProgressInv
<1>6. CASE \E files \in Drops : Drop(files)
  BY <1>1, <1>6 DEF Drop
<1>7. ASSUME NEW a \in running, NEW ok \in BOOLEAN,
             ImproveAnswers(a, ok) \/ GenerateAnswers(a, ok) \/ DropAnswers(a, ok)
               \/ ImageUploaded(a, ok) \/ ImageAnswers(a, ok)
      PROVE  ProgressInv'
  <2>1. CASE ImproveAnswers(a, ok)
    <3>1. Progresses(Unlocked(Awarded(progress, 10), "prompt-engineer")) \/ UNCHANGED << progress, stored >>
      BY <2>1 DEF ImproveAnswers
    <3> QED BY <1>1, <1>2, <3>1 DEF Badges
  <2>2. CASE GenerateAnswers(a, ok)
    <3>1. Progresses(Unlocked(Awarded(progress, 15), "first-gen"))
      BY <2>2 DEF GenerateAnswers
    <3> QED BY <1>2, <3>1 DEF Badges
  <2>3. CASE DropAnswers(a, ok) \/ ImageUploaded(a, ok)
    BY <1>1, <2>3 DEF DropAnswers, ImageUploaded
  <2>4. CASE ImageAnswers(a, ok)
    <3>1. Progresses(Unlocked(Awarded(progress, 15), "upscale-king")) \/ UNCHANGED << progress, stored >>
      BY <2>4 DEF ImageAnswers
    <3> QED BY <1>1, <1>2, <3>1 DEF Badges
  <2> QED BY <1>7, <2>1, <2>2, <2>3, <2>4
<1>8. CASE UNCHANGED pageVars
  BY <1>1, <1>8 DEF pageVars
<1> QED BY <1>3, <1>4, <1>5, <1>6, <1>7, <1>8 DEF PageNext

-----------------------------------------------------------------------------
LEMMA BusyIs ==
  ASSUME NEW s \in ButtonStates
  PROVE  Busy(s) \in ButtonStates /\ Busy(s).disabled /\ Busy(s).original = s.label
BY DEF Busy, ButtonStates, Labels

LEMMA ReadyIs ==
  ASSUME NEW s \in ButtonStates
  PROVE  Ready(s) \in ButtonStates /\ ~Ready(s).disabled /\ Ready(s).label = s.original
BY DEF Ready, ButtonStates, Labels

\* An action begins and makes the buttons it uses busy.
LEMMA BeginKeeps ==
  ASSUME ButtonsInv, NEW a, IsAction(a), running' = running \union {a},
         button' = [b \in Buttons |-> IF b \in Uses(a) THEN Busy(button[b]) ELSE button[b]],
         repeated \subseteq repeated',
         \A b \in Buttons \intersect Uses(a) : button[b].disabled => b \in repeated'
  PROVE  ButtonsInv'
<1>1. \A b \in Buttons : button[b] \in ButtonStates
  BY DEF ButtonsInv
<1>2. button' \in [Buttons -> ButtonStates]
  BY <1>1, BusyIs
<1>3. \A b \in Buttons : InUse(b)' <=> InUse(b) \/ b \in Uses(a)
  BY DEF InUse, Uses
<1>4. \A b \in Buttons : button'[b].disabled => InUse(b)'
  BY <1>3 DEF ButtonsInv
<1>5. ASSUME NEW b \in Buttons \ repeated', b \in Uses(a)
      PROVE  ~InUse(b) /\ button'[b].disabled /\ button'[b].original = "own"
  <2>1. ~InUse(b) /\ button[b].label = "own"
    BY <1>5 DEF ButtonsInv
  <2> QED BY <1>1, <1>5, <2>1, BusyIs
<1>6. ASSUME NEW b \in Buttons \ repeated', b \notin Uses(a)
      PROVE  button'[b] = button[b] /\ (InUse(b)' <=> InUse(b))
  BY <1>3, <1>6
<1>7. ASSUME NEW b \in Buttons \ repeated', NEW c \in running', NEW d \in running', b \in Uses(c), b \in Uses(d)
      PROVE  c = d
  <2>1. CASE b \in Uses(a)
    BY <1>5, <1>7, <2>1 DEF InUse
  <2>2. CASE b \notin Uses(a)
    BY <1>7, <2>2 DEF ButtonsInv
  <2> QED BY <2>1, <2>2
<1>8. \A c \in running' : IsAction(c)
  BY DEF ButtonsInv
<1>9. \A b \in Buttons \ repeated' :
       /\ InUse(b)' => button'[b].disabled /\ button'[b].original = "own"
       /\ ~InUse(b)' => button'[b].label = "own"
       /\ \A c, d \in running' : b \in Uses(c)' /\ b \in Uses(d)' => c = d
  <2> SUFFICES ASSUME NEW b \in Buttons \ repeated'
               PROVE  /\ InUse(b)' => button'[b].disabled /\ button'[b].original = "own"
                      /\ ~InUse(b)' => button'[b].label = "own"
                      /\ \A c, d \in running' : b \in Uses(c)' /\ b \in Uses(d)' => c = d
    OBVIOUS
  <2>1. \A c, d \in running' : b \in Uses(c)' /\ b \in Uses(d)' => c = d
    BY <1>7 DEF Uses
  <2>2. CASE b \in Uses(a)
    BY <1>3, <1>5, <2>1, <2>2
  <2>3. CASE b \notin Uses(a)
    <3>1. button'[b] = button[b] /\ (InUse(b)' <=> InUse(b))
      BY <1>6, <2>3
    <3> QED BY <2>1, <3>1 DEF ButtonsInv
  <2> QED BY <2>2, <2>3
<1> QED BY <1>2, <1>4, <1>8, <1>9 DEF ButtonsInv

\* a gives its buttons back, but for those that "rest" of it uses
GivesBack(a, rest) ==
  button' = [b \in Buttons |-> IF b \in Uses(a) /\ \A c \in rest : b \notin Uses(c)
                               THEN Ready(button[b]) ELSE button[b]]

\* An action ends or goes on and gives the buttons it no longer uses back.
LEMMA GoKeeps ==
  ASSUME ButtonsInv, NEW a \in running, NEW rest, \A c \in rest : IsAction(c), \A c, d \in rest : c = d,
         running' = (running \ {a}) \union rest,
         \A c \in rest : Uses(c) \subseteq Uses(a),
         GivesBack(a, rest),
         UNCHANGED repeated
  PROVE  ButtonsInv'
<1> DEFINE Gives(b) == b \in Uses(a) /\ \A c \in rest : b \notin Uses(c)
<1>1. \A b \in Buttons : button[b] \in ButtonStates
  BY DEF ButtonsInv
<1>2. button' = [b \in Buttons |-> IF Gives(b) THEN Ready(button[b]) ELSE button[b]]
  BY DEF GivesBack
<1>3. button' \in [Buttons -> ButtonStates]
  BY <1>1, <1>2, ReadyIs
<1>4. \A b \in Buttons : ~Gives(b) /\ InUse(b) => InUse(b)'
  BY DEF InUse, Uses
<1>5. \A b \in Buttons : button'[b].disabled => InUse(b)'
  BY <1>1, <1>2, <1>4, ReadyIs DEF ButtonsInv
<1>6. \A b \in Buttons : InUse(b)' => InUse(b)
  BY DEF InUse, Uses
<1>7. ASSUME NEW b \in Buttons \ repeated, Gives(b)
      PROVE  ~InUse(b)' /\ button'[b].label = "own"
  <2>1. InUse(b)
    BY <1>7 DEF InUse
  <2>2. \A c \in running : b \in Uses(c) => c = a
    BY <1>7 DEF ButtonsInv
  <2>3. ~InUse(b)'
    BY <1>7, <2>2 DEF InUse, Uses
  <2> QED BY <1>1, <1>2, <1>7, <2>1, <2>3, ReadyIs DEF ButtonsInv
<1>8. ASSUME NEW b \in Buttons \ repeated, NEW c \in running', NEW d \in running', b \in Uses(c), b \in Uses(d)
      PROVE  c = d
  BY <1>8 DEF ButtonsInv
<1>9. \A c \in running' : IsAction(c)
  BY DEF ButtonsInv
<1>10. \A b \in Buttons \ repeated' :
       /\ InUse(b)' => button'[b].disabled /\ button'[b].original = "own"
       /\ ~InUse(b)' => button'[b].label = "own"
       /\ \A c, d \in running' : b \in Uses(c)' /\ b \in Uses(d)' => c = d
  <2> SUFFICES ASSUME NEW b \in Buttons \ repeated'
               PROVE  /\ InUse(b)' => button'[b].disabled /\ button'[b].original = "own"
                      /\ ~InUse(b)' => button'[b].label = "own"
                      /\ \A c, d \in running' : b \in Uses(c)' /\ b \in Uses(d)' => c = d
    OBVIOUS
  <2>1. \A c, d \in running' : b \in Uses(c)' /\ b \in Uses(d)' => c = d
    BY <1>8 DEF Uses
  <2> HIDE DEF Gives
  <2>2. CASE Gives(b)
    BY <1>7, <2>1, <2>2
  <2>3. CASE ~Gives(b)
    <3>1. button'[b] = button[b]
      BY <1>2, <2>3
    <3>2. InUse(b)' <=> InUse(b)
      BY <1>4, <1>6, <2>3
    <3> QED BY <2>1, <3>1, <3>2 DEF ButtonsInv
  <2> QED BY <2>2, <2>3
<1> HIDE DEF Gives
<1> QED BY <1>3, <1>5, <1>9, <1>10 DEF ButtonsInv

LEMMA ActionIs ==
  ASSUME NEW kind \in {"optimize", "direct", "improve", "drop", "image"}, NEW stage, NEW files
  PROVE  /\ IsAction(Action(kind, stage, files))
         /\ Action(kind, stage, files).kind = kind /\ Action(kind, stage, files).stage = stage
BY DEF Action, IsAction

\* What an action uses, by its kind and where it has got to.
LEMMA UsesAre ==
  ASSUME NEW a
  PROVE  /\ a.kind = "optimize" => Uses(a) = {"optimize-queue"} \union (IF a.stage = "improving" THEN {"improve-prompt"} ELSE {})
         /\ a.kind = "direct" => Uses(a) = {"direct-queue"}
         /\ a.kind = "improve" => Uses(a) = {"improve-prompt"}
         /\ a.kind \in {"drop", "image"} => Uses(a) = {}
BY DEF Uses

\* An action that goes on is one of the same kind at another stage.
LEMMA GoneIs ==
  ASSUME NEW a, IsAction(a), NEW stage
  PROVE  LET c == [a EXCEPT !.stage = stage]
         IN  IsAction(c) /\ c.kind = a.kind /\ c.stage = stage
BY DEF IsAction

none == {}

LEMMA NoneIs == \A c : c \notin none
BY DEF none

LEMMA ButtonsKept == ButtonsInv /\ [PageNext]_pageVars => ButtonsInv'
<1> SUFFICES ASSUME ButtonsInv, [PageNext]_pageVars
             PROVE  ButtonsInv'
  OBVIOUS
<1>1. ASSUME NEW keyboard \in BOOLEAN, Optimize(keyboard) PROVE ButtonsInv'
  <2> DEFINE a == Action("optimize", "improving", << >>)
  <2>1. IsAction(a) /\ a.kind = "optimize" /\ a.stage = "improving"
    BY ActionIs
  <2>2. Uses(a) = {"optimize-queue", "improve-prompt"}
    BY <2>1, UsesAre
  <2>3. running' = running \union {a} /\ repeated' = repeated \union {b \in Buttons \ {"direct-queue"} : button[b].disabled}
    BY <1>1 DEF Optimize, Begins
  <2>4. button' = [b \in Buttons |-> IF b = "direct-queue" THEN button[b] ELSE Busy(button[b])]
    BY <1>1 DEF Optimize
  <2> HIDE DEF a
  <2>5. button' = [b \in Buttons |-> IF b \in Uses(a) THEN Busy(button[b]) ELSE button[b]]
    BY <2>2, <2>4 DEF Buttons
  <2>6. repeated \subseteq repeated'
    BY <2>3
  <2>7. \A b \in Buttons \intersect Uses(a) : button[b].disabled => b \in repeated'
    BY <2>2, <2>3
  <2> QED BY <2>1, <2>3, <2>5, <2>6, <2>7, BeginKeeps
<1>2. CASE DirectQueue
  <2> DEFINE a == Action("direct", "queueing", << >>)
  <2>1. IsAction(a) /\ a.kind = "direct"
    BY ActionIs
  <2>2. Uses(a) = {"direct-queue"}
    BY <2>1, UsesAre
  <2>3. running' = running \union {a} /\ UNCHANGED repeated /\ ~button["direct-queue"].disabled
        /\ button' = [button EXCEPT !["direct-queue"] = Busy(@)]
    BY <1>2 DEF DirectQueue, Begins
  <2> HIDE DEF a
  <2>4. button' = [b \in Buttons |-> IF b \in Uses(a) THEN Busy(button[b]) ELSE button[b]]
    BY <2>2, <2>3 DEF Buttons, ButtonsInv
  <2> QED BY <2>1, <2>2, <2>3, <2>4, BeginKeeps
<1>3. CASE Improve
  <2> DEFINE a == Action("improve", "improving", << >>)
  <2>1. IsAction(a) /\ a.kind = "improve"
    BY ActionIs
  <2>2. Uses(a) = {"improve-prompt"}
    BY <2>1, UsesAre
  <2>3. running' = running \union {a} /\ UNCHANGED repeated /\ ~button["improve-prompt"].disabled
        /\ button' = [button EXCEPT !["improve-prompt"] = Busy(@)]
    BY <1>3 DEF Improve, Begins
  <2> HIDE DEF a
  <2>4. button' = [b \in Buttons |-> IF b \in Uses(a) THEN Busy(button[b]) ELSE button[b]]
    BY <2>2, <2>3 DEF Buttons, ButtonsInv
  <2> QED BY <2>1, <2>2, <2>3, <2>4, BeginKeeps
<1>4. CASE Types \/ UNCHANGED pageVars
  <2>1. UNCHANGED << button, running, repeated >>
    BY <1>4 DEF Types, pageVars
  <2>2. \A b \in Buttons : InUse(b)' <=> InUse(b)
    BY <2>1 DEF InUse, Uses
  <2> QED BY <2>1, <2>2 DEF ButtonsInv, Uses
<1>5. ASSUME NEW a, IsAction(a), a.kind \in {"drop", "image"}, running' = running \union {a},
             UNCHANGED << button, repeated >>
      PROVE  ButtonsInv'
  <2>1. Uses(a) = {}
    BY <1>5, UsesAre
  <2>2. button' = [b \in Buttons |-> IF b \in Uses(a) THEN Busy(button[b]) ELSE button[b]]
    BY <1>5, <2>1 DEF ButtonsInv
  <2> QED BY <1>5, <2>1, <2>2, BeginKeeps
<1>6. CASE ImageAction
  <2>1. PICK i \in SelectedImage :
          Begins([Action("image", IF dropped[i].upload = {} THEN "uploading" ELSE "calling", << >>)
                    EXCEPT !.files = <<dropped[i]>>])
    BY <1>6 DEF ImageAction
  <2> DEFINE stage == IF dropped[i].upload = {} THEN "uploading" ELSE "calling"
             a == [Action("image", stage, << >>) EXCEPT !.files = <<dropped[i]>>]
  <2>2. IsAction(a) /\ a.kind = "image"
    <3> DEFINE d == dropped[i]
               c == Action("image", stage, << >>)
    <3>1. IsAction(c) /\ c.kind = "image"
      BY ActionIs
    <3>2. a = [c EXCEPT !.files = <<d>>]
      OBVIOUS
    <3> HIDE DEF a, c, d
    <3> QED BY <3>1, <3>2 DEF IsAction
  <2>3. running' = running \union {a} /\ UNCHANGED << button, repeated >>
    BY <1>6, <2>1 DEF ImageAction, Begins
  <2> HIDE DEF a
  <2> QED BY <1>5, <2>2, <2>3
<1>7. ASSUME NEW files \in Drops, Drop(files) PROVE ButtonsInv'
  <2>1. running' = running \union {Action("drop", "uploading", files)} /\ UNCHANGED << button, repeated >>
    BY <1>7 DEF Drop, Begins
  <2> QED BY <1>5, <2>1, ActionIs
<1>8. CASE Reload
  BY <1>8 DEF Reload, ButtonsInv, InUse, fresh, ButtonStates, Labels
<1>9. ASSUME NEW a \in running, NEW ok \in BOOLEAN, ImproveAnswers(a, ok)
      PROVE  ButtonsInv'
  <2>1. /\ a.kind \in {"optimize", "improve"} /\ a.stage = "improving" /\ UNCHANGED repeated
        /\ button' = [button EXCEPT !["improve-prompt"] = Ready(@)]
        /\ IF a.kind = "optimize" THEN Goes(a, "queueing") ELSE Finishes(a)
    BY <1>9 DEF ImproveAnswers
  <2>2. CASE a.kind = "optimize"
    <3> DEFINE c == [a EXCEPT !.stage = "queueing"]
    <3>1. IsAction(c) /\ c.kind = "optimize" /\ c.stage = "queueing"
      BY <2>2, GoneIs DEF ButtonsInv
    <3>2. running' = (running \ {a}) \union {c}
      BY <2>1, <2>2 DEF Goes
    <3> HIDE DEF c
    <3>3. Uses(a) = {"optimize-queue", "improve-prompt"} /\ Uses(c) = {"optimize-queue"}
      BY <2>1, <2>2, <3>1, UsesAre
    <3>4. GivesBack(a, {c})
      BY <2>1, <3>3 DEF GivesBack, none, Buttons, ButtonsInv
    <3>5. \A d \in {c} : Uses(d) \subseteq Uses(a)
      BY <3>3
    <3> QED BY <2>1, <3>1, <3>2, <3>4, <3>5, GoKeeps
  <2>3. CASE a.kind = "improve"
    <3>1. Uses(a) = {"improve-prompt"} /\ running' = (running \ {a}) \union none
      BY <2>1, <2>3, UsesAre DEF Finishes, none
    <3>2. GivesBack(a, none)
      BY <2>1, <3>1 DEF GivesBack, none, Buttons, ButtonsInv
    <3> QED BY <2>1, <3>1, <3>2, NoneIs, GoKeeps
  <2> QED BY <2>1, <2>2, <2>3
<1>10. ASSUME NEW a \in running, NEW ok \in BOOLEAN, GenerateAnswers(a, ok)
       PROVE  ButtonsInv'
  <2>1. /\ a.kind \in {"optimize", "direct"} /\ a.stage = "queueing" /\ UNCHANGED repeated
        /\ button' = [button EXCEPT ![QueueButton(a.kind)] = Ready(@)]
        /\ running' = (running \ {a}) \union none
    BY <1>10 DEF GenerateAnswers, WhenQueued, Finishes, none
  <2>2. Uses(a) = {QueueButton(a.kind)} /\ QueueButton(a.kind) \in Buttons
    BY <2>1, UsesAre DEF QueueButton, Buttons
  <2>3. GivesBack(a, none)
    BY <2>1, <2>2 DEF GivesBack, none, ButtonsInv
  <2> QED BY <2>1, <2>2, <2>3, NoneIs, GoKeeps
<1>11. ASSUME NEW a \in running, a.kind \in {"drop", "image"}, NEW rest,
              \A c \in rest : IsAction(c) /\ c.kind \in {"drop", "image"}, \A c, d \in rest : c = d,
              running' = (running \ {a}) \union rest, UNCHANGED << button, repeated >>
       PROVE  ButtonsInv'
  <2>1. Uses(a) = {} /\ \A c \in rest : Uses(c) = {}
    BY <1>11, UsesAre
  <2>2. GivesBack(a, rest)
    BY <1>11, <2>1 DEF GivesBack, none, ButtonsInv
  <2>3. \A c \in rest : Uses(c) \subseteq Uses(a)
    BY <2>1
  <2> QED BY <1>11, <2>2, <2>3, GoKeeps
<1>12. ASSUME NEW a \in running, NEW ok \in BOOLEAN, DropAnswers(a, ok) \/ ImageAnswers(a, ok)
       PROVE  ButtonsInv'
  <2>1. a.kind \in {"drop", "image"} /\ running' = (running \ {a}) \union none /\ UNCHANGED << button, repeated >>
    BY <1>12 DEF DropAnswers, ImageAnswers, Finishes, none
  <2> QED BY <1>11, <2>1, NoneIs
<1>13. ASSUME NEW a \in running, NEW ok \in BOOLEAN, ImageUploaded(a, ok)
       PROVE  ButtonsInv'
  <2> DEFINE own == IF ok THEN {a.files[1].file} ELSE {}
             c == [a EXCEPT !.stage = "calling", !.files = <<[@[1] EXCEPT !.upload = own]>>]
  <2>1. a.kind = "image" /\ running' = (running \ {a}) \union {c} /\ UNCHANGED << button, repeated >>
    BY <1>13 DEF ImageUploaded
  <2>2. IsAction(c) /\ c.kind = "image"
    <3> DEFINE d == [a EXCEPT !.stage = "calling"]
               files == <<[d.files[1] EXCEPT !.upload = own]>>
    <3>1. IsAction(d) /\ d.kind = "image"
      BY <2>1, GoneIs DEF ButtonsInv
    <3>2. c = [d EXCEPT !.files = files]
      OBVIOUS
    <3> HIDE DEF c, d, files
    <3> QED BY <3>1, <3>2 DEF IsAction
  <2> HIDE DEF c
  <2> QED BY <1>11, <2>1, <2>2
<1> QED BY <1>1, <1>2, <1>3, <1>4, <1>6, <1>7, <1>8, <1>9, <1>10, <1>12, <1>13 DEF PageNext

\* Whatever order the answers of a tab's requests come in, and whichever fail:
\* a disabled button belongs to an action under way, one at rest has its label
\* back unless it was made busy while it was, and the progress shown is the
\* stored one, short of the next level.
THEOREM ButtonsComeBack == PageSpec => []PageComesToRest
<1>1. PageInit => ProgressInv /\ ButtonsInv
  <2> SUFFICES ASSUME PageInit PROVE ProgressInv /\ ButtonsInv
    OBVIOUS
  <2>1. PICK x \in StartXP : progress = [xp |-> x, level |-> 1, badges |-> {}]
    BY DEF PageInit
  <2>2. XPPerLevel(1) \in Nat
    BY LevelsCost
  <2>3. ProgressInv
    BY <2>1, <2>2, PageAssumption DEF PageInit, ProgressInv, Earnings
  <2>4. ButtonsInv
    BY DEF PageInit, ButtonsInv, InUse, fresh, ButtonStates, Labels
  <2> QED BY <2>3, <2>4 DEF PageInit
<1>2. ProgressInv /\ ButtonsInv /\ [PageNext]_pageVars
        => ProgressInv' /\ ButtonsInv'
  BY ProgressKept, ButtonsKept
<1>3. ProgressInv /\ ButtonsInv => PageComesToRest
  <2> SUFFICES ASSUME ProgressInv, ButtonsInv PROVE PageComesToRest
    OBVIOUS
  <2>1. progress.xp \in 0..(XPPerLevel(progress.level) - 1)
    <3>1. progress.xp \in Nat /\ progress.level \in Nat \ {0} /\ progress.xp < XPPerLevel(progress.level)
      BY DEF ProgressInv, Earnings
    <3> QED BY <3>1, LevelsCost
  <2> QED BY <2>1 DEF PageComesToRest, ProgressInv, ButtonsInv, InUse
<1> QED BY <1>1, <1>2, <1>3, PTL DEF PageSpec

-----------------------------------------------------------------------------
(* The job ledger                                                          *)
(*                                                                         *)
(* Its file is only as good as the lists its writers and its suspended     *)
(* requests hold, so the invariant is about all of them; that an end       *)
(* ComfyUI reports is the one recorded needs Known.                        *)

Honest(list, e) == \A r \in list : r.status \in Ends => e[r.id] = r.status

Good(list) == list \subseteq Record /\ OneEach(list) /\ Honest(list, ended)

Known ==
  \A p \in Prompts :
    /\ comfy[p] \in Ends => ended[p] = comfy[p]
    /\ ended[p] # "no" => comfy[p] \in Ends \cup {"forgotten"}

ListsAreGood ==
  /\ Good(file)
  /\ \A w \in Writers : Good(writer[w].content)
  /\ \A s \in Sweeps : Good(sweep[s].others) /\ \A job \in sweep[s].job : job.status = "running"

IInv == TypeOK /\ Known /\ ListsAreGood

WriterState == [stage : {"idle", "opening", "filling"}, content : SUBSET Record]
SweepState == [at : {"idle", "ready", "asked", "writing"}, todo : SUBSET Prompts,
               others : SUBSET Record, job : SUBSET Record]

-----------------------------------------------------------------------------
(* Lists                                                                   *)

LEMMA EmptyIsGood == Good({})
BY DEF Good, OneEach, Honest

LEMMA PartIsGood ==
  ASSUME NEW list, NEW part, Good(list), part \subseteq list
  PROVE  Good(part)
BY DEF Good, OneEach, Honest

LEMMA WithJobIsGood ==
  ASSUME NEW list, NEW job \in Record, Good(list),
         job.status \in Ends => ended[job.id] = job.status
  PROVE  Good(WithJob(list, job))
<1>1. WithJob(list, job) \subseteq Record
  BY DEF WithJob, Good
<1>2. OneEach(WithJob(list, job))
  BY DEF WithJob, Good, OneEach
<1>3. Honest(WithJob(list, job), ended)
  BY DEF WithJob, Good, Honest
<1>. QED BY <1>1, <1>2, <1>3 DEF Good

LEMMA NewRecordIsGood ==
  ASSUME TypeOK, NEW p \in Prompts
  PROVE  NewRecord(p) \in Record /\ NewRecord(p).status = "running" /\ NewRecord(p).id = p
BY DEF TypeOK, NewRecord, Record

\* What a step that leaves ComfyUI alone has to show.
LEMMA ListStep ==
  ASSUME IInv, UNCHANGED << comfy, ended >>,
         Good(file'),
         writer' \in [Writers -> WriterState], \A w \in Writers : Good(writer'[w].content),
         sweep' \in [Sweeps -> SweepState],
         \A s \in Sweeps : Good(sweep'[s].others) /\ \A job \in sweep'[s].job : job.status = "running",
         queued' \subseteq Prompts, week' \in 0 .. MaxWeek, crashes' \in 0 .. MaxCrashes
  PROVE  IInv'
<1>1. TypeOK'
  BY DEF IInv, TypeOK, Good, WriterState, SweepState
<1>2. Known'
  BY DEF IInv, Known
<1>3. ListsAreGood'
  BY DEF ListsAreGood, Good, Honest, OneEach
<1>. QED BY <1>1, <1>2, <1>3 DEF IInv

\* What the invariant says of the lists, by name.
LEMMA HeldLists ==
  ASSUME IInv
  PROVE  /\ Good(file)
         /\ writer \in [Writers -> WriterState] /\ \A w \in Writers : Good(writer[w].content)
         /\ sweep \in [Sweeps -> SweepState]
         /\ \A s \in Sweeps : Good(sweep[s].others) /\ \A job \in sweep[s].job : job.status = "running"
         /\ queued \subseteq Prompts /\ week \in 0 .. MaxWeek /\ crashes \in 0 .. MaxCrashes
BY DEF IInv, ListsAreGood, TypeOK, WriterState, SweepState

LEMMA WriteListStep ==
  ASSUME IInv, NEW w \in Writers, NEW content, Good(content), WriteList(w, content)
  PROVE  writer' \in [Writers -> WriterState] /\ \A v \in Writers : Good(writer'[v].content)
<1>1. [stage |-> "opening", content |-> content] \in WriterState
  BY DEF Good, WriterState
<1>2. writer' \in [Writers -> WriterState]
  BY <1>1, HeldLists DEF WriteList
<1>3. \A v \in Writers : writer'[v].content = IF v = w THEN content ELSE writer[v].content
  BY <1>1, HeldLists DEF WriteList
<1>. QED BY <1>2, <1>3, HeldLists

-----------------------------------------------------------------------------
(* The steps                                                               *)

LEMMA OpenStep == ASSUME IInv, NEW w \in Writers, OpenFile(w) PROVE IInv'
<1>1. writer' = [writer EXCEPT ![w].stage = "filling"] /\ writer[w] \in WriterState
      /\ "filling" \in {"idle", "opening", "filling"}
  BY HeldLists DEF OpenFile
<1>2. writer' \in [Writers -> WriterState]
  BY <1>1, HeldLists DEF WriterState
<1>3. \A v \in Writers : writer'[v].content = writer[v].content
  BY <1>1, HeldLists DEF WriterState
<1>. QED BY <1>2, <1>3, HeldLists, EmptyIsGood, ListStep DEF OpenFile

LEMMA RestingIsGood == Resting \in WriterState /\ Good(Resting.content)
BY EmptyIsGood DEF Resting, WriterState

LEMMA NoSweepIsGood ==
  NoSweep \in SweepState /\ Good(NoSweep.others) /\ NoSweep.job = {}
BY EmptyIsGood DEF NoSweep, SweepState

LEMMA FillStep == ASSUME IInv, NEW w \in Writers, FillFile(w) PROVE IInv'
<1>1. writer' \in [Writers -> WriterState] /\ \A v \in Writers : Good(writer'[v].content)
  BY RestingIsGood, HeldLists DEF FillFile
<1>2. Good(file')
  BY EmptyIsGood, HeldLists DEF FillFile
<1>3. sweep' \in [Sweeps -> SweepState]
      /\ \A s \in Sweeps : Good(sweep'[s].others) /\ \A job \in sweep'[s].job : job.status = "running"
  <2>1. ASSUME NEW s \in Sweeps
        PROVE  /\ Resumed(s) \in SweepState
               /\ Good(Resumed(s).others) /\ \A job \in Resumed(s).job : job.status = "running"
    <3>1. CASE sweep[s].at = "writing" /\ sweep[s].todo # {}
      BY <3>1, HeldLists DEF Resumed, SweepState
    <3>2. CASE ~(sweep[s].at = "writing" /\ sweep[s].todo # {})
      BY <3>2, HeldLists, NoSweepIsGood DEF Resumed
    <3>. QED BY <3>1, <3>2
  <2>2. CASE w = Loop
    BY <2>1, <2>2 DEF FillFile
  <2>3. CASE w # Loop
    BY <2>3, HeldLists DEF FillFile
  <2>. QED BY <2>2, <2>3
<1>. QED BY <1>1, <1>2, <1>3, HeldLists, ListStep DEF FillFile

LEMMA SelfHealStep == ASSUME IInv, NEW w \in Writers, SelfHeal(w) PROVE IInv'
<1>1. Good({r \in file : ~Stale(r)})
  BY HeldLists, PartIsGood
<1>2. writer' \in [Writers -> WriterState] /\ \A v \in Writers : Good(writer'[v].content)
  BY <1>1, WriteListStep DEF SelfHeal
<1>. QED BY <1>2, HeldLists, ListStep DEF SelfHeal

LEMMA RegisterStep == ASSUME IInv, NEW p \in Prompts, RegisterJob(p) PROVE IInv'
<1>1. Good(WithJob(file, NewRecord(p)))
  BY HeldLists, WithJobIsGood, NewRecordIsGood DEF IInv, Ends
<1>2. Loop \in Writers
  BY DEF Writers
<1>3. writer' \in [Writers -> WriterState] /\ \A v \in Writers : Good(writer'[v].content)
  BY <1>1, <1>2, WriteListStep DEF RegisterJob
<1>. QED BY <1>3, HeldLists, ListStep DEF RegisterJob

LEMMA StartSweepStep == ASSUME IInv, NEW s \in Sweeps, StartSweep(s) PROVE IInv'
<1>1. PICK todo \in {{r.id : r \in file}} \cup {{p} : p \in {q \in Prompts : comfy[q] # "absent"}} :
        sweep' = [sweep EXCEPT ![s] = [NoSweep EXCEPT !.at = "ready", !.todo = todo]]
  BY DEF StartSweep
<1>2. todo \subseteq Prompts
  BY <1>1, HeldLists DEF Good, Record
<1> DEFINE new == [NoSweep EXCEPT !.at = "ready", !.todo = todo]
<1>3. new \in SweepState /\ Good(new.others) /\ new.job = {}
  BY <1>2, NoSweepIsGood DEF NoSweep, SweepState
<1>4. sweep' = [sweep EXCEPT ![s] = new]
  BY <1>1
<1> HIDE DEF new
<1>5. sweep' \in [Sweeps -> SweepState]
      /\ \A t \in Sweeps : Good(sweep'[t].others) /\ \A job \in sweep'[t].job : job.status = "running"
  BY <1>3, <1>4, HeldLists
<1>. QED BY <1>5, HeldLists, ListStep DEF StartSweep

LEMMA AskStep == ASSUME IInv, NEW s \in Sweeps, NEW p \in Prompts, AskStatus(s, p) PROVE IInv'
<1> DEFINE known == {r \in file : r.id = p}
<1>1. PICK job \in IF Listed(p) THEN known ELSE {NewRecord(p)} :
        sweep' = [sweep EXCEPT ![s] =
          [at |-> "asked", todo |-> sweep[s].todo \ {p}, others |-> file \ known,
           job |-> {[job EXCEPT !.status = "running"]}]]
  BY DEF AskStatus
<1>2. job \in Record
  BY <1>1, HeldLists, NewRecordIsGood DEF Good, IInv
<1>3. [job EXCEPT !.status = "running"] \in Record /\ [job EXCEPT !.status = "running"].status = "running"
  BY <1>2 DEF Record
<1>4. Good(file \ known)
  BY HeldLists, PartIsGood
<1> DEFINE new == [at |-> "asked", todo |-> sweep[s].todo \ {p}, others |-> file \ known,
                   job |-> {[job EXCEPT !.status = "running"]}]
<1>5. sweep[s].todo \subseteq Prompts
  BY HeldLists DEF SweepState
<1>6. new \in SweepState /\ Good(new.others) /\ \A j \in new.job : j.status = "running"
  BY <1>3, <1>4, <1>5 DEF SweepState, Good
<1>7. sweep' = [sweep EXCEPT ![s] = new]
  BY <1>1
<1> HIDE DEF new
<1>8. sweep' \in [Sweeps -> SweepState]
      /\ \A t \in Sweeps : Good(sweep'[t].others) /\ \A j \in sweep'[t].job : j.status = "running"
  BY <1>6, <1>7, HeldLists
<1>. QED BY <1>8, HeldLists, ListStep DEF AskStatus

LEMMA TakeStep ==
  ASSUME IInv, NEW s \in Sweeps, NEW status \in {"running"} \cup Ends, TakeStatus(s, status)
  PROVE  IInv'
<1>1. PICK job \in sweep[s].job :
        /\ status \in Answers(job.id)
        /\ WriteList(Loop, WithJob(sweep[s].others, [job EXCEPT !.status = status]))
  BY DEF TakeStatus
<1> DEFINE told == [job EXCEPT !.status = status]
<1>2. job \in Record
  BY <1>1, HeldLists DEF SweepState
<1>3. told \in Record /\ told.status = status /\ told.id = job.id /\ job.id \in Prompts
  BY <1>2 DEF Record
<1>4. status \in Ends => ended[job.id] = status
  BY <1>1, <1>3 DEF Answers, IInv, Known, Ends
<1>5. Good(WithJob(sweep[s].others, told))
  <2> HIDE DEF told
  <2>. QED BY <1>3, <1>4, HeldLists, WithJobIsGood
<1>6. Loop \in Writers
  BY DEF Writers
<1>7. writer' \in [Writers -> WriterState] /\ \A v \in Writers : Good(writer'[v].content)
  BY <1>1, <1>5, <1>6, WriteListStep
<1> DEFINE new == [NoSweep EXCEPT !.at = "writing", !.todo = sweep[s].todo]
<1>8. sweep[s].todo \subseteq Prompts
  BY HeldLists DEF SweepState
<1>9. new \in SweepState /\ Good(new.others) /\ new.job = {}
  BY <1>8, NoSweepIsGood DEF NoSweep, SweepState
<1>10. sweep' = [sweep EXCEPT ![s] = new]
  BY DEF TakeStatus
<1> HIDE DEF new
<1>11. sweep' \in [Sweeps -> SweepState]
       /\ \A t \in Sweeps : Good(sweep'[t].others) /\ \A j \in sweep'[t].job : j.status = "running"
  BY <1>9, <1>10, HeldLists
<1>. QED BY <1>7, <1>11, HeldLists, ListStep DEF TakeStatus

LEMMA CrashStep == ASSUME IInv, Crash PROVE IInv'
<1>1. /\ writer' \in [Writers -> WriterState] /\ \A w \in Writers : Good(writer'[w].content)
      /\ sweep' \in [Sweeps -> SweepState]
      /\ \A s \in Sweeps : Good(sweep'[s].others) /\ \A job \in sweep'[s].job : job.status = "running"
  BY RestingIsGood, NoSweepIsGood DEF Crash
<1>2. crashes' \in 0 .. MaxCrashes
  BY HeldLists, LedgerAssumption DEF Crash
<1>. QED BY <1>1, <1>2, HeldLists, ListStep DEF Crash

\* The steps of ComfyUI and of the calendar leave every list alone.
LEMMA WorldStep ==
  ASSUME IInv, UNCHANGED << file, writer, sweep, crashes >>,
         queued' \subseteq Prompts, week' \in 0 .. MaxWeek,
         comfy' \in [Prompts -> {"absent", "running", "forgotten"} \cup Ends],
         ended' \in [Prompts -> {"no"} \cup Ends],
         \A p \in Prompts : ended[p] # "no" => ended'[p] = ended[p],
         Known'
  PROVE  IInv'
<1>1. TypeOK'
  BY DEF IInv, TypeOK
<1>2. ASSUME NEW list, Good(list) PROVE Honest(list, ended')
  <2>1. ASSUME NEW r \in list, r.status \in Ends PROVE ended'[r.id] = r.status
    <3>1. r.id \in Prompts /\ ended[r.id] = r.status
      BY <1>2, <2>1 DEF Good, Honest, Record
    <3>. QED BY <3>1, <2>1 DEF Ends
  <2>. QED BY <2>1 DEF Honest
<1>3. ListsAreGood'
  BY <1>2, HeldLists DEF ListsAreGood, Good
<1>. QED BY <1>1, <1>3 DEF IInv

LEMMA ComfyStep ==
  ASSUME IInv, NEW p \in Prompts, Queue(p) \/ ComfyEnds(p) PROVE IInv'
<1>1. CASE Queue(p)
  <2>1. /\ comfy' \in [Prompts -> {"absent", "running", "forgotten"} \cup Ends]
        /\ ended' = ended /\ ended \in [Prompts -> {"no"} \cup Ends]
    BY <1>1 DEF Queue, IInv, TypeOK
  <2>2. Known'
    BY <1>1 DEF Queue, IInv, TypeOK, Known, Ends
  <2>. QED BY <1>1, <2>1, <2>2, HeldLists, WorldStep DEF Queue
<1>2. CASE ComfyEnds(p)
  <2>1. PICK end \in Ends : comfy' = [comfy EXCEPT ![p] = end] /\ ended' = [ended EXCEPT ![p] = end]
    BY <1>2 DEF ComfyEnds
  <2>2. /\ comfy \in [Prompts -> {"absent", "running", "forgotten"} \cup Ends]
        /\ ended \in [Prompts -> {"no"} \cup Ends] /\ comfy[p] = "running"
    BY <1>2 DEF ComfyEnds, IInv, TypeOK
  <2>3. /\ comfy' \in [Prompts -> {"absent", "running", "forgotten"} \cup Ends]
        /\ ended' \in [Prompts -> {"no"} \cup Ends]
    BY <2>1, <2>2
  <2>4. ended[p] = "no"
    BY <2>2 DEF IInv, Known, Ends
  <2>5. Known'
    BY <2>1, <2>2 DEF IInv, Known, Ends
  <2>. QED BY <1>2, <2>1, <2>2, <2>3, <2>4, <2>5, HeldLists, WorldStep DEF ComfyEnds
<1>. QED BY <1>1, <1>2

LEMMA RestartStep == ASSUME IInv, ComfyRestart PROVE IInv'
<1>1. /\ comfy' \in [Prompts -> {"absent", "running", "forgotten"} \cup Ends]
      /\ ended' = ended /\ ended \in [Prompts -> {"no"} \cup Ends]
  BY DEF ComfyRestart, IInv, TypeOK
<1>2. Known'
  BY DEF ComfyRestart, IInv, TypeOK, Known, Ends
<1>. QED BY <1>1, <1>2, HeldLists, WorldStep DEF ComfyRestart

LEMMA WeekStep == ASSUME IInv, WeekPasses PROVE IInv'
<1>1. week' \in 0 .. MaxWeek
  BY HeldLists, LedgerAssumption DEF WeekPasses
<1>2. ended \in [Prompts -> {"no"} \cup Ends]
      /\ comfy \in [Prompts -> {"absent", "running", "forgotten"} \cup Ends]
  BY DEF IInv, TypeOK
<1>3. Known'
  BY DEF WeekPasses, IInv, Known
<1>. QED BY <1>1, <1>2, <1>3, HeldLists, WorldStep DEF WeekPasses

-----------------------------------------------------------------------------

LEMMA InitEstablishes == Init => IInv
<1> SUFFICES ASSUME Init PROVE IInv
  OBVIOUS
<1>1. TypeOK
  <2>1. writer \in [Writers -> WriterState] /\ sweep \in [Sweeps -> SweepState]
    BY RestingIsGood, NoSweepIsGood DEF Init
  <2>. QED BY <2>1, LedgerAssumption DEF Init, TypeOK, WriterState, SweepState, Ends
<1>2. Known
  BY DEF Init, Known, Ends
<1>3. ListsAreGood
  BY EmptyIsGood, RestingIsGood, NoSweepIsGood DEF Init, ListsAreGood
<1>. QED BY <1>1, <1>2, <1>3 DEF IInv

LEMMA StepPreserves == IInv /\ [Next]_vars => IInv'
<1> SUFFICES ASSUME IInv, [Next]_vars PROVE IInv'
  OBVIOUS
<1>1. ASSUME NEW w \in Writers, OpenFile(w) \/ FillFile(w) \/ SelfHeal(w) PROVE IInv'
  BY <1>1, OpenStep, FillStep, SelfHealStep
<1>2. ASSUME NEW p \in Prompts, Queue(p) \/ RegisterJob(p) \/ ComfyEnds(p) PROVE IInv'
  BY <1>2, ComfyStep, RegisterStep
<1>3. ASSUME NEW s \in Sweeps,
             StartSweep(s) \/ (\E p \in Prompts : AskStatus(s, p))
             \/ (\E status \in {"running"} \cup Ends : TakeStatus(s, status))
      PROVE  IInv'
  BY <1>3, StartSweepStep, AskStep, TakeStep
<1>4. CASE ComfyRestart \/ Crash \/ WeekPasses
  BY <1>4, RestartStep, CrashStep, WeekStep
<1>5. CASE UNCHANGED vars
  BY <1>5, HeldLists, ListStep DEF vars
<1>. QED BY <1>1, <1>2, <1>3, <1>4, <1>5 DEF Next

\* The inductive invariant, for any jobs, requests, threads and bounds: all
\* lists that anyone holds are fit to be the ledger.
THEOREM LedgerInvariant == Spec => []IInv
<1>. QED BY InitEstablishes, StepPreserves, PTL DEF Spec

\* The ledger, its writers and its requests keep their types.
THEOREM TypeCorrect == Spec => []TypeOK
<1>1. IInv => TypeOK
  BY DEF IInv
<1>. QED BY <1>1, LedgerInvariant, PTL

\* No overlap of writers puts two records of a job into the ledger.
THEOREM RecordsAreUnique == Spec => []OneRecordPerPrompt
<1>1. IInv => OneRecordPerPrompt
  BY DEF IInv, ListsAreGood, Good, OneRecordPerPrompt
<1>. QED BY <1>1, LedgerInvariant, PTL

\* A job is shown as ended only with the end ComfyUI gave it.
THEOREM ShownEndsAreReal == Spec => []EndsAreReal
<1>1. IInv => EndsAreReal
  BY DEF IInv, ListsAreGood, Good, Honest, EndsAreReal
<1>. QED BY <1>1, LedgerInvariant, PTL

=============================================================================
