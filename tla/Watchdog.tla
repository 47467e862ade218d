------------------------------ MODULE Watchdog ------------------------------
(***************************************************************************)
(* The heartbeat of the workstation dashboard: the watchdog task of        *)
(* inference-api's main.py writes a file after each round of self-healing, *)
(* and every reading of the system, in whatever thread, tells from that    *)
(* file whether the API is alive.                                          *)
(***************************************************************************)
EXTENDS Clock

CONSTANTS
  Interval,   \* WATCHDOG_INTERVAL_SECONDS
  Silence     \* the age of a heartbeat from which the API is reported down

ASSUME WatchdogAssumption == Interval \in Nat /\ Silence \in Nat \ {0}

VARIABLES
  task,       \* "sleeping", "writing", "recovering" or "dead"
  dueAt,      \* when a sleeping task wakes
  heartbeat,  \* the timestamp in watchdog.json; {} when it is missing or empty
  lastBeat,   \* when a heartbeat was last written
  diskFull,
  verdict     \* what the last reading said of the API, and which beat was the last then

watchdogVars == << now, task, dueAt, heartbeat, lastBeat, diskFull, verdict >>

WatchdogInit ==
  /\ now = 0 /\ task = "sleeping" /\ dueAt = 0
  /\ heartbeat = {} /\ lastBeat = 0
  /\ diskFull \in BOOLEAN
  /\ verdict = [ok |-> TRUE, at |-> 0, beat |-> 0]

DiskChanges ==
  /\ diskFull' = ~diskFull
  /\ UNCHANGED << now, task, dueAt, heartbeat, lastBeat, verdict >>

\* A round of self-healing ends with its log and then the heartbeat, the file
\* of which is emptied first.  When the log cannot be written, the except
\* branch writes the heartbeat; either way the empty file comes first.
OpenHeartbeat ==
  /\ task = "sleeping" /\ now >= dueAt
  /\ task' = IF diskFull THEN "recovering" ELSE "writing"
  /\ heartbeat' = {}
  /\ UNCHANGED << now, dueAt, lastBeat, diskFull, verdict >>

\* A write that fails in the try has the except branch try again, and one
\* that fails there ends the task.
WriteHeartbeat ==
  /\ task \in {"writing", "recovering"}
  /\ IF diskFull
     THEN /\ task' = IF task = "writing" THEN "recovering" ELSE "dead"
          /\ UNCHANGED << heartbeat, lastBeat, dueAt >>
     ELSE /\ task' = "sleeping"
          /\ heartbeat' = {now} /\ lastBeat' = now
          /\ dueAt' = now + Interval
  /\ UNCHANGED << now, diskFull, verdict >>

\* a restart of the process starts the task again
ProcessRestarts ==
  /\ task' = "sleeping" /\ dueAt' = now
  /\ UNCHANGED << now, heartbeat, lastBeat, diskFull, verdict >>

\* mutant: no heartbeat is as old as the epoch
SeenLastEpoch(beats) == IF beats = {} THEN {0} ELSE beats

\* _self_alive: a file that is missing or empty counts as just written
SeenLast(beats) == IF beats = {} THEN {now} ELSE beats

ReadHeartbeat ==
  /\ \E seen \in SeenLast(heartbeat) :
       verdict' = [ok |-> now < seen + Silence, at |-> now, beat |-> lastBeat]
  /\ UNCHANGED << now, task, dueAt, heartbeat, lastBeat, diskFull >>

WatchdogNext ==
  \/ Passes /\ UNCHANGED << task, dueAt, heartbeat, lastBeat, diskFull, verdict >>
  \/ DiskChanges \/ OpenHeartbeat \/ WriteHeartbeat \/ ProcessRestarts \/ ReadHeartbeat

WatchdogSpec == WatchdogInit /\ [][WatchdogNext]_watchdogVars

-----------------------------------------------------------------------------
(* Properties                                                              *)

\* Readings that fall between the emptying and the filling of the file, full
\* disks and restarts: the API is reported down only when no heartbeat has
\* been written for as long as the alarm waits (_self_alive).
AlarmsAreReal == ~verdict.ok => verdict.beat + Silence <= verdict.at

\* "use a file heartbeat instead" (_self_alive): a watchdog that has ended is
\* found out by every reading once the alarm's time has passed.
DeadWatchdogShows ==
  task = "dead" /\ verdict.at >= verdict.beat + 2 * Silence => ~verdict.ok
=============================================================================
