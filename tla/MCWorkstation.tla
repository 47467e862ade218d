--------------------------- MODULE MCWorkstation ---------------------------
(***************************************************************************)
(* The workstation side of inference-api, for TLC: the live feed, the rate *)
(* limit, the choice of a lane, the cached disk report, the watchdog's     *)
(* heartbeat, the disk forecast and a tab of the page.  They share only    *)
(* the clock, so a behaviour runs one of them, "machine", and leaves the   *)
(* others as they are made.                                                *)
(***************************************************************************)
EXTENDS EpicHub, RateLimit, InferenceLanes, RescueCache, Watchdog, DiskForecast, DashboardPage

CONSTANTS c1, c2, k1, w1, w2

VARIABLE machine

mcVars == << machine, hubVars, limitVars, laneVars, rescueVars, watchdogVars, forecastVars, pageVars >>

\* the helper fails, or recommends the second lane
MCAdvice == {<< >>, << 2 >>}

\* the lanes' caches expire within fewer ticks than the reports'
LanesTime == 3

\* a forecast may overlap one tick and be read in the next
ForecastTime == 2

\* an image; a text and an image together
MCDrops == {<<[name |-> "a", image |-> TRUE]>>,
            <<[name |-> "t", image |-> FALSE], [name |-> "b", image |-> TRUE]>>}

hubRest == << up, last, queue, sending, entry, heard >>
limitRest == << seconds, lapses, check, admitted, refusals >>
laneRest == << lane, withSince, cached, cachedAt, route, routeAt, choice >>
rescueRest == << memory, filed, making, age >>
watchdogRest == << task, dueAt, heartbeat, lastBeat, diskFull, verdict >>
forecastRest == << percent, held, journal, runs, begun >>
pageRest == pageVars

\* a machine that is not run starts in one of its initial states
MCInit ==
  /\ machine \in {"hub", "limit", "lanes", "rescue", "watchdog", "forecast", "page"}
  /\ HubInit /\ LimitInit /\ RescueInit
  /\ LanesInit /\ (machine # "lanes" => lane = [l \in Lanes |-> "down"])
  /\ WatchdogInit /\ (machine # "watchdog" => ~diskFull)
  /\ ForecastInit /\ (machine # "forecast" => percent = Min(Percents))
  /\ PageInit /\ (machine # "page" => progress.xp = Min(StartXP))

MCNext ==
  /\ UNCHANGED machine
  /\ \/ machine = "hub" /\ HubNext
          /\ UNCHANGED << now, limitRest, laneRest, rescueRest, watchdogRest, forecastRest, pageRest >>
     \/ machine = "limit" /\ LimitNext
          /\ UNCHANGED << hubRest, laneRest, rescueRest, watchdogRest, forecastRest, pageRest >>
     \/ machine = "lanes" /\ LanesNext /\ now' <= LanesTime
          /\ UNCHANGED << hubRest, limitRest, rescueRest, watchdogRest, forecastRest, pageRest >>
     \/ machine = "rescue" /\ RescueNext
          /\ UNCHANGED << hubRest, limitRest, laneRest, watchdogRest, forecastRest, pageRest >>
     \/ machine = "watchdog" /\ WatchdogNext
          /\ UNCHANGED << hubRest, limitRest, laneRest, rescueRest, forecastRest, pageRest >>
     \/ machine = "forecast" /\ ForecastNext /\ now' <= ForecastTime
          /\ UNCHANGED << hubRest, limitRest, laneRest, rescueRest, watchdogRest, pageRest >>
     \/ machine = "page" /\ PageNext
          /\ UNCHANGED << now, hubRest, limitRest, laneRest, rescueRest, watchdogRest, forecastRest >>

MCSpec == MCInit /\ [][MCNext]_mcVars
=============================================================================
