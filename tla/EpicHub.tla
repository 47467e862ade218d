------------------------------ MODULE EpicHub ------------------------------
(***************************************************************************)
(* The live feed of the workstation dashboard: the push loop and the /ws/  *)
(* epic socket of inference-api's main.py, and the browser's side of it in *)
(* epic.js.  A broadcast awaits one send per subscriber, so sockets come,  *)
(* go and are synchronised between two sends of one event.                 *)
(* Left out: sequence numbers and subscriptions, which the code keeps and  *)
(* does not read; the lengths of the back-off; and the state a sync sends, *)
(* which the browser keeps apart from the events it hears.                 *)
(***************************************************************************)
EXTENDS Naturals, Sequences, Ranking

CONSTANTS
  Clients,      \* browser tabs
  Holders,      \* those of them with the dashboard's token
  ServiceCount, \* the checks of _system_snapshot, numbered in their order
  Comfy         \* the one of them the revenue score looks at

ASSUME HubAssumption ==
  ServiceCount \in Nat /\ Comfy \in 1..ServiceCount /\ Holders \subseteq Clients

Services == 1..ServiceCount

VARIABLES
  up,        \* [Services -> BOOLEAN]: what a check would find
  last,      \* what the loop remembers: {} at first, then the reading of a round
  queue,     \* the events the round has still to broadcast, the first being sent
  sending,   \* the subscribers the first has still to be sent to
  entry,     \* [Clients -> "none", "hello", "syncing", "live" or "dead"]
  heard      \* [Clients -> [Services -> the last service_down sent, or "nothing"]]

hubVars == << up, last, queue, sending, entry, heard >>

Said(ok) == IF ok THEN "up" ELSE "down"

nothingHeard == [s \in Services |-> "nothing"]

HubInit ==
  /\ up = [s \in Services |-> TRUE]
  /\ last = {} /\ queue = << >> /\ sending = {}
  /\ entry = [c \in Clients |-> "none"]
  /\ heard = [c \in Clients |-> nothingHeard]

\* _EPIC_WS_SUBSCRIBERS; the socket of a "dead" one is closed already
Subscribers == {c \in Clients : entry[c] \in {"syncing", "live", "dead"}}

ServiceChanges(s) ==
  /\ up' = [up EXCEPT ![s] = ~@]
  /\ UNCHANGED << last, queue, sending, entry, heard >>

-----------------------------------------------------------------------------
(* _epic_push_loop: a round takes three readings, broadcasts what differs  *)
(* from the last round, and remembers                                      *)

Event(kind) == << [kind |-> kind, service |-> Comfy, ok |-> TRUE] >>

\* the services with an event, in the order of the snapshot
ServiceEvents(ok) ==
  LET changed == Ascending({s \in Services : \E old \in last : old.ok[s] # ok[s]})
  IN  [i \in 1..Len(changed) |->
         [kind |-> "service_down", service |-> changed[i], ok |-> ok[changed[i]]]]

\* The disk's risk and its forecast are numbers that may have moved, or not.
RoundEvents(ok, ready, riskMoved, forecastMoved) ==
  Event("tick")
    \o (IF \E old \in last : old.ready # ready THEN Event("revenue_change") ELSE << >>)
    \o (IF riskMoved /\ last # {} THEN Event("disk_alert") ELSE << >>)
    \o ServiceEvents(ok)
    \o (IF forecastMoved THEN Event("prediction_update") ELSE << >>)

\* mutant: the services are remembered when they are read
RememberedEarly(failed, ok, ready) == {[ok |-> ok, ready |-> ready]}

\* A reading that raises (each writes the snapshot file, which a full disk
\* refuses) skips the round before its first broadcast: nothing is remembered.
Remembered(failed, ok, ready) == IF failed THEN last ELSE {[ok |-> ok, ready |-> ready]}

PushRound(failed, ready, riskMoved, forecastMoved) ==
  /\ queue = << >>
  /\ queue' = IF failed THEN << >> ELSE RoundEvents(up, ready, riskMoved, forecastMoved)
  /\ sending' = IF failed THEN {} ELSE Subscribers
  /\ last' = Remembered(failed, up, ready)
  /\ UNCHANGED << up, entry, heard >>

\* the next event is sent to those subscribed when its broadcast begins
NextEvent ==
  /\ queue # << >> /\ sending = {}
  /\ queue' = Tail(queue)
  /\ sending' = IF Len(queue) = 1 THEN {} ELSE Subscribers
  /\ UNCHANGED << up, last, entry, heard >>

\* A send that fails takes the subscriber off and the others still get theirs.
SendTo(c) ==
  /\ c \in sending
  /\ sending' = sending \ {c}
  /\ IF entry[c] = "dead"
     THEN entry' = [entry EXCEPT ![c] = "none"] /\ UNCHANGED heard
     ELSE /\ UNCHANGED entry
          /\ heard' = IF Head(queue).kind # "service_down" THEN heard
                      ELSE [heard EXCEPT ![c][Head(queue).service] = Said(Head(queue).ok)]
  /\ UNCHANGED << up, last, queue >>

-----------------------------------------------------------------------------
(* A socket: epic_ws on one side, connectWS on the other                   *)

\* A tab without the token is accepted, told so and closed.  What an older
\* socket of the tab is still owed fails and changes nothing.
Connect(c) ==
  /\ entry[c] \in {"none", "dead"}
  /\ entry' = [entry EXCEPT ![c] = IF c \in Holders THEN "hello" ELSE "none"]
  /\ sending' = sending \ {c}
  /\ heard' = [heard EXCEPT ![c] = nothingHeard]
  /\ UNCHANGED << up, last, queue >>

\* registered when the hello has come, or has not come in 5 seconds; a live
\* client may ask for a new sync
StartSync(c) ==
  /\ entry[c] \in {"hello", "live"}
  /\ entry' = [entry EXCEPT ![c] = "syncing"]
  /\ UNCHANGED << up, last, queue, sending, heard >>

\* the state is sent, or given up with a warning when a reading raised
EndSync(c) ==
  /\ entry[c] = "syncing"
  /\ entry' = [entry EXCEPT ![c] = "live"]
  /\ UNCHANGED << up, last, queue, sending, heard >>

\* the browser's side closes; the server finds out at a send or a receive
SocketLost(c) ==
  /\ entry[c] \in {"hello", "syncing", "live"}
  /\ entry' = [entry EXCEPT ![c] = IF @ = "hello" THEN "none" ELSE "dead"]
  /\ UNCHANGED << up, last, queue, sending, heard >>

HandlerEnds(c) ==
  /\ entry[c] = "dead"
  /\ entry' = [entry EXCEPT ![c] = "none"]
  /\ sending' = sending \ {c}
  /\ UNCHANGED << up, last, queue, heard >>

HubNext ==
  \/ \E s \in Services : ServiceChanges(s)
  \/ \E failed, ready, risk, forecast \in BOOLEAN : PushRound(failed, ready, risk, forecast)
  \/ NextEvent
  \/ \E c \in Clients :
       \/ SendTo(c) \/ Connect(c) \/ StartSync(c) \/ EndSync(c)
       \/ SocketLost(c) \/ HandlerEnds(c)

HubSpec == HubInit /\ [][HubNext]_hubVars

-----------------------------------------------------------------------------
(* Properties                                                              *)

\* Rounds that fail before they tell anything, sockets that die, come back or
\* synchronise during a broadcast: between two rounds, the last event an open socket was
\* sent about a service is what the loop holds of it (_epic_push_loop).
HeardIsCurrent ==
  queue = << >> =>
    \A c \in Clients, s \in Services :
      entry[c] \in {"syncing", "live"} /\ heard[c][s] # "nothing" =>
        \E known \in last : heard[c][s] = Said(known.ok[s])
=============================================================================
