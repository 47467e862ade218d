--------------------------- MODULE FleetPlacement ---------------------------
(***************************************************************************)
(* optimizeFleetPlacement of packages/optimizer (POST /fleet/optimize):    *)
(* workloads, the largest first, are put on the cheapest resource with     *)
(* devices left, reserved ones before the others.  A step places one       *)
(* workload.  Memory is counted in tenths of a gigabyte; of prices and     *)
(* latencies only the order of the prices is kept.  A resource is known by *)
(* its position: the ids of a request are taken to differ.                 *)
(***************************************************************************)
EXTENDS Integers, Sequences, SequencesExt, FiniteSetsExt, Ranking

CONSTANTS Fleets,     \* lists of [devices, memory, price, reserved, status]
          WorkloadSets \* lists of [params, cache]: billions, tenths of a gigabyte

FleetResourceInput ==
  [devices : Nat, memory : Nat \ {0}, price : Nat, reserved : BOOLEAN,
   status : {"available", "allocated", "maintenance"}]

FleetWorkloadInput == [params : Nat, cache : Nat]

ASSUME FleetAssumption ==
  /\ Fleets \subseteq Seq(FleetResourceInput)
  /\ WorkloadSets \subseteq Seq(FleetWorkloadInput)

VARIABLES fleet,      \* the resources of the request, in its order
          workloads,  \* its workloads, sorted
          placed,     \* [workload, resource, devices_used], one per workload so far
          available,  \* devices left on each resource
          allocated   \* totalAllocatedDevices

fleetVars == <<fleet, workloads, placed, available, allocated>>

Unplaced == 0

\* weights at a byte per parameter, the cache, and 1.5 GB
RequiredVram(w) == 10 * w.params + w.cache + 15

\* nine tenths of a device's memory are counted on, and devices are whole
DevicesNeeded(w, r) == Max({1, -((-10 * RequiredVram(w)) \div (9 * r.memory))})

\* a stable sort, the largest model first
SortedWorkloads(ws) ==
  LET order == InOrder({<<-ws[i].params, i>> : i \in DOMAIN ws})
  IN  [k \in DOMAIN ws |-> ws[order[k][2]]]

\* the order resources are tried in: reserved, then cheap, then as given
Turn(i) == <<IF fleet[i].reserved THEN 0 ELSE 1, fleet[i].price, i>>

\* mutant: any device left will do
OffersAnyLeft(w) == {i \in DOMAIN fleet : fleet[i].status # "maintenance" /\ available[i] > 0}

\* resources that can take w now
Offers(w) ==
  {i \in DOMAIN fleet : /\ fleet[i].status # "maintenance"
                        /\ available[i] > 0
                        /\ available[i] >= DevicesNeeded(w, fleet[i])}

FirstOffer(w) == InOrder({Turn(i) : i \in Offers(w)})[1][3]

\* devices to give out; a resource in maintenance has no entry in the map
Usable(i) == IF fleet[i].status = "maintenance" THEN 0 ELSE fleet[i].devices

FleetInit ==
  /\ fleet \in Fleets
  /\ \E ws \in WorkloadSets : workloads = SortedWorkloads(ws)
  /\ placed = <<>>
  /\ available = [i \in DOMAIN fleet |-> Usable(i)]
  /\ allocated = 0

NextWorkload == workloads[Len(placed) + 1]

PlaceWorkload ==
  /\ Len(placed) < Len(workloads)
  /\ Offers(NextWorkload) # {}
  /\ LET i == FirstOffer(NextWorkload)
         n == DevicesNeeded(NextWorkload, fleet[i])
     IN  /\ placed' = Append(placed, [resource |-> i, devices_used |-> n])
         /\ available' = [available EXCEPT ![i] = @ - n]
         /\ allocated' = allocated + n
  /\ UNCHANGED <<fleet, workloads>>

LeaveUnplaced ==
  /\ Len(placed) < Len(workloads)
  /\ Offers(NextWorkload) = {}
  /\ placed' = Append(placed, [resource |-> Unplaced, devices_used |-> 0])
  /\ UNCHANGED <<fleet, workloads, available, allocated>>

FleetNext == PlaceWorkload \/ LeaveUnplaced
FleetSpec == FleetInit /\ [][FleetNext]_fleetVars

PlacedOn(i) == {p \in DOMAIN placed : placed[p].resource = i}
Devices == [p \in DOMAIN placed |-> placed[p].devices_used]
SumOver(f, S) == MapThenSumSet(LAMBDA x : f[x], S)
Used == [i \in DOMAIN fleet |-> SumOver(Devices, PlacedOn(i))]

\* However workloads of all sizes are fitted in one after another: no resource
\* gives out more devices than it has, one in maintenance none, and what is
\* counted as left is what is left; no placed model outgrows its devices; and
\* a workload reported as unplaced really fits nowhere, not on what is left
\* now, although smaller workloads were placed after it was given up.
FleetIsNotOversold ==
  /\ allocated = SumOver(Used, DOMAIN fleet)
  /\ \A i \in DOMAIN fleet : Used[i] <= Usable(i) /\ available[i] = Usable(i) - Used[i]
  /\ \A p \in DOMAIN placed :
       LET w == workloads[p]  r == placed[p].resource
       IN  IF r = Unplaced THEN Offers(w) = {}
           ELSE 9 * fleet[r].memory * placed[p].devices_used >= 10 * RequiredVram(w)
=============================================================================
