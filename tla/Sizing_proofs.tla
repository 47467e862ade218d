---------------------------- MODULE Sizing_proofs ----------------------------
(***************************************************************************)
(* Proofs about the advisers and the stores they read, each for any fleet, *)
(* queries, workloads and records.                                         *)
(***************************************************************************)
EXTENDS FleetPlacement, ConfigurationSearch, SLOCompiler, DeploymentPlanner, EvidenceStore, FiniteFacts

-----------------------------------------------------------------------------
(* The fleet                                                               *)

\* Whole devices, rounded up, hold what the workload requires.
LEMMA DevicesSuffice ==
  ASSUME NEW w \in FleetWorkloadInput, NEW r \in FleetResourceInput
  PROVE  /\ DevicesNeeded(w, r) \in Nat
         /\ 9 * r.memory * DevicesNeeded(w, r) >= 10 * RequiredVram(w)
<1>1. RequiredVram(w) \in Int
  BY DEF FleetWorkloadInput, RequiredVram
<1>2. r.memory \in Nat \ {0}
  BY DEF FleetResourceInput
<1> DEFINE a == -10 * RequiredVram(w)
           b == 9 * r.memory
           q == a \div b
           n == DevicesNeeded(w, r)
<1>3. a \in Int /\ a = -(10 * RequiredVram(w)) /\ b \in Nat \ {0}
  BY <1>1, <1>2
<1> HIDE DEF a, b
<1>4. q \in Int /\ b * q <= a
  BY <1>3
<1> HIDE DEF q
<1>5. n = IF 1 >= -q THEN 1 ELSE -q
  <2>1. n = Max({1, -q})
    BY DEF DevicesNeeded, a, b, q
  <2>2. -q \in Int
    BY <1>4
  <2> HIDE DEF n
  <2> QED BY <2>1, <2>2, GreaterIsMax
<1> HIDE DEF n
<1>6. n \in Nat /\ n >= -q
  BY <1>4, <1>5
<1>7. b * n >= b * (-q) /\ b * (-q) = -(b * q)
  BY <1>3, <1>4, <1>6
<1>8. b * n >= 10 * RequiredVram(w)
  BY <1>1, <1>3, <1>4, <1>6, <1>7
<1> QED BY <1>6, <1>8 DEF b, n

\* The workloads of a request, sorted, are workloads.
LEMMA SortedAreWorkloads ==
  ASSUME NEW ws \in WorkloadSets
  PROVE  SortedWorkloads(ws) \in Seq(FleetWorkloadInput)
<1> DEFINE n == Len(ws)
<1>1. n \in Nat /\ DOMAIN ws = 1..n /\ \A i \in 1..n : ws[i] \in FleetWorkloadInput
  BY FleetAssumption
<1> HIDE DEF n
<1> DEFINE key == [i \in 1..n |-> <<-ws[i].params, i>>]
           T == {key[i] : i \in 1..n}
           o == InOrder(T)
<1>2. \A i \in 1..n : key[i] \in [1..2 -> Int]
  <2>1. \A i \in 1..n : -ws[i].params \in Int
    BY <1>1 DEF FleetWorkloadInput
  <2> QED BY <2>1
<1>3. \A i, j \in 1..n : key[i] = key[j] => i = j
  OBVIOUS
<1>4. \A i \in 1..n : key[i][2] = i
  OBVIOUS
<1>5. T = {<<-ws[i].params, i>> : i \in DOMAIN ws}
  BY <1>1
<1> HIDE DEF key
<1>6. IsFiniteSet(1..n) /\ Cardinality(1..n) = n
  BY <1>1, FS_Interval
<1>7. KeySet(T, 2) /\ Cardinality(T) = n
  <2> DEFINE D == 1..n
  <2>1. IsFiniteSet(D) /\ Cardinality(D) = n /\ T = {key[i] : i \in D}
    BY <1>6
  <2>2. \A i \in D : key[i] \in [1..2 -> Int]
    BY <1>2
  <2>3. \A i, j \in D : key[i] = key[j] => i = j
    BY <1>3
  <2> HIDE DEF D, T
  <2>4. IsFiniteSet(T) /\ \A a \in T : a \in [1..2 -> Int]
    BY <2>1, <2>2, ImageIsFinite
  <2>5. Cardinality({key[i] : i \in D}) = n
    BY <2>1, <2>3, KeysTellApart
  <2> QED BY <2>1, <2>4, <2>5 DEF KeySet
<1>8. \A a \in T : a[2] \in 1..n
  BY <1>4
<1> HIDE DEF T
<1>9. Sorts(o, T)
  BY <1>7, InOrderSorts
<1>10. SortedWorkloads(ws) = [k \in 1..n |-> ws[o[k][2]]]
  BY <1>1, <1>5 DEF SortedWorkloads
<1> HIDE DEF o
<1>11. \A k \in 1..n : o[k][2] \in 1..n
  BY <1>7, <1>8, <1>9 DEF Sorts
<1>12. SortedWorkloads(ws) \in [1..n -> FleetWorkloadInput]
  BY <1>1, <1>10, <1>11
<1> QED BY <1>1, <1>12

Entries == [resource : Nat, devices_used : Nat]

FleetTypes ==
  /\ fleet \in Seq(FleetResourceInput)
  /\ workloads \in Seq(FleetWorkloadInput)
  /\ placed \in Seq(Entries)
  /\ \A p \in DOMAIN placed : placed[p].resource # Unplaced => placed[p].resource \in DOMAIN fleet
  /\ Len(placed) <= Len(workloads)
  /\ available \in [DOMAIN fleet -> Nat]
  /\ allocated \in Int

FleetInv == FleetTypes /\ FleetIsNotOversold

\* What is taken is one of the offers.
LEMMA FirstOfferIsOffer ==
  ASSUME FleetTypes, NEW w, Offers(w) # {}
  PROVE  FirstOffer(w) \in Offers(w)
<1> DEFINE S == Offers(w)
           turn == [i \in DOMAIN fleet |-> Turn(i)]
           T == {turn[i] : i \in S}
<1>1. IsFiniteSet(S) /\ S \subseteq DOMAIN fleet
  <2>1. DOMAIN fleet = 1..Len(fleet) /\ Len(fleet) \in Nat
    BY DEF FleetTypes
  <2>2. IsFiniteSet(DOMAIN fleet)
    BY <2>1, FS_Interval
  <2>3. S \subseteq DOMAIN fleet
    BY DEF Offers
  <2> HIDE DEF S
  <2> QED BY <2>2, <2>3, FS_Subset
<1> HIDE DEF S
<1>2. \A i \in S : turn[i] \in [1..3 -> Int] /\ turn[i][3] = i
  <2> TAKE i \in S
  <2>1. i \in Int /\ fleet[i] \in FleetResourceInput
    BY <1>1 DEF FleetTypes
  <2>2. fleet[i].price \in Int
    BY <2>1 DEF FleetResourceInput
  <2> QED BY <1>1, <2>1, <2>2 DEF Turn
<1>3. T = {Turn(i) : i \in S}
  BY <1>1
<1> HIDE DEF turn
<1>4. KeySet(T, 3)
  <2>1. IsFiniteSet(T) /\ \A a \in T : a \in [1..3 -> Int]
    BY <1>1, <1>2, ImageIsFinite
  <2> QED BY <2>1 DEF KeySet
<1>5. T # {}
  BY DEF S
<1>6. InOrder(T)[1] \in T
  <2> HIDE DEF T
  <2> QED BY <1>4, <1>5, FirstIsElement
<1>7. InOrder(T)[1][3] \in S
  BY <1>2, <1>6
<1>8. FirstOffer(w) = InOrder(T)[1][3]
  BY <1>3 DEF FirstOffer, S
<1> QED BY <1>7, <1>8 DEF S

\* The workload being placed is one, and a step adds one entry for it.
LEMMA PlacingAdds ==
  ASSUME FleetTypes, Len(placed) < Len(workloads),
         NEW e \in Entries, placed' = Append(placed, e)
  PROVE  LET n == Len(placed) + 1
         IN  /\ n \in Nat \ {0} /\ n \notin DOMAIN placed /\ NextWorkload \in FleetWorkloadInput
             /\ DOMAIN placed' = DOMAIN placed \union {n} /\ placed'[n] = e
             /\ Len(placed') = n /\ placed' \in Seq(Entries)
             /\ \A p \in DOMAIN placed : placed'[p] = placed[p]
BY DEF FleetTypes, NextWorkload

LEMMA SumIsTotal ==
  ASSUME NEW f, NEW S
  PROVE  SumOver(f, S) = Total(f, S)
BY DEF SumOver, Total

LEMMA PlacedIsFinite ==
  ASSUME FleetTypes
  PROVE  /\ IsFiniteSet(DOMAIN placed) /\ IsFiniteSet(DOMAIN fleet)
         /\ \A i : IsFiniteSet(PlacedOn(i)) /\ PlacedOn(i) \subseteq DOMAIN placed
         /\ \A p \in DOMAIN placed : Devices[p] \in Int
         /\ \A i \in DOMAIN fleet : Used[i] \in Int /\ Used[i] = Total(Devices, PlacedOn(i))
<1>1. IsFiniteSet(DOMAIN placed)
  <2>1. DOMAIN placed = 1..Len(placed) /\ Len(placed) \in Int
    BY DEF FleetTypes
  <2> QED BY <2>1, FS_Interval
<1>2. IsFiniteSet(DOMAIN fleet)
  <2>1. DOMAIN fleet = 1..Len(fleet) /\ Len(fleet) \in Int
    BY DEF FleetTypes
  <2> QED BY <2>1, FS_Interval
<1>3. ASSUME NEW i PROVE IsFiniteSet(PlacedOn(i)) /\ PlacedOn(i) \subseteq DOMAIN placed
  <2>1. PlacedOn(i) \subseteq DOMAIN placed
    BY DEF PlacedOn
  <2> QED BY <1>1, <2>1, FS_Subset
<1>4. \A p \in DOMAIN placed : Devices[p] \in Int
  <2> TAKE p \in DOMAIN placed
  <2>1. placed[p] \in Entries
    BY DEF FleetTypes
  <2> QED BY <2>1 DEF Devices, Entries
<1>5. ASSUME NEW i \in DOMAIN fleet PROVE Used[i] \in Int /\ Used[i] = Total(Devices, PlacedOn(i))
  <2>1. Used[i] = Total(Devices, PlacedOn(i))
    BY SumIsTotal DEF Used
  <2>2. \A p \in PlacedOn(i) : Devices[p] \in Int
    BY <1>3, <1>4
  <2> QED BY <1>3, <2>1, <2>2, TotalIsInteger
<1> QED BY <1>1, <1>2, <1>3, <1>4, <1>5

\* An entry counts for its own resource, and only for it.
LEMMA UsedGrows ==
  ASSUME FleetTypes, FleetTypes', Len(placed) < Len(workloads), fleet' = fleet,
         NEW e \in Entries, placed' = Append(placed, e)
  PROVE  \A i \in DOMAIN fleet : Used'[i] = Used[i] + (IF i = e.resource THEN e.devices_used ELSE 0)
<1> DEFINE n == Len(placed) + 1
           after == Devices'
<1> SUFFICES ASSUME NEW i \in DOMAIN fleet
             PROVE  Used'[i] = Used[i] + (IF i = e.resource THEN e.devices_used ELSE 0)
  OBVIOUS
<1>1. /\ n \notin DOMAIN placed /\ DOMAIN placed' = DOMAIN placed \union {n} /\ placed'[n] = e
      /\ \A p \in DOMAIN placed : placed'[p] = placed[p]
  BY PlacingAdds
<1>2. after[n] = e.devices_used /\ \A p \in DOMAIN placed : after[p] = Devices[p]
  BY <1>1 DEF Devices
<1>3. PlacedOn(i)' = IF i = e.resource THEN PlacedOn(i) \union {n} ELSE PlacedOn(i)
  BY <1>1 DEF PlacedOn
<1>4. /\ IsFiniteSet(PlacedOn(i)) /\ PlacedOn(i) \subseteq DOMAIN placed
      /\ \A p \in DOMAIN placed : Devices[p] \in Int
      /\ Used[i] = Total(Devices, PlacedOn(i))
  BY PlacedIsFinite
<1>5. Used'[i] = Total(after, PlacedOn(i)')
  <2>1. Used'[i] = SumOver(after, PlacedOn(i)')
    BY DEF Used
  <2> HIDE DEF after
  <2> QED BY <2>1, SumIsTotal
<1> DEFINE s == PlacedOn(i)
           t == PlacedOn(i)'
<1>6. e.devices_used \in Int
  BY DEF Entries
<1> HIDE DEF after, s, t, n
<1>7. Total(after, s) = Total(Devices, s)
  <2>1. \A p \in s : after[p] = Devices[p]
    BY <1>2, <1>4 DEF s
  <2> QED BY <1>4, <2>1, TotalsAgree DEF s
<1>8. CASE i = e.resource
  <2>1. t = s \union {n} /\ n \notin s /\ t \ {n} = s
    BY <1>1, <1>3, <1>4, <1>8 DEF s, t
  <2>2. IsFiniteSet(t)
    BY <1>4, <2>1, FS_Union, FS_Singleton DEF s
  <2>3. \A p \in t : after[p] \in Int
    BY <1>2, <1>4, <1>6, <2>1 DEF s
  <2>4. Total(after, t) = after[n] + Total(after, t \ {n})
    BY <2>1, <2>2, <2>3, TotalOfElement
  <2>5. Total(after, t) = e.devices_used + Used[i]
    BY <1>2, <1>4, <1>7, <2>1, <2>4 DEF s
  <2>6. Used[i] \in Int
    BY PlacedIsFinite
  <2> QED BY <1>5, <1>6, <1>8, <2>5, <2>6 DEF t
<1>9. CASE i # e.resource
  <2>1. t = s
    BY <1>3, <1>9 DEF s, t
  <2>2. Used[i] \in Int
    BY PlacedIsFinite
  <2> QED BY <1>4, <1>5, <1>7, <1>9, <2>1, <2>2 DEF s, t
<1> QED BY <1>8, <1>9

\* The last conjunct of FleetIsNotOversold, of one entry.
EntryHolds(p) ==
  IF placed[p].resource = Unplaced THEN Offers(workloads[p]) = {}
  ELSE 9 * fleet[placed[p].resource].memory * placed[p].devices_used >= 10 * RequiredVram(workloads[p])

\* Devices are only taken, so what has no offer has none later.
LEMMA OffersShrink ==
  ASSUME FleetTypes, FleetTypes', fleet' = fleet,
         \A i \in DOMAIN fleet : available'[i] <= available[i],
         NEW w \in FleetWorkloadInput, Offers(w) = {}
  PROVE  Offers(w)' = {}
<1> SUFFICES ASSUME NEW i \in Offers(w)' PROVE FALSE
  OBVIOUS
<1>1. i \in DOMAIN fleet /\ fleet[i].status # "maintenance"
      /\ available'[i] > 0 /\ available'[i] >= DevicesNeeded(w, fleet[i])
  BY DEF Offers
<1>2. fleet[i] \in FleetResourceInput /\ available[i] \in Int /\ available'[i] \in Int
  BY <1>1 DEF FleetTypes
<1>3. DevicesNeeded(w, fleet[i]) \in Int
  BY <1>2, DevicesSuffice
<1>4. i \in Offers(w)
  BY <1>1, <1>2, <1>3 DEF Offers
<1> QED BY <1>4

\* FleetIsNotOversold, from the totals and one entry at a time.
LEMMA FleetIs ==
  FleetIsNotOversold <=>
    /\ allocated = SumOver(Used, DOMAIN fleet)
    /\ \A i \in DOMAIN fleet : Used[i] <= Usable(i) /\ available[i] = Usable(i) - Used[i]
    /\ \A p \in DOMAIN placed : EntryHolds(p)
BY DEF FleetIsNotOversold, EntryHolds

LEMMA UsableIsNat ==
  ASSUME FleetTypes, NEW i \in DOMAIN fleet
  PROVE  Usable(i) \in Nat
<1>1. fleet[i] \in FleetResourceInput
  BY DEF FleetTypes
<1> QED BY <1>1 DEF FleetResourceInput, Usable

LEMMA FleetStarts == FleetInit => FleetInv
<1> SUFFICES ASSUME FleetInit PROVE FleetInv
  OBVIOUS
<1>1. fleet \in Seq(FleetResourceInput) /\ workloads \in Seq(FleetWorkloadInput)
  BY FleetAssumption, SortedAreWorkloads DEF FleetInit
<1>2. placed = <<>> /\ placed \in Seq(Entries) /\ Len(placed) = 0 /\ DOMAIN placed = {}
  BY DEF FleetInit
<1>3. available \in [DOMAIN fleet -> Nat]
  <2>1. available = [i \in DOMAIN fleet |-> IF fleet[i].status = "maintenance" THEN 0 ELSE fleet[i].devices]
    BY DEF FleetInit, Usable
  <2>2. \A i \in DOMAIN fleet : fleet[i] \in FleetResourceInput
    BY <1>1
  <2>3. \A i \in DOMAIN fleet : fleet[i].devices \in Nat
    BY <2>2 DEF FleetResourceInput
  <2> QED BY <2>1, <2>3
<1>4. FleetTypes
  <2>1. Len(workloads) >= 0
    BY <1>1
  <2> QED BY <1>1, <1>2, <1>3, <2>1 DEF FleetTypes, FleetInit
<1>5. \A i \in DOMAIN fleet : Used[i] = 0
  <2> TAKE i \in DOMAIN fleet
  <2>1. PlacedOn(i) = {}
    BY <1>2 DEF PlacedOn
  <2> QED BY <1>4, <2>1, PlacedIsFinite, TotalOfNone
<1>6. allocated = SumOver(Used, DOMAIN fleet)
  <2>1. Total(Used, DOMAIN fleet) = 0
    BY <1>4, <1>5, PlacedIsFinite, TotalOfZeros
  <2> QED BY <2>1, SumIsTotal DEF FleetInit
<1>7. ASSUME NEW i \in DOMAIN fleet
      PROVE  Used[i] <= Usable(i) /\ available[i] = Usable(i) - Used[i]
  <2>1. available[i] = Usable(i)
    BY DEF FleetInit
  <2>2. Usable(i) \in Nat
    BY <1>4, UsableIsNat
  <2> QED BY <1>5, <2>1, <2>2
<1> QED BY <1>2, <1>4, <1>6, <1>7, FleetIs DEF FleetInv

\* A step that adds an entry for e.resource, or for none, and takes its
\* devices from there.
LEMMA TotalsFollow ==
  ASSUME FleetInv, FleetTypes', Len(placed) < Len(workloads), fleet' = fleet, workloads' = workloads,
         NEW e \in Entries, placed' = Append(placed, e),
         e.resource \in DOMAIN fleet \/ e.devices_used = 0,
         allocated' = allocated + e.devices_used,
         \A i \in DOMAIN fleet :
           available'[i] = available[i] - (IF i = e.resource THEN e.devices_used ELSE 0),
         NEW n, n = Len(placed) + 1, EntryHolds(n)'
  PROVE  FleetIsNotOversold'
<1>1. FleetTypes /\ allocated = SumOver(Used, DOMAIN fleet)
  BY FleetIs DEF FleetInv
<1>2. \A i \in DOMAIN fleet : Used'[i] = Used[i] + (IF i = e.resource THEN e.devices_used ELSE 0)
  BY <1>1, UsedGrows
<1>3. IsFiniteSet(DOMAIN fleet) /\ \A i \in DOMAIN fleet : Used[i] \in Int
  BY <1>1, PlacedIsFinite
<1>4. e.devices_used \in Nat
  BY DEF Entries
<1>5. \A i \in DOMAIN fleet : available[i] \in Int /\ available'[i] \in Nat
  BY <1>1 DEF FleetTypes
<1> DEFINE before == Used
           after == Used'
           D == DOMAIN fleet
<1>6. allocated' = Total(after, D)
  <2> HIDE DEF before, after, D
  <2>1. \A i \in D : before[i] \in Int /\ after[i] \in Int
    BY <1>2, <1>3, <1>4 DEF before, after, D
  <2>2. allocated = Total(before, D)
    BY <1>1, SumIsTotal DEF before, D
  <2>3. CASE e.resource \in D
    <3>1. \A i \in D \ {e.resource} : after[i] = before[i]
      BY <1>2, <1>3 DEF before, after, D
    <3>2. Total(after, D) = Total(before, D) - before[e.resource] + after[e.resource]
      BY <1>3, <2>1, <2>3, <3>1, TotalFollowsChange DEF D
    <3>3. after[e.resource] = before[e.resource] + e.devices_used
      BY <1>2, <2>3 DEF before, after, D
    <3>4. Total(before, D) \in Int
      BY <1>3, <2>1, TotalIsInteger DEF D
    <3> QED BY <1>4, <2>1, <2>2, <2>3, <3>2, <3>3, <3>4
  <2>4. CASE e.resource \notin D
    <3>1. \A i \in D : after[i] = before[i]
      BY <1>2, <1>3, <2>4 DEF before, after, D
    <3>2. Total(after, D) = Total(before, D)
      BY <1>3, <3>1, TotalsAgree DEF D
    <3>3. Total(before, D) \in Int
      BY <1>3, <2>1, TotalIsInteger DEF D
    <3> QED BY <2>2, <2>4, <3>2, <3>3 DEF D
  <2> QED BY <2>3, <2>4
<1>7. allocated' = SumOver(Used, DOMAIN fleet)'
  BY <1>6, SumIsTotal
<1>8. ASSUME NEW i \in DOMAIN fleet
      PROVE  Used'[i] <= Usable(i)' /\ available'[i] = Usable(i)' - Used'[i]
  <2>1. available[i] = Usable(i) - Used[i]
    BY FleetIs DEF FleetInv
  <2>2. Usable(i)' = Usable(i)
    BY DEF Usable
  <2>3. Usable(i) \in Nat
    BY <1>1, UsableIsNat
  <2> HIDE DEF before, after
  <2>4. Used'[i] \in Int /\ available'[i] = Usable(i) - Used'[i]
    BY <1>2, <1>3, <1>4, <1>5, <2>1, <2>3
  <2> QED BY <1>5, <2>2, <2>3, <2>4
<1>9. ASSUME NEW p \in DOMAIN placed PROVE EntryHolds(p)'
  <2>1. EntryHolds(p)
    BY FleetIs DEF FleetInv
  <2>2. placed'[p] = placed[p] /\ workloads'[p] = workloads[p]
    BY <1>1, PlacingAdds
  <2>3. CASE placed[p].resource = Unplaced
    <3>1. Offers(workloads[p]) = {}
      BY <2>1, <2>3 DEF EntryHolds
    <3>2. \A i \in DOMAIN fleet : available'[i] <= available[i]
      BY <1>4, <1>5
    <3>3. workloads[p] \in FleetWorkloadInput
      BY <1>1 DEF FleetTypes
    <3> DEFINE w == workloads[p]
    <3>4. \A x \in FleetWorkloadInput : Offers(x) = {} => Offers(x)' = {}
      BY <1>1, <3>2, OffersShrink
    <3>5. Offers(w)' = {}
      BY <2>2, <3>1, <3>3, <3>4
    <3> QED BY <2>2, <2>3, <3>5 DEF EntryHolds, Unplaced
  <2>4. CASE placed[p].resource # Unplaced
    BY <2>1, <2>2, <2>4 DEF EntryHolds, Unplaced
  <2> QED BY <2>3, <2>4
<1>10. \A p \in DOMAIN placed' : EntryHolds(p)'
  <2>1. DOMAIN placed' = DOMAIN placed \union {Len(placed) + 1}
    BY <1>1, PlacingAdds
  <2>2. \A p \in DOMAIN placed' : p \in DOMAIN placed \/ p = n
    BY <2>1
  <2> QED BY <1>9, <2>2
<1> QED BY <1>7, <1>8, <1>10 DEF FleetIsNotOversold, EntryHolds

\* FleetIsNotOversold: what a resource gives out it has left, so its devices
\* are never used up twice; and a resource that was no offer for a workload is
\* none for it later.
THEOREM FleetIsAccountedFor == FleetSpec => []FleetIsNotOversold
<1>1. FleetInv /\ [FleetNext]_fleetVars => FleetInv'
  <2> SUFFICES ASSUME FleetInv, [FleetNext]_fleetVars PROVE FleetInv'
    OBVIOUS
  <2> DEFINE w == NextWorkload
  <2>0. PICK last : last = Len(placed) + 1
    OBVIOUS
  <2>1. FleetTypes
    BY DEF FleetInv
  <2>2. CASE UNCHANGED fleetVars
    <3>1. FleetTypes'
      BY <2>1, <2>2 DEF FleetTypes, fleetVars
    <3>2. Devices' = Devices /\ Used' = Used
      BY <2>2 DEF fleetVars, Devices, Used, PlacedOn
    <3>3. \A x : Offers(x)' = Offers(x)
      BY <2>2 DEF fleetVars, Offers
    <3>4. \A p \in DOMAIN placed : EntryHolds(p)'
      BY <2>2, <3>3, FleetIs DEF FleetInv, fleetVars, EntryHolds
    <3>5. \A i \in DOMAIN fleet : Usable(i)' = Usable(i)
      BY <2>2 DEF fleetVars, Usable
    <3>6. allocated' = SumOver(Used, DOMAIN fleet)'
      BY <2>2, <3>2, FleetIs DEF FleetInv, fleetVars
    <3>7. \A i \in DOMAIN fleet : Used'[i] <= Usable(i)' /\ available'[i] = Usable(i)' - Used'[i]
      BY <2>2, <3>2, <3>5, FleetIs DEF FleetInv, fleetVars
    <3> QED BY <2>2, <3>1, <3>4, <3>6, <3>7 DEF FleetInv, fleetVars, FleetIsNotOversold, EntryHolds
  <2>3. CASE PlaceWorkload
    <3> DEFINE i == FirstOffer(w)
               n == DevicesNeeded(w, fleet[i])
               e == [resource |-> i, devices_used |-> n]
    <3>1. /\ Len(placed) < Len(workloads) /\ Offers(w) # {}
          /\ placed' = Append(placed, e) /\ available' = [available EXCEPT ![i] = @ - n]
          /\ allocated' = allocated + n /\ fleet' = fleet /\ workloads' = workloads
      BY <2>3 DEF PlaceWorkload
    <3>2. i \in DOMAIN fleet /\ fleet[i].status # "maintenance" /\ available[i] >= n
      BY <2>1, <3>1, FirstOfferIsOffer DEF Offers
    <3>3. w \in FleetWorkloadInput
      BY <2>1, <3>1 DEF FleetTypes, NextWorkload
    <3>4. fleet[i] \in FleetResourceInput /\ i \in Nat \ {0}
      BY <2>1, <3>2 DEF FleetTypes
    <3>5. n \in Nat /\ 9 * fleet[i].memory * n >= 10 * RequiredVram(w)
      BY <3>3, <3>4, DevicesSuffice
    <3> HIDE DEF n, i, w
    <3>6. e \in Entries /\ e.resource = i /\ e.devices_used = n
      BY <3>4, <3>5 DEF Entries
    <3> HIDE DEF e
    <3>7. available' \in [DOMAIN fleet -> Nat]
          /\ \A x \in DOMAIN fleet : available'[x] = available[x] - (IF x = i THEN n ELSE 0)
      <4>1. available \in [DOMAIN fleet -> Nat]
        BY <2>1 DEF FleetTypes
      <4> QED BY <3>1, <3>2, <3>5, <4>1
    <3>8. /\ last \in Nat \ {0} /\ last \notin DOMAIN placed
          /\ DOMAIN placed' = DOMAIN placed \union {last} /\ placed'[last] = e
          /\ Len(placed') = last /\ placed' \in Seq(Entries)
          /\ \A p \in DOMAIN placed : placed'[p] = placed[p]
      BY <2>0, <2>1, <3>1, <3>6, PlacingAdds
    <3>9. FleetTypes'
      <4>1. allocated' \in Int
        BY <2>1, <3>1, <3>5 DEF FleetTypes
      <4>2. Len(placed') <= Len(workloads')
        BY <2>1, <3>1, <3>8 DEF FleetTypes
      <4>3. \A p \in DOMAIN placed' : placed'[p].resource # Unplaced => placed'[p].resource \in DOMAIN fleet
        BY <2>1, <3>2, <3>6, <3>8 DEF FleetTypes
      <4> QED BY <2>1, <3>1, <3>7, <3>8, <4>1, <4>2, <4>3 DEF FleetTypes
    <3>10. EntryHolds(last)'
      <4>1. w = workloads[last]
        BY <2>0 DEF w, NextWorkload
      <4>2. placed'[last].resource = i /\ placed'[last].devices_used = n /\ i # Unplaced
        BY <3>4, <3>6, <3>8 DEF Unplaced
      <4> QED BY <3>1, <3>5, <4>1, <4>2 DEF EntryHolds
    <3>11. FleetIsNotOversold'
      BY <2>0, <3>1, <3>2, <3>6, <3>7, <3>9, <3>10, TotalsFollow
    <3> QED BY <3>9, <3>11 DEF FleetInv
  <2>4. CASE LeaveUnplaced
    <3> DEFINE e == [resource |-> Unplaced, devices_used |-> 0]
    <3>1. /\ Len(placed) < Len(workloads) /\ Offers(w) = {}
          /\ placed' = Append(placed, e) /\ available' = available
          /\ allocated' = allocated /\ fleet' = fleet /\ workloads' = workloads
      BY <2>4 DEF LeaveUnplaced
    <3> HIDE DEF w
    <3>2. e \in Entries /\ e.resource = Unplaced /\ e.devices_used = 0
      BY DEF Entries, Unplaced
    <3> HIDE DEF e
    <3>3. /\ last \in Nat \ {0} /\ last \notin DOMAIN placed
          /\ DOMAIN placed' = DOMAIN placed \union {last} /\ placed'[last] = e
          /\ Len(placed') = last /\ placed' \in Seq(Entries)
          /\ \A p \in DOMAIN placed : placed'[p] = placed[p]
      BY <2>0, <2>1, <3>1, <3>2, PlacingAdds
    <3>4. FleetTypes'
      <4>1. Len(placed') <= Len(workloads')
        BY <2>1, <3>1, <3>3 DEF FleetTypes
      <4>2. \A p \in DOMAIN placed' : placed'[p].resource # Unplaced => placed'[p].resource \in DOMAIN fleet
        BY <2>1, <3>2, <3>3 DEF FleetTypes
      <4> QED BY <2>1, <3>1, <3>3, <4>1, <4>2 DEF FleetTypes
    <3>5. \A x : Offers(x)' = Offers(x)
      BY <3>1 DEF Offers
    <3>6. EntryHolds(last)'
      <4>1. w = workloads[last]
        BY <2>0 DEF w, NextWorkload
      <4>2. placed'[last].resource = Unplaced
        BY <3>2, <3>3
      <4>3. Offers(workloads[last])' = {}
        BY <3>1, <3>5, <4>1
      <4> QED BY <4>2, <4>3 DEF EntryHolds
    <3>7. allocated' = allocated + e.devices_used
      BY <2>1, <3>1, <3>2 DEF FleetTypes
    <3>8. \A x \in DOMAIN fleet : available'[x] = available[x] - (IF x = e.resource THEN e.devices_used ELSE 0)
      BY <2>1, <3>1, <3>2 DEF FleetTypes
    <3>9. FleetIsNotOversold'
      BY <2>0, <3>1, <3>2, <3>4, <3>6, <3>7, <3>8, TotalsFollow
    <3> QED BY <3>4, <3>9 DEF FleetInv
  <2> QED BY <2>2, <2>3, <2>4 DEF FleetNext
<1>2. FleetInv => FleetIsNotOversold
  BY DEF FleetInv
<1> QED BY <1>1, <1>2, FleetStarts, PTL DEF FleetSpec

-----------------------------------------------------------------------------
(* Configurations                                                          *)

LEMMA RoundedIs ==
  ASSUME NEW a \in Int, NEW b \in Nat \ {0}
  PROVE  /\ Rounded(a, b) \in Int
         /\ \A k \in Int : 2 * a + b >= 2 * b * k => Rounded(a, b) >= k
BY DEF Rounded

LEMMA ProductIsNat ==
  ASSUME NEW a \in Nat, NEW b \in Nat
  PROVE  a * b \in Nat /\ (a # 0 /\ b # 0 => a * b # 0)
OBVIOUS

LEMMA MultipleIsPositive ==
  ASSUME NEW a \in Nat \ {0}, NEW n, n \in {1, 2, 4}
  PROVE  a * n \in Nat \ {0}
OBVIOUS

\* The figures a configuration and a query are made of.
LEMMA DevicesAre ==
  ASSUME NEW q, NEW c \in Configurations(q)
  PROVE  /\ c = [device |-> c.device, count |-> c.count, precision |-> c.precision, runtime |-> c.runtime]
         /\ \E i \in DOMAIN Catalogue : c.device = Catalogue[i]
         /\ c.device.memory \in Nat \ {0} /\ c.device.bandwidth \in Nat \ {0} /\ c.device.watts \in Nat \ {0}
         /\ c.device.price \in Nat /\ c.count \in {1, 2, 4}
         /\ c.precision \in {"fp16", "bf16", "fp8", "int8", "int4"} /\ c.runtime \in {"vllm", "llama.cpp"}
         /\ c.precision \in c.device.precisions /\ c.runtime \in c.device.runtimes
<1>1. /\ c \in [device : {Catalogue[i] : i \in DOMAIN Catalogue}, count : {1, 2, 4},
                precision : ToSet(Precisions), runtime : ToSet(Runtimes)]
      /\ c.precision \in c.device.precisions /\ c.runtime \in c.device.runtimes
  BY DEF Configurations
<1>2. ToSet(Precisions) = {"fp16", "bf16", "fp8", "int8", "int4"}
  BY DEF ToSet, Precisions
<1>3. ToSet(Runtimes) = {"vllm", "llama.cpp"}
  BY DEF ToSet, Runtimes
<1>4. PICK i \in DOMAIN Catalogue : c.device = Catalogue[i]
  BY <1>1
<1>5. /\ c.device.memory \in Nat \ {0} /\ c.device.bandwidth \in Nat \ {0} /\ c.device.watts \in Nat \ {0}
      /\ c.device.price \in Nat
  BY <1>4, SearchAssumption
<1> QED BY <1>1, <1>2, <1>3, <1>4, <1>5

LEMMA QueriesAre ==
  ASSUME NEW q \in Queries
  PROVE  /\ q.params \in Nat \ {0} /\ q.elements \in Nat /\ q.context \in Nat \ {0}
         /\ q.concurrency \in Nat /\ q.window \in Nat \ {0} /\ q.target_tpot \in Nat
         /\ Scaling[Min({q.concurrency, 8})] \in Nat
BY SearchAssumption

LEMMA SizesAre ==
  ASSUME NEW q \in Queries, NEW c \in Configurations(q)
  PROVE  LET bits == q.params * BytesPerParam[c.precision]
             w == Weights(q, c)
             room == c.device.memory * c.count
         IN  /\ bits \in Nat /\ w \in Nat \ {0} /\ 2 * w + 1 >= bits
             /\ KvCache(q, c) \in Nat
             /\ Overhead(q, c) \in Nat /\ 100 * Overhead(q, c) + 99 >= 15 * w + 12000
             /\ Required(q, c) = w + KvCache(q, c) + Overhead(q, c)
             /\ room \in Nat \ {0}
<1> DEFINE b == BytesPerParam[c.precision]
           kb == KvBytes[c.precision]
           bits == q.params * b
           w == Weights(q, c)
<1>1. b \in {40, 20, 10} /\ kb \in {4, 2, 1}
  BY DevicesAre DEF BytesPerParam, KvBytes
<1>2. w = bits \div 2
  BY DEF Weights
<1> HIDE DEF b, kb
<1>3. bits \in Nat /\ bits >= 10
  <2> DEFINE n == q.params
  <2>1. n \in Nat \ {0}
    BY QueriesAre
  <2> HIDE DEF n
  <2>2. n * b \in Nat /\ n * b >= 10
    BY <1>1, <2>1
  <2> QED BY <2>2 DEF n
<1> HIDE DEF bits, w
<1>4. w \in Nat /\ w >= 1 /\ 2 * w + 1 >= bits
  BY <1>2, <1>3
<1>5. KvCache(q, c) \in Nat
  <2> DEFINE x == 4096 * q.elements
             y == x * q.context
             z == y * kb
             t == z * q.concurrency
  <2>1. x \in Nat /\ q.context \in Nat /\ q.concurrency \in Nat
    <3> DEFINE n == q.elements
    <3>1. n \in Nat /\ q.context \in Nat /\ q.concurrency \in Nat
      BY QueriesAre
    <3> HIDE DEF n
    <3>2. 4096 * n \in Nat
      BY <3>1
    <3> QED BY <3>1, <3>2 DEF n
  <2> HIDE DEF x
  <2>2. y \in Nat
    BY <2>1, ProductIsNat
  <2> HIDE DEF y
  <2>3. z \in Nat
    BY <1>1, <2>2, ProductIsNat
  <2> HIDE DEF z
  <2>4. t \in Nat
    BY <2>1, <2>3, ProductIsNat
  <2>5. KvCache(q, c) = t \div 78125
    BY DEF KvCache, KvCacheOf, t, z, y, x, kb
  <2> HIDE DEF t
  <2> QED BY <2>4, <2>5
<1>6. Overhead(q, c) = (15 * w) \div 100 + 120
  BY DEF Overhead, w
<1>7. Overhead(q, c) \in Nat /\ 100 * Overhead(q, c) + 99 >= 15 * w + 12000
  BY <1>4, <1>6
<1>8. c.device.memory * c.count \in Nat \ {0}
  BY DevicesAre, MultipleIsPositive
<1> QED BY <1>3, <1>4, <1>5, <1>7, <1>8 DEF Required, bits, w, b

\* What fits scores the points that nobody misses: 65 for memory, 20 for
\* speed, 95 for the runtime, 20 for the context, 30 for the watts and 52 for
\* the evidence, weighted, make 50.
LEMMA ScoresAre ==
  ASSUME NEW q \in Queries, NEW c \in Configurations(q)
  PROVE  LET fit == ModelFit(q, c)
         IN  /\ fit.is_oom = (Required(q, c) > c.device.memory * c.count)
             /\ fit.tps \in Nat /\ fit.tpot \in Nat /\ fit.score \in Int
             /\ ~fit.is_oom => fit.grade # "F"
<1> DEFINE m == Memory(q, c)
           w == Weights(q, c)
           bus == c.device.bandwidth * c.count * 65
           s == Scaling[Min({q.concurrency, 8})]
           speed == Speed(q, c)
           tps == speed.tps
           tpot == speed.tpot
           target == 10 * q.target_tpot
<1>1. /\ m.is_oom = (Required(q, c) > c.device.memory * c.count)
      /\ m.available \in Nat \ {0} /\ m.required \in Nat \ {0} /\ m.ratio \in Int
  <2> DEFINE a == c.device.memory * c.count
             r == Required(q, c)
  <2>1. a \in Nat \ {0} /\ r \in Nat \ {0}
    BY SizesAre
  <2>2. m = [available |-> a, required |-> r, is_oom |-> r > a, ratio |-> Rounded(1000 * r, a)]
    BY DEF Memory
  <2> HIDE DEF a, r, m
  <2>3. Rounded(1000 * r, a) \in Int
    BY <2>1, RoundedIs
  <2> QED BY <2>1, <2>2, <2>3 DEF a, r
<1>2. bus \in Nat \ {0} /\ s \in Nat /\ w \in Nat \ {0}
  <2>1. c.device.bandwidth * c.count \in Nat \ {0}
    BY DevicesAre, MultipleIsPositive
  <2> QED BY <2>1, SizesAre, QueriesAre
<1>3. tps \in Nat /\ tpot \in Nat
  <2>1. tps = Rounded(bus * s, w) /\ tpot = Rounded(10000 * w, bus)
    BY DEF Speed
  <2> HIDE DEF bus, s, w, tps, tpot
  <2>2. bus * s \in Nat
    BY <1>2, ProductIsNat
  <2> DEFINE x == bus * s
             y == 10000 * w
  <2> HIDE DEF x
  <2>3. Rounded(x, w) \in Int /\ Rounded(x, w) >= 0
    <3>1. x \in Nat
      BY <2>2 DEF x
    <3>2. 2 * x + w >= 2 * w * 0
      BY <1>2, <3>1
    <3> QED BY <1>2, <3>1, <3>2, RoundedIs
  <2>4. Rounded(y, bus) \in Int /\ Rounded(y, bus) >= 0
    <3>1. y \in Nat
      BY <1>2
    <3> HIDE DEF y
    <3>2. 2 * y + bus >= 2 * bus * 0
      BY <1>2, <3>1
    <3> QED BY <1>2, <3>1, <3>2, RoundedIs
  <2> QED BY <2>1, <2>3, <2>4 DEF x
<1> HIDE DEF bus, s, w, tps, tpot, speed, m
<1> DEFINE mem == MemoryFit(m)
           perf == PerformanceFit(q, tpot)
           run == RuntimeFit(c)
           ctx == ContextFit(q)
           eff == EfficiencyFit(tps, c)
           evid == EvidenceFit(c)
<1>4. mem \in Int /\ (~m.is_oom => mem >= 65)
  <2> DEFINE r == Rounded(30 * m.available, m.required)
  <2>1. r \in Int
    <3> DEFINE a == m.available
               b == m.required
    <3>1. a \in Nat /\ b \in Nat \ {0}
      BY <1>1
    <3> HIDE DEF a, b
    <3>2. Rounded(30 * a, b) \in Int
      BY <3>1, RoundedIs
    <3> QED BY <3>2 DEF a, b
  <2>2. mem = IF m.is_oom THEN Max({5, r}) ELSE IF m.ratio <= 750 THEN 100 ELSE IF m.ratio <= 900 THEN 92 ELSE 65
    BY DEF MemoryFit
  <2> HIDE DEF r, mem
  <2>3. Max({5, r}) \in Int
    BY <2>1, GreaterIsMax
  <2> QED BY <2>2, <2>3
<1>5. perf \in Int /\ perf >= 20
  <2> DEFINE a == Rounded(100 * target - 15 * tpot, target)
             b == Rounded(135 * target - 50 * tpot, target)
  <2>1. perf = IF target = 0 THEN 85 ELSE IF tpot <= target THEN Min({100, a}) ELSE Max({20, b})
    BY DEF PerformanceFit
  <2>2. target \in Nat
    <3> DEFINE n == q.target_tpot
    <3>1. n \in Nat
      BY QueriesAre
    <3> HIDE DEF n
    <3>2. 10 * n \in Nat
      BY <3>1
    <3> QED BY <3>2 DEF n
  <2> HIDE DEF perf, target
  <2>3. CASE target = 0
    BY <2>1, <2>3
  <2>4. CASE target # 0 /\ tpot <= target
    <3> DEFINE x == 100 * target - 15 * tpot
    <3>1. x \in Int /\ 2 * x + target >= 2 * target * 20 /\ target \in Nat \ {0}
      BY <1>3, <2>2, <2>4
    <3> HIDE DEF x
    <3>2. Rounded(x, target) \in Int /\ Rounded(x, target) >= 20
      BY <3>1, RoundedIs
    <3>3. a \in Int /\ a >= 20
      BY <3>2 DEF x
    <3> HIDE DEF a
    <3> QED BY <2>1, <2>4, <3>3, LesserIsMin
  <2>5. CASE target # 0 /\ ~(tpot <= target)
    <3> DEFINE x == 135 * target - 50 * tpot
    <3>1. x \in Int /\ target \in Nat \ {0}
      BY <1>3, <2>2, <2>5
    <3> HIDE DEF x
    <3>2. Rounded(x, target) \in Int
      BY <3>1, RoundedIs
    <3>3. b \in Int
      BY <3>2 DEF x
    <3> HIDE DEF b
    <3> QED BY <2>1, <2>5, <3>3, GreaterIsMax
  <2> QED BY <2>3, <2>4, <2>5
<1>6. run = 95
  BY DevicesAre DEF RuntimeFit
<1>7. ctx \in Int /\ ctx >= 20
  <2> DEFINE n == q.window
             k == q.context
             a == 100 * n - 15 * k
  <2>1. n \in Nat \ {0} /\ k \in Nat
    BY QueriesAre
  <2>2. ctx = IF k > n THEN 20 ELSE Rounded(a, n)
    BY DEF ContextFit
  <2> HIDE DEF n, k, ctx
  <2>3. CASE k > n
    BY <2>2, <2>3
  <2>4. CASE ~(k > n)
    <3>1. a \in Int /\ 2 * a + n >= 2 * n * 20
      BY <2>1, <2>4
    <3> HIDE DEF a
    <3>2. Rounded(a, n) \in Int /\ Rounded(a, n) >= 20
      BY <2>1, <3>1, RoundedIs
    <3> QED BY <2>2, <2>4, <3>2
  <2> QED BY <2>3, <2>4
<1>8. eff \in Int /\ eff >= 30
  <2> DEFINE d == c.device.watts * c.count
             r == Rounded(400 * tps, d)
             g == Max({30, r})
  <2>1. d \in Nat \ {0}
    BY DevicesAre, MultipleIsPositive
  <2> HIDE DEF d
  <2>2. r \in Int
    BY <1>3, <2>1, RoundedIs
  <2> HIDE DEF r
  <2>3. g \in Int /\ g >= 30
    BY <2>2, GreaterIsMax
  <2>4. eff = Min({100, g})
    BY DEF EfficiencyFit, r, d
  <2> HIDE DEF g, eff
  <2> QED BY <2>3, <2>4, LesserIsMin
<1>9. evid \in Int /\ evid >= 52
  BY DEF EvidenceFit
<1> DEFINE sum == 35 * mem + 25 * perf + 15 * run + 10 * ctx + 8 * eff + 7 * evid
           weighted == Rounded(sum, 100)
           score == IF m.is_oom THEN Min({30, weighted}) ELSE weighted
<1>10. ModelFit(q, c) = [is_oom |-> m.is_oom, tps |-> tps, tpot |-> tpot, score |-> score, grade |-> Grade(score)]
  BY DEF ModelFit, m, tps, tpot, speed
<1> HIDE DEF mem, perf, run, ctx, eff, evid
<1>11. sum \in Int /\ (~m.is_oom => sum >= 5000)
  BY <1>4, <1>5, <1>6, <1>7, <1>8, <1>9
<1> HIDE DEF sum
<1>12. weighted \in Int /\ (~m.is_oom => weighted >= 45)
  BY <1>11, RoundedIs
<1> HIDE DEF weighted
<1>13. score \in Int /\ (~m.is_oom => score >= 45)
  BY <1>12, LesserIsMin
<1> HIDE DEF score
<1>14. ~m.is_oom => Grade(score) # "F"
  BY <1>13 DEF Grade
<1> QED BY <1>1, <1>3, <1>10, <1>13, <1>14

\* What can be compared: the figures that the objectives minimise.
LEMMA PenaltiesAre ==
  ASSUME NEW q \in Queries, NEW c \in Configurations(q)
  PROVE  CostPerHour(c) \in Nat /\ Penalty(q, c) \in Int
<1> DEFINE cost == CostPerHour(c)
           tps == ModelFit(q, c).tps
           tpot == ModelFit(q, c).tpot
           score == ModelFit(q, c).score
           size == c.device.memory * c.count
           million == CostPerMillion(q, c)
<1>1. cost \in Nat
  <2> DEFINE p == IF c.device.price = 0 THEN 100 ELSE c.device.price
  <2>1. p \in Nat /\ c.count \in Nat
    BY DevicesAre
  <2>2. cost = p * c.count
    BY DEF CostPerHour
  <2> HIDE DEF p, cost
  <2> QED BY <2>1, <2>2, ProductIsNat
<1>2. tps \in Nat /\ tpot \in Nat /\ score \in Int
  BY ScoresAre
<1>3. Rounded(size, 10) \in Int
  <2>1. size \in Nat /\ 10 \in Nat \ {0}
    BY SizesAre
  <2> HIDE DEF size
  <2> QED BY <2>1, RoundedIs
<1>4. million \in Int
  <2>1. million = IF tps = 0 THEN 99900 ELSE Rounded(25000 * cost, 9 * tps)
    BY DEF CostPerMillion
  <2> HIDE DEF cost, tps, million
  <2>2. CASE tps = 0
    BY <2>1, <2>2
  <2>3. CASE tps # 0
    <3> DEFINE a == 25000 * cost
               b == 9 * tps
    <3>1. a \in Int /\ b \in Nat \ {0}
      BY <1>1, <1>2, <2>3
    <3> HIDE DEF a, b
    <3>2. Rounded(a, b) \in Int
      BY <3>1, RoundedIs
    <3> QED BY <2>1, <2>3, <3>2 DEF a, b
  <2> QED BY <2>2, <2>3
<1>5. Penalty(q, c) = IF q.objective = "lowest_cost" THEN million
                      ELSE IF q.objective = "lowest_latency" THEN tpot
                      ELSE IF q.objective = "highest_throughput" THEN -tps
                      ELSE IF q.objective = "lowest_vram" THEN Rounded(size, 10)
                      ELSE million - 200 * score
  BY DEF Penalty
<1> HIDE DEF cost, tps, tpot, score, million, size
<1>6. Penalty(q, c) \in Int
  BY <1>2, <1>3, <1>4, <1>5
<1> QED BY <1>1, <1>6 DEF cost

\* The keys of a configuration name it.
LEMMA KeysAre ==
  ASSUME NEW q \in Queries, NEW c \in Configurations(q)
  PROVE  Keys(q, c) \in [1..5 -> Int] /\ Keys(q, c)[1] = Penalty(q, c) /\ Keyed(Keys(q, c)) = c
<1> DEFINE d == At(Catalogue, c.device)
           p == At(Precisions, c.precision)
           r == At(Runtimes, c.runtime)
<1>1. d \in Int /\ Catalogue[d] = c.device
  <2>1. \E i \in DOMAIN Catalogue : Catalogue[i] = c.device
    BY DevicesAre
  <2>2. d \in DOMAIN Catalogue /\ Catalogue[d] = c.device
    BY <2>1 DEF At
  <2>3. DOMAIN Catalogue = 1..Len(Catalogue)
    BY SearchAssumption
  <2> HIDE DEF d
  <2> QED BY <2>2, <2>3
<1>2. p \in Int /\ Precisions[p] = c.precision
  <2>1. \E i \in DOMAIN Precisions : Precisions[i] = c.precision
    <3>1. c.precision \in {"fp16", "bf16", "fp8", "int8", "int4"}
      BY DevicesAre
    <3> QED BY <3>1 DEF Precisions
  <2>2. p \in DOMAIN Precisions /\ Precisions[p] = c.precision
    BY <2>1 DEF At
  <2>3. DOMAIN Precisions = 1..5
    BY DEF Precisions
  <2> HIDE DEF p
  <2> QED BY <2>2, <2>3
<1>3. r \in Int /\ Runtimes[r] = c.runtime
  <2>1. \E i \in DOMAIN Runtimes : Runtimes[i] = c.runtime
    <3>1. c.runtime \in {"vllm", "llama.cpp"}
      BY DevicesAre
    <3> QED BY <3>1 DEF Runtimes
  <2>2. r \in DOMAIN Runtimes /\ Runtimes[r] = c.runtime
    BY <2>1 DEF At
  <2>3. DOMAIN Runtimes = 1..2
    BY DEF Runtimes
  <2> HIDE DEF r
  <2> QED BY <2>2, <2>3
<1>4. Keys(q, c) = <<Penalty(q, c), d, c.count, p, r>>
  BY DEF Keys
<1> HIDE DEF d, p, r
<1>5. Penalty(q, c) \in Int /\ c.count \in Int
  BY PenaltiesAre, DevicesAre
<1>6. Keyed(Keys(q, c)) = [device |-> c.device, count |-> c.count, precision |-> c.precision, runtime |-> c.runtime]
  BY <1>1, <1>2, <1>3, <1>4 DEF Keyed
<1> QED BY <1>1, <1>2, <1>3, <1>4, <1>5, <1>6, DevicesAre

LEMMA ConfigurationsAreFinite ==
  ASSUME NEW q
  PROVE  IsFiniteSet(Configurations(q))
<1> DEFINE D == DOMAIN Catalogue
           P == {"fp16", "bf16", "fp8", "int8", "int4"}
           R == {"vllm", "llama.cpp"}
           N == {1, 2, 4}
           K == (D \X N) \X (P \X R)
           f == [k \in K |-> [device |-> Catalogue[k[1][1]], count |-> k[1][2],
                              precision |-> k[2][1], runtime |-> k[2][2]]]
           S == {f[k] : k \in K}
<1>1. IsFiniteSet(D)
  <2>1. D = 1..Len(Catalogue) /\ Len(Catalogue) \in Int
    BY SearchAssumption
  <2> HIDE DEF D
  <2> QED BY <2>1, FS_Interval
<1>2. IsFiniteSet(P) /\ IsFiniteSet(R) /\ IsFiniteSet(N)
  <2>1. IsFiniteSet({"fp16", "bf16"}) /\ IsFiniteSet({"fp8", "int8"}) /\ IsFiniteSet({"int4"})
        /\ IsFiniteSet({1, 2}) /\ IsFiniteSet({4}) /\ IsFiniteSet(R)
    BY PairIsFinite, FS_Singleton
  <2>2. IsFiniteSet(({"fp16", "bf16"} \union {"fp8", "int8"}) \union {"int4"}) /\ IsFiniteSet({1, 2} \union {4})
    BY <2>1, FS_Union
  <2>3. P = ({"fp16", "bf16"} \union {"fp8", "int8"}) \union {"int4"} /\ N = {1, 2} \union {4}
    OBVIOUS
  <2> QED BY <2>1, <2>2, <2>3, Zenon
<1>3. Configurations(q) \subseteq S
  <2> SUFFICES ASSUME NEW c \in Configurations(q) PROVE c \in S
    OBVIOUS
  <2>1. PICK i \in D : c.device = Catalogue[i]
    BY DevicesAre
  <2>2. c.count \in N /\ c.precision \in P /\ c.runtime \in R
    BY DevicesAre
  <2> DEFINE k == <<<<i, c.count>>, <<c.precision, c.runtime>>>>
  <2>3. k \in K
    <3> HIDE DEF D, N, P, R
    <3> QED BY <2>2
  <2>4. f[k] = [device |-> c.device, count |-> c.count, precision |-> c.precision, runtime |-> c.runtime]
    <3> HIDE DEF K
    <3> QED BY <2>1, <2>3
  <2>5. f[k] = c
    BY <2>4, DevicesAre
  <2> HIDE DEF f, k, K
  <2> QED BY <2>3, <2>5
<1> HIDE DEF D, N, P, R
<1>4. IsFiniteSet(D \X N) /\ IsFiniteSet(P \X R)
  BY <1>1, <1>2, FS_Product
<1>5. IsFiniteSet(K)
  BY <1>4, FS_Product
<1> HIDE DEF f, K
<1>6. IsFiniteSet(S)
  BY <1>5, ImageIsFinite
<1> HIDE DEF S
<1> QED BY <1>3, <1>6, FS_Subset

\* Ranked lists what it is given, what serves the objective better first.
LEMMA RankedIs ==
  ASSUME NEW q \in Queries, NEW V, V \subseteq Configurations(q)
  PROVE  LET ranked == Ranked(q, V)
         IN  /\ Len(ranked) \in Nat /\ ranked \in [1..Len(ranked) -> V]
             /\ \A c \in V : \E k \in 1..Len(ranked) : ranked[k] = c
             /\ \A i, j \in 1..Len(ranked) : i < j => Penalty(q, ranked[i]) <= Penalty(q, ranked[j])
<1> DEFINE f == [c \in V |-> Keys(q, c)]
           T == {f[c] : c \in V}
           U == {Keys(q, c) : c \in V}
           o == InOrder(T)
           N == Cardinality(T)
           ranked == Ranked(q, V)
<1>1. IsFiniteSet(V)
  BY ConfigurationsAreFinite, FS_Subset
<1>2. \A c \in V : f[c] \in [1..5 -> Int] /\ f[c][1] = Penalty(q, c) /\ Keyed(f[c]) = c /\ Penalty(q, c) \in Int
  BY KeysAre, PenaltiesAre
<1>3. T = U
  OBVIOUS
<1> HIDE DEF f
<1>4. KeySet(T, 5)
  <2>1. IsFiniteSet(T)
    BY <1>1, ImageIsFinite
  <2>2. \A a \in T : a \in [1..5 -> Int]
    BY <1>2
  <2> HIDE DEF T
  <2> QED BY <2>1, <2>2 DEF KeySet
<1>5. \A a \in T : Keyed(a) \in V /\ Penalty(q, Keyed(a)) = a[1] /\ a[1] \in Int
  BY <1>2
<1>6. \A c \in V : \E a \in T : Keyed(a) = c
  BY <1>2
<1> HIDE DEF T
<1>7. ranked = [k \in DOMAIN o |-> Keyed(o[k])]
  <2>1. ranked = [k \in DOMAIN InOrder(U) |-> Keyed(InOrder(U)[k])]
    BY DEF Ranked
  <2> HIDE DEF U, ranked
  <2> QED BY <1>3, <2>1
<1>8. Sorts(o, T)
  BY <1>4, InOrderSorts
<1> HIDE DEF o, ranked
<1>9. /\ N \in Nat /\ o \in [1..N -> T]
      /\ \A a \in T : \E i \in 1..N : o[i] = a
      /\ \A i, j \in 1..N : i < j => Precedes(o[i], o[j])
  BY <1>8 DEF Sorts
<1> HIDE DEF N
<1>10. ranked \in [1..N -> V] /\ \A k \in 1..N : ranked[k] = Keyed(o[k]) /\ Penalty(q, ranked[k]) = o[k][1]
  BY <1>5, <1>7, <1>9
<1>11. Len(ranked) = N
  BY <1>9, <1>10
<1>12. \A c \in V : \E k \in 1..N : ranked[k] = c
  BY <1>6, <1>9, <1>10
<1>13. ASSUME NEW i \in 1..N, NEW j \in 1..N, i < j
       PROVE  Penalty(q, ranked[i]) <= Penalty(q, ranked[j])
  <2> DEFINE a == o[i]
             b == o[j]
  <2>1. a \in T /\ b \in T /\ Precedes(a, b)
    BY <1>9, <1>13
  <2>2. a \in [1..5 -> Int] /\ b \in [1..5 -> Int]
    BY <1>4, <2>1 DEF KeySet
  <2> HIDE DEF a, b
  <2>3. a[1] <= b[1]
    BY <2>1, <2>2 DEF Precedes
  <2> QED BY <1>10, <2>3 DEF a, b
<1> QED BY <1>9, <1>10, <1>11, <1>12, <1>13 DEF ranked

\* The memory formula of the documentation follows from the code's own sums.
LEMMA ViableHolds ==
  ASSUME NEW q \in Queries, NEW c \in Configurations(q), Viable(q, c)
  PROVE  Holds(q, c)
<1> DEFINE bits == q.params * BytesPerParam[c.precision]
           w == Weights(q, c)
           kv == KvCache(q, c)
           over == Overhead(q, c)
           room == c.device.memory * c.count
<1>1. /\ bits \in Nat /\ w \in Nat /\ 2 * w + 1 >= bits /\ kv \in Nat
      /\ over \in Nat /\ 100 * over + 99 >= 15 * w + 12000
      /\ Required(q, c) = w + kv + over /\ room \in Nat
  BY SizesAre
<1>2. ~(Required(q, c) > room)
  <2>1. ModelFit(q, c).is_oom = (Required(q, c) > room)
    BY ScoresAre
  <2>2. ~ModelFit(q, c).is_oom
    BY DEF Viable
  <2> QED BY <2>1, <2>2, Zenon
<1>3. Holds(q, c) <=> 2000 * (room - 120 + 3) >= 1150 * q.params * BytesPerParam[c.precision] + 2000 * kv
  BY DEF Holds, HoldsAt
<1>4. 1150 * q.params * BytesPerParam[c.precision] = 1150 * bits
  <2> DEFINE x == q.params
             y == BytesPerParam[c.precision]
  <2>1. x \in Int /\ y \in Int
    <3>1. x \in Nat \ {0}
      BY QueriesAre
    <3>2. y \in {40, 20, 10}
      BY DevicesAre DEF BytesPerParam
    <3> HIDE DEF x, y
    <3> QED BY <3>1, <3>2
  <2> HIDE DEF x, y
  <2>2. 1150 * x * y = 1150 * (x * y)
    BY <2>1
  <2> QED BY <2>2 DEF x, y
<1> HIDE DEF bits, w, kv, over, room
<1>5. room >= w + kv + over
  BY <1>1, <1>2
<1>6. 2000 * (room - 120 + 3) >= 1150 * bits + 2000 * kv
  BY <1>1, <1>5
<1> QED BY <1>3, <1>4, <1>6

\* RecommendedRunsAndLeads: only what fits is ranked, and only what ranks
\* behind is left out.
THEOREM BestAreRecommended == SearchSpec => []RecommendedRunsAndLeads
<1> DEFINE SearchInv == query \in Queries /\ RecommendedRunsAndLeads
<1>1. SearchInit => SearchInv
  BY DEF SearchInit, RecommendedRunsAndLeads
<1>2. SearchInv /\ [SolveWorkloadOptimization]_searchVars => SearchInv'
  <2> SUFFICES ASSUME SearchInv, [SolveWorkloadOptimization]_searchVars PROVE SearchInv'
    OBVIOUS
  <2>1. CASE UNCHANGED searchVars
    BY <2>1 DEF searchVars, RecommendedRunsAndLeads
  <2>2. CASE SolveWorkloadOptimization
    <3> DEFINE V == {c \in Configurations(query) : Viable(query, c)}
               ranked == Ranked(query, V)
               m == Min({5, Len(ranked)})
               shown == SubSeq(ranked, 1, m)
    <3>1. query' = query /\ query \in Queries /\ result'.top = shown
      <4>1. \E valid \in {V} : \E r \in {Ranked(query, valid)} :
              result' = [total |-> Cardinality(Configurations(query)),
                         unviable |-> Cardinality(Configurations(query) \ valid),
                         top |-> SubSeq(r, 1, Min({5, Len(r)}))]
        BY <2>2 DEF SolveWorkloadOptimization
      <4>2. query' = query /\ query \in Queries
        BY <2>2 DEF SolveWorkloadOptimization
      <4> HIDE DEF V
      <4>3. \E r \in {Ranked(query, V)} :
              result' = [total |-> Cardinality(Configurations(query)),
                         unviable |-> Cardinality(Configurations(query) \ V),
                         top |-> SubSeq(r, 1, Min({5, Len(r)}))]
        BY <4>1
      <4>4. result' = [total |-> Cardinality(Configurations(query)),
                       unviable |-> Cardinality(Configurations(query) \ V), top |-> shown]
        BY <4>3
      <4> HIDE DEF shown
      <4> QED BY <4>2, <4>4
    <3>2. V \subseteq Configurations(query) /\ \A c \in Configurations(query) : Viable(query, c) => c \in V
      OBVIOUS
    <3>3. /\ Len(ranked) \in Nat /\ ranked \in [1..Len(ranked) -> V]
          /\ \A c \in V : \E k \in 1..Len(ranked) : ranked[k] = c
          /\ \A i, j \in 1..Len(ranked) : i < j => Penalty(query, ranked[i]) <= Penalty(query, ranked[j])
      <4> HIDE DEF V
      <4> QED BY <3>1, <3>2, RankedIs
    <3>4. \A c \in V : Viable(query, c)
      OBVIOUS
    <3> HIDE DEF V, ranked
    <3>5. m \in Nat /\ m <= Len(ranked) /\ (m = 5 \/ m = Len(ranked))
      BY <3>3, LesserIsMin
    <3> HIDE DEF m
    <3>6. DOMAIN shown = 1..m /\ \A k \in 1..m : shown[k] = ranked[k]
      <4> DEFINE n == Len(ranked)
      <4>1. ranked \in Seq(V)
        <5> HIDE DEF n
        <5>1. n \in Nat /\ ranked \in [1..n -> V]
          BY <3>3 DEF n
        <5> QED BY <5>1
      <4>2. n \in Nat /\ m <= n
        BY <3>3, <3>5
      <4> QED BY <3>5, <4>1, <4>2
    <3> HIDE DEF shown
    <3>7. ToSet(shown) = {ranked[k] : k \in 1..m}
      BY <3>6 DEF ToSet
    <3>8. ASSUME NEW c \in ToSet(shown)
          PROVE  /\ Holds(query, c) /\ ModelFit(query, c).grade # "F"
                 /\ query.max_cost # 0 => CostPerHour(c) <= query.max_cost
      <4>1. c \in V
        <5>1. PICK k \in 1..m : c = ranked[k]
          BY <3>7
        <5> DEFINE n == Len(ranked)
        <5>2. n \in Nat /\ m \in Nat /\ m <= n /\ ranked \in [1..n -> V]
          BY <3>3, <3>5
        <5> HIDE DEF n
        <5>3. k \in 1..n
          BY <5>1, <5>2
        <5> QED BY <5>1, <5>2, <5>3
      <4>2. c \in Configurations(query) /\ Viable(query, c)
        BY <3>2, <3>4, <4>1
      <4> QED BY <3>1, <4>2, ViableHolds, ScoresAre DEF Viable
    <3>9. ASSUME NEW c \in ToSet(shown), NEW d \in Configurations(query) \ ToSet(shown), Viable(query, d)
          PROVE  Penalty(query, c) <= Penalty(query, d)
      <4>1. PICK i \in 1..m : c = ranked[i]
        BY <3>7
      <4>2. PICK j \in 1..Len(ranked) : d = ranked[j]
        BY <3>2, <3>3, <3>9
      <4>3. ~(j \in 1..m)
        BY <3>7, <3>9, <4>2
      <4>4. i < j /\ i \in 1..Len(ranked)
        <5> DEFINE n == Len(ranked)
        <5>1. n \in Nat /\ m \in Nat /\ m <= n /\ j \in 1..n
          BY <3>3, <3>5
        <5> HIDE DEF n
        <5>2. i < j /\ i \in 1..n
          BY <4>3, <5>1
        <5> QED BY <5>2 DEF n
      <4> QED BY <3>3, <4>1, <4>2, <4>4
    <3> QED BY <3>1, <3>8, <3>9 DEF RecommendedRunsAndLeads
  <2> QED BY <2>1, <2>2
<1>3. SearchInv => RecommendedRunsAndLeads
  OBVIOUS
<1> QED BY <1>1, <1>2, <1>3, PTL DEF SearchSpec

-----------------------------------------------------------------------------
(* The compiled plan                                                       *)

\* a candidate that one node runs
RunsOnANode(r, c) ==
  c.count <= 8 /\ 9 * c.count * Hardware[c.device].memory >= 10 * TotalMemory(r, c.precision)

\* What a device and a precision give.
LEMMA BasesAre ==
  ASSUME NEW r \in Requests, NEW i \in DOMAIN Hardware, NEW p \in {"fp8", "fp16", "int4"}
  PROVE  LET b == Base(r, i, p)
         IN  /\ b.device = i /\ b.precision = p /\ b.count = DeviceCount(r, Hardware[i], p)
             /\ b.count \in Nat /\ 9 * b.count * Hardware[i].memory >= 10 * TotalMemory(r, p)
             /\ b.tps \in Int /\ b.ttft \in Int /\ b.cost \in Int
<1> DEFINE hw == Hardware[i]
           memory == hw.memory
           observed == hw.observed
           price == IF hw.price = 0 THEN 150 ELSE hw.price
           bytes == BytesPerHundred[p]
           total == TotalMemory(r, p)
           n == DeviceCount(r, hw, p)
           tps == BaseTps(hw, p, n)
           ttft == BaseTtft(r, hw)
           cost == (25000 * price * n) \div (9 * tps)
           b == Base(r, i, p)
<1>1. memory \in Nat \ {0} /\ observed \in Nat \ {0} /\ price \in Nat /\ bytes \in {200, 100, 55}
  BY PlanAssumption DEF BytesPerHundred
<1>2. r.params \in Nat /\ r.context \in Nat /\ r.concurrency \in Nat /\ r.prompt \in Nat
  BY PlanAssumption
<1>3. /\ b.device = i /\ b.precision = p /\ b.count = n
      /\ b.tps = tps /\ b.ttft = ttft /\ b.cost = cost
  BY DEF Base
<1>4. total \in Int
  <2> DEFINE weights == r.params * bytes
             caches == 1342 * r.context * r.concurrency * (IF p = "fp16" THEN 2 ELSE 1)
  <2>1. total = weights \div 10 + caches \div 100 + 200
    BY DEF TotalMemory, CacheOf
  <2> HIDE DEF total, bytes
  <2>2. weights \in Int /\ caches \in Int
    <3>1. weights \in Int
      BY <1>1, <1>2
    <3>2. 1342 * r.context * r.concurrency \in Int
      BY <1>2
    <3> QED BY <3>1, <3>2
  <2> HIDE DEF weights, caches
  <2> QED BY <2>1, <2>2
<1>5. n \in Nat /\ n >= 1 /\ 9 * n * memory >= 10 * total
  <2> DEFINE a == -10 * total
             d == 9 * memory
             q == a \div d
  <2>1. n = Max({1, -q})
    BY DEF DeviceCount, DevicesFor
  <2> HIDE DEF n, total, memory
  <2>2. a \in Int /\ a = -(10 * total) /\ d \in Nat \ {0}
    BY <1>1, <1>4
  <2> HIDE DEF a, d
  <2>3. q \in Int /\ d * q <= a
    BY <2>2
  <2> HIDE DEF q
  <2>4. n = IF 1 >= -q THEN 1 ELSE -q
    BY <2>1, <2>3, GreaterIsMax
  <2>5. n \in Nat /\ n >= 1 /\ n >= -q
    BY <2>3, <2>4
  <2>6. d * n >= d * (-q) /\ d * (-q) = -(d * q) /\ d * n \in Int
    BY <2>2, <2>3, <2>5
  <2>7. d * n >= 10 * total
    BY <1>4, <2>2, <2>3, <2>6
  <2>8. 9 * n * memory = d * n
    BY <1>1, <2>5 DEF d
  <2> QED BY <2>5, <2>7, <2>8
<1>6. tps \in Nat /\ tps >= 1
  <2> DEFINE one == (75 * observed) \div (2 * bytes)
             many == IF n > 1 THEN (one * n * 85) \div 100 ELSE one
  <2>1. tps = Max({1, many})
    BY DEF BaseTps
  <2> HIDE DEF tps, n, bytes, observed
  <2>2. one \in Int
    BY <1>1
  <2> HIDE DEF one
  <2>3. one * n * 85 \in Int
    BY <1>5, <2>2
  <2>4. many \in Int
    BY <2>2, <2>3
  <2> HIDE DEF many
  <2> QED BY <2>1, <2>4, GreaterIsMax
<1>7. ttft \in Int
  <2> DEFINE t == (10000 * r.prompt) \div (3 * observed)
  <2>1. ttft = Max({80, t})
    BY DEF BaseTtft
  <2> HIDE DEF ttft, observed
  <2>2. t \in Int
    BY <1>1, <1>2
  <2> HIDE DEF t
  <2> QED BY <2>1, <2>2, GreaterIsMax
<1>8. cost \in Int
  <2> DEFINE a == 25000 * price * n
             d == 9 * tps
  <2> HIDE DEF price, n, tps
  <2>1. a \in Int /\ d \in Nat \ {0}
    BY <1>1, <1>5, <1>6
  <2> HIDE DEF a, d
  <2>2. a \div d \in Int
    BY <2>1
  <2> QED BY <2>2 DEF a, d
<1>9. b.count = DeviceCount(r, Hardware[i], p) /\ n = b.count
  BY <1>3
<1> HIDE DEF b, n, tps, ttft, cost, hw, memory, total
<1>10. b.count \in Nat /\ 9 * b.count * memory >= 10 * total
  BY <1>5, <1>9
<1> QED BY <1>3, <1>6, <1>7, <1>8, <1>9, <1>10 DEF b, hw, memory, total

\* What a target makes of it.
LEMMA ChangesAre ==
  ASSUME NEW b, b.tps \in Int, b.ttft \in Int, b.cost \in Int,
         NEW runtime, NEW t \in Int, NEW l \in Int, NEW p \in Int, NEW rank \in Int
  PROVE  LET c == Changed(b, runtime, t, l, p, rank)
         IN  /\ c.runtime = runtime /\ c.device = b.device /\ c.precision = b.precision /\ c.count = b.count
             /\ c.tps \in Int /\ c.ttft \in Int /\ c.cost \in Int /\ c.rank \in Int
<1> DEFINE x == b.tps
           y == b.ttft
           z == b.cost
           c == Changed(b, runtime, t, l, p, rank)
<1>1. /\ c.runtime = runtime /\ c.device = b.device /\ c.precision = b.precision /\ c.count = b.count
      /\ c.tps = (x * t) \div 100 /\ c.ttft = (y * l) \div 100 /\ c.cost = (z * p) \div 100 /\ c.rank = rank
  BY DEF Changed
<1>2. x \in Int /\ y \in Int /\ z \in Int
  OBVIOUS
<1> HIDE DEF x, y, z, c
<1>3. x * t \in Int /\ y * l \in Int /\ z * p \in Int
  BY <1>2
<1>4. (x * t) \div 100 \in Int /\ (y * l) \div 100 \in Int /\ (z * p) \div 100 \in Int
  BY <1>3
<1> QED BY <1>1, <1>4 DEF c

\* A candidate tells its slot, has a key, and runs on a node.
LEMMA CandidatesAre ==
  ASSUME NEW r \in Requests, NEW s \in Slots(r)
  PROVE  /\ s[1] \in Nat /\ s[2] \in {1, 2, 3} /\ s[3] \in {1, 2, 3, 4, 5} /\ s = <<s[1], s[2], s[3]>>
         /\ LET c == Candidate(r, s)
            IN  /\ c.runtime = Targets[s[3]] /\ c.device = s[1] /\ c.precision = Order[s[2]]
                /\ Key(r, c) \in Int /\ RunsOnANode(r, c)
<1> DEFINE i == s[1]
           p == Order[s[2]]
           b == Base(r, i, p)
           c == Candidate(r, s)
           rank == IF /\ r.ttft = 0 \/ (b.ttft * 75) \div 100 <= r.ttft
                      /\ r.tps = 0 \/ (b.tps * 135) \div 100 >= r.tps
                      /\ r.cost = 0 \/ b.cost <= r.cost
                   THEN 190 ELSE 157
<1>1. i \in DOMAIN Hardware /\ s[2] \in {1, 2, 3} /\ s[3] \in {1, 2, 3, 4, 5} /\ s = <<s[1], s[2], s[3]>>
  <2>1. s \in (DOMAIN Hardware) \X (DOMAIN Order) \X (DOMAIN Targets)
    BY DEF Slots
  <2>2. DOMAIN Order = {1, 2, 3} /\ DOMAIN Targets = {1, 2, 3, 4, 5}
    BY DEF Order, Targets
  <2> QED BY <2>1, <2>2
<1>2. i \in Nat
  BY <1>1, PlanAssumption
<1>3. p \in {"fp8", "fp16", "int4"}
  BY <1>1 DEF Order
<1>4. /\ b.device = i /\ b.precision = p /\ b.count \in Nat /\ b.count <= 8
      /\ 9 * b.count * Hardware[i].memory >= 10 * TotalMemory(r, p)
      /\ b.tps \in Int /\ b.ttft \in Int /\ b.cost \in Int
  <2>1. DeviceCount(r, Hardware[i], p) <= 8
    BY DEF Slots
  <2> QED BY <1>1, <1>3, <2>1, BasesAre
<1>5. rank \in Int
  OBVIOUS
<1>6. c = <<Changed(b, "dynamo", 135, 75, 100, rank), Changed(b, "nim", 125, 85, 100, 184),
            Changed(b, "vllm", 100, 100, 100, 185), Changed(b, "gke-tpu", 130, 78, 100, 190),
            Changed(b, "vertex-ai", 123, 82, 110, 185)>>[s[3]]
  BY DEF Candidate, Dynamo, Nim, Vllm, GkeTpu, VertexAi
<1> HIDE DEF rank, b, c, p
<1>7. /\ c.runtime = Targets[s[3]] /\ c.device = b.device /\ c.precision = b.precision /\ c.count = b.count
      /\ c.tps \in Int /\ c.ttft \in Int /\ c.cost \in Int /\ c.rank \in Int
  <2>1. CASE s[3] = 1
    BY <1>4, <1>5, <1>6, <2>1, ChangesAre DEF Targets
  <2>2. CASE s[3] = 2
    BY <1>4, <1>6, <2>2, ChangesAre DEF Targets
  <2>3. CASE s[3] = 3
    BY <1>4, <1>6, <2>3, ChangesAre DEF Targets
  <2>4. CASE s[3] = 4
    BY <1>4, <1>6, <2>4, ChangesAre DEF Targets
  <2>5. CASE s[3] = 5
    BY <1>4, <1>6, <2>5, ChangesAre DEF Targets
  <2> QED BY <1>1, <2>1, <2>2, <2>3, <2>4, <2>5
<1>8. Key(r, c) \in Int
  BY <1>7 DEF Key
<1>9. RunsOnANode(r, c)
  BY <1>4, <1>7 DEF RunsOnANode
<1> QED BY <1>1, <1>2, <1>4, <1>7, <1>8, <1>9 DEF c, p

LEMMA SlotsAreFinite ==
  ASSUME NEW r
  PROVE  IsFiniteSet(Slots(r))
<1> DEFINE D == DOMAIN Hardware
           P == DOMAIN Order
           T == DOMAIN Targets
           n == Len(Hardware)
           p == Len(Order)
           t == Len(Targets)
<1>1. D = 1..n /\ n \in Int
  BY PlanAssumption
<1>2. P = 1..p /\ p \in Int
  BY DEF Order
<1>3. T = 1..t /\ t \in Int
  BY DEF Targets
<1>4. Slots(r) \subseteq D \X P \X T
  BY DEF Slots
<1> HIDE DEF D, P, T, n, p, t
<1>5. IsFiniteSet(D) /\ IsFiniteSet(P) /\ IsFiniteSet(T)
  BY <1>1, <1>2, <1>3, FS_Interval
<1> DEFINE f == [x \in (D \X P) \X T |-> <<x[1][1], x[1][2], x[2]>>]
           I == {f[x] : x \in (D \X P) \X T}
<1>6. IsFiniteSet((D \X P) \X T)
  <2>1. IsFiniteSet(D \X P)
    BY <1>5, FS_Product
  <2> QED BY <1>5, <2>1, FS_Product
<1>7. D \X P \X T \subseteq I
  <2> SUFFICES ASSUME NEW a \in D, NEW b \in P, NEW c \in T PROVE <<a, b, c>> \in I
    OBVIOUS
  <2>1. <<<<a, b>>, c>> \in (D \X P) \X T /\ f[<<<<a, b>>, c>>] = <<a, b, c>>
    OBVIOUS
  <2> HIDE DEF f
  <2> QED BY <2>1
<1> HIDE DEF f
<1>8. IsFiniteSet(I)
  <2> DEFINE Y == (D \X P) \X T
  <2> HIDE DEF Y
  <2>1. IsFiniteSet({f[x] : x \in Y})
    BY <1>6, ImageIsFinite DEF Y
  <2> QED BY <2>1 DEF Y
<1> QED BY <1>4, <1>7, <1>8, FS_Subset

\* Sorted lists the candidates, each once, what the objective puts first before
\* the others.
LEMMA SortedAre ==
  ASSUME NEW r \in Requests
  PROVE  LET n == Cardinality(Candidates(r))
             ranked == Sorted(r)
         IN  /\ n \in Nat /\ ranked \in [1..n -> Candidates(r)]
             /\ \A c \in Candidates(r) : \E k \in 1..n : ranked[k] = c
             /\ \A i, j \in 1..n : i < j => ranked[i] # ranked[j] /\ Key(r, ranked[i]) <= Key(r, ranked[j])
<1> DEFINE S == Slots(r)
           C == Candidates(r)
           f == [s \in S |-> <<Key(r, Candidate(r, s)), s[1], s[2], s[3]>>]
           g == [s \in S |-> Candidate(r, s)]
           T == {f[s] : s \in S}
           U == {<<Key(r, Candidate(r, s)), s[1], s[2], s[3]>> : s \in S}
           o == InOrder(T)
           N == Cardinality(T)
           ranked == Sorted(r)
<1>1. IsFiniteSet(S)
  BY SlotsAreFinite
<1>2. ASSUME NEW s \in S
      PROVE  /\ f[s] \in [1..4 -> Int] /\ f[s][1] = Key(r, g[s]) /\ Tail(f[s]) = s /\ f[s][1] \in Int
             /\ g[s] = Candidate(r, s) /\ s = <<g[s].device, s[2], s[3]>>
             /\ s[2] \in {1, 2, 3} /\ s[3] \in {1, 2, 3, 4, 5}
             /\ g[s].precision = Order[s[2]] /\ g[s].runtime = Targets[s[3]]
  <2> DEFINE k == Key(r, Candidate(r, s))
             a == s[1]
             b == s[2]
             d == s[3]
  <2>1. k \in Int /\ a \in Int /\ b \in Int /\ d \in Int /\ s = <<a, b, d>>
    BY CandidatesAre
  <2>2. f[s] = <<k, a, b, d>> /\ g[s] = Candidate(r, s)
    OBVIOUS
  <2>3. /\ g[s].device = a /\ b \in {1, 2, 3} /\ d \in {1, 2, 3, 4, 5}
        /\ g[s].precision = Order[b] /\ g[s].runtime = Targets[d]
    BY CandidatesAre
  <2> HIDE DEF f, g, S
  <2>4. k = Key(r, g[s])
    BY <2>2
  <2> HIDE DEF k, a, b, d
  <2>5. f[s] \in [1..4 -> Int] /\ f[s][1] = k
    BY <2>1, <2>2
  <2>6. Tail(f[s]) = <<a, b, d>>
    BY <2>1, <2>2
  <2>7. s = <<g[s].device, b, d>>
    BY <2>1, <2>3
  <2>8. f[s][1] = Key(r, g[s]) /\ Tail(f[s]) = s /\ f[s][1] \in Int
    BY <2>1, <2>4, <2>5, <2>6
  <2>9. g[s] = Candidate(r, s)
    BY <2>2
  <2>10. s = <<g[s].device, s[2], s[3]>>
    BY <2>7 DEF b, d
  <2>11. /\ s[2] \in {1, 2, 3} /\ s[3] \in {1, 2, 3, 4, 5}
         /\ g[s].precision = Order[s[2]] /\ g[s].runtime = Targets[s[3]]
    BY <2>3 DEF b, d
  <2>12. f[s] \in [1..4 -> Int]
    BY <2>5
  <2> QED BY <2>8, <2>9, <2>10, <2>11, <2>12
<1>3. T = U /\ C = {g[s] : s \in S}
  BY DEF Candidates
<1> HIDE DEF f, g, S, C
<1>4. ASSUME NEW s \in S, NEW t \in S, g[s] = g[t] PROVE s = t
  <2>0. /\ g[s].precision = Order[s[2]] /\ g[s].runtime = Targets[s[3]]
        /\ g[t].precision = Order[t[2]] /\ g[t].runtime = Targets[t[3]]
    BY <1>2, Zenon
  <2>1. Order[s[2]] = Order[t[2]] /\ Targets[s[3]] = Targets[t[3]]
    BY <1>4, <2>0, Zenon
  <2>2. s[2] \in {1, 2, 3} /\ t[2] \in {1, 2, 3} /\ s[3] \in {1, 2, 3, 4, 5} /\ t[3] \in {1, 2, 3, 4, 5}
    BY <1>2
  <2> DEFINE a == s[2]
             b == t[2]
             c == s[3]
             d == t[3]
  <2> HIDE DEF a, b, c, d
  <2>3. a = b /\ c = d
    <3>1. a = b
      BY <2>1, <2>2 DEF Order, a, b
    <3>2. c = d
      BY <2>1, <2>2 DEF Targets, c, d
    <3> QED BY <3>1, <3>2
  <2>4. s = <<g[s].device, s[2], s[3]>> /\ t = <<g[t].device, t[2], t[3]>>
    BY <1>2
  <2>5. g[s].device = g[t].device
    BY <1>4
  <2> QED BY <2>3, <2>4, <2>5 DEF a, b, c, d
<1>5. \A s, t \in S : f[s] = f[t] => s = t
  <2> TAKE s \in S, t \in S
  <2>1. Tail(f[s]) = s /\ Tail(f[t]) = t
    BY <1>2
  <2> QED BY <2>1
<1>6. N = Cardinality(S)
  BY <1>1, <1>5, KeysTellApart
<1>7. Cardinality(C) = Cardinality(S)
  <2>1. \A s, t \in S : g[s] = g[t] => s = t
    BY <1>4
  <2> QED BY <1>1, <1>3, <2>1, KeysTellApart
<1>8. KeySet(T, 4)
  <2>1. IsFiniteSet(T)
    BY <1>1, ImageIsFinite
  <2>2. \A a \in T : a \in [1..4 -> Int]
    BY <1>2
  <2> HIDE DEF T
  <2> QED BY <2>1, <2>2 DEF KeySet
<1>9. ASSUME NEW a \in T PROVE Tail(a) \in S /\ a = f[Tail(a)]
  <2>1. PICK s \in S : a = f[s]
    OBVIOUS
  <2>2. Tail(f[s]) = s
    BY <1>2
  <2> QED BY <2>1, <2>2
<1>10. \A s \in S : f[s] \in T
  OBVIOUS
<1> HIDE DEF T
<1>11. ranked = [k \in DOMAIN o |-> Candidate(r, Tail(o[k]))]
  <2>1. ranked = [k \in DOMAIN InOrder(U) |-> Candidate(r, Tail(InOrder(U)[k]))]
    BY DEF Sorted, S
  <2> HIDE DEF U, ranked
  <2> QED BY <1>3, <2>1
<1>12. Sorts(o, T)
  BY <1>8, InOrderSorts
<1> HIDE DEF o, ranked
<1>13. /\ N \in Nat /\ o \in [1..N -> T]
       /\ \A a \in T : \E i \in 1..N : o[i] = a
       /\ \A i, j \in 1..N : i < j => Precedes(o[i], o[j])
  BY <1>12 DEF Sorts
<1> HIDE DEF N
<1>14. \A k \in 1..N : Tail(o[k]) \in S /\ ranked[k] = g[Tail(o[k])] /\ o[k] = f[Tail(o[k])]
  <2> TAKE k \in 1..N
  <2>1. o[k] \in T /\ k \in DOMAIN o
    BY <1>13
  <2>2. Tail(o[k]) \in S /\ o[k] = f[Tail(o[k])]
    BY <1>9, <2>1
  <2>3. g[Tail(o[k])] = Candidate(r, Tail(o[k]))
    BY <1>2, <2>2
  <2> QED BY <1>11, <2>1, <2>2, <2>3
<1>15. \A s \in S : g[s] \in C
  BY <1>3
<1>16. ranked \in [1..N -> C]
  BY <1>11, <1>13, <1>14, <1>15
<1>17. ASSUME NEW c \in C PROVE \E k \in 1..N : ranked[k] = c
  <2>1. PICK s \in S : c = g[s]
    BY <1>3
  <2>2. PICK k \in 1..N : o[k] = f[s]
    BY <1>10, <1>13
  <2>3. Tail(o[k]) = s
    BY <1>2, <2>2
  <2> QED BY <1>14, <2>1, <2>3
<1>18. ASSUME NEW i \in 1..N, NEW j \in 1..N, i < j
       PROVE  ranked[i] # ranked[j] /\ Key(r, ranked[i]) <= Key(r, ranked[j])
  <2> DEFINE a == o[i]
             b == o[j]
  <2>1. a \in T /\ b \in T /\ Precedes(a, b)
    BY <1>13, <1>18
  <2>2. a \in [1..4 -> Int] /\ b \in [1..4 -> Int]
    BY <1>8, <2>1 DEF KeySet
  <2> HIDE DEF a, b
  <2>3. a[1] <= b[1]
    BY <2>1, <2>2 DEF Precedes
  <2>4. a # b
    BY <2>1, <2>2, PrecedesIsStrict
  <2>5. /\ Tail(a) \in S /\ ranked[i] = g[Tail(a)] /\ a = f[Tail(a)]
        /\ Tail(b) \in S /\ ranked[j] = g[Tail(b)] /\ b = f[Tail(b)]
    BY <1>14 DEF a, b
  <2>6. ranked[i] # ranked[j]
    BY <1>4, <2>4, <2>5
  <2>7. Key(r, ranked[i]) = a[1] /\ Key(r, ranked[j]) = b[1]
    BY <1>2, <2>5
  <2> QED BY <2>3, <2>6, <2>7
<1> QED BY <1>6, <1>7, <1>13, <1>16, <1>17, <1>18 DEF C, ranked

\* the candidates whose runtime none before them has
News(cs, n) == {i \in 2..n : \A j \in 1..(i - 1) : cs[j].runtime # cs[i].runtime}

\* There are five runtimes, so the first pass is never cut short.
LEMMA DiverseIs ==
  ASSUME NEW n \in Nat, n >= 1, NEW C, NEW cs \in [1..n -> C],
         \A k \in 1..n : \E t \in 1..5 : cs[k].runtime = Targets[t]
  PROVE  LET news == News(cs, n)
             m == Cardinality(news)
         IN  /\ IsFiniteSet(news) /\ m \in Nat /\ m <= 4
             /\ Diverse(cs) \in [1..m -> news]
             /\ \A i \in news : \E k \in 1..m : Diverse(cs)[k] = i
             /\ \A i, j \in 1..m : i < j => Diverse(cs)[i] # Diverse(cs)[j]
<1> DEFINE news == News(cs, n)
           m == Cardinality(news)
           order == Ascending(news)
           all == {1} \union news
           h == [i \in all |-> CHOOSE t \in 1..5 : cs[i].runtime = Targets[t]]
           five == 1..5
<1>1. Len(cs) = n
  OBVIOUS
<1>2. news \subseteq 2..n
  BY DEF News
<1>3. IsFiniteSet(news) /\ m \in Nat /\ \A i \in news : i \in 1..n /\ i \in Int /\ i > 1
  <2>1. IsFiniteSet(2..n)
    BY FS_Interval
  <2>2. IsFiniteSet(news)
    <3> HIDE DEF news
    <3> QED BY <1>2, <2>1, FS_Subset
  <2> QED BY <1>2, <2>2, FS_CardinalityType
<1>4. \A i, j \in all : i # j => cs[i].runtime # cs[j].runtime
  <2>1. ASSUME NEW i \in all, NEW j \in all, i < j PROVE cs[i].runtime # cs[j].runtime
    <3>1. j \in news /\ i \in 1..(j - 1)
      BY <1>3, <2>1
    <3> QED BY <3>1 DEF News
  <2> QED BY <1>3, <2>1
<1>5. \A i \in all : h[i] \in five /\ cs[i].runtime = Targets[h[i]]
  BY <1>3
<1> HIDE DEF news, h
<1>6. m <= 4
  <2>1. IsFiniteSet(five) /\ Cardinality(five) = 5
    <3> DEFINE a == 1
               b == 5
    <3>1. a \in Int /\ b \in Int /\ a <= b /\ b - a + 1 = 5 /\ five = a..b
      OBVIOUS
    <3> HIDE DEF a, b, five
    <3>2. IsFiniteSet(a..b) /\ Cardinality(a..b) = b - a + 1
      BY <3>1, FS_Interval
    <3> QED BY <3>1, <3>2
  <2>2. h \in [all -> five]
    BY <1>5 DEF h
  <2> HIDE DEF five, all
  <2>3. h \in Injection(all, five)
    BY <1>4, <1>5, <2>2 DEF Injection, IsInjective
  <2>4. Cardinality(all) <= 5
    <3>1. ExistsInjection(all, five)
      BY <2>3 DEF ExistsInjection
    <3> QED BY <2>1, <2>3, <3>1, FS_Injection
  <2>5. Cardinality(all) = m + 1
    <3>1. 1 \notin news
      BY <1>3
    <3>2. all = news \union {1}
      BY DEF all
    <3> QED BY <1>3, <3>1, <3>2, FS_AddElement
  <2> HIDE DEF m
  <2> QED BY <1>3, <2>4, <2>5
<1>7. Lists(order, news)
  BY <1>3, AscendingLists
<1>8. Diverse(cs) = SubSeq(order, 1, Min({6, Len(order)}))
  BY <1>1 DEF Diverse, news, News
<1> HIDE DEF order
<1>9. /\ order \in [1..m -> news]
      /\ \A x \in news : \E k \in 1..m : order[k] = x
      /\ \A i, j \in 1..m : i < j => order[i] < order[j]
  BY <1>7 DEF Lists
<1> HIDE DEF m
<1>10. Len(order) = m
  BY <1>3, <1>9
<1>11. Min({6, Len(order)}) = m
  BY <1>3, <1>6, <1>10, LesserIsMin
<1>12. Diverse(cs) = order
  <2>1. order \in Seq(news)
    BY <1>3, <1>9
  <2>2. SubSeq(order, 1, m) = order
    BY <1>3, <1>9, <1>10, <2>1
  <2> QED BY <1>8, <1>11, <2>2
<1>13. \A i, j \in 1..m : i < j => order[i] # order[j]
  BY <1>3, <1>9
<1> QED BY <1>3, <1>6, <1>9, <1>12, <1>13 DEF m, news

LEMMA Joined ==
  ASSUME NEW S, NEW a \in Seq(S), NEW b \in Seq(S)
  PROVE  /\ a \o b \in Seq(S) /\ Len(a \o b) = Len(a) + Len(b)
         /\ \A i \in 1..Len(a) : (a \o b)[i] = a[i]
         /\ \A i \in 1..Len(b) : (a \o b)[Len(a) + i] = b[i]
OBVIOUS

\* the places the two passes come to
Passes(all, cs, n) ==
  /\ \A i, j \in 1..(n - 1) : i < j => all[i] # all[j]
  /\ \A i \in News(cs, n) : \E k \in 1..(n - 1) : k <= 4 /\ all[k] = i
  /\ Alternatives(cs) = [k \in 1..Min({8, n - 1}) |-> cs[all[k]]]

\* The two passes come to every candidate but the first, once, and to the new
\* runtimes' before the others.
LEMMA AlternativesAre ==
  ASSUME NEW n \in Nat, n >= 1, NEW C, NEW cs \in [1..n -> C],
         \A k \in 1..n : \E t \in 1..5 : cs[k].runtime = Targets[t]
  PROVE  \E all \in [1..(n - 1) -> 2..n] : Passes(all, cs, n)
<1> DEFINE news == News(cs, n)
           m == Cardinality(news)
           first == Diverse(cs)
           W == 2..n
           R == W \ news
           rest == Ascending(R)
           p == Cardinality(R)
           all == first \o rest
<1>1. /\ IsFiniteSet(news) /\ m \in Nat /\ m <= 4 /\ first \in [1..m -> news]
      /\ \A i \in news : \E k \in 1..m : first[k] = i
      /\ \A i, j \in 1..m : i < j => first[i] # first[j]
  BY DiverseIs
<1>2. Len(cs) = n
  OBVIOUS
<1>3. news \subseteq W
  BY DEF News
<1>4. IsFiniteSet(W) /\ Cardinality(W) = n - 1 /\ \A x \in W : x \in Int
  BY FS_Interval
<1> HIDE DEF news, first
<1>5. Alternatives(cs) = [k \in 1..Min({8, Len(all)}) |-> cs[all[k]]]
  <2>1. ToSet(first) = news
    <3> HIDE DEF m
    <3> QED BY <1>1 DEF ToSet
  <2>2. Alternatives(cs) =
          LET f == first
              r == Ascending((2..Len(cs)) \ ToSet(f))
              a == f \o r
          IN  [k \in 1..Min({8, Len(a)}) |-> cs[a[k]]]
    BY DEF Alternatives, first
  <2>3. rest = Ascending((2..Len(cs)) \ ToSet(first))
    BY <1>2, <2>1
  <2> QED BY <2>2, <2>3
<1> HIDE DEF W
<1>6. IsFiniteSet(R) /\ p = n - 1 - m
  <2>1. W \intersect news = news
    BY <1>3
  <2>2. IsFiniteSet(R) /\ p = Cardinality(W) - Cardinality(W \intersect news)
    BY <1>4, FS_Difference
  <2> QED BY <1>4, <2>1, <2>2
<1>7. Lists(rest, R) /\ p \in Nat
  BY <1>4, <1>6, AscendingLists
<1> HIDE DEF rest
<1>8. rest \in [1..p -> R] /\ \A i, j \in 1..p : i < j => rest[i] < rest[j]
  BY <1>7 DEF Lists
<1>9. R \subseteq W /\ \A x \in R : x \notin news
  OBVIOUS
<1> HIDE DEF R, m, p
<1>10. first \in Seq(W) /\ Len(first) = m /\ rest \in Seq(W) /\ Len(rest) = p
  <2>1. first \in Seq(news) /\ Len(first) = m
    BY <1>1
  <2>2. rest \in Seq(R) /\ Len(rest) = p
    BY <1>7, <1>8
  <2> QED BY <1>3, <1>9, <2>1, <2>2
<1>11. /\ all \in Seq(W) /\ Len(all) = m + p
       /\ \A i \in 1..m : all[i] = first[i]
       /\ \A i \in 1..p : all[m + i] = rest[i]
  <2>1. all \in Seq(W) /\ Len(all) = Len(first) + Len(rest)
    BY <1>10, Joined
  <2>2. \A i \in 1..Len(first) : all[i] = first[i]
    BY <1>10, Joined
  <2>3. \A i \in 1..Len(rest) : all[Len(first) + i] = rest[i]
    BY <1>10, Joined
  <2> QED BY <1>10, <2>1, <2>2, <2>3
<1> HIDE DEF all
<1>12. Len(all) = n - 1 /\ m + p = n - 1
  BY <1>1, <1>6, <1>7, <1>11
<1>13. all \in [1..(n - 1) -> W]
  BY <1>11, <1>12
<1>14. ASSUME NEW i \in 1..(n - 1), NEW j \in 1..(n - 1), i < j PROVE all[i] # all[j]
  <2>1. CASE j <= m
    <3>1. i \in 1..m /\ j \in 1..m
      BY <1>1, <1>14, <2>1
    <3>2. first[i] # first[j]
      BY <1>1, <1>14, <3>1
    <3> QED BY <1>11, <3>1, <3>2
  <2>2. CASE i > m
    <3> DEFINE x == i - m
               y == j - m
    <3>1. x \in 1..p /\ y \in 1..p /\ x < y /\ i = m + x /\ j = m + y
      BY <1>1, <1>7, <1>12, <1>14, <2>2
    <3> HIDE DEF x, y
    <3>2. rest[x] < rest[y] /\ rest[x] \in W /\ rest[y] \in W
      BY <1>8, <1>9, <3>1
    <3>3. rest[x] # rest[y]
      BY <1>4, <3>2
    <3> QED BY <1>11, <3>1, <3>3
  <2>3. CASE i <= m /\ j > m
    <3> DEFINE y == j - m
    <3>1. i \in 1..m /\ y \in 1..p /\ j = m + y
      BY <1>1, <1>7, <1>12, <1>14, <2>3
    <3> HIDE DEF y
    <3>2. first[i] \in news /\ rest[y] \in R
      BY <1>1, <1>8, <3>1
    <3> QED BY <1>9, <1>11, <3>1, <3>2
  <2> QED BY <1>1, <1>14, <2>1, <2>2, <2>3
<1>15. ASSUME NEW i \in news PROVE \E k \in 1..(n - 1) : k <= 4 /\ all[k] = i
  <2>1. PICK k \in 1..m : first[k] = i
    BY <1>1
  <2>2. k \in 1..(n - 1) /\ k <= 4
    BY <1>1, <1>7, <1>12
  <2> QED BY <1>11, <2>1, <2>2
<1>16. Passes(all, cs, n)
  BY <1>5, <1>12, <1>14, <1>15 DEF Passes, news
<1> QED BY <1>13, <1>16 DEF W

\* What is shown are the candidates at different places of the order, the
\* first place of each runtime among them.
LEMMA ShownAre ==
  ASSUME NEW r \in Requests, NEW recommended, NEW alternatives, Sorted(r) # <<>>,
         recommended = Sorted(r)[1], alternatives = Alternatives(Sorted(r))
  PROVE  LET shown == <<recommended>> \o alternatives
             all == Candidates(r)
         IN  /\ {c.runtime : c \in all} = {c.runtime : c \in ToSet(shown)}
             /\ Cardinality(ToSet(shown)) = Len(shown) /\ Len(shown) = Min({9, Cardinality(all)})
             /\ \A c \in all : Key(r, recommended) <= Key(r, c)
             /\ \A c \in ToSet(shown) : RunsOnANode(r, c)
<1> DEFINE C == Candidates(r)
           n == Cardinality(C)
           cs == Sorted(r)
           m == Min({8, n - 1})
<1>1. r \in Requests /\ cs # <<>> /\ recommended = cs[1] /\ alternatives = Alternatives(cs)
  OBVIOUS
<1>2. /\ n \in Nat /\ cs \in [1..n -> C]
      /\ \A c \in C : \E k \in 1..n : cs[k] = c
      /\ \A i, j \in 1..n : i < j => cs[i] # cs[j] /\ Key(r, cs[i]) <= Key(r, cs[j])
  BY <1>1, SortedAre
<1>3. ASSUME NEW c \in C
      PROVE  RunsOnANode(r, c) /\ Key(r, c) \in Int /\ \E t \in 1..5 : c.runtime = Targets[t]
  <2>1. PICK s \in Slots(r) : c = Candidate(r, s)
    BY DEF Candidates
  <2>2. s[3] \in 1..5 /\ c.runtime = Targets[s[3]] /\ RunsOnANode(r, c) /\ Key(r, c) \in Int
    BY <1>1, <2>1, CandidatesAre
  <2> QED BY <2>2
<1> HIDE DEF C, cs, n
<1>4. n >= 1
  <2> SUFFICES ASSUME n = 0 PROVE FALSE
    BY <1>2
  <2>1. 1..n = {}
    BY <1>2
  <2>2. cs = <<>>
    BY <1>2, <2>1
  <2> QED BY <1>1, <2>2
<1>5. PICK all \in [1..(n - 1) -> 2..n] : Passes(all, cs, n)
  <2>1. \A k \in 1..n : \E t \in 1..5 : cs[k].runtime = Targets[t]
    BY <1>2, <1>3
  <2> QED BY <1>2, <1>4, <2>1, AlternativesAre
<1>5a. /\ \A i, j \in 1..(n - 1) : i < j => all[i] # all[j]
       /\ \A i \in News(cs, n) : \E k \in 1..(n - 1) : k <= 4 /\ all[k] = i
       /\ Alternatives(cs) = [k \in 1..m |-> cs[all[k]]]
  BY <1>5 DEF Passes
<1>6. m = IF 8 <= n - 1 THEN 8 ELSE n - 1
  BY <1>2, LesserIsMin
<1> HIDE DEF m
<1>7. alternatives \in Seq(C) /\ Len(alternatives) = m /\ \A k \in 1..m : alternatives[k] = cs[all[k]]
  <2>1. \A k \in 1..m : k \in 1..(n - 1) /\ all[k] \in 1..n /\ cs[all[k]] \in C
    BY <1>2, <1>4, <1>5, <1>5a, <1>6
  <2>2. alternatives = [k \in 1..m |-> cs[all[k]]] /\ m \in Nat
    BY <1>1, <1>2, <1>4, <1>5, <1>5a, <1>6
  <2> QED BY <2>1, <2>2
<1> DEFINE shown == <<recommended>> \o alternatives
           one == <<recommended>>
           place == [k \in 1..(m + 1) |-> IF k = 1 THEN 1 ELSE all[k - 1]]
<1>8. one \in Seq(C) /\ Len(one) = 1 /\ one[1] = cs[1]
  BY <1>1, <1>2, <1>4
<1>9. shown = one \o alternatives
  OBVIOUS
<1> HIDE DEF shown, one
<1>10. /\ shown \in Seq(C) /\ Len(shown) = m + 1 /\ shown[1] = cs[1]
       /\ \A k \in 1..m : shown[k + 1] = cs[all[k]]
  <2>1. shown \in Seq(C) /\ Len(shown) = Len(one) + Len(alternatives)
    BY <1>7, <1>8, <1>9, Joined
  <2>2. one \in Seq(C) /\ alternatives \in Seq(C)
    BY <1>7, <1>8
  <2>3. /\ \A i \in 1..Len(one) : shown[i] = one[i]
        /\ \A i \in 1..Len(alternatives) : shown[Len(one) + i] = alternatives[i]
    <3>1. \A i \in 1..Len(one) : (one \o alternatives)[i] = one[i]
      BY <2>2, Joined
    <3>2. \A i \in 1..Len(alternatives) : (one \o alternatives)[Len(one) + i] = alternatives[i]
      BY <2>2, Joined
    <3> QED BY <1>9, <3>1, <3>2
  <2>4. Len(shown) = m + 1
    BY <1>2, <1>6, <1>7, <1>8, <2>1
  <2>5. shown[1] = cs[1]
    BY <1>8, <2>3
  <2>6. ASSUME NEW k \in 1..m PROVE shown[k + 1] = cs[all[k]]
    <3>1. shown[1 + k] = alternatives[k] /\ 1 + k = k + 1
      BY <1>7, <1>8, <2>3
    <3> QED BY <1>7, <3>1
  <2> QED BY <2>1, <2>4, <2>5, <2>6
<1>11. ASSUME NEW k \in 1..(m + 1)
       PROVE  place[k] \in 1..n /\ shown[k] = cs[place[k]] /\ (k > 1 => place[k] = all[k - 1] /\ place[k] > 1)
             /\ (k = 1 => place[k] = 1)
  <2>1. CASE k = 1
    BY <1>2, <1>4, <1>10, <2>1
  <2>2. CASE k > 1
    <3> DEFINE l == k - 1
    <3>1. l \in 1..m /\ l \in 1..(n - 1) /\ k = l + 1 /\ k # 1
      BY <1>2, <1>4, <1>6, <1>11, <2>2
    <3>2. place[k] = all[l]
      BY <3>1
    <3> HIDE DEF place
    <3>3. all[l] \in 2..n
      BY <1>5, <1>5a, <3>1
    <3> HIDE DEF l
    <3>4. shown[k] = cs[all[l]]
      BY <1>10, <3>1
    <3> QED BY <1>2, <3>1, <3>2, <3>3, <3>4 DEF l
  <2> QED BY <1>2, <1>4, <1>6, <2>1, <2>2
<1> HIDE DEF place
<1>12. ASSUME NEW k \in 1..(m + 1), NEW l \in 1..(m + 1), k < l PROVE place[k] # place[l]
  <2>1. place[l] = all[l - 1] /\ place[l] > 1
    <3>1. l > 1
      BY <1>2, <1>4, <1>6, <1>12
    <3> QED BY <1>11, <3>1
  <2>2. CASE k = 1
    <3>1. place[k] = 1
      BY <1>11, <2>2
    <3> QED BY <2>1, <3>1
  <2>3. CASE k > 1
    <3>1. place[k] = all[k - 1] /\ k - 1 \in 1..(n - 1) /\ l - 1 \in 1..(n - 1) /\ k - 1 < l - 1
      BY <1>2, <1>4, <1>6, <1>11, <1>12, <2>3
    <3> QED BY <1>5, <1>5a, <2>1, <3>1
  <2> QED BY <1>2, <1>4, <1>6, <1>12, <2>2, <2>3
<1>13. ASSUME NEW k \in 1..(m + 1), NEW l \in 1..(m + 1), shown[k] = shown[l] PROVE k = l
  <2>1. ASSUME NEW i \in 1..(m + 1), NEW j \in 1..(m + 1), i < j PROVE shown[i] # shown[j]
    <3> DEFINE x == place[i]
               y == place[j]
    <3>1. x \in 1..n /\ y \in 1..n /\ shown[i] = cs[x] /\ shown[j] = cs[y] /\ x # y
      BY <1>11, <1>12, <2>1
    <3> HIDE DEF x, y
    <3>2. x < y \/ y < x
      BY <1>2, <3>1
    <3> QED BY <1>2, <3>1, <3>2
  <2>2. k < l \/ l < k \/ k = l
    BY <1>2, <1>4, <1>6
  <2> QED BY <1>13, <2>1, <2>2
<1>14. m + 1 \in Nat /\ m + 1 = IF 9 <= n THEN 9 ELSE n
  BY <1>2, <1>4, <1>6
<1> DEFINE L == 1..(m + 1)
<1>15. ToSet(shown) = {shown[k] : k \in L}
  <2>1. DOMAIN shown = L
    BY <1>10
  <2> QED BY <2>1 DEF ToSet
<1>16. Cardinality(ToSet(shown)) = Len(shown)
  <2>1. IsFiniteSet(L) /\ Cardinality(L) = m + 1
    BY <1>14, FS_Interval
  <2> HIDE DEF L
  <2>2. \A k, l \in L : shown[k] = shown[l] => k = l
    BY <1>13 DEF L
  <2>3. Cardinality({shown[k] : k \in L}) = Cardinality(L)
    BY <2>1, <2>2, KeysTellApart
  <2> QED BY <1>10, <1>15, <2>1, <2>3
<1>17. Len(shown) = Min({9, n})
  <2>1. Min({9, n}) = IF 9 <= n THEN 9 ELSE n
    BY <1>2, LesserIsMin
  <2> QED BY <1>10, <1>14, <2>1
<1>18. \A k \in L : shown[k] \in C
  BY <1>10
<1>19. \A c \in ToSet(shown) : c \in C
  BY <1>15, <1>18
<1>20. ASSUME NEW c \in C PROVE \E d \in ToSet(shown) : d.runtime = c.runtime
  <2> DEFINE K == {j \in 1..n : cs[j].runtime = c.runtime}
             i == Min(K)
  <2>1. K # {}
    BY <1>2
  <2>2. IsFiniteSet(K) /\ \A j \in K : j \in Int
    <3>1. K \subseteq 1..n /\ IsFiniteSet(1..n) /\ \A j \in 1..n : j \in Int
      BY <1>2, FS_Interval
    <3> HIDE DEF K
    <3> QED BY <3>1, FS_Subset
  <2>3. i \in K /\ \A j \in K : i <= j
    <3> HIDE DEF K
    <3> QED BY <2>1, <2>2, LeastIsElement
  <2> HIDE DEF i
  <2>4. i \in 1..n /\ cs[i].runtime = c.runtime
    BY <2>3
  <2>5. CASE i = 1
    <3>1. 1 \in L /\ shown[1].runtime = c.runtime
      BY <1>10, <1>14, <2>4, <2>5
    <3> QED BY <1>15, <3>1
  <2>6. CASE i # 1
    <3>1. \A j \in 1..(i - 1) : cs[j].runtime # cs[i].runtime
      BY <1>2, <2>3, <2>4
    <3>2. i \in News(cs, n)
      BY <2>4, <2>6, <3>1 DEF News
    <3>3. PICK k \in 1..(n - 1) : k <= 4 /\ all[k] = i
      BY <1>5, <1>5a, <3>2
    <3>4. k \in 1..m /\ k + 1 \in L
      BY <1>2, <1>6, <3>3
    <3>5. shown[k + 1].runtime = c.runtime
      BY <1>10, <2>4, <3>3, <3>4
    <3> QED BY <1>15, <3>4, <3>5
  <2> QED BY <2>5, <2>6
<1>21. {c.runtime : c \in C} = {c.runtime : c \in ToSet(shown)}
  BY <1>19, <1>20
<1>22. ASSUME NEW c \in C PROVE Key(r, recommended) <= Key(r, c)
  <2>1. PICK k \in 1..n : cs[k] = c
    BY <1>2
  <2>2. 1 \in 1..n /\ (k = 1 \/ 1 < k)
    BY <1>2, <1>4
  <2>3. Key(r, cs[1]) <= Key(r, cs[k])
    BY <1>2, <1>3, <2>2
  <2> QED BY <1>1, <2>1, <2>3
<1>23. \A c \in ToSet(shown) : RunsOnANode(r, c)
  BY <1>3, <1>19
<1> HIDE DEF L
<1> QED BY <1>16, <1>17, <1>21, <1>22, <1>23 DEF shown, C, n

\* A saved plan is made of the sorted candidates.
PlanInv ==
  /\ request \in Requests
  /\ plan.status = "saved" =>
       /\ Sorted(request) # <<>>
       /\ plan.recommended = Sorted(request)[1] /\ plan.alternatives = Alternatives(Sorted(request))

LEMMA PlanIsSaved == PlanSpec => []PlanInv
<1>1. PlanInit => PlanInv
  BY DEF PlanInit, PlanInv, NoPlan
<1>2. PlanInv /\ [Compile]_planVars => PlanInv'
  <2> SUFFICES ASSUME PlanInv, [Compile]_planVars PROVE PlanInv'
    OBVIOUS
  <2>1. CASE Compile
    <3> DEFINE ranked == Sorted(request)
    <3>1. /\ request' = request
          /\ plan' = IF ranked = <<>> THEN [status |-> "error"]
                     ELSE [status |-> "saved", recommended |-> ranked[1], alternatives |-> Alternatives(ranked)]
      BY <2>1 DEF Compile
    <3>2. Sorted(request)' = ranked
      BY <3>1
    <3> HIDE DEF ranked
    <3> QED BY <3>1, <3>2 DEF PlanInv
  <2>2. CASE UNCHANGED planVars
    BY <2>2 DEF planVars, PlanInv
  <2> QED BY <2>1, <2>2
<1> QED BY <1>1, <1>2, PTL DEF PlanSpec

\* PlansSpanRuntimes: a saved plan is made of the sorted candidates.
THEOREM PlansAreDiverse == PlanSpec => []PlansSpanRuntimes
<1>1. PlanInv => PlansSpanRuntimes
  <2> SUFFICES ASSUME PlanInv, plan.status = "saved" PROVE PlansSpanRuntimes
    BY DEF PlansSpanRuntimes
  <2>1. PICK r, recommended, alternatives :
          r = request /\ recommended = plan.recommended /\ alternatives = plan.alternatives
    OBVIOUS
  <2>2. /\ r \in Requests /\ Sorted(r) # <<>>
        /\ recommended = Sorted(r)[1] /\ alternatives = Alternatives(Sorted(r))
    BY <2>1 DEF PlanInv
  <2>3. Shown = <<recommended>> \o alternatives
    BY <2>1 DEF Shown
  <2> DEFINE shown == <<recommended>> \o alternatives
             all == Candidates(r)
  <2>4. /\ {c.runtime : c \in all} = {c.runtime : c \in ToSet(shown)}
        /\ Cardinality(ToSet(shown)) = Len(shown) /\ Len(shown) = Min({9, Cardinality(all)})
        /\ \A c \in all : Key(r, recommended) <= Key(r, c)
        /\ \A c \in ToSet(shown) : RunsOnANode(r, c)
    BY <2>2, ShownAre
  <2>5. Shown = shown /\ Candidates(request) = all
    BY <2>1, <2>3
  <2> HIDE DEF shown, all
  <2> QED BY <2>1, <2>4, <2>5 DEF PlansSpanRuntimes, RunsOnANode
<1> QED BY <1>1, PlanIsSaved, PTL

-----------------------------------------------------------------------------
(* Deployment plans                                                        *)

LEMMA ProfilesAre ==
  ASSUME NEW i \in DOMAIN HARDWARE_PROFILES
  PROVE  /\ i \in Int
         /\ HARDWARE_PROFILES[i].vram \in Nat /\ HARDWARE_PROFILES[i].vram >= 1
         /\ HARDWARE_PROFILES[i].bandwidth \in Nat /\ HARDWARE_PROFILES[i].bandwidth >= 100
         /\ HARDWARE_PROFILES[i].price \in Nat
<1>1. i \in {1, 2, 3, 4, 5}
  BY DEF HARDWARE_PROFILES
<1> QED BY <1>1 DEF HARDWARE_PROFILES, Profile

LEMMA ParamsAre ==
  ASSUME NEW found
  PROVE  ModelParams(found) \in Nat
<1> DEFINE hits == {k \in DOMAIN ModelSizes : ModelSizes[k][1] \intersect found # {}}
<1>1. DOMAIN ModelSizes = 1..5 /\ \A k \in 1..5 : ModelSizes[k][2] \in Nat
  <2>1. DOMAIN ModelSizes = 1..5
    BY DEF ModelSizes
  <2>2. \A k \in {1, 2, 3, 4, 5} : ModelSizes[k][2] \in Nat
    BY DEF ModelSizes
  <2> QED BY <2>1, <2>2
<1> DEFINE D == DOMAIN ModelSizes
<1>2. IsFiniteSet(D) /\ \A k \in D : k \in Int /\ ModelSizes[k][2] \in Nat
  <2> DEFINE n == Len(ModelSizes)
  <2>1. n = 5
    BY DEF ModelSizes
  <2>2. n \in Int /\ 1 \in Int
    BY <2>1
  <2> HIDE DEF n
  <2>3. IsFiniteSet(1..n)
    BY <2>2, FS_Interval
  <2> QED BY <1>1, <2>1, <2>3
<1>3. ModelParams(found) = IF hits = {} THEN 325 ELSE ModelSizes[Min(hits)][2]
  BY DEF ModelParams
<1>4. hits \subseteq D
  OBVIOUS
<1> HIDE DEF hits, D
<1>5. hits # {} => Min(hits) \in hits
  <2>1. IsFiniteSet(hits) /\ \A k \in hits : k \in Int
    BY <1>2, <1>4, FS_Subset
  <2> QED BY <2>1, LeastIsElement
<1>6. hits # {} => ModelSizes[Min(hits)][2] \in Nat
  BY <1>2, <1>4, <1>5
<1> QED BY <1>3, <1>6

\* a candidate whose devices hold the model
Fits(w, c) ==
  9 * c.gpus * HARDWARE_PROFILES[c.device].vram >= 10 * TotalVram(w, c.precision)

\* The figures that an offer is made of.
LEMMA FiguresAre ==
  ASSUME NEW w \in Workloads, NEW i \in DOMAIN HARDWARE_PROFILES, NEW precision \in {"fp8", "fp16"}
  PROVE  LET hw == HARDWARE_PROFILES[i]
             n == GpusNeeded(w, hw, precision)
             rate == BaseRate(hw, precision, n)
         IN  /\ TotalVram(w, precision) \in Int
             /\ n \in Nat /\ n >= 1 /\ 9 * n * hw.vram >= 10 * TotalVram(w, precision)
             /\ rate \in Nat /\ rate >= 1
             /\ FirstToken(w, hw) \in Int /\ CostOfMillion(hw, n, rate) \in Int
<1> DEFINE hw == HARDWARE_PROFILES[i]
           b == Bytes(precision)
           n == GpusNeeded(w, hw, precision)
           rate == BaseRate(hw, precision, n)
           vram == hw.vram
           bandwidth == hw.bandwidth
           total == TotalVram(w, precision)
<1>1. b \in Nat /\ b \in {1, 2}
  BY DEF Bytes
<1>2. w.context \in Nat /\ w.concurrency \in Nat
  BY PlannerAssumption
<1>3. total \in Int
  <2> DEFINE m == ModelParams(w.found)
             kv == 1342 * w.context * w.concurrency
  <2>1. m \in Nat /\ kv \in Nat
    BY <1>2, ParamsAre
  <2>2. total = 10 * m * b + kv \div 100 + 200
    BY DEF TotalVram
  <2> HIDE DEF m, kv, b, total
  <2>3. 10 * m * b \in Int /\ kv \div 100 \in Int
    BY <1>1, <2>1
  <2> QED BY <2>2, <2>3
<1>4. vram \in Nat /\ vram >= 1 /\ bandwidth \in Nat /\ bandwidth >= 100 /\ hw.price \in Nat
  BY ProfilesAre
<1>5. n \in Nat /\ n >= 1 /\ 9 * n * vram >= 10 * total
  <2> DEFINE a == -10 * total
             d == 9 * vram
             q == a \div d
  <2>1. n = Max({1, -q})
    BY DEF GpusNeeded
  <2> HIDE DEF n, total, vram
  <2>2. a \in Int /\ a = -(10 * total) /\ d \in Nat \ {0}
    BY <1>3, <1>4
  <2> HIDE DEF a, d
  <2>3. q \in Int /\ d * q <= a
    BY <2>2
  <2> HIDE DEF q
  <2>4. n = IF 1 >= -q THEN 1 ELSE -q
    BY <2>1, <2>3, GreaterIsMax
  <2>5. n \in Nat /\ n >= 1 /\ n >= -q
    BY <2>3, <2>4
  <2>6. d * n >= d * (-q) /\ d * (-q) = -(d * q) /\ d * n \in Int
    BY <2>2, <2>3, <2>5
  <2>7. d * n >= 10 * total
    BY <1>3, <2>2, <2>3, <2>6
  <2>8. 9 * n * vram = d * n
    BY <1>4, <2>5 DEF d
  <2> QED BY <2>5, <2>7, <2>8
<1>6. rate \in Nat /\ rate >= 1
  <2> DEFINE one == (40 * bandwidth) \div (11 * b)
  <2>1. rate = IF n > 1 THEN (one * n * 85) \div 100 ELSE one
    BY DEF BaseRate
  <2> HIDE DEF rate, n, b, bandwidth
  <2>2. one \in Nat /\ one >= 2
    BY <1>1, <1>4
  <2> HIDE DEF one
  <2>3. one * n \in Nat /\ one * n >= 2
    BY <1>5, <2>2
  <2> DEFINE p == one * n
  <2>4. rate = IF n > 1 THEN (p * 85) \div 100 ELSE one
    BY <2>1
  <2> HIDE DEF p
  <2>5. (p * 85) \div 100 \in Nat /\ (p * 85) \div 100 >= 1
    BY <2>3 DEF p
  <2> QED BY <2>2, <2>4, <2>5
<1>7. FirstToken(w, hw) \in Int
  <2> DEFINE t == (409600 * w.context) \div bandwidth
  <2>1. t \in Int
    <3> HIDE DEF bandwidth
    <3> QED BY <1>2, <1>4
  <2> HIDE DEF t
  <2>2. Max({75, t}) \in Int
    BY <2>1, GreaterIsMax
  <2> QED BY <2>2 DEF FirstToken, t
<1>8. CostOfMillion(hw, n, rate) \in Int
  <2> DEFINE a == 27778 * hw.price * n
  <2>1. CostOfMillion(hw, n, rate) = a \div rate
    BY DEF CostOfMillion
  <2> HIDE DEF hw, n, rate
  <2>2. a \in Int
    BY <1>4, <1>5
  <2> HIDE DEF a
  <2>3. a \div rate \in Int
    BY <1>6, <2>2
  <2> QED BY <2>1, <2>3
<1> QED BY <1>3, <1>5, <1>6, <1>7, <1>8

\* an offer: it can be sorted, and its devices hold the model
IsOffer(w, c) == Place(c) \in [1..6 -> Int] /\ Fits(w, c)

LEMMA OffersAre ==
  ASSUME NEW w \in Workloads, NEW i \in DOMAIN HARDWARE_PROFILES, NEW precision \in {"fp8", "fp16"}
  PROVE  /\ IsFiniteSet(OffersOf(w, i, precision))
         /\ \A c \in OffersOf(w, i, precision) : IsOffer(w, c)
<1> DEFINE hw == HARDWARE_PROFILES[i]
           n == GpusNeeded(w, hw, precision)
           rate == BaseRate(hw, precision, n)
           wait == FirstToken(w, hw)
           cost == CostOfMillion(hw, n, rate)
           fit == Fitness(w, wait, cost)
           offer(runtime, gpus, t, l, c, score) ==
             [runtime |-> runtime, device |-> i, precision |-> precision, gpus |-> gpus,
              rate |-> (rate * t) \div 100, wait |-> (wait * l) \div 100, cost |-> (cost * c) \div 100, fit |-> score]
           two == IF n = 1 THEN 2 ELSE n
           three == {offer("vllm", n, 100, 100, 100, fit), offer("nim", n, 115, 88, 100, fit),
                     offer("dynamo", two, 135, 75, 115, fit + 3)}
<1>1. i \in Int /\ hw.vram \in Nat
  BY ProfilesAre
<1>2. /\ TotalVram(w, precision) \in Int
      /\ n \in Nat /\ n >= 1 /\ 9 * n * hw.vram >= 10 * TotalVram(w, precision)
      /\ rate \in Int /\ wait \in Int /\ cost \in Int
  BY FiguresAre
<1>3. fit \in Int
  BY DEF Fitness
<1>4. OffersOf(w, i, precision) \subseteq three
  BY DEF OffersOf
<1> HIDE DEF n, rate, wait, cost, fit
<1>5. ASSUME NEW runtime, NEW gpus \in Nat, gpus >= n,
             NEW t \in Int, NEW l \in Int, NEW p \in Int, NEW score \in Int
      PROVE  IsOffer(w, offer(runtime, gpus, t, l, p, score))
  <2> DEFINE c == offer(runtime, gpus, t, l, p, score)
  <2>1. /\ c.device = i /\ c.precision = precision /\ c.gpus = gpus /\ c.runtime = runtime
        /\ c.rate = (rate * t) \div 100 /\ c.cost = (cost * p) \div 100 /\ c.fit = score
    OBVIOUS
  <2>2. (rate * t) \div 100 \in Int /\ (cost * p) \div 100 \in Int
    <3> DEFINE x == rate * t
               y == cost * p
    <3>1. x \in Int /\ y \in Int
      BY <1>2, <1>5
    <3> HIDE DEF x, y
    <3>2. x \div 100 \in Int /\ y \div 100 \in Int
      BY <3>1
    <3> QED BY <3>2 DEF x, y
  <2>3. c.fit \in Int /\ c.cost \in Int /\ c.rate \in Int /\ c.device \in Int
    BY <1>1, <1>5, <2>1, <2>2
  <2> HIDE DEF c
  <2>4. Place(c) \in [1..6 -> Int]
    BY <2>3 DEF Place
  <2>5. Fits(w, c)
    <3> DEFINE vram == hw.vram
               total == TotalVram(w, precision)
    <3>1. vram \in Nat /\ total \in Int /\ 9 * n * vram >= 10 * total
      BY <1>1, <1>2
    <3>2. Fits(w, c) <=> 9 * gpus * vram >= 10 * total
      BY <2>1 DEF Fits
    <3> HIDE DEF vram, total
    <3>3. gpus * vram >= n * vram /\ gpus * vram \in Int /\ n * vram \in Int
      BY <1>2, <1>5, <3>1
    <3>4. 9 * gpus * vram = 9 * (gpus * vram) /\ 9 * n * vram = 9 * (n * vram)
      BY <1>2, <1>5, <3>1
    <3>5. 9 * gpus * vram >= 10 * total
      BY <3>1, <3>3, <3>4
    <3> QED BY <3>2, <3>5
  <2> QED BY <2>4, <2>5 DEF IsOffer, c
<1>6. \A c \in three : IsOffer(w, c)
  <2>1. two \in Nat /\ two >= n /\ fit + 3 \in Int
    BY <1>2, <1>3
  <2> HIDE DEF offer, two
  <2>2. IsOffer(w, offer("vllm", n, 100, 100, 100, fit))
    BY <1>2, <1>3, <1>5
  <2>3. IsOffer(w, offer("nim", n, 115, 88, 100, fit))
    BY <1>2, <1>3, <1>5
  <2>4. IsOffer(w, offer("dynamo", two, 135, 75, 115, fit + 3))
    BY <1>5, <2>1
  <2> QED BY <2>2, <2>3, <2>4
<1>7. IsFiniteSet(three)
  <2> HIDE DEF offer, two
  <2> DEFINE a == offer("vllm", n, 100, 100, 100, fit)
             b == offer("nim", n, 115, 88, 100, fit)
             d == offer("dynamo", two, 135, 75, 115, fit + 3)
  <2>1. three = {a, b} \union {d}
    OBVIOUS
  <2> HIDE DEF three, a, b, d
  <2>2. IsFiniteSet({a, b}) /\ IsFiniteSet({d})
    BY PairIsFinite, FS_Singleton
  <2> QED BY <2>1, <2>2, FS_Union
<1> HIDE DEF three
<1> QED BY <1>4, <1>6, <1>7, FS_Subset

LEMMA AllOffersAre ==
  ASSUME NEW w \in Workloads
  PROVE  IsFiniteSet(AllOffers(w)) /\ \A c \in AllOffers(w) : IsOffer(w, c)
<1> DEFINE D == DOMAIN HARDWARE_PROFILES
           P == {"fp8", "fp16"}
           f == [x \in D \X P |-> OffersOf(w, x[1], x[2])]
           R == {f[x] : x \in D \X P}
<1>1. IsFiniteSet(D \X P)
  <2> DEFINE n == Len(HARDWARE_PROFILES)
  <2>1. n = 5
    BY DEF HARDWARE_PROFILES
  <2>2. D = 1..n
    BY DEF HARDWARE_PROFILES
  <2>3. n \in Int /\ 1 \in Int
    BY <2>1
  <2> HIDE DEF n, D
  <2>4. IsFiniteSet(1..n)
    BY <2>3, FS_Interval
  <2>5. IsFiniteSet(P)
    BY PairIsFinite
  <2> QED BY <2>2, <2>4, <2>5, FS_Product
<1>2. \A x \in D \X P : IsFiniteSet(f[x]) /\ \A c \in f[x] : IsOffer(w, c)
  BY OffersAre
<1>3. AllOffers(w) \subseteq UNION R
  <2> SUFFICES ASSUME NEW c \in AllOffers(w) PROVE c \in UNION R
    OBVIOUS
  <2>1. PICK i \in D, precision \in P : c \in OffersOf(w, i, precision)
    BY DEF AllOffers
  <2>2. <<i, precision>> \in D \X P /\ f[<<i, precision>>] = OffersOf(w, i, precision)
    OBVIOUS
  <2> HIDE DEF f, D, P
  <2> QED BY <2>1, <2>2
<1> HIDE DEF f, D, P
<1>4. IsFiniteSet(R)
  BY <1>1, ImageIsFinite
<1>5. \A T \in R : IsFiniteSet(T)
  BY <1>2
<1>6. IsFiniteSet(UNION R)
  <2> HIDE DEF R
  <2> QED BY <1>4, <1>5, FS_UNION
<1> QED BY <1>2, <1>3, <1>6, FS_Subset

\* What a plan recommends holds the model.
LEMMA ChosenHolds ==
  ASSUME NEW w \in Workloads, NEW target
  PROVE  \A c \in Chosen(w, target) : Fits(w, c)
<1> DEFINE S == AllOffers(w)
           place == [c \in S |-> Place(c)]
           T == {place[c] : c \in S}
           o == InOrder(T)
           m == Min({6, Len(o)})
           cs == SynthesizeCandidates(w)
           hits == {k \in DOMAIN cs : Matches(target, cs[k])}
<1>1. IsFiniteSet(S) /\ \A c \in S : IsOffer(w, c)
  BY AllOffersAre
<1>2. T = {Place(c) : c \in S}
  OBVIOUS
<1>3. \A c \in S : place[c] = Place(c)
  OBVIOUS
<1> HIDE DEF place, S
<1>4. KeySet(T, 6)
  <2>1. IsFiniteSet(T)
    BY <1>1, ImageIsFinite
  <2>2. \A a \in T : a \in [1..6 -> Int]
    BY <1>1, <1>3 DEF IsOffer
  <2> HIDE DEF T
  <2> QED BY <2>1, <2>2 DEF KeySet
<1>5. \A t \in T : \E c \in S : Place(c) = t
  BY <1>3
<1> HIDE DEF T
<1>6. cs = [k \in 1..m |-> CHOOSE c \in S : Place(c) = o[k]]
  <2> DEFINE U == {Place(c) : c \in S}
  <2>1. cs = [k \in 1..Min({6, Len(InOrder(U))}) |-> CHOOSE c \in S : Place(c) = InOrder(U)[k]]
    BY DEF SynthesizeCandidates, S
  <2>2. T = U
    BY <1>2
  <2> HIDE DEF U, cs
  <2> QED BY <2>1, <2>2
<1>7. Sorts(o, T)
  BY <1>4, InOrderSorts
<1> DEFINE N == Cardinality(T)
<1> HIDE DEF o
<1>8. N \in Nat /\ o \in [1..N -> T] /\ Len(o) = N
  <2>1. N \in Nat /\ o \in [1..N -> T]
    BY <1>7 DEF Sorts
  <2> HIDE DEF N
  <2> QED BY <2>1
<1> HIDE DEF N
<1>9. m = IF 6 <= N THEN 6 ELSE N
  BY <1>8, LesserIsMin
<1> HIDE DEF m, cs
<1>10. \A k \in 1..m : cs[k] \in S
  <2> TAKE k \in 1..m
  <2>1. o[k] \in T
    BY <1>8, <1>9
  <2>2. cs[k] = CHOOSE c \in S : Place(c) = o[k]
    BY <1>6
  <2> QED BY <1>5, <2>1, <2>2
<1>11. DOMAIN cs = 1..m
  BY <1>6
<1>12. hits # {} => Min(hits) \in hits
  <2> DEFINE D == 1..m
  <2>1. hits \subseteq D
    BY <1>11
  <2>2. IsFiniteSet(D) /\ \A k \in D : k \in Int
    BY <1>8, <1>9, FS_Interval
  <2> HIDE DEF hits, D
  <2>3. IsFiniteSet(hits) /\ \A k \in hits : k \in Int
    BY <2>1, <2>2, FS_Subset
  <2> QED BY <2>3, LeastIsElement
<1>13. Chosen(w, target) = IF hits = {} THEN {} ELSE {cs[Min(hits)]}
  BY DEF Chosen, cs
<1> QED BY <1>1, <1>10, <1>11, <1>12, <1>13 DEF IsOffer

Documented == {"dynamo", "nim", "vllm"}

\* The files are known ones, and the notes come after the plan and the file
\* that they tell the user to launch.
LEMMA OrderIs ==
  ASSUME NEW target
  PROVE  LET order == WritingOrder(target)
         IN  /\ order \in Seq(Files)
             /\ DOMAIN order = 1..Len(order) /\ Len(order) \in Nat
             /\ target \in Documented =>
                  \A k \in DOMAIN order : order[k] = "README.md" =>
                    \A f \in {"plan.json", Launched(target)} : \E j \in 1..(k - 1) : order[j] = f
             /\ \A k \in DOMAIN order : order[k] = "README.md" =>
                  \A j \in DOMAIN order : j > k => order[j] \in ToSet(Notes)
<1> DEFINE order == WritingOrder(target)
           planned == <<"plan.json">>
           made == Manifests(target)
           n == Len(made)
<1>1. {"plan.json", "dynamo-config.yaml", "docker-compose.yaml", "run-vllm.sh",
       "environment.env.example", "README.md", "deployment-notes.md"} \subseteq Files
  BY DEF Files, Notes, ToSet
<1>2. /\ n \in {1, 2} /\ made \in Seq(Files)
      /\ target \in Documented => made[1] = Launched(target)
      /\ \A k \in 1..n : made[k] # "README.md"
  <2>1. CASE target = "dynamo"
    BY <1>1, <2>1 DEF Manifests, Launched
  <2>2. CASE target = "nim"
    BY <1>1, <2>2 DEF Manifests, Launched
  <2>3. CASE target \notin {"dynamo", "nim"}
    BY <1>1, <2>3 DEF Manifests, Launched, Documented
  <2> QED BY <2>1, <2>2, <2>3
<1>3. planned \in Seq(Files) /\ Len(planned) = 1 /\ planned[1] = "plan.json"
  BY <1>1
<1>4. Notes \in Seq(Files) /\ Len(Notes) = 3
  BY <1>1 DEF Notes
<1> DEFINE first == planned \o made
<1>5. order = first \o Notes
  BY DEF WritingOrder
<1>6. n = Len(made) /\ n \in Nat
  BY <1>2
<1> HIDE DEF order, planned, made, n
<1>7. /\ first \in Seq(Files) /\ Len(first) = 1 + n
      /\ first[1] = "plan.json" /\ \A k \in 1..n : first[1 + k] = made[k]
  <2>1. made \in Seq(Files) /\ planned \in Seq(Files)
    BY <1>2, <1>3
  <2>2. /\ (planned \o made) \in Seq(Files) /\ Len(planned \o made) = Len(planned) + Len(made)
        /\ \A k \in 1..Len(planned) : (planned \o made)[k] = planned[k]
    <3>1. (planned \o made) \in Seq(Files)
      BY <2>1, Joined
    <3>2. Len(planned \o made) = Len(planned) + Len(made)
      BY <2>1, Joined
    <3>3. \A k \in 1..Len(planned) : (planned \o made)[k] = planned[k]
      BY <2>1, Joined
    <3> QED BY <3>1, <3>2, <3>3
  <2>3. \A k \in 1..Len(made) : (planned \o made)[Len(planned) + k] = made[k]
    BY <2>1, Joined
  <2> QED BY <1>3, <1>6, <2>2, <2>3
<1> HIDE DEF first
<1>8. /\ order \in Seq(Files) /\ Len(order) = 4 + n
      /\ order[1] = "plan.json" /\ order[2] = made[1] /\ \A k \in 1..(1 + n) : order[k] # "README.md"
  <2>1. order \in Seq(Files) /\ Len(order) = 4 + n /\ \A k \in 1..(1 + n) : order[k] = first[k]
    <3> DEFINE notes == Notes
    <3>1. notes \in Seq(Files) /\ Len(notes) = 3 /\ order = first \o notes
      BY <1>4, <1>5
    <3> HIDE DEF notes
    <3>2. order \in Seq(Files) /\ Len(order) = Len(first) + 3
      <4>1. order \in Seq(Files)
        BY <1>7, <3>1, Joined
      <4>2. Len(order) = Len(first) + Len(notes)
        BY <1>7, <3>1, Joined
      <4> QED BY <3>1, <4>1, <4>2
    <3>3. \A k \in 1..Len(first) : order[k] = first[k]
      BY <1>7, <3>1, Joined
    <3> QED BY <1>6, <1>7, <3>2, <3>3
  <2>2. 1 \in 1..(1 + n) /\ 2 \in 1..(1 + n) /\ 1 \in 1..n
    BY <1>2, <1>6
  <2>3. first[2] = made[1]
    BY <1>7, <2>2
  <2>4. ASSUME NEW k \in 1..(1 + n) PROVE first[k] # "README.md"
    <3>1. k = 1 \/ (k - 1 \in 1..n /\ k = 1 + (k - 1))
      BY <1>6
    <3> QED BY <1>2, <1>7, <3>1
  <2> QED BY <1>7, <2>1, <2>2, <2>3, <2>4
<1>9. DOMAIN order = 1..Len(order) /\ Len(order) \in Nat
  BY <1>6, <1>8
<1>10. ASSUME target \in Documented, NEW k \in DOMAIN order, order[k] = "README.md",
              NEW f \in {"plan.json", Launched(target)}
       PROVE  \E j \in 1..(k - 1) : order[j] = f
  <2>1. k \in Int /\ k > 2
    BY <1>2, <1>6, <1>8, <1>9, <1>10
  <2>2. order[1] = f \/ order[2] = f
    BY <1>2, <1>8, <1>10
  <2>3. 1 \in 1..(k - 1) /\ 2 \in 1..(k - 1)
    BY <2>1
  <2> QED BY <2>2, <2>3
<1>11. ASSUME NEW k \in DOMAIN order, order[k] = "README.md", NEW j \in DOMAIN order, j > k
       PROVE  order[j] \in ToSet(Notes)
  <2>1. j \in Int /\ k \in Int /\ k > 1 + n /\ j <= 4 + n
    BY <1>6, <1>8, <1>9, <1>11
  <2>2. j - (1 + n) \in 1..3 /\ j = (1 + n) + (j - (1 + n))
    BY <1>6, <1>11, <2>1
  <2> DEFINE notes == Notes
             i == j - (1 + n)
  <2>3. notes \in Seq(Files) /\ Len(notes) = 3 /\ order = first \o notes
    BY <1>4, <1>5
  <2> HIDE DEF notes, i
  <2>4. i \in 1..Len(notes) /\ j = Len(first) + i
    BY <1>7, <2>2, <2>3 DEF i
  <2>5. order[j] = notes[i]
    BY <1>7, <2>3, <2>4, Joined
  <2>6. notes[i] \in ToSet(notes)
    BY <2>3, <2>4 DEF ToSet
  <2> QED BY <2>5, <2>6 DEF notes
<1> QED BY <1>8, <1>9, <1>10, <1>11 DEF order

\* what a command has still to write
Writing(f, target, w) == [file |-> f, target |-> target, workload |-> w, chosen |-> Chosen(w, target)]
Writings == {Writing(f, target, w) : f \in Files, target \in Asked, w \in Workloads}

\* a whole file of the running command
Entry(p) == [command |-> commands, target |-> p.target, workload |-> p.workload, chosen |-> p.chosen]

\* Before the notes are written, what they are about is.
Backed(k) ==
  pending[k].file = "README.md" /\ pending[k].target \in Documented =>
    \A f \in {"plan.json", Launched(pending[k].target)} :
      (\E j \in 1..(k - 1) : pending[j].file = f) \/ directory[f] = {Entry(pending[k])}

\* One command wants all that is still to be written.
OneCommand ==
  \A j, k \in DOMAIN pending : Entry(pending[j]) = Entry(pending[k])

\* What the notes are about is not written after them.
NotesAreLast ==
  \A k \in DOMAIN pending :
    /\ pending[k].file = "README.md" =>
         \A j \in DOMAIN pending : j > k => pending[j].file \in ToSet(Notes)
    /\ pending[k].file \notin ToSet(Notes) =>
         \A e \in directory["README.md"] : e.command < commands

PlannerTypes ==
  /\ commands \in Nat
  /\ directory = [f \in Files |-> directory[f]]
  /\ \A f \in Files : \A e \in directory[f] :
       e.command \in Nat /\ e.command <= commands /\ \A c \in e.chosen : Fits(e.workload, c)
  /\ pending \in Seq(Writings)

\* the part of NotesLaunchThePlan about the notes
Launches(notes) ==
  notes.target \in Documented =>
    \A f \in {"plan.json", Launched(notes.target)} :
      directory[f] # {} /\ \A e \in directory[f] : e = notes \/ e.command > notes.command

PlannerInv ==
  /\ PlannerTypes /\ OneCommand /\ NotesAreLast
  /\ \A k \in DOMAIN pending : Backed(k)
  /\ \A notes \in Whole("README.md") : Launches(notes)

LEMMA FilesAre ==
  /\ {"README.md", "plan.json", "docker-compose.yaml"} \subseteq Files
  /\ "README.md" \in ToSet(Notes)
  /\ \A target : Launched(target) \in Files /\ Launched(target) \notin ToSet(Notes)
  /\ "plan.json" \notin ToSet(Notes)
<1>1. ToSet(Notes) = {"environment.env.example", "README.md", "deployment-notes.md"}
  BY DEF Notes, ToSet
<1> QED BY <1>1 DEF Launched, Files

\* What a compose file launches gets all the devices planned.
LEMMA NotesAre ==
  ASSUME PlannerInv
  PROVE  NotesLaunchThePlan
<1>1. \A e \in Whole("docker-compose.yaml") : \A c \in e.chosen : Fits(e.workload, c)
  BY FilesAre DEF Whole, PlannerInv, PlannerTypes
<1>2. \A c : ServerGpus("docker-compose.yaml", c) = c.gpus
  BY DEF ServerGpus
<1>3. HoldsModel("docker-compose.yaml")
  BY <1>1, <1>2 DEF HoldsModel, Fits
<1> QED BY <1>3 DEF NotesLaunchThePlan, Launches, Documented, PlannerInv

\* What is still to be written, as the records it is made of.
LEMMA WritingIs ==
  ASSUME NEW p \in Writings
  PROVE  /\ p.file \in Files /\ \A c \in p.chosen : Fits(p.workload, c)
<1>1. PICK f \in Files, t \in Asked, w \in Workloads : p = Writing(f, t, w)
  BY DEF Writings
<1>2. p.file = f /\ p.workload = w /\ p.chosen = Chosen(w, t)
  BY <1>1 DEF Writing
<1> QED BY <1>2, ChosenHolds

LEMMA PlanningStarts ==
  ASSUME PlannerInv, NEW w \in Workloads, NEW target \in Asked, DeployPlan(w, target)
  PROVE  PlannerInv'
<1>1. /\ pending = <<>> /\ commands' = commands + 1 /\ directory' = directory
      /\ pending' = IF Chosen(w, target) = {} THEN <<>>
                    ELSE [k \in DOMAIN WritingOrder(target) |-> Writing(WritingOrder(target)[k], target, w)]
  BY DEF DeployPlan, Writing
<1> DEFINE order == WritingOrder(target)
<1>2. /\ DOMAIN order = 1..Len(order) /\ Len(order) \in Nat
      /\ \A k \in DOMAIN order : order[k] \in Files
      /\ \A k \in DOMAIN order : order[k] = "README.md" =>
           \A j \in DOMAIN order : j > k => order[j] \in ToSet(Notes)
  BY OrderIs
<1> HIDE DEF order
<1>3. pending' \in Seq(Writings)
  <2>1. \A k \in DOMAIN order : Writing(order[k], target, w) \in Writings
    BY <1>2 DEF Writings
  <2>2. [k \in DOMAIN order |-> Writing(order[k], target, w)] \in [1..Len(order) -> Writings]
    BY <1>2, <2>1
  <2>3. [k \in DOMAIN order |-> Writing(order[k], target, w)] \in Seq(Writings)
    BY <1>2, <2>2
  <2> QED BY <1>1, <2>3 DEF order
<1>4. PlannerTypes'
  <2>1. commands \in Nat
    BY DEF PlannerInv, PlannerTypes
  <2>2. \A f \in Files : \A e \in directory[f] :
          e.command \in Nat /\ e.command <= commands + 1 /\ \A c \in e.chosen : Fits(e.workload, c)
    BY <2>1 DEF PlannerInv, PlannerTypes
  <2> QED BY <1>1, <1>3, <2>1, <2>2 DEF PlannerInv, PlannerTypes
<1>5. \A notes \in Whole("README.md")' : Launches(notes)'
  BY <1>1 DEF PlannerInv, Launches, Whole
<1>6. ASSUME NEW k \in DOMAIN pending'
      PROVE  /\ k \in DOMAIN order
             /\ pending'[k].file = order[k] /\ pending'[k].target = target
             /\ Entry(pending[k])' = [command |-> commands + 1, target |-> target, workload |-> w,
                                      chosen |-> Chosen(w, target)]
  <2>1. k \in DOMAIN order /\ pending'[k] = Writing(order[k], target, w)
    BY <1>1, <1>6 DEF order
  <2> QED BY <1>1, <2>1 DEF Writing, Entry
<1>7. OneCommand'
  BY <1>6 DEF OneCommand
<1>8. NotesAreLast'
  <2>1. \A e \in directory'["README.md"] : e.command < commands'
    BY <1>1, FilesAre DEF PlannerInv, PlannerTypes
  <2> QED BY <1>2, <1>6, <2>1 DEF NotesAreLast
<1>9. ASSUME NEW k \in DOMAIN pending' PROVE Backed(k)'
  <2>1. DOMAIN pending' = DOMAIN order
    BY <1>1, <1>9 DEF order
  <2> SUFFICES ASSUME order[k] = "README.md", target \in Documented,
                      NEW f \in {"plan.json", Launched(target)}
               PROVE  \E j \in 1..(k - 1) : pending'[j].file = f
    BY <1>6, <1>9 DEF Backed
  <2>2. PICK j \in 1..(k - 1) : order[j] = f
    BY <1>9, <2>1, OrderIs DEF order
  <2>3. j \in DOMAIN order
    BY <1>2, <1>9, <2>1
  <2> QED BY <1>6, <2>1, <2>2, <2>3
<1> QED BY <1>4, <1>5, <1>7, <1>8, <1>9 DEF PlannerInv

\* What writing, or tearing, a file does to the directory.
LEMMA WrittenIs ==
  ASSUME PlannerInv, NEW p \in Writings, NEW whole \in BOOLEAN, directory' = Written(p, whole),
         commands' = commands
  PROVE  /\ directory' = [f \in Files |-> directory'[f]]
         /\ \A f \in Files :
              IF f = p.file
              THEN directory'[f] = {IF whole THEN Entry(p) ELSE [Entry(p) EXCEPT !.chosen = {}]}
              ELSE directory'[f] = directory[f]
         /\ \A f \in Files : \A e \in directory'[f] :
              e.command \in Nat /\ e.command <= commands /\ \A c \in e.chosen : Fits(e.workload, c)
<1> DEFINE entry == IF whole THEN Entry(p) ELSE [Entry(p) EXCEPT !.chosen = {}]
<1>1. p.file \in Files /\ \A c \in p.chosen : Fits(p.workload, c)
  BY WritingIs
<1>2. directory = [f \in Files |-> directory[f]] /\ commands \in Nat
  BY DEF PlannerInv, PlannerTypes
<1>3. directory' = [directory EXCEPT ![p.file] = {entry}]
  <2>1. entry = [command |-> commands, target |-> p.target, workload |-> p.workload,
                 chosen |-> IF whole THEN p.chosen ELSE {}]
    BY DEF Entry
  <2> HIDE DEF entry
  <2> QED BY <2>1 DEF Written
<1>4. /\ entry.command = commands
      /\ \A c \in entry.chosen : Fits(entry.workload, c)
  BY <1>1 DEF Entry
<1> HIDE DEF entry
<1>5. directory' = [f \in Files |-> directory'[f]]
      /\ \A f \in Files : IF f = p.file THEN directory'[f] = {entry} ELSE directory'[f] = directory[f]
  BY <1>1, <1>2, <1>3
<1>6. ASSUME NEW f \in Files, NEW e \in directory'[f]
      PROVE  e.command \in Nat /\ e.command <= commands /\ \A c \in e.chosen : Fits(e.workload, c)
  <2>1. CASE f = p.file
    BY <1>2, <1>4, <1>5, <2>1
  <2>2. CASE f # p.file
    BY <1>5, <2>2 DEF PlannerInv, PlannerTypes
  <2> QED BY <2>1, <2>2
<1> QED BY <1>5, <1>6 DEF entry

\* Notes of earlier commands keep their files, which only newer ones replace;
\* the notes of this command are written over files of its own, and after
\* them nothing that they are about.
LEMMA NotesStay ==
  ASSUME PlannerInv, PlannerTypes', NEW p \in Writings, NEW whole \in BOOLEAN,
         directory' = Written(p, whole), commands' = commands, pending # <<>>, p = pending[1]
  PROVE  \A notes \in Whole("README.md")' : Launches(notes)'
<1>0. 1 \in DOMAIN pending /\ Backed(1) /\ NotesAreLast
  BY DEF PlannerInv, PlannerTypes
<1> DEFINE entry == IF whole THEN Entry(p) ELSE [Entry(p) EXCEPT !.chosen = {}]
<1>1. \A x \in Files : IF x = p.file THEN directory'[x] = {entry} ELSE directory'[x] = directory[x]
  BY WrittenIs
<1>2. entry.command = commands /\ (entry.chosen # {} => entry = Entry(p))
  BY DEF Entry
<1> HIDE DEF entry
<1>3. ASSUME NEW notes \in Whole("README.md")', notes.target \in Documented,
             NEW f \in {"plan.json", Launched(notes.target)}
      PROVE  directory'[f] # {} /\ \A e \in directory'[f] : e = notes \/ e.command > notes.command
  <2>1. f \in Files /\ f # "README.md" /\ f \notin ToSet(Notes) /\ "README.md" \in Files
    BY FilesAre
  <2>2. notes \in directory'["README.md"] /\ notes.chosen # {}
    BY DEF Whole
  <2>3. CASE p.file = "README.md"
    <3>1. notes = Entry(p)
      BY <1>1, <1>2, <2>1, <2>2, <2>3
    <3>2. notes.target = p.target
      BY <3>1 DEF Entry
    <3>3. directory[f] = {Entry(p)}
      BY <1>0, <1>3, <2>3, <3>2 DEF Backed
    <3>4. directory'[f] = directory[f]
      BY <1>1, <2>1, <2>3
    <3> QED BY <3>1, <3>3, <3>4
  <2>4. CASE p.file # "README.md"
    <3>1. notes \in Whole("README.md")
      BY <1>1, <2>1, <2>2, <2>4 DEF Whole
    <3>2. Launches(notes)
      BY <3>1 DEF PlannerInv
    <3>3. directory[f] # {} /\ \A e \in directory[f] : e = notes \/ e.command > notes.command
      BY <1>3, <3>2 DEF Launches
    <3>4. CASE f = p.file
      <4>1. notes.command < commands
        BY <1>0, <2>1, <3>1, <3>4 DEF NotesAreLast, Whole
      <4>2. notes.command \in Nat /\ commands \in Nat
        BY <2>1, <3>1 DEF PlannerInv, PlannerTypes, Whole
      <4>3. entry.command > notes.command
        BY <1>2, <4>1, <4>2
      <4>4. directory'[f] = {entry}
        BY <1>1, <2>1, <3>4
      <4> QED BY <4>3, <4>4
    <3>5. CASE f # p.file
      <4>1. directory'[f] = directory[f]
        BY <1>1, <2>1, <3>5
      <4> QED BY <3>3, <4>1
    <3> QED BY <3>4, <3>5
  <2> QED BY <2>3, <2>4
<1> QED BY <1>3 DEF Launches

\* The rest of the command after a file is written.
LEMMA CommandGoesOn ==
  ASSUME PlannerInv, NEW p, p = pending[1], pending # <<>>, p \in Writings,
         directory' = Written(p, TRUE), commands' = commands, pending' = Tail(pending)
  PROVE  OneCommand' /\ NotesAreLast' /\ \A k \in DOMAIN pending' : Backed(k)'
<1>1. \A x \in Files : IF x = p.file THEN directory'[x] = {Entry(p)} ELSE directory'[x] = directory[x]
  BY WrittenIs
<1>2. ASSUME NEW k \in DOMAIN pending'
      PROVE  /\ k \in Nat \ {0} /\ k + 1 \in DOMAIN pending /\ 1 \in DOMAIN pending
             /\ pending'[k] = pending[k + 1] /\ Entry(pending[k])' = Entry(pending[k + 1])
             /\ \A j \in 1..k : pending'[j] = pending[j + 1]
  <2>1. k \in Nat \ {0} /\ k + 1 \in DOMAIN pending /\ 1 \in DOMAIN pending
        /\ \A j \in 1..k : pending'[j] = pending[j + 1]
    BY <1>2 DEF PlannerInv, PlannerTypes
  <2>2. pending'[k] = pending[k + 1]
    BY <2>1
  <2> QED BY <2>1, <2>2 DEF Entry
<1>3. OneCommand'
  BY <1>2 DEF OneCommand, PlannerInv
<1>4. NotesAreLast'
  <2> SUFFICES ASSUME NEW k \in DOMAIN pending'
               PROVE  /\ pending'[k].file = "README.md" =>
                           \A j \in DOMAIN pending' : j > k => pending'[j].file \in ToSet(Notes)
                      /\ pending'[k].file \notin ToSet(Notes) =>
                           \A e \in directory'["README.md"] : e.command < commands'
    BY DEF NotesAreLast
  <2>1. NotesAreLast
    BY DEF PlannerInv
  <2>2. ASSUME pending'[k].file = "README.md", NEW j \in DOMAIN pending', j > k
        PROVE  pending'[j].file \in ToSet(Notes)
    <3>1. pending[k + 1].file = "README.md" /\ j + 1 \in DOMAIN pending /\ j + 1 > k + 1
          /\ pending'[j] = pending[j + 1] /\ k + 1 \in DOMAIN pending
      BY <1>2, <2>2
    <3> QED BY <2>1, <3>1 DEF NotesAreLast
  <2>3. ASSUME pending'[k].file \notin ToSet(Notes), NEW e \in directory'["README.md"]
        PROVE  e.command < commands'
    <3>1. pending[k + 1].file \notin ToSet(Notes) /\ k + 1 \in DOMAIN pending /\ 1 \in DOMAIN pending /\ k + 1 > 1
      BY <1>2, <2>3
    <3>2. p.file # "README.md"
      BY <2>1, <3>1 DEF NotesAreLast
    <3>3. directory'["README.md"] = directory["README.md"]
      BY <1>1, <3>2, FilesAre
    <3> QED BY <2>1, <2>3, <3>1, <3>3 DEF NotesAreLast
  <2> QED BY <2>2, <2>3
<1>5. ASSUME NEW k \in DOMAIN pending' PROVE Backed(k)'
  <2> SUFFICES ASSUME pending[k + 1].file = "README.md", pending[k + 1].target \in Documented,
                      NEW f \in {"plan.json", Launched(pending[k + 1].target)}
               PROVE  (\E j \in 1..(k - 1) : pending'[j].file = f) \/ directory'[f] = {Entry(pending[k + 1])}
    BY <1>2, <1>5 DEF Backed
  <2>1. f \in Files
    BY FilesAre
  <2>2. (\E j \in 1..k : pending[j].file = f) \/ directory[f] = {Entry(pending[k + 1])}
    <3>1. Backed(k + 1)
      BY <1>2, <1>5 DEF PlannerInv
    <3>2. (k + 1) - 1 = k
      BY <1>2, <1>5
    <3> QED BY <3>1, <3>2 DEF Backed
  <2>3. Entry(p) = Entry(pending[k + 1])
    BY <1>2, <1>5 DEF OneCommand, PlannerInv
  <2>4. CASE f = p.file
    BY <1>1, <2>1, <2>3, <2>4
  <2>5. CASE f # p.file /\ directory[f] = {Entry(pending[k + 1])}
    BY <1>1, <2>1, <2>5
  <2>6. ASSUME NEW j \in 1..k, pending[j].file = f, f # p.file
        PROVE  \E i \in 1..(k - 1) : pending'[i].file = f
    <3>1. j # 1
      BY <2>6
    <3>2. j - 1 \in 1..(k - 1) /\ j - 1 \in 1..k /\ (j - 1) + 1 = j
      BY <1>2, <1>5, <3>1
    <3>3. pending'[j - 1] = pending[j]
      BY <1>2, <1>5, <3>2
    <3> QED BY <2>6, <3>2, <3>3
  <2> QED BY <2>2, <2>4, <2>5, <2>6
<1> QED BY <1>3, <1>4, <1>5

\* NotesLaunchThePlan: a command's files are written in an order in which the
\* notes come after what they are about, and stopping it leaves that order.
THEOREM NotesAreBacked == PlannerSpec => []NotesLaunchThePlan
<1>1. PlannerInit => PlannerInv
  <2> SUFFICES ASSUME PlannerInit PROVE PlannerInv
    OBVIOUS
  <2>1. pending = <<>> /\ commands = 0 /\ directory = [f \in Files |-> {}]
    BY DEF PlannerInit
  <2>2. PlannerTypes
    BY <2>1 DEF PlannerTypes
  <2>3. DOMAIN pending = {} /\ Whole("README.md") = {}
    BY <2>1, FilesAre DEF Whole
  <2> QED BY <2>2, <2>3 DEF PlannerInv, OneCommand, NotesAreLast
<1>2. PlannerInv /\ [PlannerNext]_plannerVars => PlannerInv'
  <2> SUFFICES ASSUME PlannerInv, [PlannerNext]_plannerVars PROVE PlannerInv'
    OBVIOUS
  <2>1. PlannerTypes /\ pending \in Seq(Writings)
    BY DEF PlannerInv, PlannerTypes
  <2>2. CASE UNCHANGED plannerVars
    <3>1. directory' = directory /\ pending' = pending /\ commands' = commands
      BY <2>2 DEF plannerVars
    <3>2. PlannerTypes'
      BY <2>1, <3>1 DEF PlannerTypes
    <3>3. \A notes \in Whole("README.md")' : Launches(notes)'
      BY <3>1 DEF PlannerInv, Launches, Whole
    <3>4. \A k \in DOMAIN pending : Backed(k)'
      BY <3>1 DEF PlannerInv, Backed, Entry
    <3>5. OneCommand' /\ NotesAreLast'
      BY <3>1 DEF PlannerInv, OneCommand, NotesAreLast, Entry
    <3> QED BY <3>1, <3>2, <3>3, <3>4, <3>5 DEF PlannerInv
  <2>3. ASSUME NEW w \in Workloads, NEW target \in Asked, DeployPlan(w, target) PROVE PlannerInv'
    BY <2>3, PlanningStarts
  <2>4. CASE WriteFile
    <3> DEFINE p == pending[1]
    <3>1. /\ pending # <<>> /\ directory' = Written(p, TRUE) /\ commands' = commands
          /\ pending' = Tail(pending)
      BY <2>4 DEF WriteFile
    <3>2. p \in Writings
      BY <2>1, <3>1
    <3>3. pending' \in Seq(Writings)
      BY <2>1, <3>1
    <3>4. PlannerTypes'
      BY <2>1, <3>1, <3>2, <3>3, WrittenIs DEF PlannerTypes
    <3>5. \A notes \in Whole("README.md")' : Launches(notes)'
      BY <3>1, <3>2, <3>4, NotesStay
    <3>6. OneCommand' /\ NotesAreLast' /\ \A k \in DOMAIN pending' : Backed(k)'
      BY <3>1, <3>2, CommandGoesOn
    <3> QED BY <3>4, <3>5, <3>6 DEF PlannerInv
  <2>5. CASE Interrupt
    <3> DEFINE p == pending[1]
    <3>1. /\ pending # <<>> /\ commands' = commands /\ pending' = <<>>
          /\ directory' = directory \/ directory' = Written(p, FALSE)
      <4>1. pending # <<>> /\ commands' = commands /\ pending' = <<>>
            /\ directory' \in {directory, Written(Head(pending), FALSE)}
        BY <2>5 DEF Interrupt
      <4>2. Head(pending) = p
        BY <2>1, <4>1
      <4> QED BY <4>1, <4>2
    <3>2. p \in Writings
      BY <2>1, <3>1
    <3>3. DOMAIN pending' = {} /\ pending' \in Seq(Writings)
      BY <3>1
    <3>4. OneCommand' /\ NotesAreLast' /\ \A k \in DOMAIN pending' : Backed(k)'
      BY <3>3 DEF OneCommand, NotesAreLast
    <3>5. CASE directory' = directory
      <4>1. PlannerTypes'
        BY <2>1, <3>1, <3>3, <3>5 DEF PlannerTypes
      <4>2. \A notes \in Whole("README.md")' : Launches(notes)'
        BY <3>5 DEF PlannerInv, Launches, Whole
      <4> QED BY <3>4, <4>1, <4>2 DEF PlannerInv
    <3>6. CASE directory' = Written(p, FALSE)
      <4>1. PlannerTypes'
        <5>1. /\ directory' = [f \in Files |-> directory'[f]]
              /\ \A f \in Files : \A e \in directory'[f] :
                   e.command \in Nat /\ e.command <= commands /\ \A c \in e.chosen : Fits(e.workload, c)
          BY <3>1, <3>2, <3>6, WrittenIs
        <5> QED BY <2>1, <3>1, <3>3, <5>1 DEF PlannerTypes
      <4>2. \A notes \in Whole("README.md")' : Launches(notes)'
        BY <3>1, <3>2, <3>6, <4>1, NotesStay
      <4> QED BY <3>4, <4>1, <4>2 DEF PlannerInv
    <3> QED BY <3>1, <3>5, <3>6
  <2> QED BY <2>2, <2>3, <2>4, <2>5 DEF PlannerNext
<1>3. PlannerInv => NotesLaunchThePlan
  BY NotesAre
<1> QED BY <1>1, <1>2, <1>3, PTL DEF PlannerSpec

-----------------------------------------------------------------------------
(* Evidence                                                                *)

\* a record as it is kept
Stamped == {Dated(r, d) : r \in Known, d \in Int}

\* Nothing but what was submitted, reported or seeded is in the store.
EvidenceInv == today \in Int /\ benchmarks \in Seq(Stamped)

LEMMA StoreIsFinite ==
  ASSUME EvidenceInv
  PROVE  IsFiniteSet(DOMAIN benchmarks) /\ DOMAIN benchmarks = 1..Len(benchmarks) /\ DOMAIN benchmarks \subseteq Int
<1>1. DOMAIN benchmarks = 1..Len(benchmarks) /\ Len(benchmarks) \in Int
  BY DEF EvidenceInv
<1> DEFINE n == Len(benchmarks)
<1> HIDE DEF n
<1>2. IsFiniteSet(1..n)
  BY <1>1, FS_Interval DEF n
<1>3. 1..n \subseteq Int
  BY <1>1 DEF n
<1> QED BY <1>1, <1>2, <1>3 DEF n

LEMMA SizeIsKept ==
  ASSUME NEW r \in Known, NEW d \in Int
  PROVE  Dated(r, d).size = r.size
<1>1. r \in OpenComputeBenchRecord
  BY EvidenceAssumption DEF Known
<1>2. "size" \in DOMAIN r
  BY <1>1 DEF OpenComputeBenchRecord
<1> QED BY <1>2 DEF Dated

LEMMA DistanceIs ==
  ASSUME EvidenceInv, NEW target \in Records, NEW i \in DOMAIN benchmarks
  PROVE  /\ Distance(target, benchmarks[i]) \in Nat
         /\ Distance(target, benchmarks[i]) < 35 =>
              benchmarks[i].device = target.device /\ benchmarks[i].runtime = target.runtime
<1>1. SizeDistance[<<target.size, benchmarks[i].size>>] \in Nat
  <2>1. benchmarks[i] \in Stamped
    BY DEF EvidenceInv
  <2>2. PICK r \in Known, d \in Int : benchmarks[i] = Dated(r, d)
    BY <2>1 DEF Stamped
  <2>3. benchmarks[i].size = r.size /\ target \in Known
    BY <2>2, SizeIsKept DEF Known
  <2> QED BY <2>3, EvidenceAssumption
<1> DEFINE size == SizeDistance[<<target.size, benchmarks[i].size>>]
<1>2. size \in Nat
  BY <1>1
<1>3. Distance(target, benchmarks[i]) =
        size + (IF benchmarks[i].device = target.device THEN 0 ELSE 80)
             + (IF benchmarks[i].runtime = target.runtime THEN 0 ELSE 50)
             + (IF benchmarks[i].precision = target.precision THEN 0 ELSE 30)
  BY DEF Distance
<1> HIDE DEF size
<1> QED BY <1>2, <1>3

\* The neighbours of a target are the eligible records, the nearest first.
LEMMA NeighboursAre ==
  ASSUME EvidenceInv, NEW target \in Records
  PROVE  /\ Len(Neighbours(target)) \in Nat
         /\ DOMAIN Neighbours(target) = 1..Len(Neighbours(target))
         /\ Neighbours(target) \in Seq(Eligible)
         /\ \A i \in Eligible : \E k \in DOMAIN Neighbours(target) : Neighbours(target)[k] = i
         /\ \A k, m \in DOMAIN Neighbours(target) : k < m =>
              Distance(target, benchmarks[Neighbours(target)[k]])
                <= Distance(target, benchmarks[Neighbours(target)[m]])
<1> DEFINE T == {<<Distance(target, benchmarks[i]), i>> : i \in Eligible}
           o == InOrder(T)
           g == [i \in Eligible |-> <<Distance(target, benchmarks[i]), i>>]
<1>1. Eligible \subseteq DOMAIN benchmarks /\ IsFiniteSet(Eligible)
  <2>1. Eligible \subseteq DOMAIN benchmarks
    BY DEF Eligible
  <2> QED BY <2>1, StoreIsFinite, FS_Subset
<1>2. KeySet(T, 2)
  <2>1. IsFiniteSet({g[i] : i \in Eligible})
    <3> HIDE DEF g
    <3> QED BY <1>1, ImageIsFinite
  <2>2. T = {g[i] : i \in Eligible}
    OBVIOUS
  <2>3. \A i \in Eligible : Distance(target, benchmarks[i]) \in Int /\ i \in Int
    BY <1>1, DistanceIs DEF EvidenceInv
  <2>4. \A a \in T : a \in [1..2 -> Int]
    BY <2>3
  <2> HIDE DEF g, T
  <2> QED BY <2>1, <2>2, <2>4 DEF KeySet
<1>3. Sorts(o, T)
  <2> HIDE DEF T
  <2> QED BY <1>2, InOrderSorts
<1>4. Neighbours(target) = [k \in DOMAIN o |-> o[k][2]]
  BY DEF Neighbours
<1> DEFINE N == Cardinality(T)
<1>5. /\ N \in Nat /\ o \in [1..N -> T]
      /\ \A a \in T : \E k \in 1..N : o[k] = a
      /\ \A k, m \in 1..N : k < m => Precedes(o[k], o[m])
  <2> HIDE DEF T, o
  <2> QED BY <1>3 DEF Sorts
<1> HIDE DEF o, N
<1>6. \A k \in 1..N : o[k][2] \in Eligible /\ o[k][1] = Distance(target, benchmarks[o[k][2]])
  <2>1. \A a \in T : a[2] \in Eligible /\ a[1] = Distance(target, benchmarks[a[2]])
    OBVIOUS
  <2> HIDE DEF T
  <2> QED BY <1>5, <2>1
<1>9. \A i \in Eligible : \E k \in 1..N : o[k][2] = i
  <2> TAKE i \in Eligible
  <2> DEFINE a == <<Distance(target, benchmarks[i]), i>>
  <2>1. a \in T /\ a[2] = i
    OBVIOUS
  <2> HIDE DEF a, T
  <2> QED BY <1>5, <2>1
<1>10. ASSUME NEW k \in 1..N, NEW m \in 1..N, k < m
       PROVE  o[k][1] <= o[m][1]
  <2> DEFINE a == o[k]
             b == o[m]
  <2> HIDE DEF T
  <2>1. a \in T /\ b \in T /\ Precedes(a, b)
    BY <1>5, <1>10
  <2>2. a \in [1..2 -> Int] /\ b \in [1..2 -> Int]
    BY <1>2, <2>1 DEF KeySet
  <2> HIDE DEF a, b
  <2>3. a[1] <= b[1]
    BY <2>1, <2>2 DEF Precedes
  <2> QED BY <2>3 DEF a, b
<1> HIDE DEF T
<1> DEFINE near == Neighbours(target)
<1>7. near \in [1..N -> Eligible] /\ \A k \in 1..N : near[k] = o[k][2]
  BY <1>4, <1>5, <1>6
<1> HIDE DEF near
<1>8. near \in Seq(Eligible) /\ DOMAIN near = 1..N /\ Len(near) = N
  BY <1>5, <1>7
<1>11. \A i \in Eligible : \E k \in DOMAIN near : near[k] = i
  BY <1>7, <1>8, <1>9
<1>12. \A k, m \in DOMAIN near : k < m =>
         Distance(target, benchmarks[near[k]]) <= Distance(target, benchmarks[near[m]])
  BY <1>6, <1>7, <1>8, <1>10
<1> QED BY <1>5, <1>8, <1>11, <1>12 DEF near

\* ClaimsHaveEvidence: the eligible records are real, those cited are the
\* first of them by distance, and the first is the one that a high confidence
\* and a blend rest on.
THEOREM EvidenceIsThere == EvidenceSpec => []ClaimsHaveEvidence
<1>1. EvidenceInit => EvidenceInv
  <2> SUFFICES ASSUME EvidenceInit PROVE EvidenceInv
    OBVIOUS
  <2>1. DOMAIN Seeds = 1..Len(Seeds) /\ Len(Seeds) \in Nat /\ -SeedAge \in Int
    BY EvidenceAssumption
  <2>2. \A i \in DOMAIN Seeds : benchmarks[i] \in Stamped
    BY <2>1 DEF EvidenceInit, Known, Stamped
  <2>3. benchmarks \in [1..Len(Seeds) -> Stamped]
    BY <2>1, <2>2 DEF EvidenceInit
  <2> QED BY <2>1, <2>3 DEF EvidenceInit, EvidenceInv
<1>2. EvidenceInv /\ [EvidenceNext]_evidenceVars => EvidenceInv'
  <2> SUFFICES ASSUME EvidenceInv, [EvidenceNext]_evidenceVars PROVE EvidenceInv'
    OBVIOUS
  <2>1. ASSUME NEW r \in Records, NEW age \in PostedAges
        PROVE  Stored(benchmarks, Dated(r, today - age)) \in Seq(Stamped)
    <3> DEFINE d == Dated(r, today - age)
    <3>1. d \in Stamped
      <4>1. today - age \in Int
        BY EvidenceAssumption DEF EvidenceInv
      <4> QED BY <4>1 DEF Stamped, Known
    <3> HIDE DEF d
    <3> DEFINE at == {i \in DOMAIN benchmarks : benchmarks[i].id = d.id}
               bs == [i \in DOMAIN benchmarks |-> IF i \in at THEN d ELSE benchmarks[i]]
    <3>2. Append(benchmarks, d) \in Seq(Stamped)
      BY <3>1 DEF EvidenceInv
    <3>3. bs \in Seq(Stamped)
      <4>1. DOMAIN benchmarks = 1..Len(benchmarks) /\ Len(benchmarks) \in Nat
        BY DEF EvidenceInv
      <4>2. \A i \in DOMAIN benchmarks : benchmarks[i] \in Stamped
        BY DEF EvidenceInv
      <4>3. bs \in [1..Len(benchmarks) -> Stamped]
        BY <3>1, <4>1, <4>2
      <4> QED BY <4>1, <4>3
    <3>4. Stored(benchmarks, d) = IF at = {} THEN Append(benchmarks, d) ELSE bs
      BY DEF Stored
    <3> HIDE DEF at, bs
    <3>5. Stored(benchmarks, d) \in Seq(Stamped)
      BY <3>2, <3>3, <3>4
    <3> QED BY <3>5 DEF d
  <2>2. CASE DaysPass
    BY <2>2 DEF DaysPass, EvidenceInv
  <2>3. CASE UNCHANGED evidenceVars
    BY <2>3 DEF EvidenceInv, evidenceVars
  <2>4. ASSUME NEW r \in Records, NEW age \in PostedAges, SubmitBenchmark(r, age) \/ AddJobResult(r, age)
        PROVE  EvidenceInv'
    BY <2>1, <2>4 DEF SubmitBenchmark, AddJobResult, EvidenceInv
  <2> QED BY <2>2, <2>3, <2>4 DEF EvidenceNext
<1>3. EvidenceInv => ClaimsHaveEvidence
  <2> SUFFICES ASSUME EvidenceInv, NEW target \in Records
               PROVE  LET p == Prediction(target)
                          cited == ToSet(p.cites)
                      IN  /\ \A i \in cited : i \in DOMAIN benchmarks /\ Real(i)
                          /\ \A i \in cited, j \in DOMAIN benchmarks \ cited :
                               Real(j) => Distance(target, benchmarks[i]) <= Distance(target, benchmarks[j])
                          /\ p.confidence = "high" =>
                               /\ p.cites # <<>>
                               /\ benchmarks[p.cites[1]].device = target.device
                               /\ benchmarks[p.cites[1]].runtime = target.runtime
                          /\ p.blended => p.confidence # "low" /\ p.cites # <<>>
    BY DEF ClaimsHaveEvidence
  <2> DEFINE near == Neighbours(target)
             d == IF near = <<>> THEN 1000 ELSE Distance(target, benchmarks[near[1]])
             m == Min({3, Len(near)})
             cites == SubSeq(near, 1, m)
             cited == ToSet(cites)
  <2>1. /\ Prediction(target).confidence = (IF d < 35 THEN "high" ELSE IF d < 120 THEN "medium" ELSE "low")
        /\ Prediction(target).blended = (d < 100)
        /\ Prediction(target).cites = cites
    BY DEF Prediction
  <2>2. /\ Len(near) \in Nat /\ DOMAIN near = 1..Len(near) /\ near \in Seq(Eligible)
        /\ \A i \in Eligible : \E k \in DOMAIN near : near[k] = i
        /\ \A k, n \in DOMAIN near : k < n =>
             Distance(target, benchmarks[near[k]]) <= Distance(target, benchmarks[near[n]])
    BY NeighboursAre
  <2> HIDE DEF near
  <2>3. m = IF 3 <= Len(near) THEN 3 ELSE Len(near)
    BY <2>2, LesserIsMin
  <2> HIDE DEF m
  <2>4. m \in Nat /\ 1..m \subseteq 1..Len(near) /\ (near # <<>> => 1 \in 1..m)
    <3>1. near # <<>> => Len(near) >= 1
      BY <2>2
    <3> DEFINE n == Len(near)
    <3>2. n \in Nat /\ m = (IF 3 <= n THEN 3 ELSE n) /\ (near # <<>> => n >= 1)
      BY <2>2, <2>3, <3>1
    <3> HIDE DEF n
    <3>3. m \in Nat /\ m <= n /\ (near # <<>> => m >= 1)
      BY <3>2
    <3>4. 1..m \subseteq 1..n
      BY <3>2, <3>3
    <3> QED BY <3>3, <3>4 DEF n
  <2>5. cites = [k \in 1..m |-> near[k]] /\ DOMAIN cites = 1..m /\ \A k \in 1..m : cites[k] = near[k]
    BY <2>2, <2>4
  <2> HIDE DEF cites
  <2>6. cited = {near[k] : k \in 1..m}
    BY <2>5 DEF ToSet
  <2> HIDE DEF cited
  <2>7. \A i \in Eligible : i \in DOMAIN benchmarks /\ Real(i)
    BY DEF Eligible, Real
  <2>8. \A k \in 1..m : near[k] \in Eligible
    BY <2>2, <2>4
  <2>9. near # <<>> => cites # <<>> /\ cites[1] = near[1] /\ near[1] \in Eligible
    BY <2>4, <2>5, <2>8
  <2>10. d \in Nat
    BY <2>7, <2>9, DistanceIs
  <2>11. \A i \in cited : i \in DOMAIN benchmarks /\ Real(i)
    BY <2>6, <2>7, <2>8
  <2>12. ASSUME NEW i \in cited, NEW j \in DOMAIN benchmarks \ cited, Real(j)
         PROVE  Distance(target, benchmarks[i]) <= Distance(target, benchmarks[j])
    <3>1. PICK k \in 1..m : near[k] = i
      BY <2>6
    <3>2. j \in Eligible
      BY <2>12 DEF Eligible, Real
    <3>3. PICK n \in DOMAIN near : near[n] = j
      BY <2>2, <3>2
    <3>4. n \notin 1..m
      BY <2>6, <3>3
    <3>5. k \in DOMAIN near /\ k < n
      BY <2>2, <2>4, <3>4
    <3> QED BY <2>2, <3>1, <3>3, <3>5
  <2>13. Prediction(target).confidence = "high" =>
           /\ cites # <<>>
           /\ benchmarks[cites[1]].device = target.device
           /\ benchmarks[cites[1]].runtime = target.runtime
    <3> SUFFICES ASSUME d < 35
                 PROVE  /\ cites # <<>>
                        /\ benchmarks[cites[1]].device = target.device
                        /\ benchmarks[cites[1]].runtime = target.runtime
      BY <2>1
    <3>1. near # <<>>
      OBVIOUS
    <3> QED BY <2>7, <2>9, <3>1, DistanceIs
  <2>14. Prediction(target).blended =>
           Prediction(target).confidence # "low" /\ cites # <<>>
    <3>1. near = <<>> => d = 1000
      OBVIOUS
    <3> HIDE DEF d
    <3>2. d < 100 => near # <<>> /\ d < 120
      BY <2>10, <3>1
    <3>3. d < 120 => Prediction(target).confidence # "low"
      BY <2>1
    <3> QED BY <2>1, <2>9, <3>2, <3>3
  <2> HIDE DEF d
  <2> QED BY <2>1, <2>11, <2>12, <2>13, <2>14 DEF cited
<1> QED BY <1>1, <1>2, <1>3, PTL DEF EvidenceSpec
=============================================================================
