-------------------------- MODULE Reconciler_proofs --------------------------
(***************************************************************************)
(* Proofs about the reconciler's parts beside the engine, each for any     *)
(* nodes, requests, models, clusters, weights, patches, plans and batches: *)
(* the traffic providers, the smart router, the federation's registry, the *)
(* hot patches, the plans and their policies, and the shadow replay.       *)
(***************************************************************************)
EXTENDS TrafficProviders, SmartRouting, Federation, HotPatching, Planning, ShadowReplay, FiniteFacts

-----------------------------------------------------------------------------
(* Federation                                                              *)

\* Weights stay weights of registered clusters, whatever a call got done.
FedTypeOK ==
  /\ weight \in [Clusters -> 0..Whole]
  /\ healthy \subseteq Clusters /\ primary \subseteq Clusters

\* What a split may write for a cluster: a weight it names for it.
LEMMA WrittenByASplit ==
  ASSUME NEW splits \in SplitCalls, NEW c \in Clusters, NEW k \in Taken(splits),
         splits[k].cluster = c
  PROVE  LET e == CHOOSE e \in {splits[i] : i \in Taken(splits)} : e.cluster = c
         IN  e.weight \in Weights /\ Accepts(c, e.weight)
<1> DEFINE E == {splits[i] : i \in Taken(splits)}
           e == CHOOSE x \in E : x.cluster = c
<1>1. e \in E /\ e.cluster = c
  <2>1. \E x \in E : x.cluster = c
    OBVIOUS
  <2> QED BY <2>1
<1>2. PICK i \in Taken(splits) : e = splits[i]
  BY <1>1
<1>3. PICK n \in 0..2 : splits \in [1..n -> [cluster : Clusters \union {Unknown}, weight : Weights]]
  BY DEF SplitCalls
<1>4. i \in 1..n /\ Accepts(splits[i].cluster, splits[i].weight)
  BY <1>3, SMT DEF Taken
<1>5. splits[i].weight \in Weights
  BY <1>3, <1>4
<1> QED BY <1>1, <1>2, <1>4, <1>5

LEMMA FedTyping == FedSpec => []FedTypeOK
<1>1. FedInit => FedTypeOK
  BY FederationAssumption DEF FedInit, FedTypeOK
<1>2. FedTypeOK /\ [FedNext]_fedVars => FedTypeOK'
  <2> SUFFICES ASSUME FedTypeOK, [FedNext]_fedVars PROVE FedTypeOK'
    OBVIOUS
  <2> USE FederationAssumption DEF FedTypeOK
  <2>1. ASSUME NEW c \in Clusters, MarkClusterHealth(c) PROVE FedTypeOK'
    BY <2>1 DEF MarkClusterHealth
  <2>2. ASSUME NEW splits \in SplitCalls, SetMultiClusterTrafficSplit(splits) PROVE FedTypeOK'
    <3>1. \A c \in Clusters : \A k \in Taken(splits) : splits[k].cluster = c =>
            (CHOOSE e \in {splits[i] : i \in Taken(splits)} : e.cluster = c).weight \in 0..Whole
      BY WrittenByASplit
    <3>2. weight' \in [Clusters -> 0..Whole]
      BY <2>2, <3>1, Zenon DEF SetMultiClusterTrafficSplit
    <3> QED BY <2>2, <3>2 DEF SetMultiClusterTrafficSplit
  <2>3. ASSUME NEW s \in Clusters, NEW t \in Clusters, FailoverCluster(s, t) PROVE FedTypeOK'
    <3>1. weight[s] \in 0..Whole /\ weight[t] \in 0..Whole
      OBVIOUS
    <3>2. Lesser(Whole, weight[t] + weight[s]) \in 0..Whole
      BY <3>1 DEF Lesser
    <3>3. weight' \in [Clusters -> 0..Whole]
      BY <2>3, <3>2 DEF FailoverCluster
    <3> QED BY <2>3, <3>3 DEF FailoverCluster, Primaries
  <2>4. CASE UNCHANGED fedVars
    BY <2>4 DEF fedVars
  <2> QED BY <2>1, <2>2, <2>3, <2>4 DEF FedNext
<1> QED BY <1>1, <1>2, PTL DEF FedSpec

\* However many calls fail, there is a primary cluster: the failover gives the
\* role to its target after it has taken it from the source.
THEOREM PrimaryKept == FedSpec => []KeepsAPrimary
<1>1. FedInit => KeepsAPrimary
  BY DEF FedInit, KeepsAPrimary
<1>2. KeepsAPrimary /\ [FedNext]_fedVars => KeepsAPrimary'
  BY DEF KeepsAPrimary, FedNext, fedVars, MarkClusterHealth, SetMultiClusterTrafficSplit,
         FailoverCluster, Primaries
<1> QED BY <1>1, <1>2, PTL DEF FedSpec

\* No step, of a call that succeeds or of one that fails half way, raises the
\* weight of a sick cluster.
THEOREM SickGainNothing == FedSpec => NoTrafficToSick
<1> DEFINE Fair == \A c \in Clusters : weight'[c] > weight[c] => c \in healthy
<1>1. FedTypeOK /\ [FedNext]_fedVars => [Fair]_fedVars
  <2> SUFFICES ASSUME FedTypeOK, FedNext, NEW c \in Clusters, c \notin healthy
               PROVE  ~ (weight'[c] > weight[c])
    OBVIOUS
  <2>0. weight[c] \in Nat
    BY FederationAssumption DEF FedTypeOK
  <2>1. ASSUME NEW d \in Clusters, MarkClusterHealth(d) PROVE ~ (weight'[c] > weight[c])
    BY <2>0, <2>1 DEF MarkClusterHealth
  <2>2. ASSUME NEW splits \in SplitCalls, SetMultiClusterTrafficSplit(splits)
        PROVE  ~ (weight'[c] > weight[c])
    <3> DEFINE e == CHOOSE x \in {splits[i] : i \in Taken(splits)} : x.cluster = c
    <3>1. CASE \E k \in Taken(splits) : splits[k].cluster = c
      <4>1. Accepts(c, e.weight)
        BY <3>1, WrittenByASplit
      <4>2. e.weight = 0
        BY <4>1 DEF Accepts
      <4>3. weight'[c] = e.weight
        BY <2>2, <3>1, Zenon DEF SetMultiClusterTrafficSplit
      <4> QED BY <2>0, <4>2, <4>3
    <3>2. CASE ~ \E k \in Taken(splits) : splits[k].cluster = c
      BY <2>0, <2>2, <3>2 DEF SetMultiClusterTrafficSplit
    <3> QED BY <3>1, <3>2
  <2>3. ASSUME NEW s \in Clusters, NEW t \in Clusters, FailoverCluster(s, t)
        PROVE  ~ (weight'[c] > weight[c])
    <3>1. CASE t \in healthy
      <4>1. weight'[c] = 0 \/ weight'[c] = weight[c]
        BY <2>3, <3>1 DEF FailoverCluster, FedTypeOK
      <4> QED BY <2>0, <4>1
    <3>2. CASE t \notin healthy
      BY <2>0, <2>3, <3>2 DEF FailoverCluster
    <3> QED BY <3>1, <3>2
  <2> QED BY <2>1, <2>2, <2>3 DEF FedNext
<1> QED BY <1>1, FedTyping, PTL DEF FedSpec, NoTrafficToSick

-----------------------------------------------------------------------------
(* Hot patches                                                             *)

PatchEntry(p) == p = NoPatch \/ p \in [deployment : Deployments, token : 1..tokens, reverted : BOOLEAN]

\* What a rollback in the log stands for, and what an entry of the registry
\* does: no rollback can be on record for a token that is yet to be given out,
\* which is why a patch that replaces another starts without one.
PatchInv ==
  /\ tokens \in Nat
  /\ activePatches \in [PatchIds -> {activePatches[i] : i \in PatchIds}]
  /\ \A id \in PatchIds : PatchEntry(activePatches[id])
  /\ \A id \in PatchIds : \A t : RolledBack(id, t) => t \in 1..tokens /\ Started(id, t)
  /\ \A id \in PatchIds : activePatches[id] # NoPatch =>
       /\ Started(id, activePatches[id].token)
       /\ activePatches[id].reverted <=> RolledBack(id, activePatches[id].token)

LEMMA PatchInvariant == PatchSpec => []PatchInv
<1>1. PatchInit => PatchInv
  BY DEF PatchInit, PatchInv, PatchEntry, Started, RolledBack
<1>2. PatchInv /\ [PatchNext]_patchVars => PatchInv'
  <2> SUFFICES ASSUME PatchInv, [PatchNext]_patchVars PROVE PatchInv'
    OBVIOUS
  <2>1. ASSUME NEW id \in PatchIds, NEW d \in Deployments, NEW type \in PatchTypes,
               NEW r \in Runtimes, NEW fits \in BOOLEAN, ApplyHotPatch(id, d, type, r, fits)
        PROVE  PatchInv'
    <3>1. tokens \in Nat /\ tokens' = tokens + 1 /\ tokens' \in 1..tokens' /\ tokens' \notin 1..tokens
      BY <2>1 DEF ApplyHotPatch, PatchInv
    <3>2. /\ activePatches' = [activePatches EXCEPT ![id] = AppliedPatch(d, tokens')]
          /\ auditLog' = auditLog \union {<< "execution_started", id, tokens' >>}
      BY <2>1 DEF ApplyHotPatch
    <3>3. \A i \in PatchIds : \A t : RolledBack(i, t)' <=> RolledBack(i, t)
      BY <3>2 DEF RolledBack
    <3>4. \A i \in PatchIds : \A t : Started(i, t) => Started(i, t)'
      BY <3>2 DEF Started
    <3>5. << "execution_started", id, tokens' >> \in auditLog'
      BY <3>2
    <3>6. activePatches' \in [PatchIds -> {activePatches'[i] : i \in PatchIds}]
      BY <3>2 DEF PatchInv
    <3>7. \A i \in PatchIds : activePatches'[i] = IF i = id THEN AppliedPatch(d, tokens') ELSE activePatches[i]
      BY <3>2, Zenon DEF PatchInv
    <3>8. \A i \in PatchIds : PatchEntry(activePatches[i])'
      <4> SUFFICES ASSUME NEW i \in PatchIds PROVE PatchEntry(activePatches[i])'
        OBVIOUS
      <4>1. CASE i = id
        <5>1. activePatches'[i] = [deployment |-> d, token |-> tokens', reverted |-> FALSE]
          BY <3>7, <4>1 DEF AppliedPatch
        <5>2. activePatches'[i] \in [deployment : Deployments, token : 1..tokens', reverted : BOOLEAN]
          BY <3>1, <5>1
        <5> QED BY <5>2 DEF PatchEntry
      <4>2. CASE i # id
        BY <3>1, <3>7, <4>2 DEF PatchEntry, PatchInv
      <4> QED BY <4>1, <4>2
    <3>9. \A i \in PatchIds : \A t : RolledBack(i, t)' => t \in 1..tokens' /\ Started(i, t)'
      BY <3>1, <3>3, <3>4 DEF PatchInv
    <3>10. ASSUME NEW i \in PatchIds, activePatches'[i] # NoPatch
           PROVE  /\ Started(i, activePatches[i].token)'
                  /\ activePatches'[i].reverted <=> RolledBack(i, activePatches[i].token)'
      <4>1. CASE i = id
        <5>1. activePatches'[i].token = tokens' /\ ~activePatches'[i].reverted
          BY <3>7, <4>1 DEF AppliedPatch
        <5>2. ~RolledBack(i, tokens')
          BY <3>1 DEF PatchInv
        <5>3. Started(i, activePatches[i].token)'
          BY <3>5, <4>1, <5>1 DEF Started
        <5>4. ~RolledBack(i, activePatches[i].token)'
          BY <3>2, <5>1, <5>2 DEF RolledBack
        <5> QED BY <5>1, <5>3, <5>4
      <4>2. CASE i # id
        <5>1. activePatches'[i] = activePatches[i]
          BY <3>7, <4>2
        <5> QED BY <3>3, <3>4, <3>10, <5>1 DEF PatchInv
      <4> QED BY <4>1, <4>2
    <3> QED BY <3>1, <3>6, <3>8, <3>9, <3>10 DEF PatchInv
  <2>2. ASSUME NEW id \in PatchIds, NEW token \in 1..tokens, RevertHotPatch(id, token)
        PROVE  PatchInv'
    <3>1. /\ activePatches' = [activePatches EXCEPT ![id].reverted = TRUE]
          /\ auditLog' = auditLog \union {<< "rollback_completed", id, token >>}
          /\ tokens' = tokens /\ tokens \in Nat
          /\ activePatches[id] # NoPatch /\ activePatches[id].token = token
      BY <2>2 DEF RevertHotPatch, MayRevert, PatchInv
    <3>2. activePatches[id] \in [deployment : Deployments, token : 1..tokens, reverted : BOOLEAN]
      BY <3>1 DEF PatchInv, PatchEntry
    <3>3. \A i \in PatchIds : activePatches'[i] =
            IF i = id THEN [activePatches[id] EXCEPT !.reverted = TRUE] ELSE activePatches[i]
      BY <3>1, Zenon DEF PatchInv
    <3>4. \A i \in PatchIds : \A t : Started(i, t)' <=> Started(i, t)
      BY <3>1 DEF Started
    <3>5. \A i \in PatchIds : \A t :
            RolledBack(i, t)' <=> RolledBack(i, t) \/ (i = id /\ t = token)
      BY <3>1 DEF RolledBack
    <3>6. activePatches' \in [PatchIds -> {activePatches'[i] : i \in PatchIds}]
      BY <3>1 DEF PatchInv
    <3>7. \A i \in PatchIds : PatchEntry(activePatches[i])'
      BY <3>1, <3>2, <3>3 DEF PatchEntry, PatchInv
    <3>8. Started(id, token)
      BY <3>1 DEF PatchInv
    <3>9. \A i \in PatchIds : \A t : RolledBack(i, t)' => t \in 1..tokens' /\ Started(i, t)'
      BY <3>1, <3>4, <3>5, <3>8 DEF PatchInv
    <3>10. ASSUME NEW i \in PatchIds, activePatches'[i] # NoPatch
           PROVE  /\ Started(i, activePatches[i].token)'
                  /\ activePatches'[i].reverted <=> RolledBack(i, activePatches[i].token)'
      <4>1. CASE i = id
        <5>1. activePatches'[i].token = token /\ activePatches'[i].reverted
          BY <3>1, <3>2, <3>3, <4>1
        <5> QED BY <3>4, <3>5, <3>8, <4>1, <5>1
      <4>2. CASE i # id
        <5>1. activePatches'[i] = activePatches[i]
          BY <3>3, <4>2
        <5> QED BY <3>4, <3>5, <3>10, <4>2, <5>1 DEF PatchInv
      <4> QED BY <4>1, <4>2
    <3> QED BY <3>1, <3>6, <3>7, <3>9, <3>10 DEF PatchInv
  <2>3. CASE UNCHANGED patchVars
    BY <2>3 DEF patchVars, PatchInv, PatchEntry, Started, RolledBack
  <2> QED BY <2>1, <2>2, <2>3 DEF PatchNext
<1> QED BY <1>1, <1>2, PTL DEF PatchSpec

\* However often an id is applied again, and whichever tokens are tried, a
\* rollback on record is of a patch that was applied with that token, and the
\* lists show exactly the patches without one.
THEOREM RollbacksOwnTheirPatches == PatchSpec => []RollbacksAreOwn
<1>1. PatchInv => RollbacksAreOwn
  BY DEF PatchInv, RollbacksAreOwn, ListActivePatches
<1> QED BY <1>1, PatchInvariant, PTL

-----------------------------------------------------------------------------
(* Shadow replay                                                           *)

\* A batch whose requests are being looked at has passed the check of its
\* configuration.
ShadowInv ==
  /\ at \in {"loop", "await"} => EvaluateShadowSafety(config)
  /\ OnlyReadsAreReplayed

\* The two filters together leave no gap: in a batch that goes on, the general
\* rule suppresses whatever request mutates.
THEOREM ReplaysReadOnly == ShadowSpec => []OnlyReadsAreReplayed
<1>1. ShadowInit => ShadowInv
  BY DEF ShadowInit, ShadowInv, OnlyReadsAreReplayed
<1>2. ShadowInv /\ [ShadowNext]_shadowVars => ShadowInv'
  <2> SUFFICES ASSUME ShadowInv, [ShadowNext]_shadowVars PROVE ShadowInv'
    OBVIOUS
  <2> USE DEF ShadowInv, OnlyReadsAreReplayed
  <2>1. ASSUME NEW c \in Configs, ReplayBatch(c) PROVE ShadowInv'
    BY <2>1 DEF ReplayBatch
  <2>2. ASSUME NEW r \in Requests, SuppressRequest(r) PROVE ShadowInv'
    BY <2>2 DEF SuppressRequest
  <2>3. ASSUME NEW r \in Requests, SendRequest(r) PROVE ShadowInv'
    <3>1. ~r.mutating
      BY <2>3 DEF SendRequest, IsMutationSafe, EvaluateShadowSafety, Requests
    <3> QED BY <2>3, <3>1 DEF SendRequest
  <2>4. CASE SkipRequest \/ TakeAnswer \/ EndBatch \/ UNCHANGED shadowVars
    BY <2>4 DEF SkipRequest, TakeAnswer, EndBatch, shadowVars
  <2> QED BY <2>1, <2>2, <2>3, <2>4 DEF ShadowNext
<1>3. ShadowInv => OnlyReadsAreReplayed
  BY DEF ShadowInv
<1> QED BY <1>1, <1>2, <1>3, PTL DEF ShadowSpec

-----------------------------------------------------------------------------
(* The smart router                                                        *)

RouterTypeOK ==
  /\ status \in [Backends -> {"active", "draining"}]
  /\ requests \in [Backends -> Nat]
  /\ affinity \in [Prefixes -> SUBSET Backends]

DrainedAreCold ==
  \A w \in Backends : status[w] = "draining" =>
    /\ \A p \in Prefixes : w \notin affinity[p]
    /\ requests[w] > 0 => Candidates(ModelOf[w]) = {}

RouterInv ==
  /\ RouterTypeOK
  /\ Total(requests, Backends) = Total(SeedRequests, Backends)
  /\ DrainedAreCold

LEMMA LeastBackend ==
  ASSUME NEW S \in SUBSET Backends, S # {}
  PROVE  Min(S) \in S
<1>1. IsFiniteSet(S)
  BY RouterAssumption, FS_Subset, Zenon
<1>2. \A x \in S : x \in Int
  BY RouterAssumption
<1> QED BY <1>1, <1>2, LeastIsElement, Zenon

\* a request is only ever routed to an active backend
LEMMA RoutedToACandidate ==
  ASSUME NEW p, NEW m
  PROVE  RouteTo(p, m) \subseteq Candidates(m)
<1> DEFINE least == {b \in Candidates(m) : \A c \in Candidates(m) : requests[b] <= requests[c]}
<1>1. least \in SUBSET Backends
  BY DEF Candidates
<1>2. least # {} => Min(least) \in least
  <2> HIDE DEF least
  <2> QED BY <1>1, LeastBackend
<1>3. \A b \in RouteTo(p, m) : b \in Candidates(m) \/ (least # {} /\ b = Min(least))
  BY DEF RouteTo
<1> QED BY <1>2, <1>3

LEMMA DrainKeepsRequests ==
  ASSUME RouterTypeOK, NEW w \in Backends
  PROVE  /\ Migrated(w) \in [Backends -> Nat]
         /\ Total(Migrated(w), Backends) = Total(requests, Backends)
         /\ \A v \in Backends \ {w} :
              Migrated(w)[v] = requests[v] \/ v \in Alternatives(w)
         /\ Migrated(w)[w] > 0 => requests[w] > 0 /\ Alternatives(w) = {}
<1>0. requests \in [Backends -> Nat]
  BY DEF RouterTypeOK
<1>1. CASE requests[w] = 0 \/ Alternatives(w) = {}
  BY <1>0, <1>1 DEF Migrated
<1>2. CASE requests[w] # 0 /\ Alternatives(w) # {}
  <2> DEFINE to == Min(Alternatives(w))
             half == [requests EXCEPT ![to] = @ + requests[w]]
             moved == [half EXCEPT ![w] = 0]
  <2>1. to \in Alternatives(w) /\ to \in Backends \ {w}
    <3>1. Alternatives(w) \in SUBSET (Backends \ {w})
      BY DEF Alternatives, Candidates
    <3> QED BY <1>2, <3>1, LeastBackend
  <2>2. Migrated(w) = moved
    BY <1>2 DEF Migrated
  <2> HIDE DEF to
  <2>3. /\ half \in [Backends -> Nat] /\ half[to] = requests[to] + requests[w]
        /\ \A x \in Backends \ {to} : half[x] = requests[x]
    BY <1>0, <2>1
  <2> HIDE DEF half
  <2>4. /\ moved \in [Backends -> Nat] /\ moved[w] = 0
        /\ \A x \in Backends \ {w} : moved[x] = half[x]
    BY <2>3
  <2> HIDE DEF moved
  <2>5. Total(half, Backends) = Total(requests, Backends) - requests[to] + half[to]
    <3>1. \A x \in Backends : requests[x] \in Int /\ half[x] \in Int
      BY <1>0, <2>3
    <3>2. IsFiniteSet(Backends) /\ to \in Backends /\ \A x \in Backends \ {to} : half[x] = requests[x]
      BY <2>1, <2>3, RouterAssumption, Zenon
    <3> QED BY <3>1, <3>2, TotalFollowsChange
  <2>6. Total(moved, Backends) = Total(half, Backends) - half[w] + moved[w]
    <3>1. \A x \in Backends : half[x] \in Int /\ moved[x] \in Int
      BY <2>3, <2>4
    <3>2. IsFiniteSet(Backends) /\ \A x \in Backends \ {w} : moved[x] = half[x]
      BY <2>4, RouterAssumption, Zenon
    <3> QED BY <3>1, <3>2, TotalFollowsChange
  <2>7. Total(requests, Backends) \in Int
    <3>1. \A x \in Backends : requests[x] \in Int
      BY <1>0
    <3> QED BY <3>1, RouterAssumption, TotalIsInteger, Zenon
  <2>8. requests[to] \in Nat /\ requests[w] \in Nat /\ half[w] = requests[w]
    BY <1>0, <2>1, <2>3
  <2>9. Total(moved, Backends) = Total(requests, Backends)
    BY <2>3, <2>4, <2>5, <2>6, <2>7, <2>8
  <2> QED BY <2>1, <2>2, <2>3, <2>4, <2>9
<1> QED BY <1>0, <1>1, <1>2

\* A drain, repeated or following others, neither loses nor doubles a request,
\* and leaves a drained worker warm for nothing and with requests only when
\* no other worker serves its model.
THEOREM DrainsKeepRequests == RouterSpec => []DrainsMigrate
<1> USE RouterAssumption
<1>1. RouterInit => RouterInv
  BY DEF RouterInit, RouterInv, RouterTypeOK, DrainedAreCold
<1>2. RouterInv /\ [RouterNext]_routerVars => RouterInv'
  <2> SUFFICES ASSUME RouterInv, [RouterNext]_routerVars PROVE RouterInv'
    OBVIOUS
  <2>1. ASSUME NEW p \in Prefixes, NEW m \in Range(ModelOf), ChatCompletion(p, m)
        PROVE  RouterInv'
    <3>1. PICK b \in RouteTo(p, m) :
            /\ affinity' = [affinity EXCEPT ![p] = @ \union {b}]
            /\ UNCHANGED << status, requests >>
      BY <2>1 DEF ChatCompletion
    <3>2. b \in Backends /\ status[b] = "active"
      BY RoutedToACandidate DEF Candidates
    <3>3. RouterTypeOK'
      BY <3>1, <3>2 DEF RouterInv, RouterTypeOK
    <3>4. DrainedAreCold'
      BY <3>1, <3>2 DEF RouterInv, RouterTypeOK, DrainedAreCold, Candidates
    <3> QED BY <3>1, <3>3, <3>4 DEF RouterInv
  <2>2. ASSUME NEW w \in Backends, DrainWorker(w) PROVE RouterInv'
    <3>1. /\ status' = [status EXCEPT ![w] = "draining"]
          /\ affinity' = [p \in Prefixes |-> affinity[p] \ {w}]
          /\ requests' = Migrated(w)
      BY <2>2 DEF DrainWorker
    <3>2. RouterTypeOK' /\ Total(requests', Backends) = Total(SeedRequests, Backends)
      BY <3>1, DrainKeepsRequests DEF RouterInv, RouterTypeOK
    <3>3. \A m : Candidates(m)' = Candidates(m) \ {w}
      BY <3>1 DEF RouterInv, RouterTypeOK, Candidates
    <3>4. \A v \in Backends \ {w} : status[v] = "draining" => requests'[v] = requests[v]
      BY <3>1, DrainKeepsRequests DEF RouterInv, Alternatives, Candidates
    <3>5. requests'[w] > 0 => Candidates(ModelOf[w])' = {}
      BY <3>1, <3>3, DrainKeepsRequests DEF RouterInv, Alternatives
    <3>6. DrainedAreCold'
      <4> SUFFICES ASSUME NEW v \in Backends, status'[v] = "draining"
                   PROVE  /\ \A p \in Prefixes : v \notin affinity'[p]
                          /\ requests'[v] > 0 => Candidates(ModelOf[v])' = {}
        BY DEF DrainedAreCold
      <4>1. CASE v = w
        BY <3>1, <3>5, <4>1
      <4>2. CASE v # w
        <5>1. status[v] = "draining" /\ requests'[v] = requests[v]
          BY <3>1, <3>4, <4>2 DEF RouterInv, RouterTypeOK
        <5> QED BY <3>1, <3>3, <5>1 DEF RouterInv, DrainedAreCold
      <4> QED BY <4>1, <4>2
    <3> QED BY <3>2, <3>6 DEF RouterInv
  <2>3. CASE UNCHANGED routerVars
    BY <2>3 DEF RouterInv, RouterTypeOK, DrainedAreCold, Candidates, routerVars
  <2> QED BY <2>1, <2>2, <2>3 DEF RouterNext
<1>3. RouterInv => DrainsMigrate
  BY DEF RouterInv, DrainedAreCold, DrainsMigrate, Total, MapThenSumSet, MapThenFoldSet
<1> QED BY <1>1, <1>2, <1>3, PTL DEF RouterSpec

-----------------------------------------------------------------------------
(* The providers' traffic tables                                           *)

Status == {"deploying", "serving", "draining"}

IsTable(t) ==
  /\ IsFiniteSet(DOMAIN t)
  /\ t \in [DOMAIN t -> [traffic : 0..100, status : Status]]

\* u is t with a row for m that has this share
RowIsSet(u, t, m, share) ==
  /\ IsTable(u) /\ DOMAIN u = DOMAIN t \union {m}
  /\ u[m].traffic = share /\ \A x \in DOMAIN t \ {m} : u[x] = t[x]

LEMMA RowSet ==
  ASSUME NEW t, IsTable(t), NEW m, NEW share, share \in 0..100, NEW st, st \in Status
  PROVE  RowIsSet(With(t, Row(m, share, st)), t, m, share)
<1> DEFINE u == With(t, Row(m, share, st))
<1>1. DOMAIN u = DOMAIN t \union {m}
  BY DEF With, Row
<1>2. IsFiniteSet(DOMAIN u)
  BY <1>1, FS_AddElement DEF IsTable
<1>3. u[m] = [traffic |-> share, status |-> st] /\ \A x \in DOMAIN t \ {m} : u[x] = t[x]
  BY DEF With, Row
<1>4. u = [x \in DOMAIN u |-> u[x]]
  BY DEF With
<1> HIDE DEF u
<1>5. \A x \in DOMAIN u : u[x] \in [traffic : 0..100, status : Status]
  <2>1. u[m] \in [traffic : 0..100, status : Status]
    BY <1>3
  <2>2. \A x \in DOMAIN t \ {m} : u[x] \in [traffic : 0..100, status : Status]
    BY <1>3 DEF IsTable
  <2> QED BY <1>1, <2>1, <2>2
<1>6. IsTable(u)
  BY <1>2, <1>4, <1>5 DEF IsTable
<1>7. RowIsSet(u, t, m, share)
  BY <1>1, <1>3, <1>6 DEF RowIsSet
<1> QED BY <1>7 DEF u

\* u has t's rows, each with the share it had
SharesStay(u, t) ==
  IsTable(u) /\ DOMAIN u = DOMAIN t /\ \A x \in DOMAIN t : u[x].traffic = t[x].traffic

\* u has t's rows, but for these
OthersStay(u, t, S) == \A x \in DOMAIN u \ S : x \in DOMAIN t /\ u[x] = t[x]

LEMMA ProvisionedShares ==
  ASSUME IsTable(models), NEW c
  PROVE  RowIsSet(VertexProvision(c), models, c, 0) /\ RowIsSet(GkeProvision(c), models, c, 0)
<1>1. 0 \in 0..100 /\ "deploying" \in Status /\ "serving" \in Status
  BY DEF Status
<1> QED BY <1>1, RowSet, Zenon DEF VertexProvision, GkeProvision

LEMMA WarmShares ==
  ASSUME IsTable(models), NEW c
  PROVE  SharesStay(VertexWarmup(c), models) /\ SharesStay(GkeWarmup(c), models)
<1>1. SharesStay(models, models)
  BY DEF SharesStay
<1>2. CASE c \in Deployed
  <2> DEFINE t == [models EXCEPT ![c].status = "serving"]
  <2>1. SharesStay(t, models)
    BY <1>2 DEF SharesStay, IsTable, Status, Deployed
  <2>2. VertexWarmup(c) = t
    BY <1>2 DEF VertexWarmup
  <2> QED BY <1>1, <2>1, <2>2 DEF GkeWarmup
<1>3. CASE c \notin Deployed
  BY <1>1, <1>3 DEF VertexWarmup, GkeWarmup
<1> QED BY <1>2, <1>3

\* u is what a split of n for c makes of the table
SplitTo(u, c, n) ==
  /\ IsTable(u) /\ DOMAIN u = Deployed
  /\ u[active].traffic = 100 - n /\ (c # active => u[c].traffic = n)
  /\ OthersStay(u, models, {c, active})

LEMMA SplitShares ==
  ASSUME IsTable(models), active \in Deployed, NEW c \in Deployed, NEW pct \in Splits
  PROVE  \E n \in 0..100 : SplitTo(VertexSplit(c, pct), c, n) /\ SplitTo(GkeSplit(c, pct), c, n)
<1> DEFINE n == Clamped(pct)
           t == [models EXCEPT ![c].traffic = n, ![active].traffic = 100 - n]
<1>1. n \in 0..100
  BY ProviderAssumption DEF Clamped
<1>2. VertexSplit(c, pct) = t /\ GkeSplit(c, pct) = t
  BY DEF VertexSplit, GkeSplit
<1> HIDE DEF n
<1>3. SplitTo(t, c, n)
  BY <1>1 DEF SplitTo, OthersStay, IsTable, Deployed
<1> HIDE DEF t
<1> QED BY <1>1, <1>2, <1>3

\* u is what a promotion of c makes of the table
PromotedTo(u, c) ==
  /\ IsTable(u) /\ DOMAIN u = Deployed
  /\ u[c].traffic = 100 /\ (c # active => u[active].traffic = 0)
  /\ OthersStay(u, models, {c, active})

LEMMA PromoteShares ==
  ASSUME IsTable(models), active \in Deployed, NEW c \in Deployed
  PROVE  PromotedTo(VertexPromote(c), c) /\ PromotedTo(GkePromote(c), c)
<1>1. models[c].status \in Status
  BY DEF IsTable, Deployed
<1>2. 0 \in 0..100 /\ 100 \in 0..100 /\ "draining" \in Status /\ "serving" \in Status
  BY DEF Status
<1> DEFINE t == With(models, Row(active, 0, "draining"))
           u == With(models, Row(active, 0, "serving"))
<1>3. RowIsSet(t, models, active, 0) /\ RowIsSet(u, models, active, 0)
  BY <1>2, RowSet, Zenon
<1>4. /\ VertexPromote(c) = With(t, Row(c, 100, models[c].status))
      /\ GkePromote(c) = With(u, Row(c, 100, "serving"))
  BY <1>3 DEF VertexPromote, GkePromote, SetRow, Deployed, RowIsSet
<1> HIDE DEF t, u
<1>5. /\ RowIsSet(With(t, Row(c, 100, models[c].status)), t, c, 100)
      /\ RowIsSet(With(u, Row(c, 100, "serving")), u, c, 100)
  <2>1. IsTable(t) /\ IsTable(u)
    BY <1>3 DEF RowIsSet
  <2> QED BY <1>1, <1>2, <2>1, RowSet, Zenon
<1>6. \A v, w : RowIsSet(v, models, active, 0) /\ RowIsSet(w, v, c, 100) => PromotedTo(w, c)
  BY DEF RowIsSet, PromotedTo, OthersStay, Deployed
<1> QED BY <1>3, <1>4, <1>5, <1>6

\* u is what a rollback of c makes of the table
RolledBackTo(u, c) ==
  /\ IsTable(u) /\ Deployed \subseteq DOMAIN u /\ DOMAIN u \subseteq Deployed \union {c}
  /\ u[active].traffic = 100 /\ (c \in DOMAIN u \ {active} => u[c].traffic = 0)
  /\ OthersStay(u, models, {c, active})

LEMMA RollbackShares ==
  ASSUME IsTable(models), active \in Deployed, NEW c
  PROVE  RolledBackTo(VertexRollback(c), c) /\ RolledBackTo(GkeRollback(c), c)
<1>1. 0 \in 0..100 /\ 100 \in 0..100 /\ "draining" \in Status /\ "serving" \in Status
  BY DEF Status
<1> DEFINE Half(v) == /\ IsTable(v) /\ Deployed \subseteq DOMAIN v /\ DOMAIN v \subseteq Deployed \union {c}
                      /\ c \in DOMAIN v => v[c].traffic = 0
                      /\ OthersStay(v, models, {c})
           t == SetRow(models, c, 0, "draining")
           u == With(models, Row(c, 0, "serving"))
<1>2. \A v : RowIsSet(v, models, c, 0) => Half(v)
  BY DEF RowIsSet, OthersStay, Deployed
<1>3. RowIsSet(With(models, Row(c, 0, "draining")), models, c, 0) /\ RowIsSet(u, models, c, 0)
  BY <1>1, RowSet, Zenon
<1>4. Half(t) /\ Half(u)
  <2>1. CASE c \in Deployed
    <3>1. t = With(models, Row(c, 0, "draining"))
      BY <2>1 DEF SetRow, Deployed
    <3> HIDE DEF t, u, Half
    <3> QED BY <1>2, <1>3, <3>1
  <2>2. CASE c \notin Deployed
    <3>1. t = models
      BY <2>2 DEF SetRow, Deployed
    <3>2. Half(models)
      BY <2>2 DEF OthersStay, Deployed
    <3> HIDE DEF t, u, Half
    <3> QED BY <1>2, <1>3, <3>1, <3>2
  <2> QED BY <2>1, <2>2
<1>5. /\ VertexRollback(c) = With(t, Row(active, 100, "serving"))
      /\ GkeRollback(c) = With(u, Row(active, 100, "serving"))
  BY <1>4 DEF VertexRollback, GkeRollback, SetRow
<1> HIDE DEF t, u
<1>6. \A v : Half(v) => RolledBackTo(With(v, Row(active, 100, "serving")), c)
  <2> SUFFICES ASSUME NEW v, Half(v) PROVE RolledBackTo(With(v, Row(active, 100, "serving")), c)
    OBVIOUS
  <2>1. RowIsSet(With(v, Row(active, 100, "serving")), v, active, 100)
    BY <1>1, RowSet, Zenon
  <2>2. \A w : RowIsSet(w, v, active, 100) => RolledBackTo(w, c)
    BY DEF RowIsSet, RolledBackTo, OthersStay
  <2> QED BY <2>1, <2>2
<1> QED BY <1>4, <1>5, <1>6

\* u is what draining c makes of the table
DrainedTo(u, c) ==
  IsTable(u) /\ DOMAIN u = Deployed \ ({c} \ {active}) /\ OthersStay(u, models, {})

LEMMA DrainShares ==
  ASSUME IsTable(models), NEW c
  PROVE  DrainedTo(VertexDrain(c), c) /\ DrainedTo(GkeDrain(c), c)
<1>1. CASE c = active
  BY <1>1 DEF DrainedTo, OthersStay, VertexDrain, GkeDrain, Deployed
<1>2. CASE c # active
  <2> DEFINE t == Restrict(models, Deployed \ {c})
  <2>1. DOMAIN t = Deployed \ {c} /\ \A x \in DOMAIN t : x \in Deployed /\ t[x] = models[x]
    BY DEF Restrict, Deployed
  <2>2. IsFiniteSet(DOMAIN t)
    BY <2>1, FS_Subset DEF IsTable, Deployed
  <2>3. t = [x \in DOMAIN t |-> t[x]]
    BY DEF Restrict
  <2>4. VertexDrain(c) = t /\ GkeDrain(c) = t
    BY <1>2 DEF VertexDrain, GkeDrain
  <2> HIDE DEF t
  <2>5. IsTable(t)
    BY <2>1, <2>2, <2>3 DEF IsTable, Deployed
  <2> QED BY <1>2, <2>1, <2>4, <2>5 DEF DrainedTo, OthersStay, Deployed
<1> QED BY <1>1, <1>2

-----------------------------------------------------------------------------
(* The shares.  While rollouts overlap the sum may be anything; what lasts *)
(* is that no model has a share but the active one and those of rollouts   *)
(* under way, and that less than all of it is left to the active one only  *)
(* while a canary is out, whose next call, whichever it is, sets both.     *)

Stages == {"none", "provisioned", "canary", "promoted"}

TrafficTypes ==
  /\ kind \in {"vertex", "gke"} /\ IsTable(models) /\ active \in Deployed
  /\ stage \in [Actions -> Stages]
  /\ disturbed \subseteq Open

\* only the active model and the rollouts under way have shares
SharesAreHeld ==
  /\ \A m \in Deployed \ (Open \union {active}) : models[m].traffic = 0
  /\ \A c \in Open : c \in Deployed
  /\ \A c \in Open \ {active} : stage[c] = "promoted" => models[c].traffic = 0

\* what the active one is short of, a canary may have
ShortForACanary ==
  models[active].traffic = 100 \/ \E c \in Open : stage[c] # "promoted"

\* a rollout that nothing came in between has what the active one has not
UndisturbedAddsUp ==
  \A c \in Open \ disturbed :
    /\ \A b \in Open \ disturbed : b = c
    /\ \/ models[active].traffic = 100 /\ (c = active \/ stage[c] = "promoted")
       \/ c # active /\ stage[c] # "promoted" /\ models[c].traffic + models[active].traffic = 100

TrafficInv == TrafficTypes /\ SharesAreHeld /\ ShortForACanary /\ UndisturbedAddsUp

LEMMA InvAddsUp == TrafficInv => TrafficAddsUp
<1> SUFFICES ASSUME TrafficInv PROVE TrafficAddsUp
  OBVIOUS
<1>1. /\ IsFiniteSet(Deployed) /\ active \in Deployed
      /\ \A m \in Deployed : Shares[m] \in 0..100 /\ Shares[m] = models[m].traffic
  BY DEF TrafficInv, TrafficTypes, IsTable, Deployed, Shares
<1>2. \A m \in Deployed : Shares[m] \in Int
  BY <1>1
<1>3. ASSUME Open = {} PROVE Shares[active] = 100
  BY <1>1, <1>3 DEF TrafficInv, ShortForACanary
<1>4. ASSUME disturbed = {} PROVE Total(Shares, Deployed) = 100
  <2>1. CASE \A m \in Deployed \ {active} : Shares[m] = 0
    <3>1. Shares[active] = 100
      <4>1. CASE Open = {}
        BY <1>3, <4>1
      <4>2. ASSUME NEW c \in Open PROVE Shares[active] = 100
        <5>1. c \in Deployed
          BY <4>2 DEF TrafficInv, SharesAreHeld
        <5> QED BY <1>1, <1>4, <2>1, <4>2, <5>1 DEF TrafficInv, UndisturbedAddsUp
      <4> QED BY <4>1, <4>2
    <3> QED BY <1>1, <1>2, <2>1, <3>1, TotalOfOne
  <2>2. ASSUME NEW c \in Deployed \ {active}, Shares[c] # 0 PROVE Total(Shares, Deployed) = 100
    <3>1. c \in Open /\ stage[c] # "promoted"
      BY <1>1, <2>2 DEF TrafficInv, SharesAreHeld
    <3>2. models[c].traffic + models[active].traffic = 100 /\ \A b \in Open : b = c
      BY <1>4, <2>2, <3>1 DEF TrafficInv, UndisturbedAddsUp
    <3>3. \A m \in Deployed \ {active, c} : Shares[m] = 0
      BY <1>1, <3>2 DEF TrafficInv, SharesAreHeld
    <3>4. Shares[active] + Shares[c] = 100
      BY <1>1, <2>2, <3>2
    <3> QED BY <1>1, <1>2, <2>2, <3>3, <3>4, TotalOfTwo
  <2> QED BY <2>1, <2>2
<1> QED BY <1>1, <1>3, <1>4 DEF TrafficAddsUp, Total, MapThenSumSet, MapThenFoldSet

\* What a call of a's does to the rollouts under way.
LEMMA StageMoves ==
  ASSUME TrafficTypes, NEW a \in Actions, NEW to \in Stages, Goes(a, to)
  PROVE  /\ stage' \in [Actions -> Stages] /\ stage'[a] = to
         /\ \A b \in Actions \ {a} : stage'[b] = stage[b]
         /\ Open' = IF to = "none" THEN Open \ {a} ELSE Open \union {a}
<1>1. stage' = [stage EXCEPT ![a] = to]
  BY DEF Goes
<1>2. /\ stage' \in [Actions -> Stages] /\ stage'[a] = to
      /\ \A b \in Actions \ {a} : stage'[b] = stage[b]
  BY <1>1 DEF TrafficTypes
<1>3. Open' = IF to = "none" THEN Open \ {a} ELSE Open \union {a}
  BY <1>2 DEF Open
<1> QED BY <1>2, <1>3

LEMMA StartKeeps ==
  ASSUME TrafficInv, NEW a \in Actions, StartRollout(a)
  PROVE  TrafficInv'
<1>1. TrafficTypes /\ SharesAreHeld /\ ShortForACanary
  BY DEF TrafficInv
<1>2. /\ stage' \in [Actions -> Stages] /\ stage'[a] = "provisioned"
      /\ \A b \in Actions \ {a} : stage'[b] = stage[b]
      /\ Open' = Open \union {a} /\ a \notin Open
  <2>1. Goes(a, "provisioned") /\ a \notin Open
    BY DEF StartRollout, Open
  <2> QED BY <1>1, <2>1, StageMoves DEF Stages
<1>3. RowIsSet(models', models, a, 0) /\ kind' = kind /\ active' = active
  BY <1>1, ProvisionedShares DEF StartRollout, TrafficTypes
<1>4. /\ IsTable(models') /\ Deployed' = Deployed \union {a} /\ models'[a].traffic = 0
      /\ \A m \in Deployed \ {a} : models'[m] = models[m]
  BY <1>3 DEF RowIsSet, Deployed
<1>5. \/ disturbed' = Open'
      \/ disturbed' = {} /\ a # active /\ Open = {}
  BY <1>2 DEF StartRollout
<1>6. TrafficTypes'
  BY <1>1, <1>2, <1>3, <1>4, <1>5 DEF TrafficTypes
<1>7. SharesAreHeld'
  <2>1. \A m \in Deployed' \ (Open' \union {active}) : models'[m].traffic = 0
    BY <1>1, <1>2, <1>4 DEF SharesAreHeld
  <2>2. \A c \in Open' : c \in Deployed'
    BY <1>1, <1>2, <1>4 DEF SharesAreHeld
  <2>3. \A c \in Open' \ {active} : stage'[c] = "promoted" => models'[c].traffic = 0
    <3>1. \A c \in Open : c \in Actions \ {a} /\ c \in Deployed \ {a}
      BY <1>1, <1>2 DEF SharesAreHeld, Open
    <3> QED BY <1>1, <1>2, <1>4, <3>1 DEF SharesAreHeld
  <2> QED BY <1>3, <2>1, <2>2, <2>3 DEF SharesAreHeld
<1>8. ShortForACanary'
  BY <1>2 DEF ShortForACanary
<1>9. UndisturbedAddsUp'
  <2>1. CASE disturbed' = Open'
    BY <2>1 DEF UndisturbedAddsUp
  <2>2. CASE disturbed' = {} /\ a # active /\ Open = {}
    <3>1. models'[active].traffic = 100 /\ models'[a].traffic = 0
      BY <1>1, <1>4, <2>2 DEF ShortForACanary, TrafficTypes
    <3> QED BY <1>2, <1>3, <2>2, <3>1 DEF UndisturbedAddsUp
  <2> QED BY <1>5, <2>1, <2>2
<1> QED BY <1>6, <1>7, <1>8, <1>9 DEF TrafficInv

LEMMA WarmKeeps ==
  ASSUME TrafficInv, NEW a \in Actions, Warm(a)
  PROVE  TrafficInv'
<1>1. TrafficTypes /\ SharesAreHeld /\ ShortForACanary /\ UndisturbedAddsUp
  BY DEF TrafficInv
<1>2. /\ stage' \in [Actions -> Stages] /\ stage'[a] = "canary" /\ stage[a] = "provisioned"
      /\ \A b \in Actions \ {a} : stage'[b] = stage[b]
      /\ Open' = Open
  <2>1. Goes(a, "canary") /\ a \in Open /\ stage[a] = "provisioned"
    BY DEF Warm, Open
  <2> QED BY <1>1, <2>1, StageMoves DEF Stages
<1>3. /\ SharesStay(models', models)
      /\ UNCHANGED << kind, active, disturbed >>
  BY <1>1, WarmShares DEF Warm, TrafficTypes
<1>4. /\ IsTable(models') /\ Deployed' = Deployed
      /\ \A m \in Deployed : models'[m].traffic = models[m].traffic
  BY <1>3 DEF SharesStay, Deployed
<1>5. \A c \in Actions : stage'[c] = "promoted" <=> stage[c] = "promoted"
  BY <1>2
<1>6. TrafficTypes'
  BY <1>1, <1>2, <1>3, <1>4 DEF TrafficTypes
<1>7. SharesAreHeld'
  BY <1>1, <1>2, <1>3, <1>4, <1>5 DEF SharesAreHeld, Open
<1>8. ShortForACanary'
  BY <1>1, <1>2, <1>3, <1>4, <1>5 DEF ShortForACanary, TrafficTypes, Open
<1>9. UndisturbedAddsUp'
  <2>1. \A c \in Open : c \in Deployed /\ c \in Actions
    BY <1>1 DEF SharesAreHeld, Open
  <2> QED BY <1>1, <1>2, <1>3, <1>4, <1>5, <2>1 DEF UndisturbedAddsUp, TrafficTypes
<1> QED BY <1>6, <1>7, <1>8, <1>9 DEF TrafficInv

LEMMA StageKeeps ==
  ASSUME TrafficInv, NEW a \in Actions, NEW pct \in Splits, Stage(a, pct)
  PROVE  TrafficInv'
<1>1. TrafficTypes /\ SharesAreHeld
  BY DEF TrafficInv
<1>2. /\ a \in Open /\ a \in Deployed /\ stage[a] = "canary"
      /\ UNCHANGED << kind, active, stage >> /\ Open' = Open
      /\ disturbed' = (Open \ {a}) \union ({a} \intersect {active})
  BY <1>1 DEF Stage, Open, SharesAreHeld, Others
<1>3. PICK n \in 0..100 : SplitTo(models', a, n)
  BY <1>1, <1>2, SplitShares DEF Stage, TrafficTypes
<1>4. /\ IsTable(models') /\ Deployed' = Deployed
      /\ models'[active].traffic = 100 - n /\ (a # active => models'[a].traffic = n)
      /\ \A m \in Deployed \ {a, active} : models'[m] = models[m]
  BY <1>3 DEF SplitTo, OthersStay, Deployed
<1>5. TrafficTypes'
  BY <1>1, <1>2, <1>4 DEF TrafficTypes
<1>6. SharesAreHeld'
  BY <1>1, <1>2, <1>4 DEF SharesAreHeld
<1>7. ShortForACanary'
  BY <1>2 DEF ShortForACanary
<1>8. UndisturbedAddsUp'
  <2>1. \A c \in Open' \ disturbed' : c = a /\ a # active
    BY <1>2
  <2>2. a # active => models'[a].traffic + models'[active].traffic = 100
    BY <1>4
  <2> QED BY <1>2, <2>1, <2>2 DEF UndisturbedAddsUp
<1> QED BY <1>5, <1>6, <1>7, <1>8 DEF TrafficInv

LEMMA PromoteKeeps ==
  ASSUME TrafficInv, NEW a \in Actions, Promote(a)
  PROVE  TrafficInv'
<1>1. TrafficTypes /\ SharesAreHeld
  BY DEF TrafficInv
<1>2. /\ stage' \in [Actions -> Stages] /\ stage'[a] = "promoted"
      /\ \A b \in Actions \ {a} : stage'[b] = stage[b]
      /\ Open' = Open /\ a \in Open
  <2>1. Goes(a, "promoted") /\ a \in Open
    BY DEF Promote, Open
  <2> QED BY <1>1, <2>1, StageMoves DEF Stages
<1>3. /\ a \in Deployed /\ active' = a /\ kind' = kind /\ disturbed' = Open \ {a}
  BY <1>1, <1>2 DEF Promote, SharesAreHeld, Others
<1>4. PromotedTo(models', a)
  BY <1>1, <1>3, PromoteShares DEF Promote, TrafficTypes
<1>5. /\ IsTable(models') /\ Deployed' = Deployed
      /\ models'[a].traffic = 100 /\ (a # active => models'[active].traffic = 0)
      /\ \A m \in Deployed \ {a, active} : models'[m] = models[m]
  BY <1>4 DEF PromotedTo, OthersStay, Deployed
<1>6. TrafficTypes'
  BY <1>1, <1>2, <1>3, <1>5 DEF TrafficTypes
<1>7. SharesAreHeld'
  <2>1. \A c \in Open : c \in Actions /\ c \in Deployed
    BY <1>1 DEF Open, SharesAreHeld
  <2> QED BY <1>1, <1>2, <1>3, <1>5, <2>1 DEF SharesAreHeld
<1>8. ShortForACanary'
  BY <1>3, <1>5 DEF ShortForACanary
<1>9. UndisturbedAddsUp'
  BY <1>2, <1>3, <1>5 DEF UndisturbedAddsUp
<1> QED BY <1>6, <1>7, <1>8, <1>9 DEF TrafficInv

LEMMA DrainKeeps ==
  ASSUME TrafficInv, NEW a \in Actions, Drain(a)
  PROVE  TrafficInv'
<1>1. TrafficTypes /\ SharesAreHeld /\ ShortForACanary /\ UndisturbedAddsUp
  BY DEF TrafficInv
<1>2. /\ stage' \in [Actions -> Stages] /\ stage[a] = "promoted"
      /\ \A b \in Actions \ {a} : stage'[b] = stage[b]
      /\ Open' = Open \ {a}
  <2>1. Goes(a, "none") /\ stage[a] = "promoted"
    BY DEF Drain
  <2> QED BY <1>1, <2>1, StageMoves DEF Stages
<1>3. /\ kind' = kind /\ active' = active /\ disturbed' = disturbed \ {a} /\ DrainedTo(models', a)
  BY <1>1, DrainShares DEF Drain, TrafficTypes
<1>4. /\ IsTable(models') /\ Deployed' = Deployed \ ({a} \ {active})
      /\ \A m \in Deployed' : m \in Deployed /\ models'[m] = models[m]
  BY <1>3 DEF DrainedTo, OthersStay, Deployed
<1>5. \A c \in Open : c \in Actions /\ c \in Deployed
  BY <1>1 DEF Open, SharesAreHeld
<1>6. TrafficTypes'
  BY <1>1, <1>2, <1>3, <1>4 DEF TrafficTypes
<1>7. models'[active] = models[active]
  BY <1>1, <1>4 DEF TrafficTypes
<1>8. SharesAreHeld'
  <2>1. ASSUME NEW m \in Deployed' \ (Open' \union {active}) PROVE models'[m].traffic = 0
    <3>1. m # a
      BY <1>4, <2>1
    <3> QED BY <1>1, <1>2, <1>4, <2>1, <3>1 DEF SharesAreHeld
  <2>2. \A c \in Open' : c \in Deployed'
    BY <1>2, <1>4, <1>5
  <2>3. \A c \in Open' \ {active} : stage'[c] = "promoted" => models'[c].traffic = 0
    BY <1>1, <1>2, <1>4, <1>5, <2>2 DEF SharesAreHeld
  <2> QED BY <1>3, <2>1, <2>2, <2>3 DEF SharesAreHeld
<1>9. ShortForACanary'
  BY <1>1, <1>2, <1>3, <1>5, <1>7 DEF ShortForACanary
<1>10. UndisturbedAddsUp'
  <2>1. \A c \in Open' : c \in Open /\ stage'[c] = stage[c] /\ models'[c] = models[c]
    BY <1>2, <1>4, <1>5
  <2> QED BY <1>1, <1>2, <1>3, <1>7, <2>1 DEF UndisturbedAddsUp
<1> QED BY <1>6, <1>8, <1>9, <1>10 DEF TrafficInv

LEMMA RollbackKeepsShares ==
  ASSUME TrafficInv, NEW a \in Actions, Rollback(a)
  PROVE  TrafficInv'
<1>1. TrafficTypes /\ SharesAreHeld
  BY DEF TrafficInv
<1>2. /\ stage' \in [Actions -> Stages]
      /\ \A b \in Actions \ {a} : stage'[b] = stage[b]
      /\ Open' = Open \ {a} \/ (Open' = Open /\ stage'[a] = stage[a])
  <2>1. CASE Goes(a, "none")
    BY <1>1, <2>1, StageMoves DEF Stages
  <2>2. CASE UNCHANGED stage
    BY <1>1, <2>2 DEF TrafficTypes, Open
  <2> QED BY <2>1, <2>2 DEF Rollback
<1>3. /\ kind' = kind /\ active' = active /\ disturbed' = Open \ {a} /\ RolledBackTo(models', a)
  BY <1>1, RollbackShares DEF Rollback, TrafficTypes, Others
<1>4. /\ IsTable(models') /\ Deployed \subseteq Deployed' /\ Deployed' \subseteq Deployed \union {a}
      /\ models'[active].traffic = 100 /\ (a \in Deployed' \ {active} => models'[a].traffic = 0)
      /\ \A m \in Deployed' \ {a, active} : m \in Deployed /\ models'[m] = models[m]
  BY <1>3 DEF RolledBackTo, OthersStay, Deployed
<1>5. \A c \in Open : c \in Actions /\ c \in Deployed
  BY <1>1 DEF Open, SharesAreHeld
<1>6. TrafficTypes'
  BY <1>1, <1>2, <1>3, <1>4 DEF TrafficTypes
<1>7. SharesAreHeld'
  <2>1. \A m \in Deployed' \ (Open' \union {active}) : models'[m].traffic = 0
    BY <1>1, <1>2, <1>4 DEF SharesAreHeld
  <2>2. \A c \in Open' : c \in Deployed'
    BY <1>2, <1>4, <1>5
  <2>3. \A c \in Open' \ {active} : stage'[c] = "promoted" => models'[c].traffic = 0
    BY <1>1, <1>2, <1>4, <1>5, <2>2 DEF SharesAreHeld
  <2> QED BY <1>3, <2>1, <2>2, <2>3 DEF SharesAreHeld
<1>8. ShortForACanary'
  BY <1>3, <1>4 DEF ShortForACanary
<1>9. UndisturbedAddsUp'
  <2>1. \A c \in Open' \ disturbed' : c = a
    BY <1>2, <1>3
  <2>2. \A c \in Open' \ disturbed' :
          \/ c = active \/ stage'[c] = "promoted"
          \/ c # active /\ stage'[c] # "promoted" /\ models'[c].traffic + models'[active].traffic = 100
    BY <1>2, <1>4, <1>5, <2>1
  <2> QED BY <1>3, <1>4, <2>1, <2>2 DEF UndisturbedAddsUp
<1> QED BY <1>6, <1>7, <1>8, <1>9 DEF TrafficInv

\* Whatever percentages the stages ask for, and however rollouts, and the
\* rollbacks of any candidate at any time, overlap: with no rollout under way
\* the active model has all the traffic of either provider, and with one that
\* no other call has come in between the percentages add up to 100.
THEOREM TrafficIsWhole == ProviderSpec => []TrafficAddsUp
<1>1. ProviderInit => TrafficInv
  <2> SUFFICES ASSUME ProviderInit PROVE TrafficInv
    OBVIOUS
  <2>1. DOMAIN models = {Initial} /\ models[Initial] = [traffic |-> 100, status |-> "serving"]
    BY DEF ProviderInit
  <2>2. IsTable(models)
    <3>1. IsFiniteSet(DOMAIN models)
      BY <2>1, FS_Singleton
    <3>2. models \in [DOMAIN models -> [traffic : 0..100, status : Status]]
      BY <2>1 DEF ProviderInit, Status
    <3> QED BY <3>1, <3>2 DEF IsTable
  <2>3. Open = {} /\ disturbed = {} /\ active = Initial
    BY DEF ProviderInit, Open
  <2> QED BY <2>1, <2>2, <2>3 DEF ProviderInit, TrafficInv, TrafficTypes, SharesAreHeld,
                                  ShortForACanary, UndisturbedAddsUp, Stages, Deployed
<1>2. TrafficInv /\ [ProviderNext]_providerVars => TrafficInv'
  <2> SUFFICES ASSUME TrafficInv, [ProviderNext]_providerVars PROVE TrafficInv'
    OBVIOUS
  <2>1. CASE UNCHANGED providerVars
    BY <2>1 DEF TrafficInv, TrafficTypes, SharesAreHeld, ShortForACanary, UndisturbedAddsUp,
                Deployed, Open, providerVars
  <2> QED BY <2>1, StartKeeps, WarmKeeps, StageKeeps, PromoteKeeps, DrainKeeps, RollbackKeepsShares
          DEF ProviderNext
<1> QED BY <1>1, <1>2, InvAddsUp, PTL DEF ProviderSpec

-----------------------------------------------------------------------------
(* Planning                                                                *)

PlannedActions ==
  {PlanReconciliation(d, s) : d \in [Facets \ Unrecorded -> Values], s \in DesiredSpecs}

PlansInv ==
  /\ deployment \in [Facets \ Unrecorded -> Values]
  /\ plans \in Seq(PlannedActions)

\* what a change of the replicas alone is called is called so for nothing else
LEMMA ReplicasComeLast ==
  ASSUME NEW diff
  PROVE  /\ DetermineActionType(diff) # "update_autoscaling"
         /\ DetermineActionType(diff) = "change_replica_count" =>
              diff \intersect {"model", "runtime", "precision", "accelerator", "topology"} = {}
<1>1. /\ DOMAIN Precedence = 1..6
      /\ Precedence[1] = << "model", "change_model_revision" >>
      /\ Precedence[2] = << "runtime", "change_runtime" >>
      /\ Precedence[3] = << "precision", "change_precision" >>
      /\ Precedence[4] = << "accelerator", "change_gpu_count" >>
      /\ Precedence[5] = << "topology", "change_dynamo_topology" >>
      /\ Precedence[6] = << "replicas", "change_replica_count" >>
  BY DEF Precedence
<1>2. /\ Precedence[1][1] = "model" /\ Precedence[1][2] = "change_model_revision"
      /\ Precedence[2][1] = "runtime" /\ Precedence[2][2] = "change_runtime"
      /\ Precedence[3][1] = "precision" /\ Precedence[3][2] = "change_precision"
      /\ Precedence[4][1] = "accelerator" /\ Precedence[4][2] = "change_gpu_count"
      /\ Precedence[5][1] = "topology" /\ Precedence[5][2] = "change_dynamo_topology"
      /\ Precedence[6][1] = "replicas" /\ Precedence[6][2] = "change_replica_count"
  BY <1>1
<1> DEFINE First(k) == Precedence[k][1] \in diff /\ \A j \in 1..(k-1) : Precedence[j][1] \notin diff
           i == CHOOSE k \in 1..6 : First(k)
<1>3. CASE \A k \in 1..6 : Precedence[k][1] \notin diff
  BY <1>1, <1>3 DEF DetermineActionType
<1>4. CASE \E k \in 1..6 : Precedence[k][1] \in diff
  <2>1. \E k \in 1..6 : First(k)
    BY <1>4
  <2>2. i \in 1..6 /\ First(i)
    BY <2>1
  <2>3. DetermineActionType(diff) = Precedence[i][2]
    BY <1>1, <1>4 DEF DetermineActionType
  <2> HIDE DEF i
  <2>4. i = 1 \/ i = 2 \/ i = 3 \/ i = 4 \/ i = 5 \/ i = 6
    BY <2>2
  <2>5. Precedence[i][2] # "update_autoscaling" /\ (Precedence[i][2] = "change_replica_count" => i = 6)
    BY <1>2, <2>4
  <2>6. i = 6 => /\ "model" \notin diff /\ "runtime" \notin diff /\ "precision" \notin diff
                 /\ "accelerator" \notin diff /\ "topology" \notin diff
    <3> SUFFICES ASSUME i = 6
                 PROVE  /\ "model" \notin diff /\ "runtime" \notin diff /\ "precision" \notin diff
                        /\ "accelerator" \notin diff /\ "topology" \notin diff
      OBVIOUS
    <3>1. \A j \in 1..5 : Precedence[j][1] \notin diff
      BY <2>2
    <3>2. 1 \in 1..5 /\ 2 \in 1..5 /\ 3 \in 1..5 /\ 4 \in 1..5 /\ 5 \in 1..5
      OBVIOUS
    <3> HIDE DEF First
    <3> QED BY <1>2, <3>1, <3>2
  <2> QED BY <2>3, <2>5, <2>6
<1> QED BY <1>3, <1>4

LEMMA SmallChange ==
  ASSUME NEW diff,
         diff \intersect {"model", "runtime", "precision", "accelerator", "topology"} = {}
  PROVE  EvaluateChangeRisk(diff).level = "low" /\ EvaluateChangeRisk(diff).rollback = "easy"
<1>1. /\ "model" \notin diff /\ "runtime" \notin diff /\ "accelerator" \notin diff
      /\ "topology" \notin diff
  OBVIOUS
<1>2. Score(diff) = 10
  BY <1>1 DEF Score
<1>3. diff \intersect {"accelerator", "model"} = {} /\ diff \intersect {"runtime", "topology"} = {}
  BY <1>1
<1> QED BY <1>2, <1>3 DEF EvaluateChangeRisk

\* what is both allowed and not in need of approval is in the allowed class
LEMMA AutomaticIsAllowed ==
  ASSUME NEW plan, NEW m, NEW policy, Automatic(plan, m, policy)
  PROVE  plan.type \in policy.allow \ (policy.deny \union policy.approval)
<1>1. /\ DenialReasons(plan.type, m, policy, FALSE, 0) = {}
      /\ ~NeedsApproval(plan.type, policy)
  BY Zenon DEF Automatic, EvaluateAction
<1>2. plan.type \notin policy.deny
  BY <1>1 DEF DenialReasons
<1>3. plan.type \notin policy.approval
  BY <1>1, <1>2 DEF NeedsApproval
<1>4. plan.type \in policy.allow
  BY <1>1, <1>2, <1>3 DEF NeedsApproval
<1> QED BY <1>2, <1>3, <1>4

\* For any specifications, policies and measures, and however completions take
\* back what others changed: what a policy that only scales lets through
\* without a person carries no risk.
THEOREM OnlySmallPlansAreAutomatic == PlanSpec => []AutomaticPlansAreSmall
<1> USE PlanningAssumption
<1>1. PlanInit => PlansInv
  BY DEF PlanInit, PlansInv
<1>2. PlansInv /\ [PlanNext]_planVars => PlansInv'
  <2> SUFFICES ASSUME PlansInv, [PlanNext]_planVars PROVE PlansInv'
    OBVIOUS
  <2>1. ASSUME NEW s \in DesiredSpecs, Reconcile(s) PROVE PlansInv'
    <3>1. PlanReconciliation(deployment, s) \in PlannedActions
      BY DEF PlansInv, PlannedActions
    <3> HIDE DEF PlannedActions
    <3> QED BY <2>1, <3>1 DEF Reconcile, PlansInv
  <2>2. ASSUME NEW i \in DOMAIN plans, Complete(i) PROVE PlansInv'
    <3>1. plans[i] \in PlannedActions
      BY DEF PlansInv
    <3>2. plans[i].target \in [Facets -> Values]
      BY <3>1 DEF PlannedActions, PlanReconciliation
    <3>3. TakenOver \subseteq Facets /\ DOMAIN deployment = Facets \ Unrecorded
      BY DEF PlansInv, TakenOver, Facets
    <3>4. AfterCompletion(plans[i]) \in [Facets \ Unrecorded -> Values]
      BY <3>2, <3>3 DEF PlansInv, AfterCompletion
    <3> QED BY <2>2, <3>4 DEF Complete, PlansInv
  <2>3. CASE UNCHANGED planVars
    BY <2>3 DEF planVars, PlansInv
  <2> QED BY <2>1, <2>2, <2>3 DEF PlanNext
<1>3. PlansInv => AutomaticPlansAreSmall
  <2> SUFFICES ASSUME PlansInv, NEW i \in DOMAIN plans, NEW m \in Measures, NEW policy \in Policies,
                      OnlyScales(policy), Automatic(plans[i], m, policy)
               PROVE  /\ plans[i].risk.level = "low" /\ plans[i].risk.rollback = "easy"
                      /\ "precision" \notin plans[i].diff
                      /\ plans[i].type \notin policy.deny \union policy.approval
    BY DEF AutomaticPlansAreSmall
  <2>1. plans[i] \in PlannedActions
    BY DEF PlansInv
  <2>2. plans[i].type = DetermineActionType(plans[i].diff) /\ plans[i].risk = EvaluateChangeRisk(plans[i].diff)
    BY <2>1 DEF PlannedActions, PlanReconciliation
  <2>3. plans[i].type \in policy.allow \ (policy.deny \union policy.approval)
    BY AutomaticIsAllowed
  <2>4. plans[i].type \in {"change_replica_count", "update_autoscaling"}
    BY <2>3 DEF OnlyScales
  <2>5. plans[i].diff \intersect {"model", "runtime", "precision", "accelerator", "topology"} = {}
    BY <2>2, <2>4, ReplicasComeLast
  <2> QED BY <2>2, <2>3, <2>5, SmallChange
<1> QED BY <1>1, <1>2, <1>3, PTL DEF PlanSpec
=============================================================================
