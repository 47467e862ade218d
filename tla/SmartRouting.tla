---------------------------- MODULE SmartRouting ----------------------------
(***************************************************************************)
(* The smart router of @modelforge/reconciler and the two routes that use  *)
(* its one instance: chat completions, which are routed by prefix affinity *)
(* and then by least connections, and the drain of a preempted worker.     *)
(* Backends are compared by "Rank", the order of the Map they live in.     *)
(***************************************************************************)
EXTENDS Naturals, FiniteSets, FiniteSetsExt, Functions

CONSTANTS
  Backends,      \* worker ids, 1..n in the order of registration
  Prefixes,      \* hashes of the first 64 characters of a prompt
  ModelOf,       \* [Backends -> models]
  Capacity,      \* [Backends -> Nat]
  SeedRequests,  \* [Backends -> Nat]: active_requests of the seeded backends
  SeedWarm       \* [Prefixes -> SUBSET Backends]: their warm_prefix_hashes

ASSUME RouterAssumption ==
  /\ Backends \subseteq Nat /\ IsFiniteSet(Backends)
  /\ Capacity \in [Backends -> Nat] /\ SeedRequests \in [Backends -> Nat]
  /\ SeedWarm \in [Prefixes -> SUBSET Backends]

VARIABLES
  status,    \* [Backends -> {"active", "draining"}]
  requests,  \* [Backends -> Nat]: active_requests
  affinity   \* [Prefixes -> SUBSET Backends]: prefixCacheMap

routerVars == << status, requests, affinity >>

\* registerBackend for every seeded backend
RouterInit ==
  /\ status = [b \in Backends |-> "active"]
  /\ requests = SeedRequests
  /\ affinity = SeedWarm

\* the backends that may be given a request for "model"
Candidates(model) == {b \in Backends : status[b] = "active" /\ ModelOf[b] = model}

\* Warm backends with room come first, and a full one is still taken when no
\* warm one has room: the fallback does not look at the capacity.  The
\* affinity's Set keeps its own order, so any warm one may be the first.
RouteTo(prefix, model) ==
  LET warm  == {b \in affinity[prefix] \intersect Candidates(model) :
                  requests[b] < Capacity[b]}
      least == {b \in Candidates(model) :
                  \A c \in Candidates(model) : requests[b] <= requests[c]}
  IN  IF warm # {} THEN warm ELSE IF least = {} THEN {} ELSE {Min(least)}

\* POST router/chat/completions: routed, answered and completed in one go,
\* so the count is back where it was.  With no candidate, route() throws.
ChatCompletion(prefix, model) ==
  \E b \in RouteTo(prefix, model) :
    /\ affinity' = [affinity EXCEPT ![prefix] = @ \union {b}]
    /\ UNCHANGED << status, requests >>

\* where a drained worker's requests are counted from now on
Alternatives(w) == Candidates(ModelOf[w]) \ {w}

\* mutant: the requests are counted at both workers
MigratedTwice(w) ==
  IF requests[w] = 0 \/ Alternatives(w) = {} THEN requests
  ELSE [requests EXCEPT ![Min(Alternatives(w))] = @ + requests[w]]

Migrated(w) ==
  IF requests[w] = 0 \/ Alternatives(w) = {} THEN requests
  ELSE [requests EXCEPT ![Min(Alternatives(w))] = @ + requests[w], ![w] = 0]

\* POST router/drain, for a worker already drained too
DrainWorker(w) ==
  /\ status' = [status EXCEPT ![w] = "draining"]
  /\ affinity' = [p \in Prefixes |-> affinity[p] \ {w}]
  /\ requests' = Migrated(w)

RouterNext ==
  \/ \E p \in Prefixes, m \in Range(ModelOf) : ChatCompletion(p, m)
  \/ \E w \in Backends : DrainWorker(w)

RouterSpec == RouterInit /\ [][RouterNext]_routerVars

-----------------------------------------------------------------------------
(* Properties                                                              *)

\* However drains and completions follow each other, no request count is
\* lost or doubled by a migration, a draining worker is warm for no prefix,
\* and it keeps requests only when nobody could take them (drainWorker).
DrainsMigrate ==
  /\ MapThenSumSet(LAMBDA b : requests[b], Backends)
       = MapThenSumSet(LAMBDA b : SeedRequests[b], Backends)
  /\ \A w \in Backends : status[w] = "draining" =>
       /\ \A p \in Prefixes : w \notin affinity[p]
       /\ requests[w] > 0 => Candidates(ModelOf[w]) = {}
=============================================================================
