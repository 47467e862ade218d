--------------------------- MODULE InferenceLanes ---------------------------
(***************************************************************************)
(* How inference-api finds an Ollama instance for a model: OllamaClient's  *)
(* cached model list (services/ollama.py), the cached answer of the route  *)
(* helper and _choose_ollama_target (main.py).  A choice awaits the lanes  *)
(* one after the other.  One choice, for one model, is followed; those of  *)
(* other requests, for any model, ask any lane at any time in between.     *)
(***************************************************************************)
EXTENDS Clock, Sequences, FiniteSets, Ranking

CONSTANTS
  Lanes,        \* 1..n, the configured instances in their order
  Mapped,       \* the lane model_to_gpu_mapping gives the model, or 0
  ModelTTL,     \* _models_cache_ttl
  RouteTTL,     \* ROUTE_CACHE_TTL
  Advice        \* the lane lists the helper may recommend; <<>> when it fails

ASSUME LanesAssumption ==
  /\ IsFiniteSet(Lanes) /\ Lanes = 1..Cardinality(Lanes) /\ Mapped \in Lanes \union {0}
  /\ ModelTTL \in Nat \ {0} /\ RouteTTL \in Nat
  /\ << >> \in Advice /\ Advice \subseteq Seq(Lanes)

\* what a lane answers: nothing, or a list with the model, without it, or empty
Conditions == {"down", "with", "without", "empty"}

VARIABLES
  lane,      \* [Lanes -> Conditions]
  withSince, \* [Lanes -> when it last came to answer with the model]
  cached,    \* [Lanes -> "empty", "with" or "without"]: _models_cache
  cachedAt,  \* [Lanes -> Nat]: _models_cache_time
  route,     \* the recommendations of _ROUTE_CACHE
  routeAt,   \* when they were loaded; the cache starts with none
  choice     \* the choice under way, or its outcome

laneVars == << now, lane, withSince, cached, cachedAt, route, routeAt, choice >>

noChoice == [phase |-> "none"]

LanesInit ==
  /\ now = 0
  /\ lane \in [Lanes -> Conditions] /\ withSince = [l \in Lanes |-> 0]
  /\ cached = [l \in Lanes |-> "empty"] /\ cachedAt = [l \in Lanes |-> 0]
  /\ route = {} /\ routeAt = 0
  /\ choice = noChoice

LaneBecomes(l, condition) ==
  /\ lane[l] # condition
  /\ lane' = [lane EXCEPT ![l] = condition]
  /\ withSince' = [withSince EXCEPT ![l] = IF condition = "with" THEN now ELSE 0]
  /\ UNCHANGED << now, cached, cachedAt, route, routeAt, choice >>

-----------------------------------------------------------------------------
(* OllamaClient.get_models                                                 *)

\* mutant: a list is believed for as long as it is used
BelievedWhileUsed(l) == cached[l] # "empty"

\* an empty list is asked for again each time
Believed(l) == cached[l] # "empty" /\ now < cachedAt[l] + ModelTTL

\* A lane that does not answer is believed to have what it had.
ModelsOf(l) == IF Believed(l) \/ lane[l] = "down" THEN cached[l] ELSE lane[l]

CacheAfter(l) ==
  /\ cached' = [cached EXCEPT ![l] = ModelsOf(l)]
  /\ cachedAt' = [cachedAt EXCEPT ![l] = IF Believed(l) \/ lane[l] = "down" THEN @ ELSE now]

-----------------------------------------------------------------------------
(* _choose_ollama_target                                                   *)

\* _route_snapshot: what the helper says, and its failure, is kept for the TTL
RouteNow(advice) == IF route # {} /\ now < routeAt + RouteTTL THEN route ELSE {advice}

\* find_instance_for_model: the mapped lane, all of them, the mapped one again
SearchOrder ==
  LET mapped == IF Mapped = 0 THEN << >> ELSE << Mapped >>
  IN  mapped \o [i \in 1..Cardinality(Lanes) |-> i] \o mapped

\* the healthy ones of a list of lanes
Healthy(recs, healthy) ==
  LET kept == Ascending({i \in DOMAIN recs : recs[i] \in healthy})
  IN  [i \in 1..Len(kept) |-> recs[kept[i]]]

\* health_check_all has found the lanes of "healthy"; the recommended ones of
\* them are asked first
StartChoice(healthy, advice) ==
  /\ choice.phase = "none"
  /\ healthy \subseteq {l \in Lanes : lane[l] # "down"}
  /\ route' = RouteNow(advice)
  /\ routeAt' = IF route # {} /\ now < routeAt + RouteTTL THEN routeAt ELSE now
  /\ \E recs \in route' :
       choice' = [phase |-> "asking", since |-> now,
                  left |-> Healthy(recs, healthy) \o SearchOrder]
  /\ UNCHANGED << now, lane, withSince, cached, cachedAt >>

\* has_model of the next lane
Ask ==
  /\ choice.phase = "asking" /\ choice.left # << >>
  /\ LET l == Head(choice.left) IN
       /\ CacheAfter(l)
       /\ choice' = IF ModelsOf(l) = "with" THEN noChoice ELSE [choice EXCEPT !.left = Tail(@)]
  /\ UNCHANGED << now, lane, withSince, route, routeAt >>

\* has_model of a lane, for another request
AnotherAsks(l) ==
  /\ CacheAfter(l)
  /\ UNCHANGED << now, lane, withSince, route, routeAt, choice >>

\* all were asked: "Model not available"
GiveUp ==
  /\ choice.phase = "asking" /\ choice.left = << >>
  /\ choice' = [choice EXCEPT !.phase = "refused"]
  /\ UNCHANGED << now, lane, withSince, cached, cachedAt, route, routeAt >>

\* the 404 or 503 has been sent
Answered ==
  /\ choice.phase = "refused"
  /\ choice' = noChoice
  /\ UNCHANGED << now, lane, withSince, cached, cachedAt, route, routeAt >>

LanesNext ==
  \/ Passes /\ UNCHANGED << lane, withSince, cached, cachedAt, route, routeAt, choice >>
  \/ \E l \in Lanes, condition \in Conditions : LaneBecomes(l, condition)
  \/ \E healthy \in SUBSET Lanes, advice \in Advice : StartChoice(healthy, advice)
  \/ Ask \/ GiveUp \/ Answered
  \/ \E l \in Lanes : AnotherAsks(l)

LanesSpec == LanesInit /\ [][LanesNext]_laneVars

-----------------------------------------------------------------------------
(* Properties                                                              *)

\* Whatever other choices put into the caches meanwhile, a model is reported
\* as not available only if no lane has served it since a ModelTTL before the
\* request (get_models, find_instance_for_model).
UnavailableIsEarned ==
  choice.phase = "refused" =>
    \A l \in Lanes : lane[l] = "with" => withSince[l] + ModelTTL > choice.since
=============================================================================
