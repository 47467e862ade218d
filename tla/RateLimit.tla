----------------------------- MODULE RateLimit -----------------------------
(***************************************************************************)
(* The rate limit of inference-api, middleware/rate_limit.py: a sorted set *)
(* per client in Redis whose members are the seconds of admitted requests. *)
(* A check is four round trips with other checks in between.               *)
(***************************************************************************)
EXTENDS Clock, FiniteSets, FiniteSetsExt

CONSTANTS
  Callers,   \* API keys and addresses
  Calls,     \* requests in flight at once
  Limit,     \* rate_limit_requests_per_minute + rate_limit_burst
  Window     \* seconds

ASSUME LimitAssumption == Limit \in Nat \ {0} /\ Window \in Nat \ {0}

VARIABLES
  seconds,   \* [Callers -> SUBSET Nat]: the members of the caller's sorted set
  lapses,    \* [Callers -> Nat]: when Redis drops the whole set
  check,     \* [Calls -> a check under way, or none]
  admitted,  \* [Callers -> the seconds at which a request was let through]
  refusals   \* the refusals so far: the caller, and the seconds counted over

limitVars == << now, seconds, lapses, check, admitted, refusals >>

noCheck == [phase |-> "none"]

LimitInit ==
  /\ now = 0
  /\ seconds = [k \in Callers |-> {}] /\ lapses = [k \in Callers |-> 0]
  /\ check = [r \in Calls |-> noCheck]
  /\ admitted = [k \in Callers |-> {}]
  /\ refusals = {}

\* the set, unless it has expired
Live(k) == IF lapses[k] <= now THEN {} ELSE seconds[k]

\* mutant: nothing is ever cleaned while the caller stays active
NothingCleaned(k, at) == Live(k)

\* zremrangebyscore of everything up to the start of the window
Cleaned(k, at) == {s \in Live(k) : s + Window > at}

\* dispatch: the time is read, then old entries are cleaned
Arrive(r, k) ==
  /\ check[r].phase = "none"
  /\ check' = [check EXCEPT ![r] = [phase |-> "cleaned", caller |-> k, at |-> now]]
  /\ seconds' = [seconds EXCEPT ![k] = Cleaned(k, now)]
  /\ UNCHANGED << now, lapses, admitted, refusals >>

\* zcard decides
CountFor(r) ==
  LET c == check[r] IN
  /\ c.phase = "cleaned"
  /\ IF Cardinality(Live(c.caller)) >= Limit
     THEN /\ check' = [check EXCEPT ![r] = noCheck]
          /\ refusals' = refusals \union {<< c.caller, c.at >>}
     ELSE /\ check' = [check EXCEPT ![r] = [c EXCEPT !.phase = "counted"]]
          /\ UNCHANGED refusals
  /\ UNCHANGED << now, seconds, lapses, admitted >>

\* zadd and expire, and the request goes on
Admit(r) ==
  LET c == check[r] IN
  /\ c.phase = "counted"
  /\ seconds' = [seconds EXCEPT ![c.caller] = Live(c.caller) \union {c.at}]
  /\ lapses' = [lapses EXCEPT ![c.caller] = now + Window + 1]
  /\ admitted' = [admitted EXCEPT ![c.caller] = @ \union {c.at}]
  /\ check' = [check EXCEPT ![r] = noCheck]
  /\ UNCHANGED << now, refusals >>

\* No check takes as long as the window it counts over.
SecondPasses ==
  /\ Passes
  /\ \A r \in Calls : check[r].phase # "none" => now + 1 < check[r].at + Window
  /\ UNCHANGED << seconds, lapses, check, admitted, refusals >>

LimitNext ==
  \/ SecondPasses
  \/ \E r \in Calls : (\E k \in Callers : Arrive(r, k)) \/ CountFor(r) \/ Admit(r)

LimitSpec == LimitInit /\ [][LimitNext]_limitVars

-----------------------------------------------------------------------------
(* Properties                                                              *)

\* Whatever checks run at the same time, a request is turned away only when
\* the caller's requests of at least Limit seconds were let through since the
\* start of its window (check_rate_limit).
RefusalsAreEarned ==
  \A x \in refusals :
    Cardinality({s \in admitted[x[1]] : s + Window > x[2]}) >= Limit
=============================================================================
