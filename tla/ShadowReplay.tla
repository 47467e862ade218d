---------------------------- MODULE ShadowReplay ----------------------------
(***************************************************************************)
(* Shadow traffic: a batch of recorded requests is replayed against a      *)
(* candidate, one after the other and each awaited, without repeating what *)
(* the originals did.  A request is what the filter sees of it: whether    *)
(* its method mutates and which keyword lists its path or body match.      *)
(***************************************************************************)
EXTENDS Naturals, FiniteSets

CONSTANTS
  MaxSent,       \* bound: requests of a batch that are sent
  MaxSuppressed  \* bound: requests of a batch that are suppressed

ASSUME ShadowAssumption == MaxSent \in Nat /\ MaxSuppressed \in Nat

Effects == {"payment", "notification", "write"}
\* the lists are looked at for mutating methods alone
Requests == [mutating : {TRUE}, matches : SUBSET Effects]
              \union [mutating : {FALSE}, matches : {{}}]

\* ShadowReplayConfig: what is suppressed, and whether all traffic is sampled
Configs == [suppress : SUBSET (Effects \union {"external"}), sample_all : BOOLEAN]

VARIABLES
  config,      \* of the batch
  at,          \* "idle", "loop", "await", "done"
  request,     \* the one being replayed
  sent, errors, suppressed,   \* the batch's counts
  replayed,    \* requests the candidate has been sent, in any batch
  verdict      \* {"none", "passed", "failed"}

shadowVars == << config, at, request, sent, errors, suppressed, replayed, verdict >>

NoRequest == [mutating |-> FALSE, matches |-> {}]

ShadowInit ==
  /\ config = [suppress |-> {}, sample_all |-> TRUE]
  /\ at = "idle"
  /\ request = NoRequest
  /\ sent = 0 /\ errors = 0 /\ suppressed = 0
  /\ replayed = {}
  /\ verdict = "none"

\* mutant: a batch is safe when its payments are
ShadowSafetyOfPayments(c) == {"payment"} \subseteq c.suppress

\* notifications may be let through
EvaluateShadowSafety(c) == {"external", "write", "payment"} \subseteq c.suppress

\* The lists are looked at in turn, the general rule last; "write" keywords
\* are looked for in the path alone.
IsMutationSafe(r, c) ==
  r.mutating => r.matches \intersect c.suppress = {} /\ "external" \notin c.suppress

\* replayBatch, up to the loop: an unsafe configuration fails the batch
ReplayBatch(c) ==
  /\ at \in {"idle", "done"}
  /\ config' = c
  /\ sent' = 0 /\ errors' = 0 /\ suppressed' = 0
  /\ \/ /\ EvaluateShadowSafety(c)
        /\ at' = "loop" /\ verdict' = "none"
     \/ /\ ~EvaluateShadowSafety(c)
        /\ at' = "done" /\ verdict' = "failed"
  /\ UNCHANGED << request, replayed >>

\* a request the sample leaves out
SkipRequest ==
  /\ at = "loop" /\ ~config.sample_all
  /\ UNCHANGED shadowVars

SuppressRequest(r) ==
  /\ at = "loop" /\ suppressed < MaxSuppressed
  /\ ~IsMutationSafe(r, config)
  /\ suppressed' = suppressed + 1
  /\ UNCHANGED << config, at, request, sent, errors, replayed, verdict >>

\* without its credentials, and marked as a shadow
SendRequest(r) ==
  /\ at = "loop" /\ sent < MaxSent
  /\ IsMutationSafe(r, config)
  /\ at' = "await"
  /\ request' = r
  /\ sent' = sent + 1
  /\ replayed' = replayed \union {r}
  /\ UNCHANGED << config, errors, suppressed, verdict >>

\* A status below 500, or one above it; a timeout and a refused connection
\* are answered with 504 by the client.
TakeAnswer ==
  /\ at = "await"
  /\ at' = "loop"
  /\ request' = NoRequest
  /\ errors' \in {errors, errors + 1}
  /\ UNCHANGED << config, sent, suppressed, replayed, verdict >>

\* At most one error in a hundred; a batch of which nothing was sent passes.
EndBatch ==
  /\ at = "loop"
  /\ at' = "done"
  /\ verdict' = IF sent = 0 \/ errors * 100 <= sent THEN "passed" ELSE "failed"
  /\ UNCHANGED << config, request, sent, errors, suppressed, replayed >>

ShadowNext ==
  \/ \E c \in Configs : ReplayBatch(c)
  \/ \E r \in Requests : SuppressRequest(r) \/ SendRequest(r)
  \/ SkipRequest \/ TakeAnswer \/ EndBatch

ShadowSpec == ShadowInit /\ [][ShadowNext]_shadowVars

-----------------------------------------------------------------------------
(* Properties                                                              *)

\* Whatever batches are replayed under whatever configurations, a candidate
\* is never sent a request whose method mutates: the check of the
\* configuration and the filter together leave no gap, although either alone
\* lets some through (evaluateShadowSafety, isMutationSafe).
OnlyReadsAreReplayed == \A r \in replayed : ~r.mutating
=============================================================================
