----------------------------- MODULE Attestation -----------------------------
(***************************************************************************)
(* Proof of execution: a challenge, the proof a worker makes of it, and    *)
(* the verdict.  Durations are thousandths of a millisecond.  An HMAC is   *)
(* the record of what it is made from: equal texts, equal digests.         *)
(***************************************************************************)
EXTENDS Naturals, FiniteSets

CONSTANTS
  Challenges,   \* challenge ids; each has a nonce of its own
  MinDuration, MaxDuration,  \* the window a challenge's hardware allows
  Measured,     \* durations a worker may measure
  MaxProofs,    \* bound: proofs made
  Lifetime      \* until a challenge expires, in ticks

ASSUME AttestationAssumption ==
  /\ MinDuration \in Nat /\ MaxDuration \in Nat /\ Measured \subseteq Nat
  /\ Lifetime \in Nat /\ MaxProofs \in Nat

VARIABLES
  issued,        \* [Challenges -> tick it was issued at, or NotIssued]
  proofs,        \* what workers have made
  attestations,  \* {[proof, verdict]}: the store of the attestations route
  tick

attestVars == << issued, proofs, attestations, tick >>

NotIssued == Lifetime + 2

AttestInit ==
  /\ issued = [c \in Challenges |-> NotIssued]
  /\ proofs = {} /\ attestations = {}
  /\ tick = 0

\* Math.round, to milliseconds and to hundredths of one
ToMilliseconds(d) == (d + 500) \div 1000
ToHundredths(d)   == ((d + 5) \div 10) * 10

IssueChallenge(c) ==
  /\ issued[c] = NotIssued
  /\ issued' = [issued EXCEPT ![c] = tick]
  /\ UNCHANGED << proofs, attestations, tick >>

Digest(nonce, samples, duration) == << nonce, samples, duration >>

\* The duration is reported in hundredths; the digest is of the measured one.
ProofOf(c, d) ==
  [ challenge |-> c, duration |-> ToHundredths(d), at |-> tick,
    digest |-> Digest(c, 10, ToMilliseconds(d)) ]

SolveChallenge(c, d) ==
  /\ issued[c] # NotIssued /\ Cardinality(proofs) < MaxProofs
  /\ proofs' = proofs \union {ProofOf(c, d)}
  /\ UNCHANGED << issued, attestations, tick >>

\* verifyProof: a proof of another challenge or a late one is an error, one
\* out of the window or with another digest is rejected
Verdict(c, p) ==
  CASE p.challenge # c \/ p.at > issued[c] + Lifetime -> "error"
    [] p.challenge = c /\ p.at <= issued[c] + Lifetime
         /\ p.duration \notin MinDuration..MaxDuration -> "out_of_bounds"
    [] OTHER ->
         IF p.digest = Digest(c, 10, ToMilliseconds(p.duration))
         THEN "verified" ELSE "invalid_digest"

\* POST network/attestations; an error is answered without an entry
Attest(c, p) ==
  /\ issued[c] # NotIssued
  /\ Verdict(c, p) # "error"
  /\ attestations' = attestations \union {[proof |-> p, verdict |-> Verdict(c, p)]}
  /\ UNCHANGED << issued, proofs, tick >>

Tick ==
  /\ tick <= Lifetime
  /\ tick' = tick + 1
  /\ UNCHANGED << issued, proofs, attestations >>

AttestNext ==
  \/ \E c \in Challenges :
       \/ IssueChallenge(c)
       \/ \E d \in Measured : SolveChallenge(c, d)
       \/ \E p \in proofs : Attest(c, p)
  \/ Tick

AttestSpec == AttestInit /\ [][AttestNext]_attestVars

-----------------------------------------------------------------------------
(* Properties                                                              *)

\* "Helper for worker nodes to solve a challenge and generate a valid
\* ProofOfExecution" (proof-of-execution.ts:149): what an honest worker made
\* within the window is not rejected for its digest.
HonestProofsVerify == \A a \in attestations : a.verdict # "invalid_digest"
=============================================================================
