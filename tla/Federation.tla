----------------------------- MODULE Federation -----------------------------
(***************************************************************************)
(* The cluster registry of KubernetesExecutionProvider: traffic weights    *)
(* and primaries of the federated clusters, changed by splits, failovers   *)
(* and health marks.  Its per-candidate calls keep no state.               *)
(***************************************************************************)
EXTENDS Naturals, Sequences, FiniteSets

CONSTANTS
  Clusters,     \* the registered clusters
  Unknown,      \* a name that is not registered
  Weights,      \* weights a split may name, and their units' total
  Whole,        \* the weight that stands for 100%
  SeedWeight,   \* [Clusters -> 0..Whole]
  SeedPrimary   \* the cluster registered with isPrimary

ASSUME FederationAssumption ==
  /\ Whole \in Nat /\ Weights \subseteq 0..Whole
  /\ SeedWeight \in [Clusters -> 0..Whole]
  /\ SeedPrimary \in Clusters /\ Unknown \notin Clusters

VARIABLES
  weight,   \* [Clusters -> Nat]
  healthy,  \* SUBSET Clusters
  primary,  \* SUBSET Clusters: isPrimary
  answer    \* what the last call returned: {"success", "error"}

fedVars == << weight, healthy, primary, answer >>

FedInit ==
  /\ weight = SeedWeight
  /\ healthy = Clusters
  /\ primary = {SeedPrimary}
  /\ answer = "success"

MarkClusterHealth(c) ==
  /\ \/ healthy' = healthy \union {c}
     \/ healthy' = healthy \ {c}
  /\ UNCHANGED << weight, primary, answer >>

\* mutant: health is asked about only once the weights are set
AcceptsAnyWeight(c, w) == c \in Clusters

\* one entry of a split is taken
Accepts(c, w) == c \in Clusters /\ (c \in healthy \/ w = 0)

\* the entries a call gets through before it returns an error
Taken(splits) ==
  {i \in DOMAIN splits : \A j \in 1..i : Accepts(splits[j].cluster, splits[j].weight)}

TotalOf(splits) ==
  LET sum[i \in 0..Len(splits)] == IF i = 0 THEN 0 ELSE sum[i-1] + splits[i].weight
  IN  sum[Len(splits)]

\* Weights are written one entry after the other, before the next entry and
\* the total are looked at, and stay written when the answer is an error.
SetMultiClusterTrafficSplit(splits) ==
  /\ weight' = [c \in Clusters |->
       IF \E i \in Taken(splits) : splits[i].cluster = c
       THEN (CHOOSE e \in {splits[i] : i \in Taken(splits)} : e.cluster = c).weight
       ELSE weight[c]]
  /\ answer' = IF /\ Taken(splits) = DOMAIN splits
                  /\ splits = <<>> \/ TotalOf(splits) = Whole
               THEN "success" ELSE "error"
  /\ UNCHANGED << healthy, primary >>

\* mutant: the source loses its role after the target has got it
PrimariesLate(source, target) == (primary \union {target}) \ {source}

\* source.isPrimary = false; target.isPrimary = true
Primaries(source, target) == (primary \ {source}) \union {target}

Lesser(a, b) == IF a <= b THEN a ELSE b

\* target.weight takes the source's first, then source.weight is 0: a cluster
\* that fails over to itself ends with nothing.
FailoverCluster(source, target) ==
  /\ answer' = IF target \in healthy THEN "success" ELSE "error"
  /\ IF target \in healthy
     THEN /\ weight' = [weight EXCEPT ![target] = Lesser(Whole, @ + weight[source]),
                                      ![source] = 0]
          /\ primary' = Primaries(source, target)
     ELSE UNCHANGED << weight, primary >>
  /\ UNCHANGED healthy

\* the splits a caller may send: an object's keys are distinct
SplitCalls ==
  UNION {{s \in [1..n -> [cluster : Clusters \union {Unknown}, weight : Weights]] :
            \A i, j \in 1..n : s[i].cluster = s[j].cluster => i = j} : n \in 0..2}

FedNext ==
  \/ \E c \in Clusters : MarkClusterHealth(c)
  \/ \E splits \in SplitCalls : SetMultiClusterTrafficSplit(splits)
  \/ \E s, t \in Clusters : FailoverCluster(s, t)

FedSpec == FedInit /\ [][FedNext]_fedVars

-----------------------------------------------------------------------------
(* Properties                                                              *)

\* Whatever calls fail half way, the federation keeps a primary cluster
\* (failoverCluster, a cluster that fails over to itself included).
KeepsAPrimary == primary # {}

\* No call, and no part of a call that fails, gives a sick cluster traffic it
\* did not have (setMultiClusterTrafficSplit, failoverCluster).
NoTrafficToSick ==
  [][\A c \in Clusters : weight'[c] > weight[c] => c \in healthy]_fedVars
=============================================================================
