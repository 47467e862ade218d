------------------------------- MODULE Ranking -------------------------------
(* Sorted lists.  What is to be sorted is a set of tuples of integers, each  *)
(* with the keys of an element, the first one first; the last one tells the  *)
(* elements apart.                                                           *)
EXTENDS Integers, Sequences, FiniteSetsExt

Precedes(a, b) == \E p \in DOMAIN a : a[p] < b[p] /\ \A q \in 1..(p - 1) : a[q] = b[q]

\* the k-th has k - 1 of the set before it
InOrder(S) ==
  LET ranks == {<<Cardinality({b \in S : Precedes(b, a)}) + 1, a>> : a \in S}
  IN  [k \in 1..Cardinality(S) |-> (CHOOSE r \in ranks : r[1] = k)[2]]

Ascending(S) ==
  LET order == InOrder({<<x>> : x \in S}) IN [k \in DOMAIN order |-> order[k][1]]
=============================================================================
