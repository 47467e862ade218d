----------------------------- MODULE FiniteFacts -----------------------------
(***************************************************************************)
(* What the proofs need of finite sets: of the sums the modules are stated *)
(* with (a function with integer values summed over a set), of least and   *)
(* greatest elements, and of the ascending list of a set.                  *)
(*                                                                         *)
(* Each is true of the empty set and passes from a set without one element *)
(* to the set.  The library's induction on finite sets takes an operator;  *)
(* its well-founded order on them does not: the subsets a fact fails for   *)
(* would have a least one (LeastSubset), which no fact here allows.        *)
(***************************************************************************)
EXTENDS Ranking, FiniteSets, FiniteSetTheorems, WellFoundedInduction, TLAPS

Total(g, S) == MapThenSumSet(LAMBDA x : g[x], S)

\* the element the fold takes next
Picked(s) == CHOOSE x \in s : TRUE

\* h holds the partial sums of g over the subsets of T
PartialSums(h, g, T) ==
  h = [s \in SUBSET T |-> IF s = {} THEN 0 ELSE g[Picked(s)] + h[s \ {Picked(s)}]]

\* Of any subsets of a finite set one has none of the others inside it.
LEMMA LeastSubset ==
  ASSUME NEW S, IsFiniteSet(S), NEW Q \in SUBSET SUBSET S, Q # {}
  PROVE  \E s \in Q : \A t \in Q : t \subseteq s => t = s
<1>1. Q \subseteq FiniteSubsetsOf(S)
  BY FS_Subset DEF FiniteSubsetsOf
<1>2. PICK s \in Q : \A t \in Q : ~ (<<t, s>> \in StrictSubsetOrdering(S))
  BY <1>1, FS_StrictSubsetOrderingWellFounded, WFMin
<1>3. \A t \in Q : t \subseteq s => t = s
  BY <1>2 DEF StrictSubsetOrdering
<1> QED BY <1>3

\* The element the fold takes is one of the set's.
LEMMA PickedIsElement ==
  ASSUME NEW s, s # {}
  PROVE  Picked(s) \in s
BY DEF Picked

\* Two tables of partial sums of a function agree where both are defined.
LEMMA PartialSumsAgree ==
  ASSUME NEW S, IsFiniteSet(S), NEW g,
         NEW T \in SUBSET S, NEW U \in SUBSET S,
         NEW h, PartialSums(h, g, T), NEW k, PartialSums(k, g, U)
  PROVE  \A s \in SUBSET (T \intersect U) : h[s] = k[s]
<1> DEFINE Q == {s \in SUBSET (T \intersect U) : h[s] # k[s]}
<1> SUFFICES ASSUME Q # {} PROVE FALSE
  OBVIOUS
<1>0. Q \in SUBSET SUBSET S
  OBVIOUS
<1>1. PICK s \in Q : \A t \in Q : t \subseteq s => t = s
  <2> HIDE DEF Q
  <2> QED BY <1>0, LeastSubset
<1>2. s # {}
  BY <1>1 DEF PartialSums
<1>3. h[s] = g[Picked(s)] + h[s \ {Picked(s)}] /\ k[s] = g[Picked(s)] + k[s \ {Picked(s)}]
  BY <1>1, <1>2 DEF PartialSums
<1>4. h[s \ {Picked(s)}] = k[s \ {Picked(s)}]
  BY <1>1, <1>2, PickedIsElement
<1> QED BY <1>1, <1>3, <1>4

\* Every function has a table of its partial sums over a finite set.
LEMMA PartialSumsExist ==
  ASSUME NEW S, IsFiniteSet(S), NEW g
  PROVE  \A T \in SUBSET S : \E h : PartialSums(h, g, T)
<1> DEFINE Q == {T \in SUBSET S : ~ \E h : PartialSums(h, g, T)}
<1> SUFFICES ASSUME Q # {} PROVE FALSE
  OBVIOUS
<1>0. Q \in SUBSET SUBSET S
  OBVIOUS
<1>1. PICK T \in Q : \A U \in Q : U \subseteq T => U = T
  <2> HIDE DEF Q
  <2> QED BY <1>0, LeastSubset
<1>2. \A U \in SUBSET T : U # T => \E h : PartialSums(h, g, U)
  BY <1>1
<1> DEFINE H(U) == CHOOSE h : PartialSums(h, g, U)
           Below(s) == IF s = {} THEN 0 ELSE g[Picked(s)] + H(s \ {Picked(s)})[s \ {Picked(s)}]
           h == [s \in SUBSET T |-> Below(s)]
<1>3. \A U \in SUBSET T : U # T => PartialSums(H(U), g, U)
  BY <1>2
<1>4. \A s \in SUBSET T : s # T => h[s] = H(s)[s]
  <2> SUFFICES ASSUME NEW s \in SUBSET T, s # T PROVE Below(s) = H(s)[s]
    OBVIOUS
  <2>1. CASE s = {}
    <3>1. PartialSums(H(s), g, s) /\ s \in SUBSET s
      BY <1>3
    <3> HIDE DEF H
    <3>2. H(s)[s] = 0
      BY <2>1, <3>1 DEF PartialSums
    <3> QED BY <2>1, <3>2
  <2>2. CASE s # {}
    <3> DEFINE r == s \ {Picked(s)}
    <3>1. Picked(s) \in s /\ r \in SUBSET T /\ r # T /\ r \in SUBSET s /\ r \in SUBSET (r \intersect s)
      BY <2>2, PickedIsElement
    <3>2. PartialSums(H(s), g, s) /\ PartialSums(H(r), g, r)
      BY <1>3, <3>1
    <3> HIDE DEF H
    <3>3. H(s)[r] = H(r)[r]
      BY <3>1, <3>2, PartialSumsAgree
    <3>4. H(s)[s] = g[Picked(s)] + H(s)[r]
      BY <2>2, <3>2 DEF PartialSums
    <3> QED BY <2>2, <3>3, <3>4
  <2> QED BY <2>1, <2>2
<1>5. PartialSums(h, g, T)
  <2>1. \A s \in SUBSET T : s # {} => s \ {Picked(s)} \in SUBSET T /\ s \ {Picked(s)} # T
    BY PickedIsElement
  <2> HIDE DEF H
  <2>2. \A s \in SUBSET T : h[s] = IF s = {} THEN 0 ELSE g[Picked(s)] + h[s \ {Picked(s)}]
    <3> SUFFICES ASSUME NEW s \in SUBSET T PROVE h[s] = IF s = {} THEN 0 ELSE g[Picked(s)] + h[s \ {Picked(s)}]
      OBVIOUS
    <3>1. s # {} => h[s \ {Picked(s)}] = H(s \ {Picked(s)})[s \ {Picked(s)}]
      BY <1>4, <2>1
    <3>2. h[s] = Below(s)
      OBVIOUS
    <3> HIDE DEF h
    <3> QED BY <3>1, <3>2
  <2>3. h = [s \in SUBSET T |-> h[s]]
    OBVIOUS
  <2> HIDE DEF h
  <2> QED BY <2>2, <2>3 DEF PartialSums
<1> HIDE DEF h, H
<1> QED BY <1>1, <1>5

\* The sum is the table's last entry.
LEMMA TotalIsPartialSum ==
  ASSUME NEW S, IsFiniteSet(S), NEW g
  PROVE  \E h : PartialSums(h, g, S) /\ Total(g, S) = h[S]
<1> DEFINE h == CHOOSE iter : PartialSums(iter, g, S)
<1>1. PartialSums(h, g, S)
  BY PartialSumsExist
<1>2. Total(g, S) = h[S]
  BY DEF Total, MapThenSumSet, MapThenFoldSet, PartialSums, Picked
<1> HIDE DEF h
<1> QED BY <1>1, <1>2

\* Nothing adds up to nothing.
LEMMA TotalOfNone ==
  ASSUME NEW g
  PROVE  Total(g, {}) = 0
<1>1. PICK h : PartialSums(h, g, {}) /\ Total(g, {}) = h[{}]
  BY TotalIsPartialSum, FS_EmptySet
<1> QED BY <1>1 DEF PartialSums

\* The fold's own step.
LEMMA TotalOfPicked ==
  ASSUME NEW S, IsFiniteSet(S), NEW g, S # {}
  PROVE  Total(g, S) = g[Picked(S)] + Total(g, S \ {Picked(S)})
<1> DEFINE R == S \ {Picked(S)}
<1>1. Picked(S) \in S /\ R \in SUBSET S /\ S \in SUBSET S /\ IsFiniteSet(R)
  BY PickedIsElement, FS_Subset
<1>2. PICK h : PartialSums(h, g, S) /\ Total(g, S) = h[S]
  BY TotalIsPartialSum
<1>3. PICK k : PartialSums(k, g, R) /\ Total(g, R) = k[R]
  <2> HIDE DEF R
  <2> QED BY <1>1, TotalIsPartialSum
<1>4. h[R] = k[R]
  <2>1. R \in SUBSET (S \intersect R)
    BY <1>1
  <2> HIDE DEF R
  <2> QED BY <1>1, <1>2, <1>3, <2>1, PartialSumsAgree
<1>5. h[S] = g[Picked(S)] + h[R]
  BY <1>1, <1>2 DEF PartialSums
<1> QED BY <1>2, <1>3, <1>4, <1>5

\* A sum of integers is one.
LEMMA TotalIsInteger ==
  ASSUME NEW S, IsFiniteSet(S), NEW g, \A x \in S : g[x] \in Int
  PROVE  Total(g, S) \in Int
<1> DEFINE Q == {s \in SUBSET S : Total(g, s) \notin Int}
<1> SUFFICES ASSUME Q # {} PROVE FALSE
  OBVIOUS
<1>0. Q \in SUBSET SUBSET S
  OBVIOUS
<1>1. PICK s \in Q : \A t \in Q : t \subseteq s => t = s
  <2> HIDE DEF Q
  <2> QED BY <1>0, LeastSubset
<1>2. s # {}
  <2>1. Total(g, {}) \in Int
    BY TotalOfNone
  <2> QED BY <1>1, <2>1
<1>3. IsFiniteSet(s) /\ Picked(s) \in s
  BY <1>1, <1>2, FS_Subset, PickedIsElement
<1>4. Total(g, s) = g[Picked(s)] + Total(g, s \ {Picked(s)})
  BY <1>2, <1>3, TotalOfPicked
<1>5. Total(g, s \ {Picked(s)}) \in Int
  BY <1>1, <1>3
<1> QED BY <1>1, <1>3, <1>4, <1>5

\* Any element may be taken out of a sum first, whichever the fold takes.
LEMMA TotalOfElement ==
  ASSUME NEW S, IsFiniteSet(S), NEW g, \A x \in S : g[x] \in Int
  PROVE  \A x \in S : Total(g, S) = g[x] + Total(g, S \ {x})
<1> DEFINE Takes(s) == \A x \in s : Total(g, s) = g[x] + Total(g, s \ {x})
           Q == {s \in SUBSET S : ~Takes(s)}
<1> SUFFICES ASSUME Q # {} PROVE FALSE
  OBVIOUS
<1>0. Q \in SUBSET SUBSET S
  OBVIOUS
<1>1. PICK s \in Q : \A t \in Q : t \subseteq s => t = s
  <2> HIDE DEF Q
  <2> QED BY <1>0, LeastSubset
<1>2. PICK x \in s : Total(g, s) # g[x] + Total(g, s \ {x})
  BY <1>1
<1> DEFINE p == Picked(s)
<1>3. s \in SUBSET S /\ IsFiniteSet(s) /\ p \in s
  BY <1>1, <1>2, FS_Subset, PickedIsElement
<1>4. Total(g, s) = g[p] + Total(g, s \ {p})
  BY <1>2, <1>3, TotalOfPicked
<1> HIDE DEF p
<1>5. x # p
  BY <1>2, <1>4
<1>6. Takes(s \ {p}) /\ Takes(s \ {x})
  BY <1>1, <1>2, <1>3
<1>7. Total(g, s \ {p}) = g[x] + Total(g, (s \ {p}) \ {x})
  BY <1>2, <1>5, <1>6
<1>8. Total(g, s \ {x}) = g[p] + Total(g, (s \ {x}) \ {p})
  BY <1>3, <1>5, <1>6
<1>9. (s \ {p}) \ {x} = (s \ {x}) \ {p}
  OBVIOUS
<1>10. Total(g, (s \ {p}) \ {x}) \in Int /\ g[x] \in Int /\ g[p] \in Int
  <2>1. IsFiniteSet((s \ {p}) \ {x})
    BY <1>3, FS_Subset
  <2> QED BY <1>2, <1>3, <2>1, TotalIsInteger
<1>11. Total(g, (s \ {x}) \ {p}) = Total(g, (s \ {p}) \ {x})
  BY <1>9
<1>12. \A a, b, c \in Int : a + (b + c) = b + (a + c)
  OBVIOUS
<1> QED BY <1>2, <1>4, <1>7, <1>8, <1>10, <1>11, <1>12

\* Functions that agree on a set have the same sum over it.
LEMMA TotalsAgree ==
  ASSUME NEW S, IsFiniteSet(S), NEW g, NEW k, \A x \in S : g[x] = k[x]
  PROVE  Total(g, S) = Total(k, S)
<1> DEFINE Q == {s \in SUBSET S : Total(g, s) # Total(k, s)}
<1> SUFFICES ASSUME Q # {} PROVE FALSE
  OBVIOUS
<1>0. Q \in SUBSET SUBSET S
  OBVIOUS
<1>1. PICK s \in Q : \A t \in Q : t \subseteq s => t = s
  <2> HIDE DEF Q
  <2> QED BY <1>0, LeastSubset
<1>2. s # {}
  BY <1>1, TotalOfNone
<1>3. IsFiniteSet(s) /\ Picked(s) \in s
  BY <1>1, <1>2, FS_Subset, PickedIsElement
<1>4. Total(g, s) = g[Picked(s)] + Total(g, s \ {Picked(s)})
  BY <1>2, <1>3, TotalOfPicked
<1>5. Total(k, s) = k[Picked(s)] + Total(k, s \ {Picked(s)})
  BY <1>2, <1>3, TotalOfPicked
<1>6. Total(g, s \ {Picked(s)}) = Total(k, s \ {Picked(s)})
  BY <1>1, <1>3
<1> QED BY <1>1, <1>3, <1>4, <1>5, <1>6

\* A function that changes at one element changes the sum by as much.
LEMMA TotalFollowsChange ==
  ASSUME NEW S, IsFiniteSet(S), NEW g, NEW k,
         \A x \in S : g[x] \in Int /\ k[x] \in Int,
         NEW a \in S, \A x \in S \ {a} : k[x] = g[x]
  PROVE  Total(k, S) = Total(g, S) - g[a] + k[a]
<1>1. Total(g, S) = g[a] + Total(g, S \ {a})
  BY TotalOfElement
<1>2. Total(k, S) = k[a] + Total(k, S \ {a})
  BY TotalOfElement
<1>3. IsFiniteSet(S \ {a})
  BY FS_Subset
<1>4. Total(k, S \ {a}) = Total(g, S \ {a})
  BY <1>3, TotalsAgree
<1>5. Total(g, S \ {a}) \in Int
  BY <1>3, TotalIsInteger
<1> QED BY <1>1, <1>2, <1>4, <1>5

\* Zeros add up to nothing.
LEMMA TotalOfZeros ==
  ASSUME NEW S, IsFiniteSet(S), NEW g, \A x \in S : g[x] = 0
  PROVE  Total(g, S) = 0
<1> DEFINE Q == {s \in SUBSET S : Total(g, s) # 0}
<1> SUFFICES ASSUME Q # {} PROVE FALSE
  OBVIOUS
<1>0. Q \in SUBSET SUBSET S
  OBVIOUS
<1>1. PICK s \in Q : \A t \in Q : t \subseteq s => t = s
  <2> HIDE DEF Q
  <2> QED BY <1>0, LeastSubset
<1>2. s # {}
  BY <1>1, TotalOfNone
<1>3. IsFiniteSet(s) /\ Picked(s) \in s
  BY <1>1, <1>2, FS_Subset, PickedIsElement
<1>4. Total(g, s) = g[Picked(s)] + Total(g, s \ {Picked(s)})
  BY <1>2, <1>3, TotalOfPicked
<1>5. Total(g, s \ {Picked(s)}) = 0
  BY <1>1, <1>3
<1> QED BY <1>1, <1>3, <1>4, <1>5

\* Where all the others are zero, two elements make the sum.
LEMMA TotalOfTwo ==
  ASSUME NEW S, IsFiniteSet(S), NEW g, \A x \in S : g[x] \in Int,
         NEW a \in S, NEW b \in S, a # b, \A x \in S \ {a, b} : g[x] = 0
  PROVE  Total(g, S) = g[a] + g[b]
<1>1. Total(g, S) = g[a] + Total(g, S \ {a})
  BY TotalOfElement
<1>2. IsFiniteSet(S \ {a}) /\ IsFiniteSet((S \ {a}) \ {b}) /\ b \in S \ {a}
  BY FS_Subset
<1>3. Total(g, S \ {a}) = g[b] + Total(g, (S \ {a}) \ {b})
  <2>1. \A x \in S \ {a} : g[x] \in Int
    OBVIOUS
  <2> QED BY <1>2, <2>1, TotalOfElement
<1>4. Total(g, (S \ {a}) \ {b}) = 0
  <2>1. \A x \in (S \ {a}) \ {b} : g[x] = 0
    OBVIOUS
  <2> QED BY <1>2, <2>1, TotalOfZeros
<1> QED BY <1>1, <1>3, <1>4

\* Where all the others are zero, one element makes the sum.
LEMMA TotalOfOne ==
  ASSUME NEW S, IsFiniteSet(S), NEW g, \A x \in S : g[x] \in Int,
         NEW a \in S, \A x \in S \ {a} : g[x] = 0
  PROVE  Total(g, S) = g[a]
<1>1. Total(g, S) = g[a] + Total(g, S \ {a})
  BY TotalOfElement
<1>2. Total(g, S \ {a}) = 0
  <2>1. IsFiniteSet(S \ {a})
    BY FS_Subset
  <2> QED BY <2>1, TotalOfZeros
<1> QED BY <1>1, <1>2

-----------------------------------------------------------------------------
\* A finite set of integers that is not empty has a least element, and Min
\* is in it.
LEMMA LeastIsElement ==
  ASSUME NEW S, IsFiniteSet(S), \A x \in S : x \in Int, S # {}
  PROVE  Min(S) \in S /\ \A x \in S : Min(S) <= x
<1> DEFINE HasLeast(s) == \E x \in s : \A y \in s : x <= y
           Q == {s \in SUBSET S : s # {} /\ ~HasLeast(s)}
<1>1. Q = {}
  <2> SUFFICES ASSUME Q # {} PROVE FALSE
    OBVIOUS
  <2>0. Q \in SUBSET SUBSET S
    OBVIOUS
  <2>1. PICK s \in Q : \A t \in Q : t \subseteq s => t = s
    <3> HIDE DEF Q
    <3> QED BY <2>0, LeastSubset
  <2>2. PICK x \in s : TRUE
    BY <2>1
  <2>3. s \ {x} # {}
    BY <2>1, <2>2
  <2>4. PICK y \in s \ {x} : \A z \in s \ {x} : y <= z
    <3>1. s \ {x} \in SUBSET S /\ s \ {x} # s /\ s \ {x} \subseteq s
      BY <2>1, <2>2
    <3>2. HasLeast(s \ {x})
      BY <2>1, <2>3, <3>1
    <3> QED BY <3>2
  <2>5. x \in Int /\ y \in Int /\ \A z \in s : z \in Int
    BY <2>1, <2>2, <2>4
  <2>6. HasLeast(s)
    <3>1. CASE x <= y
      BY <2>2, <2>4, <2>5, <3>1
    <3>2. CASE y <= x
      BY <2>2, <2>4, <2>5, <3>2
    <3> QED BY <2>5, <3>1, <3>2
  <2> QED BY <2>1, <2>6
<1>2. HasLeast(S)
  BY <1>1
<1> QED BY <1>2 DEF Min

\* A finite set of integers that is not empty has a greatest element.
LEMMA GreatestExists ==
  ASSUME NEW S, IsFiniteSet(S), \A x \in S : x \in Int, S # {}
  PROVE  \E x \in S : \A y \in S : y <= x
<1> DEFINE HasGreatest(s) == \E x \in s : \A y \in s : y <= x
           Q == {s \in SUBSET S : s # {} /\ ~HasGreatest(s)}
<1>1. Q = {}
  <2> SUFFICES ASSUME Q # {} PROVE FALSE
    OBVIOUS
  <2>0. Q \in SUBSET SUBSET S
    OBVIOUS
  <2>1. PICK s \in Q : \A t \in Q : t \subseteq s => t = s
    <3> HIDE DEF Q
    <3> QED BY <2>0, LeastSubset
  <2>2. PICK x \in s : TRUE
    BY <2>1
  <2>3. s \ {x} # {}
    BY <2>1, <2>2
  <2>4. PICK y \in s \ {x} : \A z \in s \ {x} : z <= y
    <3>1. s \ {x} \in SUBSET S /\ s \ {x} # s /\ s \ {x} \subseteq s
      BY <2>1, <2>2
    <3>2. HasGreatest(s \ {x})
      BY <2>1, <2>3, <3>1
    <3> QED BY <3>2
  <2>5. x \in Int /\ y \in Int /\ \A z \in s : z \in Int
    BY <2>1, <2>2, <2>4
  <2>6. HasGreatest(s)
    <3>1. CASE x <= y
      BY <2>2, <2>4, <2>5, <3>1
    <3>2. CASE y <= x
      BY <2>2, <2>4, <2>5, <3>2
    <3> QED BY <2>5, <3>1, <3>2
  <2> QED BY <2>1, <2>6
<1>2. HasGreatest(S)
  BY <1>1
<1> QED BY <1>2

\* What a function takes a finite set to is finite.
LEMMA ImageIsFinite ==
  ASSUME NEW S, IsFiniteSet(S), NEW f
  PROVE  IsFiniteSet({f[x] : x \in S})
<1> DEFINE T == {f[x] : x \in S}
           g == [x \in S |-> f[x]]
<1>1. g \in Surjection(S, T)
  BY DEF Surjection
<1> HIDE DEF g, T
<1>2. IsFiniteSet(T)
  BY <1>1, FS_Surjection
<1> QED BY <1>2 DEF T

\* Max is in it.
LEMMA GreatestIsElement ==
  ASSUME NEW S, IsFiniteSet(S), \A x \in S : x \in Int, S # {}
  PROVE  Max(S) \in S /\ \A x \in S : x <= Max(S)
<1>1. \E x \in S : \A y \in S : y <= x
  BY GreatestExists
<1>2. \E x \in S : \A y \in S : x >= y
  BY <1>1
<1>3. Max(S) \in S /\ \A y \in S : Max(S) >= y
  BY <1>2 DEF Max
<1> QED BY <1>3

\* A pair is finite, and its Min and Max are the lesser and the greater.
LEMMA PairIsFinite ==
  ASSUME NEW a, NEW b
  PROVE  IsFiniteSet({a, b})
<1>1. IsFiniteSet({a}) /\ IsFiniteSet({b})
  BY FS_Singleton
<1>2. IsFiniteSet({a} \union {b})
  BY <1>1, FS_Union
<1>3. {a} \union {b} = {a, b}
  OBVIOUS
<1> QED BY <1>2, <1>3, Zenon

LEMMA LesserIsMin ==
  ASSUME NEW a \in Int, NEW b \in Int
  PROVE  Min({a, b}) = IF a <= b THEN a ELSE b
<1> DEFINE S == {a, b}
<1>1. IsFiniteSet(S) /\ S # {} /\ \A x \in S : x \in Int
  BY PairIsFinite
<1> HIDE DEF S
<1>2. Min(S) \in S /\ \A x \in S : Min(S) <= x
  BY <1>1, LeastIsElement
<1> QED BY <1>2 DEF S

LEMMA GreaterIsMax ==
  ASSUME NEW a \in Int, NEW b \in Int
  PROVE  Max({a, b}) = IF a >= b THEN a ELSE b
<1> DEFINE S == {a, b}
<1>1. IsFiniteSet(S) /\ S # {} /\ \A x \in S : x \in Int
  BY PairIsFinite
<1> HIDE DEF S
<1>2. Max(S) \in S /\ \A x \in S : x <= Max(S)
  BY <1>1, GreatestIsElement
<1> QED BY <1>2 DEF S

-----------------------------------------------------------------------------
\* S is a finite set of tuples of n integers.
KeySet(S, n) == IsFiniteSet(S) /\ n \in Nat /\ \A a \in S : a \in [1..n -> Int]

\* f has the elements of S, each once, in their order.
Sorts(f, S) ==
  /\ Cardinality(S) \in Nat
  /\ f \in [1..Cardinality(S) -> S]
  /\ \A a \in S : \E i \in 1..Cardinality(S) : f[i] = a
  /\ \A i, j \in 1..Cardinality(S) : i < j => Precedes(f[i], f[j])

\* Tuples that differ have a first place where they do.
LEMMA FirstDifference ==
  ASSUME NEW n \in Nat, NEW a \in [1..n -> Int], NEW b \in [1..n -> Int], a # b
  PROVE  \E p \in 1..n : a[p] # b[p] /\ \A q \in 1..(p - 1) : a[q] = b[q]
<1> DEFINE D == {p \in 1..n : a[p] # b[p]}
<1>1. D # {}
  OBVIOUS
<1>2. IsFiniteSet(D) /\ \A p \in D : p \in Int
  BY FS_Interval, FS_Subset
<1>3. Min(D) \in D /\ \A p \in D : Min(D) <= p
  <2> HIDE DEF D
  <2> QED BY <1>1, <1>2, LeastIsElement
<1> DEFINE p == Min(D)
<1>4. p \in 1..n /\ a[p] # b[p] /\ \A q \in D : p <= q
  BY <1>3
<1> HIDE DEF p
<1>5. \A q \in 1..(p - 1) : q \in 1..n /\ ~(p <= q)
  BY <1>4
<1>6. \A q \in 1..(p - 1) : a[q] = b[q]
  BY <1>4, <1>5
<1> QED BY <1>4, <1>6

\* Precedes is a strict total order of tuples of the same length.
LEMMA PrecedesIsTotal ==
  ASSUME NEW n \in Nat, NEW a \in [1..n -> Int], NEW b \in [1..n -> Int], a # b
  PROVE  Precedes(a, b) \/ Precedes(b, a)
<1>1. PICK p \in 1..n : a[p] # b[p] /\ \A q \in 1..(p - 1) : a[q] = b[q]
  BY FirstDifference
<1>2. p \in DOMAIN a /\ p \in DOMAIN b /\ a[p] \in Int /\ b[p] \in Int
  OBVIOUS
<1>3. a[p] < b[p] \/ b[p] < a[p]
  BY <1>1, <1>2
<1>4. \A q \in 1..(p - 1) : b[q] = a[q]
  BY <1>1
<1> QED BY <1>1, <1>2, <1>3, <1>4 DEF Precedes

LEMMA PrecedesIsTransitive ==
  ASSUME NEW n \in Nat, NEW a \in [1..n -> Int], NEW b \in [1..n -> Int], NEW c \in [1..n -> Int],
         Precedes(a, b), Precedes(b, c)
  PROVE  Precedes(a, c)
<1>1. PICK p \in 1..n : a[p] < b[p] /\ \A q \in 1..(p - 1) : a[q] = b[q]
  BY DEF Precedes
<1>2. PICK r \in 1..n : b[r] < c[r] /\ \A q \in 1..(r - 1) : b[q] = c[q]
  BY DEF Precedes
<1>3. \A q \in 1..n : a[q] \in Int /\ b[q] \in Int /\ c[q] \in Int
  OBVIOUS
<1>4. DOMAIN a = 1..n
  OBVIOUS
<1>5. CASE p < r
  <2>1. p \in 1..(r - 1) /\ \A q \in 1..(p - 1) : q \in 1..(r - 1)
    BY <1>5
  <2>2. a[p] < c[p] /\ \A q \in 1..(p - 1) : a[q] = c[q]
    BY <1>1, <1>2, <2>1
  <2> QED BY <1>4, <2>2 DEF Precedes
<1>6. CASE p = r
  <2>1. a[p] < c[p] /\ \A q \in 1..(p - 1) : a[q] = c[q]
    BY <1>1, <1>2, <1>3, <1>6
  <2> QED BY <1>4, <2>1 DEF Precedes
<1>7. CASE r < p
  <2>1. r \in 1..(p - 1) /\ \A q \in 1..(r - 1) : q \in 1..(p - 1)
    BY <1>7
  <2>2. a[r] < c[r] /\ \A q \in 1..(r - 1) : a[q] = c[q]
    BY <1>1, <1>2, <2>1
  <2> QED BY <1>4, <2>2 DEF Precedes
<1> QED BY <1>5, <1>6, <1>7

LEMMA PrecedesIsStrict ==
  ASSUME NEW n \in Nat, NEW a \in [1..n -> Int]
  PROVE  ~Precedes(a, a)
BY DEF Precedes

\* InOrder sorts: an element's place is one more than the number of elements
\* before it, which differs for different elements and is less than their
\* number.
LEMMA InOrderSorts ==
  ASSUME NEW S, NEW n, KeySet(S, n)
  PROVE  Sorts(InOrder(S), S)
<1> DEFINE N == Cardinality(S)
           Before(a) == {b \in S : Precedes(b, a)}
           place == [a \in S |-> Cardinality(Before(a)) + 1]
<1>0. IsFiniteSet(S) /\ n \in Nat /\ N \in Nat /\ \A a \in S : a \in [1..n -> Int]
  BY FS_CardinalityType DEF KeySet
<1>1. \A a \in S : IsFiniteSet(Before(a)) /\ Cardinality(Before(a)) \in Nat
  BY <1>0, FS_Subset, FS_CardinalityType
<1>2. \A a, b \in S : Precedes(a, b) => place[a] < place[b]
  <2> SUFFICES ASSUME NEW a \in S, NEW b \in S, Precedes(a, b)
               PROVE  Cardinality(Before(a)) < Cardinality(Before(b))
    <3> HIDE DEF Before
    <3> QED BY <1>1
  <2>1. Before(a) \in SUBSET Before(b)
    BY <1>0, PrecedesIsTransitive
  <2>2. a \in Before(b) /\ a \notin Before(a)
    BY <1>0, PrecedesIsStrict
  <2>3. /\ Cardinality(Before(a)) <= Cardinality(Before(b))
        /\ Cardinality(Before(b)) = Cardinality(Before(a)) => Before(b) = Before(a)
    <3>1. IsFiniteSet(Before(b))
      BY <1>1
    <3> HIDE DEF Before
    <3> QED BY <2>1, <3>1, FS_Subset
  <2> QED BY <1>1, <2>2, <2>3
<1>3. \A a \in S : place[a] \in 1..N
  <2> SUFFICES ASSUME NEW a \in S PROVE place[a] \in 1..N
    OBVIOUS
  <2>1. Before(a) \in SUBSET (S \ {a})
    BY <1>0, PrecedesIsStrict
  <2>2. IsFiniteSet(S \ {a}) /\ Cardinality(S \ {a}) = N - 1
    BY <1>0, FS_RemoveElement
  <2>3. Cardinality(Before(a)) <= N - 1
    <3> HIDE DEF Before
    <3> QED BY <2>1, <2>2, FS_Subset
  <2>4. place[a] = Cardinality(Before(a)) + 1 /\ Cardinality(Before(a)) \in Nat
    BY <1>1
  <2> HIDE DEF place, Before
  <2> QED BY <1>0, <2>3, <2>4
<1>a. place = [a \in S |-> place[a]]
  OBVIOUS
<1>b. \A a \in S : place[a] = Cardinality({b \in S : Precedes(b, a)}) + 1
  OBVIOUS
<1> HIDE DEF place
<1>4. \A a, b \in S : place[a] = place[b] => a = b
  <2> SUFFICES ASSUME NEW a \in S, NEW b \in S, place[a] = place[b], a # b PROVE FALSE
    OBVIOUS
  <2>1. Precedes(a, b) \/ Precedes(b, a)
    BY <1>0, PrecedesIsTotal
  <2>2. place[a] \in Int /\ place[b] \in Int
    BY <1>0, <1>3
  <2> QED BY <1>2, <2>1, <2>2
<1>5. \A k \in 1..N : \E a \in S : place[a] = k
  <2>1. place \in Injection(S, 1..N)
    <3>1. place \in [S -> 1..N]
      BY <1>3, <1>a
    <3> QED BY <1>4, <3>1 DEF Injection, IsInjective
  <2>2. IsFiniteSet(1..N) /\ Cardinality(1..N) = N
    BY <1>0, FS_Interval
  <2>3. place \in Surjection(S, 1..N)
    <3> DEFINE T == 1..N
    <3>1. place \in Injection(S, T) /\ IsFiniteSet(T) /\ Cardinality(S) = Cardinality(T)
      BY <2>1, <2>2
    <3> HIDE DEF T
    <3>2. place \in Surjection(S, T)
      BY <3>1, FS_Injection
    <3> QED BY <3>2 DEF T
  <2> QED BY <2>3 DEF Surjection
<1> DEFINE f == InOrder(S)
           ranks == {<<Cardinality({b \in S : Precedes(b, a)}) + 1, a>> : a \in S}
<1>6. f = [k \in 1..N |-> (CHOOSE r \in ranks : r[1] = k)[2]]
  BY DEF InOrder
<1>7. ranks = {<<place[a], a>> : a \in S}
  BY <1>b
<1> HIDE DEF Before, f, ranks
<1>8. \A k \in 1..N : f[k] \in S /\ place[f[k]] = k
  <2> SUFFICES ASSUME NEW k \in 1..N PROVE f[k] \in S /\ place[f[k]] = k
    OBVIOUS
  <2>1. PICK a \in S : place[a] = k
    BY <1>5
  <2>2. \E r \in ranks : r[1] = k
    <3>1. <<place[a], a>> \in ranks
      BY <1>7
    <3> QED BY <2>1, <3>1
  <2> DEFINE r == CHOOSE r \in ranks : r[1] = k
  <2>3. r \in ranks /\ r[1] = k
    BY <2>2
  <2>4. f[k] = r[2]
    BY <1>6
  <2> HIDE DEF r
  <2>5. PICK b \in S : r = <<place[b], b>>
    BY <1>7, <2>3
  <2> QED BY <2>3, <2>4, <2>5
<1>9. f \in [1..N -> S]
  BY <1>6, <1>8
<1>10. \A a \in S : \E i \in 1..N : f[i] = a
  BY <1>3, <1>4, <1>8
<1>11. \A i, j \in 1..N : i < j => Precedes(f[i], f[j])
  <2> SUFFICES ASSUME NEW i \in 1..N, NEW j \in 1..N, i < j PROVE Precedes(f[i], f[j])
    OBVIOUS
  <2>1. f[i] \in S /\ f[j] \in S /\ place[f[i]] = i /\ place[f[j]] = j
    BY <1>8
  <2>2. f[i] # f[j]
    BY <2>1
  <2>3. Precedes(f[i], f[j]) \/ Precedes(f[j], f[i])
    BY <1>0, <2>1, <2>2, PrecedesIsTotal
  <2>4. ~Precedes(f[j], f[i])
    BY <1>2, <2>1
  <2> QED BY <2>3, <2>4
<1> QED BY <1>0, <1>9, <1>10, <1>11 DEF Sorts, f

\* There are as many keys as elements when they tell the elements apart, and
\* the first key in order is one of them.
LEMMA KeysTellApart ==
  ASSUME NEW S, IsFiniteSet(S), NEW f, \A x, y \in S : f[x] = f[y] => x = y
  PROVE  Cardinality({f[x] : x \in S}) = Cardinality(S)
<1> DEFINE T == {f[x] : x \in S}
           g == [x \in S |-> f[x]]
<1>1. g \in Bijection(S, T)
  <2>1. g \in [S -> T] /\ \A t \in T : \E x \in S : g[x] = t
    OBVIOUS
  <2>2. \A x, y \in S : g[x] = g[y] => x = y
    OBVIOUS
  <2> HIDE DEF g, T
  <2> QED BY <2>1, <2>2 DEF Bijection, Injection, Surjection, IsInjective
<1> HIDE DEF g, T
<1>2. Cardinality(T) = Cardinality(S)
  BY <1>1, FS_Bijection DEF ExistsBijection
<1> QED BY <1>2 DEF T

LEMMA FirstIsElement ==
  ASSUME NEW S, NEW n, KeySet(S, n), S # {}
  PROVE  InOrder(S)[1] \in S
<1> DEFINE o == InOrder(S)
           N == Cardinality(S)
<1>1. Sorts(o, S)
  BY InOrderSorts
<1> HIDE DEF o
<1>2. N \in Nat /\ o \in [1..N -> S] /\ \A a \in S : \E i \in 1..N : o[i] = a
  BY <1>1 DEF Sorts
<1> HIDE DEF N
<1>3. 1 \in 1..N
  BY <1>2
<1> QED BY <1>2, <1>3 DEF o

\* f lists the elements of S by size.
Lists(f, S) ==
  /\ f \in [1..Cardinality(S) -> S]
  /\ \A x \in S : \E i \in 1..Cardinality(S) : f[i] = x
  /\ \A i, j \in 1..Cardinality(S) : i < j => f[i] < f[j]

\* Ascending lists a finite set of integers.
LEMMA AscendingLists ==
  ASSUME NEW S, IsFiniteSet(S), \A x \in S : x \in Int
  PROVE  Lists(Ascending(S), S) /\ Cardinality(S) \in Nat
<1> DEFINE g == [x \in S |-> <<x>>]
           T == {<<x>> : x \in S}
           N == Cardinality(S)
           o == InOrder(T)
<1>0. N \in Nat
  BY FS_CardinalityType
<1>1. IsFiniteSet(T) /\ Cardinality(T) = N
  <2>1. g \in Bijection(S, T)
    <3>1. g \in [S -> T]
      OBVIOUS
    <3>2. \A x, y \in S : g[x] = g[y] => x = y
      OBVIOUS
    <3>3. \A t \in T : \E x \in S : g[x] = t
      OBVIOUS
    <3> HIDE DEF g, T
    <3> QED BY <3>1, <3>2, <3>3 DEF Bijection, Injection, IsInjective, Surjection
  <2>2. ExistsBijection(S, T)
    BY <2>1 DEF ExistsBijection
  <2> HIDE DEF T, g
  <2> QED BY <2>2, FS_Bijection
<1>2. KeySet(T, 1)
  BY <1>1 DEF KeySet
<1> HIDE DEF N
<1>3. Sorts(o, T)
  <2> HIDE DEF T
  <2> QED BY <1>2, InOrderSorts
<1>4. Ascending(S) = [k \in DOMAIN o |-> o[k][1]]
  BY DEF Ascending
<1> HIDE DEF o
<1>5. /\ o \in [1..N -> T]
      /\ \A a \in T : \E i \in 1..N : o[i] = a
      /\ \A i, j \in 1..N : i < j => Precedes(o[i], o[j])
  <2> HIDE DEF T
  <2> QED BY <1>1, <1>3 DEF Sorts
<1>6. \A i \in 1..N : \E x \in S : o[i] = <<x>> /\ Ascending(S)[i] = x
  BY <1>4, <1>5
<1>7. Ascending(S) \in [1..N -> S]
  BY <1>4, <1>5, <1>6
<1>8. \A x \in S : \E i \in 1..N : Ascending(S)[i] = x
  <2> SUFFICES ASSUME NEW x \in S PROVE \E i \in 1..N : Ascending(S)[i] = x
    OBVIOUS
  <2>1. PICK i \in 1..N : o[i] = <<x>>
    BY <1>5
  <2> QED BY <1>6, <2>1
<1>9. \A i, j \in 1..N : i < j => Ascending(S)[i] < Ascending(S)[j]
  <2> SUFFICES ASSUME NEW i \in 1..N, NEW j \in 1..N, i < j PROVE Ascending(S)[i] < Ascending(S)[j]
    OBVIOUS
  <2>1. PICK x \in S, y \in S : o[i] = <<x>> /\ Ascending(S)[i] = x /\ o[j] = <<y>> /\ Ascending(S)[j] = y
    BY <1>6
  <2>2. Precedes(<<x>>, <<y>>)
    BY <1>5, <2>1
  <2>3. x < y
    BY <2>2 DEF Precedes
  <2> QED BY <2>1, <2>3
<1>10. Lists(Ascending(S), S)
  BY <1>7, <1>8, <1>9 DEF Lists, N
<1> QED BY <1>0, <1>10 DEF N
=============================================================================
