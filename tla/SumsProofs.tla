---------------------------- MODULE SumsProofs ----------------------------
(***************************************************************************)
(* Facts about Sum for any finite set: the sum is an integer, adds up, and *)
(* changes by what one element changes.                                    *)
(*                                                                         *)
(* Sum is a fold, which takes the elements of the set in an arbitrary      *)
(* order.  Its recursive function is shown to exist by induction on the    *)
(* size of the subsets; the facts follow by induction on the subsets       *)
(* themselves, each from the one without the element the fold takes.       *)
(***************************************************************************)
EXTENDS Sums, FiniteSets, FiniteSetTheorems, WellFoundedInduction, TLAPS

Pick(T) == CHOOSE x \in T : TRUE

(* The body of the recursion of Sum.                                       *)
Partial(f, g, T) == IF T = {} THEN 0 ELSE f[Pick(T)] + g[T \ {Pick(T)}]

(* The recursive function behind Sum: the sum of f over every subset of S. *)
SumOf(f, S) == CHOOSE g : g = [T \in SUBSET S |-> Partial(f, g, T)]

(* Sum is the value of that recursive function at the whole set.           *)
LEMMA SumIsSumOf ==
    ASSUME NEW f, NEW S
    PROVE  Sum(f, S) = SumOf(f, S)[S]
BY DEF Sum, SumOf, Partial, Pick, MapThenFoldSet

(* Induction over the subsets of a finite set, as a statement about a set  *)
(* of sets: what holds of the empty set, and of a set once it holds of the *)
(* set without the element Sum takes from it, holds of every subset.       *)
LEMMA PickInduction ==
    ASSUME NEW S, IsFiniteSet(S), NEW Q,
           {} \in Q,
           \A T \in SUBSET S : T # {} /\ T \ {Pick(T)} \in Q => T \in Q
    PROVE  \A T \in SUBSET S : T \in Q
<1> DEFINE Bad == (SUBSET S) \ Q
<1> SUFFICES ASSUME Bad # {} PROVE FALSE
  OBVIOUS
<1>1. Bad \subseteq FiniteSubsetsOf(S)
  BY FS_Subset DEF FiniteSubsetsOf
<1>2. PICK T \in Bad : \A U \in Bad : ~(<<U, T>> \in StrictSubsetOrdering(S))
  BY <1>1, FS_StrictSubsetOrderingWellFounded, WFMin
<1>3. T # {} /\ Pick(T) \in T
  BY DEF Pick
<1>4. T \ {Pick(T)} \in Bad
  BY <1>3
<1>5. <<T \ {Pick(T)}, T>> \in StrictSubsetOrdering(S)
  BY <1>3 DEF StrictSubsetOrdering
<1> QED
  BY <1>2, <1>4, <1>5

(* The recursive function exists: it is built for the subsets of at most n *)
(* elements, by induction on n.                                            *)
LEMMA SumOfExists ==
    ASSUME NEW f, NEW S, IsFiniteSet(S)
    PROVE  \A T \in SUBSET S : SumOf(f, S)[T] = Partial(f, SumOf(f, S), T)
<1> DEFINE Small(n) == {T \in SUBSET S : Cardinality(T) <= n}
           Sums(n, g) == g = [T \in Small(n) |-> Partial(f, g, T)]
           Q == {T \in SUBSET S : \E g : Sums(Cardinality(T), g)}
<1>1. \A T \in SUBSET S : IsFiniteSet(T) /\ Cardinality(T) \in Nat
  BY FS_Subset, FS_CardinalityType
<1>2. {} \in Q
  <2> DEFINE g == [T \in Small(0) |-> 0]
  <2>1. \A T \in Small(0) : T = {}
    BY <1>1, FS_EmptySet
  <2>2. Cardinality({}) = 0
    BY FS_EmptySet
  <2>3. \A T \in Small(0) : Partial(f, g, T) = 0
    BY <2>1 DEF Partial
  <2>4. Sums(Cardinality({}), g)
    BY <2>2, <2>3
  <2> QED BY <2>4
<1>3. ASSUME NEW T \in SUBSET S, T # {}, T \ {Pick(T)} \in Q
      PROVE  T \in Q
  <2> DEFINE n == Cardinality(T)
             m == Cardinality(T \ {Pick(T)})
  <2>1. Pick(T) \in T
    BY <1>3 DEF Pick
  <2>2. n \in Nat /\ m = n - 1
    BY <2>1, <1>1, FS_RemoveElement
  <2>3. PICK g : Sums(m, g)
    BY <1>3
  <2> DEFINE h == [U \in Small(n) |-> Partial(f, g, U)]
  <2>4. ASSUME NEW U \in Small(n), U # {}
        PROVE  U \ {Pick(U)} \in Small(m) /\ U \ {Pick(U)} \in Small(n)
    <3>1. Pick(U) \in U
      BY <2>4 DEF Pick
    <3>2. Cardinality(U \ {Pick(U)}) = Cardinality(U) - 1
      BY <3>1, <1>1, FS_RemoveElement
    <3> QED BY <3>2, <2>2, <1>1
  <2>5. \A V \in Small(m) : h[V] = g[V]
    <3>1. Small(m) \subseteq Small(n)
      BY <2>2, <1>1
    <3> HIDE DEF Small
    <3>2. \A V \in Small(m) : h[V] = Partial(f, g, V)
      BY <3>1
    <3>3. \A V \in Small(m) : g[V] = Partial(f, g, V)
      BY <2>3
    <3> QED BY <3>2, <3>3
  <2>6. \A U \in Small(n) : Partial(f, h, U) = Partial(f, g, U)
    <3> HIDE DEF Small, h
    <3> QED BY <2>4, <2>5 DEF Partial
  <2>7. Sums(n, h)
    <3> HIDE DEF Small
    <3> QED BY <2>6
  <2> QED BY <2>7
<1>4. S \in Q
  <2> HIDE DEF Q
  <2> QED BY <1>2, <1>3, PickInduction
<1>5. Small(Cardinality(S)) = SUBSET S
  BY FS_Subset, <1>1
<1>6. \E g : g = [T \in SUBSET S |-> Partial(f, g, T)]
  <2> HIDE DEF Small
  <2> QED BY <1>4, <1>5
<1> DEFINE G == SumOf(f, S)
<1>7. G = [T \in SUBSET S |-> Partial(f, G, T)]
  BY <1>6, Zenon DEF SumOf
<1>8. \A T \in SUBSET S : G[T] = Partial(f, G, T)
  <2> HIDE DEF G
  <2> QED BY <1>7
<1> QED BY <1>8

(* The sum over a subset: nothing, or an element of it and the rest.       *)
LEMMA SumOfStep ==
    ASSUME NEW f, NEW S, IsFiniteSet(S)
    PROVE  /\ SumOf(f, S)[{}] = 0
           /\ \A T \in SUBSET S :
                 T # {} => /\ Pick(T) \in T
                           /\ SumOf(f, S)[T] = f[Pick(T)] + SumOf(f, S)[T \ {Pick(T)}]
<1> DEFINE g == SumOf(f, S)
<1>1. \A T \in SUBSET S : g[T] = Partial(f, g, T)
  BY SumOfExists
<1>2. \A T \in SUBSET S : T # {} => Pick(T) \in T
  BY DEF Pick
<1> HIDE DEF g
<1>3. g[{}] = 0
  BY <1>1 DEF Partial
<1>4. \A T \in SUBSET S : T # {} => g[T] = f[Pick(T)] + g[T \ {Pick(T)}]
  BY <1>1 DEF Partial
<1> QED BY <1>2, <1>3, <1>4 DEF g

(* A sum of integers is an integer. *)
LEMMA SumInt ==
    ASSUME NEW f, NEW S, IsFiniteSet(S), \A x \in S : f[x] \in Int
    PROVE  Sum(f, S) \in Int
<1> DEFINE g == SumOf(f, S)
           Q == {T \in SUBSET S : g[T] \in Int}
<1> HIDE DEF g
<1>1. {} \in Q
  BY SumOfStep DEF g
<1>2. ASSUME NEW T \in SUBSET S, T # {}, T \ {Pick(T)} \in Q
      PROVE  T \in Q
  BY <1>2, SumOfStep DEF g
<1>3. S \in Q
  <2> HIDE DEF Q
  <2> QED BY <1>1, <1>2, PickInduction
<1> QED BY <1>3, SumIsSumOf DEF g

(* The sum of the sums is the sum of both. *)
LEMMA SumAdd ==
    ASSUME NEW f, NEW d, NEW h, NEW S, IsFiniteSet(S),
           \A x \in S : f[x] \in Int /\ d[x] \in Int /\ h[x] = f[x] + d[x]
    PROVE  Sum(h, S) = Sum(f, S) + Sum(d, S)
<1> DEFINE F == SumOf(f, S)
           D == SumOf(d, S)
           H == SumOf(h, S)
           Q == {T \in SUBSET S : F[T] \in Int /\ D[T] \in Int /\ H[T] = F[T] + D[T]}
<1>0. /\ F[{}] = 0 /\ D[{}] = 0 /\ H[{}] = 0
      /\ \A T \in SUBSET S : T # {} => /\ F[T] = f[Pick(T)] + F[T \ {Pick(T)}]
                                      /\ D[T] = d[Pick(T)] + D[T \ {Pick(T)}]
                                      /\ H[T] = h[Pick(T)] + H[T \ {Pick(T)}]
  BY SumOfStep
<1> HIDE DEF F, D, H
<1>1. {} \in Q
  BY <1>0
<1>2. ASSUME NEW T \in SUBSET S, T # {}, T \ {Pick(T)} \in Q
      PROVE  T \in Q
  <2>1. Pick(T) \in S
    BY <1>2, SumOfStep
  <2>2. F[T] = f[Pick(T)] + F[T \ {Pick(T)}]
    BY <1>2, <1>0
  <2>3. D[T] = d[Pick(T)] + D[T \ {Pick(T)}]
    BY <1>2, <1>0
  <2>4. H[T] = h[Pick(T)] + H[T \ {Pick(T)}]
    BY <1>2, <1>0
  <2> QED BY <1>2, <2>1, <2>2, <2>3, <2>4
<1>3. S \in Q
  <2> HIDE DEF Q
  <2> QED BY <1>1, <1>2, PickInduction
<1> QED BY <1>3, SumIsSumOf DEF F, D, H

(* The sum of a function that is v at a and nothing elsewhere. *)
LEMMA SumPoint ==
    ASSUME NEW f, NEW S, IsFiniteSet(S), NEW a \in S, NEW v \in Int,
           \A x \in S : f[x] = IF x = a THEN v ELSE 0
    PROVE  Sum(f, S) = v
<1> DEFINE F == SumOf(f, S)
           Q == {T \in SUBSET S : F[T] = IF a \in T THEN v ELSE 0}
<1> HIDE DEF F
<1>1. {} \in Q
  BY SumOfStep DEF F
<1>2. ASSUME NEW T \in SUBSET S, T # {}, T \ {Pick(T)} \in Q
      PROVE  T \in Q
  <2>1. Pick(T) \in T /\ Pick(T) \in S
    BY <1>2, SumOfStep
  <2>2. F[T] = f[Pick(T)] + F[T \ {Pick(T)}]
    BY <1>2, SumOfStep DEF F
  <2> QED BY <1>2, <2>1, <2>2
<1>3. S \in Q
  <2> HIDE DEF Q
  <2> QED BY <1>1, <1>2, PickInduction
<1> QED BY <1>3, SumIsSumOf DEF F

(* A sum of nothing is nothing. *)
LEMMA SumZero ==
    ASSUME NEW f, NEW S, IsFiniteSet(S), \A x \in S : f[x] = 0
    PROVE  Sum(f, S) = 0
<1> DEFINE F == SumOf(f, S)
           Q == {T \in SUBSET S : F[T] = 0}
<1> HIDE DEF F
<1>1. {} \in Q
  BY SumOfStep DEF F
<1>2. ASSUME NEW T \in SUBSET S, T # {}, T \ {Pick(T)} \in Q
      PROVE  T \in Q
  BY <1>2, SumOfStep DEF F
<1>3. S \in Q
  <2> HIDE DEF Q
  <2> QED BY <1>1, <1>2, PickInduction
<1> QED BY <1>3, SumIsSumOf DEF F

(* A change of one summand is the change of the sum. *)
LEMMA SumChange ==
    ASSUME NEW f, NEW h, NEW S, IsFiniteSet(S), NEW a \in S,
           \A x \in S : f[x] \in Int,
           h[a] \in Int,
           \A x \in S \ {a} : h[x] = f[x]
    PROVE  Sum(h, S) = Sum(f, S) + (h[a] - f[a])
<1> DEFINE d == [x \in S |-> IF x = a THEN h[a] - f[a] ELSE 0]
<1>1. Sum(d, S) = h[a] - f[a]
  <2>1. \A x \in S : d[x] = IF x = a THEN h[a] - f[a] ELSE 0
    OBVIOUS
  <2>2. h[a] - f[a] \in Int
    OBVIOUS
  <2> HIDE DEF d
  <2> QED BY <2>1, <2>2, SumPoint
<1>2. \A x \in S : f[x] \in Int /\ d[x] \in Int /\ h[x] = f[x] + d[x]
  OBVIOUS
<1> HIDE DEF d
<1> QED BY <1>1, <1>2, SumAdd

(* A sum depends on the summands only. *)
LEMMA SumSame ==
    ASSUME NEW f, NEW h, NEW S, IsFiniteSet(S),
           \A x \in S : f[x] \in Int /\ h[x] = f[x]
    PROVE  Sum(h, S) = Sum(f, S)
<1> DEFINE d == [x \in S |-> 0]
<1>1. Sum(d, S) = 0
  <2>1. \A x \in S : d[x] = 0
    OBVIOUS
  <2> HIDE DEF d
  <2> QED BY <2>1, SumZero
<1>2. \A x \in S : f[x] \in Int /\ d[x] \in Int /\ h[x] = f[x] + d[x]
  OBVIOUS
<1> HIDE DEF d
<1>3. Sum(f, S) \in Int
  BY SumInt
<1> QED BY <1>1, <1>2, <1>3, SumAdd
=============================================================================
