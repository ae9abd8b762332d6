----------------------------- MODULE FiniteOrder -----------------------------
(***************************************************************************)
(* Lemmas about natural numbers that the proofs keep needing: the least    *)
(* element of a set, by which what holds of every length or every index is *)
(* shown on the least exception, the greatest one of a finite set, and the *)
(* functions that are defined by recursion over an index.                  *)
(***************************************************************************)
EXTENDS Integers, FiniteSetTheorems, TLAPS

\* Every set of natural numbers with an element has a least one, by the
\* well-foundedness of strict inclusion on the intervals below its elements.
LEMMA LeastNatural ==
  ASSUME NEW T, T \subseteq Nat, T # {}
  PROVE  \E m \in T : \A k \in T : m <= k
<1> DEFINE below == {0 .. m : m \in T}
           S == FiniteSubsetsOf(Nat)
           R == StrictSubsetOrdering(Nat)
<1>1. below \subseteq S /\ below # {}
  <2>1. \A m \in T : 0 .. m \in SUBSET Nat /\ IsFiniteSet(0 .. m)
    BY FS_Interval
  <2>2. QED
    BY <2>1 DEF FiniteSubsetsOf
<1>2. IsWellFoundedOn(R, S)
  BY FS_StrictSubsetOrderingWellFounded
<1>3. \E x \in below : \A y \in below : ~(<<y, x>> \in R)
  <2> HIDE DEF below, R, S
  <2>1. QED
    BY <1>1, <1>2, WFMin
<1>4. PICK m \in T : \A y \in below : <<y, 0 .. m>> \notin R
  BY <1>3
<1>5. ASSUME NEW k \in T, ~(m <= k) PROVE FALSE
  <2>1. 0 .. k \in SUBSET Nat /\ 0 .. m \in SUBSET Nat
    BY <1>5
  <2>2. 0 .. k \subseteq 0 .. m /\ m \in 0 .. m /\ m \notin 0 .. k
    BY <1>5
  <2>3. <<0 .. k, 0 .. m>> \in R
    BY <2>1, <2>2 DEF StrictSubsetOrdering
  <2>4. QED
    BY <1>4, <2>3
<1>6. QED
  BY <1>5

\* What holds of 0, and with n of n + 1, holds of every natural number, for
\* any set that stands for the property.
LEMMA SetInduction ==
  ASSUME NEW P, 0 \in P, \A n \in Nat : n \in P => n + 1 \in P
  PROVE  Nat \subseteq P
<1> SUFFICES ASSUME Nat \ P # {} PROVE FALSE
  OBVIOUS
<1>1. PICK m \in Nat \ P : \A k \in Nat \ P : m <= k
  <2>1. QED
    BY LeastNatural
<1>2. m # 0 /\ m - 1 \in Nat
  BY <1>1
<1>3. m - 1 \in P
  BY <1>1, <1>2
<1>4. (m - 1) + 1 \in P
  BY <1>2, <1>3
<1>5. QED
  BY <1>1, <1>4

\* A finite set of natural numbers with an element has a greatest one.
LEMMA GreatestNatural ==
  ASSUME NEW T, T \subseteq Nat, IsFiniteSet(T), T # {}
  PROVE  \E m \in T : \A k \in T : k <= m
<1> DEFINE Bounded(S) == \E m \in S : \A k \in S : k <= m
           P == {n \in Nat : \A S \in SUBSET Nat :
                   IsFiniteSet(S) /\ Cardinality(S) = n + 1 => Bounded(S)}
<1>1. 0 \in P
  <2> SUFFICES ASSUME NEW S \in SUBSET Nat, IsFiniteSet(S), Cardinality(S) = 1
               PROVE  Bounded(S)
    OBVIOUS
  <2>1. PICK x : S = {x}
    BY FS_Singleton
  <2>2. QED
    BY <2>1
<1>2. ASSUME NEW n \in Nat, n \in P PROVE n + 1 \in P
  <2> SUFFICES ASSUME NEW S \in SUBSET Nat, IsFiniteSet(S),
                      Cardinality(S) = (n + 1) + 1
               PROVE  Bounded(S)
    OBVIOUS
  <2>1. S # {}
    BY FS_EmptySet
  <2> PICK x \in S : TRUE
    BY <2>1
  <2>2. IsFiniteSet(S \ {x}) /\ Cardinality(S \ {x}) = n + 1
    BY FS_RemoveElement
  <2>3. PICK y \in S \ {x} : \A k \in S \ {x} : k <= y
    BY <1>2, <2>2
  <2>4. CASE x <= y
    BY <2>3, <2>4
  <2>5. CASE ~(x <= y)
    BY <2>3, <2>5
  <2>6. QED
    BY <2>4, <2>5
<1>3. Nat \subseteq P
  <2> HIDE DEF P
  <2>1. QED
    BY <1>1, <1>2, SetInduction
<1>4. Cardinality(T) \in Nat /\ Cardinality(T) # 0
  BY FS_CardinalityType, FS_EmptySet
<1>5. Cardinality(T) - 1 \in P
  BY <1>3, <1>4
<1>6. QED
  BY <1>4, <1>5

\* A function is defined by what it is at 0 and by each of its steps.
HasRecursiveFunction(D, a, n, step) ==
  \E f \in [0 .. n -> D] :
    f[0] = a /\ \A k \in 1 .. n : f[k] = step[<<f[k - 1], k>>]

LEMMA RecursiveFunction ==
  ASSUME NEW D, NEW a \in D, NEW n \in Nat, NEW step \in [D \X (1 .. n) -> D]
  PROVE  HasRecursiveFunction(D, a, n, step)
<1> DEFINE Upto(m, f) ==
             f[0] = a /\ \A k \in 1 .. m : f[k] = step[<<f[k - 1], k>>]
           P == {m \in Nat : m <= n => \E f \in [0 .. m -> D] : Upto(m, f)}
<1>1. 0 \in P
  <2> DEFINE f == [k \in 0 .. 0 |-> a]
  <2>1. f \in [0 .. 0 -> D] /\ Upto(0, f)
    OBVIOUS
  <2>2. QED
    BY <2>1
<1>2. ASSUME NEW m \in Nat, m \in P PROVE m + 1 \in P
  <2> SUFFICES ASSUME m + 1 <= n
               PROVE  \E f \in [0 .. m + 1 -> D] : Upto(m + 1, f)
    OBVIOUS
  <2>1. PICK f \in [0 .. m -> D] : Upto(m, f)
    BY <1>2
  <2> DEFINE g == [k \in 0 .. m + 1 |->
                     IF k = m + 1 THEN step[<<f[m], m + 1>>] ELSE f[k]]
  <2>2. g \in [0 .. m + 1 -> D]
    BY <2>1
  <2>3. g[0] = a
    BY <2>1
  <2>4. ASSUME NEW k \in 1 .. m + 1 PROVE g[k] = step[<<g[k - 1], k>>]
    <3>1. CASE k = m + 1
      <4>1. k - 1 = m /\ m \in 0 .. m + 1 /\ m # m + 1
        BY <3>1
      <4>2. g[k] = step[<<f[m], k>>] /\ g[k - 1] = f[m]
        BY <3>1, <4>1
      <4>3. QED
        BY <4>2
    <3>2. CASE k # m + 1
      <4>1. k \in 1 .. m /\ g[k] = f[k] /\ g[k - 1] = f[k - 1]
        BY <3>2
      <4>2. QED
        BY <2>1, <4>1
    <3>3. QED
      BY <3>1, <3>2
  <2> HIDE DEF g
  <2>5. QED
    BY <2>2, <2>3, <2>4
<1>3. Nat \subseteq P
  <2> HIDE DEF P
  <2>1. QED
    BY <1>1, <1>2, SetInduction
<1>4. \E f \in [0 .. n -> D] : Upto(n, f)
  <2>1. n \in P
    BY <1>3
  <2> HIDE DEF Upto
  <2>2. QED
    BY <2>1
<1>5. QED
  BY <1>4 DEF HasRecursiveFunction
=============================================================================
