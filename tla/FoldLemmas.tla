------------------------------ MODULE FoldLemmas ------------------------------
(***************************************************************************)
(* What the folds of the community modules return, in a form that the      *)
(* provers can use: an operator is replaced by the function of its steps   *)
(* and the value's type by a set.  A fold is a recursive function on the   *)
(* subsets of its domain; that there is such a function (FoldExists) and   *)
(* that it has its values in a set closed under the steps (FoldIsIn) is    *)
(* what every use needs.                                                   *)
(***************************************************************************)
EXTENDS Integers, SequencesExt, FiniteSetTheorems, WellFoundedInduction, TLAPS

\* Induction with a set for the predicate.
LEMMA SetInduction ==
    ASSUME NEW T, 0 \in T, \A n \in Nat : n \in T => n + 1 \in T
    PROVE  Nat \subseteq T
<1> DEFINE Rest == {n \in Nat : n \notin T}
<1>1. CASE Rest = {}
  BY <1>1
<1>2. CASE Rest # {}
  <2>1. \E x \in Rest : \A y \in Rest : ~(<<y, x>> \in OpToRel(<, Nat))
    BY <1>2, NatLessThanWellFounded, WFMin
  <2>2. PICK x \in Rest : \A y \in Rest : ~(<<y, x>> \in OpToRel(<, Nat))
    BY <2>1
  <2>3. x \in Nat /\ x # 0 /\ x - 1 \in Nat /\ (x - 1) + 1 = x
    OBVIOUS
  <2>4. x - 1 \in Rest
    BY <2>3
  <2>5. <<x - 1, x>> \in OpToRel(<, Nat)
    BY <2>3 DEF OpToRel
  <2>. QED  BY <2>2, <2>4, <2>5
<1>. QED  BY <1>1, <1>2

\* The same for finite sets: what holds for the empty set and for a set when it holds without one
\* of its elements holds for all subsets of a finite set.
LEMMA SubsetInduction ==
    ASSUME NEW S, IsFiniteSet(S), NEW T, {} \in T,
           \A s \in SUBSET S : s # {} => \E x \in s : s \ {x} \in T => s \in T
    PROVE  SUBSET S \subseteq T
<1> DEFINE Sized == {n \in Nat : \A s \in SUBSET S : Cardinality(s) = n => s \in T}
<1>1. \A s \in SUBSET S : IsFiniteSet(s) /\ Cardinality(s) \in Nat
  BY FS_Subset, FS_CardinalityType
<1>2. 0 \in Sized
  BY <1>1, FS_EmptySet
<1>3. ASSUME NEW n \in Nat, n \in Sized
      PROVE  n + 1 \in Sized
  <2>1. SUFFICES ASSUME NEW s \in SUBSET S, Cardinality(s) = n + 1
                 PROVE  s \in T
    OBVIOUS
  <2>2. s # {}
    BY <2>1, FS_EmptySet, n + 1 # 0
  <2>3. PICK x \in s : s \ {x} \in T => s \in T
    BY <2>2
  <2>4. Cardinality(s \ {x}) = n
    <3>1. Cardinality(s \ {x}) = Cardinality(s) - 1
      BY <1>1, FS_RemoveElement
    <3>. QED  BY <2>1, <3>1
  <2>5. s \ {x} \in T
    BY <1>3, <2>4
  <2>. QED  BY <2>3, <2>5
<1> HIDE DEF Sized
<1>4. Nat \subseteq Sized
  BY <1>2, <1>3, SetInduction
<1> USE DEF Sized
<1>. QED  BY <1>1, <1>4

-----------------------------------------------------------------------------
(* Folds over a finite set, one chosen element after the other *)

\* f folds the subsets of S: the picked element is taken last.
IsFold(f, S, V, base, step, pick) ==
    /\ f \in [SUBSET S -> V]
    /\ \A s \in SUBSET S : f[s] = IF s = {} THEN base ELSE step[pick[s]][f[s \ {pick[s]}]]

\* There is a function that computes the fold of typed steps.
LEMMA FoldExists ==
    ASSUME NEW S, IsFiniteSet(S), NEW V, NEW base \in V,
           NEW step \in [S -> [V -> V]],
           NEW pick \in [SUBSET S -> S \union {S}],
           \A s \in SUBSET S : s # {} => pick[s] \in s
    PROVE  \E f : IsFold(f, S, V, base, step, pick)
<1> DEFINE Small(n) == {s \in SUBSET S : Cardinality(s) <= n}
           Next(f, s) == IF s = {} THEN base ELSE step[pick[s]][f[s \ {pick[s]}]]
           Folds(n) == {f \in [Small(n) -> V] : \A s \in Small(n) : f[s] = Next(f, s)}
           Known == {n \in Nat : Folds(n) # {}}
<1>1. \A s \in SUBSET S : IsFiniteSet(s) /\ Cardinality(s) \in Nat
  BY FS_Subset, FS_CardinalityType
<1>2. 0 \in Known
  <2>1. \A s \in Small(0) : s = {}
    BY <1>1, FS_EmptySet
  <2>2. [s \in Small(0) |-> base] \in Folds(0)
    BY <2>1
  <2>. QED  BY <2>2
<1>3. ASSUME NEW n \in Nat, n \in Known
      PROVE  n + 1 \in Known
  <2>1. PICK f : f \in Folds(n)
    BY <1>3
  <2>2. f \in [Small(n) -> V] /\ \A s \in Small(n) : f[s] = Next(f, s)
    BY <2>1
  <2>3. \A s \in Small(n + 1) : s # {} => s \ {pick[s]} \in Small(n) /\ pick[s] \in S
    <3>1. SUFFICES ASSUME NEW s \in Small(n + 1), s # {}
                   PROVE  s \ {pick[s]} \in Small(n) /\ pick[s] \in S
      OBVIOUS
    <3>2. pick[s] \in s
      BY <3>1
    <3>3. Cardinality(s \ {pick[s]}) = Cardinality(s) - 1
      BY <1>1, <3>2, FS_RemoveElement
    <3>4. Cardinality(s) \in Nat /\ Cardinality(s) <= n + 1
      BY <1>1
    <3>. QED  BY <3>2, <3>3, <3>4
  <2> DEFINE g == [s \in Small(n + 1) |-> Next(f, s)]
  <2>4. g \in [Small(n + 1) -> V]
    <3>1. SUFFICES ASSUME NEW s \in Small(n + 1), s # {}
                   PROVE  step[pick[s]][f[s \ {pick[s]}]] \in V
      OBVIOUS
    <3>2. s \ {pick[s]} \in Small(n) /\ pick[s] \in S
      BY <2>3, <3>1
    <3>3. f[s \ {pick[s]}] \in V /\ step[pick[s]] \in [V -> V]
      BY <2>2, <3>2
    <3>. QED  BY <3>3
  <2>5. \A s \in Small(n) : g[s] = f[s]
    <3>1. \A s \in Small(n) : s \in Small(n + 1)
      BY <1>1
    <3>. QED  BY <2>2, <3>1
  <2>6. ASSUME NEW s \in Small(n + 1)
        PROVE  g[s] = Next(g, s)
    <3>1. CASE s = {}
      BY <3>1
    <3>2. CASE s # {}
      <4>1. s \ {pick[s]} \in Small(n)
        BY <2>3, <3>2
      <4>2. g[s \ {pick[s]}] = f[s \ {pick[s]}]
        BY <2>5, <4>1
      <4>. QED  BY <3>2, <4>2
    <3>. QED  BY <3>1, <3>2
  <2> HIDE DEF g
  <2>7. g \in Folds(n + 1)
    BY <2>4, <2>6
  <2> HIDE DEF Folds
  <2>8. n + 1 \in Nat /\ Folds(n + 1) # {}
    BY <2>7
  <2>. QED  BY <2>8
<1> HIDE DEF Known
<1>4. Nat \subseteq Known
  BY <1>2, <1>3, SetInduction
<1> USE DEF Known
<1>5. PICK f : f \in Folds(Cardinality(S))
  BY <1>1, <1>4
<1>6. Small(Cardinality(S)) = SUBSET S
  BY <1>1, FS_Subset
<1>7. IsFold(f, S, V, base, step, pick)
  BY <1>5, <1>6 DEF IsFold
<1>. QED  BY <1>7

\* A fold has its values in every set that the steps do not leave.
LEMMA FoldIsIn ==
    ASSUME NEW S, IsFiniteSet(S), NEW V, NEW f, f[{}] \in V,
           \A s \in SUBSET S : s # {} => \E x \in s : f[s \ {x}] \in V => f[s] \in V
    PROVE  \A s \in SUBSET S : f[s] \in V
<1> DEFINE T == {s \in SUBSET S : f[s] \in V}
<1>1. {} \in T
  OBVIOUS
<1>2. \A s \in SUBSET S : s # {} => \E x \in s : s \ {x} \in T => s \in T
  OBVIOUS
<1> HIDE DEF T
<1>3. SUBSET S \subseteq T
  BY <1>1, <1>2, SubsetInduction
<1> USE DEF T
<1>. QED  BY <1>3

\* The largest element of a finite set of integers, and the smallest.
LEMMA MaxMin ==
    ASSUME NEW s \in SUBSET Int, IsFiniteSet(s), s # {}
    PROVE  /\ Max(s) \in s /\ \A y \in s : Max(s) >= y
           /\ Min(s) \in s /\ \A y \in s : Min(s) <= y
<1> DEFINE T == {t \in SUBSET s : t # {} => \E x, z \in t : \A y \in t : z <= y /\ y <= x}
<1>1. {} \in T
  OBVIOUS
<1>2. ASSUME NEW t \in SUBSET s, t # {}
      PROVE  \E e \in t : t \ {e} \in T => t \in T
  <2>1. PICK e \in t : TRUE
    BY <1>2
  <2>2. ASSUME t \ {e} \in T
        PROVE  t \in T
    <3>1. CASE t \ {e} = {}
      <4>1. \A y \in t : e <= y /\ y <= e
        BY <3>1
      <4>. QED  BY <4>1
    <3>2. CASE t \ {e} # {}
      <4>1. PICK x, z \in t \ {e} : \A y \in t \ {e} : z <= y /\ y <= x
        BY <2>2, <3>2
      <4>2. /\ \A y \in t : y <= IF e > x THEN e ELSE x
            /\ \A y \in t : (IF e < z THEN e ELSE z) <= y
        BY <4>1
      <4>3. (IF e > x THEN e ELSE x) \in t /\ (IF e < z THEN e ELSE z) \in t
        OBVIOUS
      <4>. QED  BY <4>2, <4>3
    <3>. QED  BY <3>1, <3>2
  <2>. QED  BY <2>2
<1> HIDE DEF T
<1>3. SUBSET s \subseteq T
  BY <1>1, <1>2, SubsetInduction
<1> USE DEF T
<1>4. PICK x \in s, z \in s : \A y \in s : z <= y /\ y <= x
  BY <1>3
<1>5. Max(s) \in s /\ \A y \in s : Max(s) >= y
  <2>1. \E m \in s : \A y \in s : m >= y
    BY <1>4
  <2>. QED  BY <2>1 DEF Max
<1>6. Min(s) \in s /\ \A y \in s : Min(s) <= y
  <2>1. \E m \in s : \A y \in s : m <= y
    BY <1>4
  <2>. QED  BY <2>1 DEF Min
<1>. QED  BY <1>5, <1>6

\* FoldLeft: of a set of indices the largest is taken last.
IsLeftFold(f, D, V, base, step) ==
    /\ f \in [SUBSET D -> V]
    /\ \A s \in SUBSET D : f[s] = IF s = {} THEN base ELSE step[Max(s)][f[s \ {Max(s)}]]

\* There is a function that computes FoldLeft with typed steps.
LEMMA LeftFoldExists ==
    ASSUME NEW D \in SUBSET Int, IsFiniteSet(D), NEW V, NEW base \in V,
           NEW step \in [D -> [V -> V]]
    PROVE  \E f : IsLeftFold(f, D, V, base, step)
<1> DEFINE pick == [s \in SUBSET D |-> IF s = {} THEN D ELSE Max(s)]
<1>1. \A s \in SUBSET D : s # {} => Max(s) \in s
  BY FS_Subset, MaxMin
<1>2. pick \in [SUBSET D -> D \union {D}]
  BY <1>1
<1>3. \A s \in SUBSET D : s # {} => pick[s] = Max(s)
  OBVIOUS
<1>4. \A s \in SUBSET D : s # {} => pick[s] \in s
  BY <1>1
<1> HIDE DEF pick
<1>5. PICK f : IsFold(f, D, V, base, step, pick)
  BY <1>2, <1>4, FoldExists
<1>6. /\ f \in [SUBSET D -> V]
      /\ \A s \in SUBSET D : f[s] = IF s = {} THEN base ELSE step[pick[s]][f[s \ {pick[s]}]]
  BY <1>5 DEF IsFold
<1>7. ASSUME NEW s \in SUBSET D
      PROVE  f[s] = IF s = {} THEN base ELSE step[Max(s)][f[s \ {Max(s)}]]
  BY <1>3, <1>6
<1>8. IsLeftFold(f, D, V, base, step)
  BY <1>6, <1>7 DEF IsLeftFold
<1>. QED  BY <1>8

\* FoldLeft has its values in every set that the steps do not leave.
LEMMA LeftFoldIsIn ==
    ASSUME NEW D \in SUBSET Int, IsFiniteSet(D), NEW V, NEW f, f[{}] \in V,
           \A s \in SUBSET D :
             s # {} /\ Max(s) \in D /\ f[s \ {Max(s)}] \in V => f[s] \in V
    PROVE  \A s \in SUBSET D : f[s] \in V
<1>1. \A s \in SUBSET D : s # {} => Max(s) \in s
  BY FS_Subset, MaxMin
<1>2. \A s \in SUBSET D : s # {} => \E x \in s : f[s \ {x}] \in V => f[s] \in V
  BY <1>1
<1>. QED  BY <1>2, FoldIsIn

\* What holds at the start and after every step holds throughout a run of n steps.
LEMMA StepInduction ==
    ASSUME NEW n \in Nat, NEW T, 0 \in T, \A k \in 1..n : k - 1 \in T => k \in T
    PROVE  \A k \in 0..n : k \in T
<1> DEFINE Reached == {k \in Nat : k <= n => k \in T}
<1>1. 0 \in Reached
  OBVIOUS
<1>2. ASSUME NEW k \in Nat, k \in Reached
      PROVE  k + 1 \in Reached
  <2>1. SUFFICES ASSUME k + 1 <= n
                 PROVE  k + 1 \in T
    OBVIOUS
  <2>2. k + 1 \in 1..n /\ (k + 1) - 1 = k /\ k \in T
    BY <1>2, <2>1
  <2>. QED  BY <2>2
<1> HIDE DEF Reached
<1>3. Nat \subseteq Reached
  BY <1>1, <1>2, SetInduction
<1> USE DEF Reached
<1>. QED  BY <1>3

\* The largest of the first k numbers.
LEMMA MaxOfFirst ==
    ASSUME NEW k \in Nat, k > 0
    PROVE  Max(1..k) = k /\ (1..k) \ {k} = 1..(k - 1)
<1>1. IsFiniteSet(1..k) /\ 1..k \in SUBSET Int /\ k \in 1..k
  BY FS_Interval
<1>2. 1..k # {}
  BY <1>1
<1>3. Max(1..k) \in 1..k /\ \A y \in 1..k : Max(1..k) >= y
  BY <1>1, <1>2, MaxMin
<1>. QED  BY <1>1, <1>3

\* g goes through n steps from base to last.
IsRun(g, n, V, base, step, last) ==
    /\ g \in [0..n -> V] /\ g[0] = base /\ g[n] = last
    /\ \A k \in 1..n : g[k] = step[k][g[k - 1]]

\* FoldLeft over n elements goes through n steps, the k-th for the first k elements.
LEMMA LeftFoldSteps ==
    ASSUME NEW n \in Nat, NEW V, NEW base, NEW step, NEW f,
           IsLeftFold(f, 1..n, V, base, step)
    PROVE  \E g : IsRun(g, n, V, base, step, f[1..n])
<1> DEFINE g == [k \in 0..n |-> f[1..k]]
<1>1. /\ f \in [SUBSET (1..n) -> V]
      /\ \A s \in SUBSET (1..n) : f[s] = IF s = {} THEN base ELSE step[Max(s)][f[s \ {Max(s)}]]
  BY DEF IsLeftFold
<1>2. \A k \in 0..n : 1..k \in SUBSET (1..n)
  OBVIOUS
<1>3. g \in [0..n -> V] /\ g[n] = f[1..n]
  BY <1>1, <1>2
<1>4. g[0] = base
  <2>1. 1..0 = {} /\ {} \in SUBSET (1..n) /\ 0 \in 0..n
    OBVIOUS
  <2>2. f[{}] = base
    BY <1>1, <2>1
  <2>. QED  BY <2>1, <2>2
<1>5. ASSUME NEW k \in 1..n
      PROVE  g[k] = step[k][g[k - 1]]
  <2>1. 1..k \in SUBSET (1..n) /\ k \in 1..k /\ k \in 0..n /\ k - 1 \in 0..n /\ k \in Nat /\ k > 0
    OBVIOUS
  <2>2. Max(1..k) = k /\ (1..k) \ {k} = 1..(k - 1)
    BY <2>1, MaxOfFirst
  <2>3. f[1..k] = step[Max(1..k)][f[(1..k) \ {Max(1..k)}]]
    BY <1>1, <2>1
  <2>. QED  BY <2>1, <2>2, <2>3
<1> HIDE DEF g
<1>6. IsRun(g, n, V, base, step, f[1..n])
  BY <1>3, <1>4, <1>5 DEF IsRun
<1>. QED  BY <1>6

\* the equation of the fold, as far as the values are in V
LeftFolds(f, n, V, base, step) ==
    /\ f[{}] = base
    /\ \A s \in SUBSET (1..n) :
         s # {} /\ f[s \ {Max(s)}] \in V => f[s] = step[Max(s)][f[s \ {Max(s)}]]

\* The same for a function of which only that equation is known.
LEMMA LeftFoldRuns ==
    ASSUME NEW n \in Nat, NEW V, NEW base \in V, NEW step \in [1..n -> [V -> V]], NEW f,
           LeftFolds(f, n, V, base, step)
    PROVE  \E g : IsRun(g, n, V, base, step, f[1..n])
<1> DEFINE D == 1..n
           h == [s \in SUBSET D |-> f[s]]
<1>1. D \in SUBSET Int /\ IsFiniteSet(D)
  BY FS_Interval
<1>2. \A s \in SUBSET D : s # {} => Max(s) \in D
  BY <1>1, FS_Subset, MaxMin
<1>3. \A s \in SUBSET D : f[s] \in V
  <2>1. f[{}] \in V
    BY DEF LeftFolds
  <2>2. \A s \in SUBSET D : s # {} /\ Max(s) \in D /\ f[s \ {Max(s)}] \in V => f[s] \in V
    BY DEF LeftFolds
  <2> HIDE DEF D
  <2>. QED  BY <1>1, <2>1, <2>2, LeftFoldIsIn
<1>4. IsLeftFold(h, D, V, base, step)
  <2>1. h \in [SUBSET D -> V]
    BY <1>3
  <2>2. \A s \in SUBSET D : s # {} => h[s] = step[Max(s)][h[s \ {Max(s)}]]
    BY <1>3 DEF LeftFolds
  <2>3. h[{}] = base
    BY DEF LeftFolds
  <2> HIDE DEF h, D
  <2>. QED  BY <2>1, <2>2, <2>3 DEF IsLeftFold
<1>5. h[1..n] = f[1..n] /\ IsLeftFold(h, 1..n, V, base, step)
  BY <1>4
<1> HIDE DEF h, D
<1>. QED  BY <1>5, LeftFoldSteps

\* A sum of natural numbers by FoldLeft.
LEMMA LeftSumExists ==
    ASSUME NEW D \in SUBSET Int, IsFiniteSet(D), NEW w \in [D -> Nat]
    PROVE  \E f : f = [s \in SUBSET D |-> IF s = {} THEN 0 ELSE f[s \ {Max(s)}] + w[Max(s)]]
<1> DEFINE step == [i \in D |-> [v \in Nat |-> v + w[i]]]
<1>1. step \in [D -> [Nat -> Nat]]
  OBVIOUS
<1>2. \A s \in SUBSET D : s # {} => Max(s) \in D
  BY FS_Subset, MaxMin
<1>3. PICK f : IsLeftFold(f, D, Nat, 0, step)
  <2> HIDE DEF step
  <2>. QED  BY <1>1, LeftFoldExists
<1>4. f = [s \in SUBSET D |-> IF s = {} THEN 0 ELSE f[s \ {Max(s)}] + w[Max(s)]]
  BY <1>2, <1>3 DEF IsLeftFold
<1>. QED  BY <1>4

\* Such a sum is a natural number, and positive if all its terms are.
LEMMA LeftSumType ==
    ASSUME NEW D \in SUBSET Int, IsFiniteSet(D), NEW w \in [D -> Nat], NEW f,
           f = [s \in SUBSET D |-> IF s = {} THEN 0 ELSE f[s \ {Max(s)}] + w[Max(s)]]
    PROVE  /\ \A s \in SUBSET D : f[s] \in Nat
           /\ D # {} /\ (\A i \in D : w[i] > 0) => f[D] > 0
<1>1. \A s \in SUBSET D : s # {} => Max(s) \in D
  BY FS_Subset, MaxMin
<1>2. f[{}] = 0 /\ \A s \in SUBSET D : s # {} => f[s] = f[s \ {Max(s)}] + w[Max(s)]
  OBVIOUS
<1>3. ASSUME NEW s \in SUBSET D, s # {}, f[s \ {Max(s)}] \in Nat
      PROVE  f[s] \in Nat
  <2>1. f[s] = f[s \ {Max(s)}] + w[Max(s)] /\ w[Max(s)] \in Nat
    BY <1>1, <1>2, <1>3
  <2>. QED  BY <1>3, <2>1
<1>4. f[{}] \in Nat
  BY <1>2
<1>5. \A s \in SUBSET D : f[s] \in Nat
  BY <1>3, <1>4, LeftFoldIsIn
<1>6. ASSUME D # {}, \A i \in D : w[i] > 0
      PROVE  f[D] > 0
  <2>1. f[D] = f[D \ {Max(D)}] + w[Max(D)] /\ Max(D) \in D
    BY <1>1, <1>2, <1>6
  <2>2. f[D \ {Max(D)}] \in Nat /\ w[Max(D)] \in Nat /\ w[Max(D)] > 0
    BY <1>5, <1>6, <2>1
  <2>. QED  BY <2>1, <2>2
<1>. QED  BY <1>5, <1>6

IsLeftSum(f, D, w) ==
    f = [s \in SUBSET D |-> IF s = {} THEN 0 ELSE f[s \ {Max(s)}] + w[Max(s)]]

\* g adds n terms, one after the other.
IsAdding(g, n, w, sum) ==
    /\ g \in [0..n -> Nat] /\ g[0] = 0 /\ g[n] = sum
    /\ \A k \in 1..n : g[k] = g[k - 1] + w[k]

\* Such a sum over n elements goes through n steps.
LEMMA LeftSumSteps ==
    ASSUME NEW n \in Nat, NEW w \in [1..n -> Nat], NEW f, IsLeftSum(f, 1..n, w)
    PROVE  \E g : IsAdding(g, n, w, f[1..n])
<1> DEFINE D == 1..n
           step == [i \in D |-> [v \in Nat |-> v + w[i]]]
<1>1. D \in SUBSET Int /\ IsFiniteSet(D)
  BY FS_Interval
<1>2. \A s \in SUBSET D : f[s] \in Nat
  <2>1. f = [s \in SUBSET D |-> IF s = {} THEN 0 ELSE f[s \ {Max(s)}] + w[Max(s)]]
    BY DEF IsLeftSum
  <2>2. w \in [D -> Nat]
    OBVIOUS
  <2> HIDE DEF D
  <2>. QED  BY <1>1, <2>1, <2>2, LeftSumType
<1>3. \A s \in SUBSET D : s # {} => Max(s) \in D
  BY <1>1, FS_Subset, MaxMin
<1>4. IsLeftFold(f, D, Nat, 0, step)
  <2>1. f \in [SUBSET D -> Nat]
    BY <1>2 DEF IsLeftSum
  <2>2. ASSUME NEW s \in SUBSET D, s # {}
        PROVE  f[s] = step[Max(s)][f[s \ {Max(s)}]]
    <3>1. f[s] = f[s \ {Max(s)}] + w[Max(s)]
      BY <2>2 DEF IsLeftSum
    <3>2. f[s \ {Max(s)}] \in Nat /\ Max(s) \in D
      BY <1>2, <1>3, <2>2
    <3> HIDE DEF D
    <3>. QED  BY <3>1, <3>2
  <2>3. f[{}] = 0
    BY DEF IsLeftSum
  <2> HIDE DEF step, D
  <2>. QED  BY <2>1, <2>2, <2>3 DEF IsLeftFold
<1>5. PICK g \in [0..n -> Nat] : /\ g[0] = 0 /\ g[n] = f[1..n]
                                 /\ \A k \in 1..n : g[k] = step[k][g[k - 1]]
  <2>1. IsLeftFold(f, 1..n, Nat, 0, step)
    BY <1>4
  <2> HIDE DEF step
  <2>2. PICK g : IsRun(g, n, Nat, 0, step, f[1..n])
    BY <2>1, LeftFoldSteps
  <2>. QED  BY <2>2 DEF IsRun
<1>6. ASSUME NEW k \in 1..n
      PROVE  g[k] = g[k - 1] + w[k]
  <2>1. g[k - 1] \in Nat /\ g[k] = step[k][g[k - 1]]
    <3>1. k - 1 \in 0..n
      OBVIOUS
    <3> HIDE DEF step
    <3>. QED  BY <1>5, <3>1
  <2>. QED  BY <2>1
<1>7. IsAdding(g, n, w, f[1..n])
  BY <1>5, <1>6 DEF IsAdding
<1>. QED  BY <1>7

-----------------------------------------------------------------------------
(* Sums over a finite set: MapThenSumSet *)

\* f[s] is the sum of the weights w of the elements of s.
IsSum(f, K, w) ==
    /\ f \in [SUBSET K -> Nat]
    /\ \A s \in SUBSET K : f[s] = IF s = {} THEN 0
                                  ELSE w[CHOOSE x \in s : TRUE] + f[s \ {CHOOSE x \in s : TRUE}]

\* There is a function that computes such sums.
LEMMA SumExists ==
    ASSUME NEW K, IsFiniteSet(K), NEW w \in [K -> Nat]
    PROVE  \E f : IsSum(f, K, w)
<1> DEFINE step == [x \in K |-> [v \in Nat |-> w[x] + v]]
           pick == [s \in SUBSET K |-> IF s = {} THEN K ELSE CHOOSE x \in s : TRUE]
<1>1. step \in [K -> [Nat -> Nat]]
  OBVIOUS
<1>2. \A s \in SUBSET K : s # {} => pick[s] = (CHOOSE x \in s : TRUE) /\ pick[s] \in s
  OBVIOUS
<1>3. pick \in [SUBSET K -> K \union {K}]
  OBVIOUS
<1> HIDE DEF step, pick
<1>4. PICK f : IsFold(f, K, Nat, 0, step, pick)
  BY <1>1, <1>2, <1>3, FoldExists
<1>5. /\ f \in [SUBSET K -> Nat]
      /\ \A s \in SUBSET K : f[s] = IF s = {} THEN 0 ELSE step[pick[s]][f[s \ {pick[s]}]]
  BY <1>4 DEF IsFold
<1>6. ASSUME NEW s \in SUBSET K, s # {}
      PROVE  f[s] = w[CHOOSE x \in s : TRUE] + f[s \ {CHOOSE x \in s : TRUE}]
  <2> DEFINE x == CHOOSE x \in s : TRUE
  <2>1. x \in K /\ pick[s] = x /\ f[s \ {x}] \in Nat
    BY <1>2, <1>5, <1>6
  <2>2. f[s] = step[x][f[s \ {x}]]
    BY <1>5, <1>6, <2>1
  <2> HIDE DEF x
  <2>3. f[s] = w[x] + f[s \ {x}]
    BY <2>1, <2>2 DEF step
  <2>. QED  BY <2>3 DEF x
<1>7. IsSum(f, K, w)
  BY <1>5, <1>6 DEF IsSum
<1>. QED  BY <1>7

\* Any element may be added last.
LEMMA SumWithout ==
    ASSUME NEW K, IsFiniteSet(K), NEW w \in [K -> Nat], NEW f, IsSum(f, K, w)
    PROVE  \A s \in SUBSET K : \A x \in s : f[s] = w[x] + f[s \ {x}]
<1> DEFINE Good(t) == \A x \in t : f[t] = w[x] + f[t \ {x}]
           T == {n \in Nat : \A s \in SUBSET K : Cardinality(s) = n => Good(s)}
<1>1. \A s \in SUBSET K : IsFiniteSet(s) /\ Cardinality(s) \in Nat
  BY FS_Subset, FS_CardinalityType
<1>2. 0 \in T
  <2>1. \A s \in SUBSET K : Cardinality(s) = 0 => s = {}
    BY <1>1, FS_EmptySet
  <2>. QED  BY <2>1
<1>3. ASSUME NEW n \in Nat, n \in T
      PROVE  n + 1 \in T
  <2>1. SUFFICES ASSUME NEW s \in SUBSET K, Cardinality(s) = n + 1, NEW x \in s
                 PROVE  f[s] = w[x] + f[s \ {x}]
    OBVIOUS
  <2> DEFINE y == CHOOSE e \in s : TRUE
  <2>2. y \in s /\ f[s] = w[y] + f[s \ {y}]
    BY <2>1 DEF IsSum
  <2> HIDE DEF y
  <2>3. CASE x = y
    BY <2>2, <2>3
  <2>4. CASE x # y
    <3>1. \A e \in s : Cardinality(s \ {e}) = n
      <4>1. \A e \in s : Cardinality(s \ {e}) = Cardinality(s) - 1
        BY <1>1, FS_RemoveElement
      <4>. QED  BY <2>1, <4>1
    <3>2. Good(s \ {x}) /\ Good(s \ {y})
      BY <1>3, <2>2, <3>1
    <3>3. f[s \ {x}] = w[y] + f[(s \ {x}) \ {y}] /\ f[s \ {y}] = w[x] + f[(s \ {y}) \ {x}]
      BY <2>2, <2>4, <3>2
    <3>4. (s \ {x}) \ {y} = (s \ {y}) \ {x}
      OBVIOUS
    <3>5. f[(s \ {y}) \ {x}] \in Nat /\ w[x] \in Nat /\ w[y] \in Nat
      BY <2>2 DEF IsSum
    <3>. QED  BY <2>2, <3>3, <3>4, <3>5
  <2>. QED  BY <2>3, <2>4
<1> HIDE DEF T
<1>4. Nat \subseteq T
  BY <1>2, <1>3, SetInduction
<1> USE DEF T
<1>. QED  BY <1>1, <1>4

\* Elements of weight 0 make no difference.
LEMMA SumOfSupport ==
    ASSUME NEW K, IsFiniteSet(K), NEW w \in [K -> Nat], NEW f, IsSum(f, K, w),
           NEW s \in SUBSET K, NEW t \in SUBSET s, \A x \in s \ t : w[x] = 0
    PROVE  f[s] = f[t]
<1> DEFINE rest == s \ t
           T == {r \in SUBSET rest : f[t \union r] = f[t]}
<1>1. IsFiniteSet(rest)
  BY FS_Subset, rest \in SUBSET K
<1>2. {} \in T
  OBVIOUS
<1>3. ASSUME NEW r \in SUBSET rest, r # {}
      PROVE  \E x \in r : r \ {x} \in T => r \in T
  <2>1. PICK x \in r : TRUE
    BY <1>3
  <2>2. t \union r \in SUBSET K /\ x \in t \union r /\ (t \union r) \ {x} = t \union (r \ {x})
    OBVIOUS
  <2>3. f[t \union r] = w[x] + f[(t \union r) \ {x}]
    BY <2>2, SumWithout
  <2>4. w[x] = 0 /\ f[t \union (r \ {x})] \in Nat
    BY <2>2 DEF IsSum
  <2>5. f[t \union r] = f[t \union (r \ {x})]
    BY <2>2, <2>3, <2>4
  <2>. QED  BY <2>5
<1>4. t \union rest = s
  OBVIOUS
<1> HIDE DEF T, rest
<1>5. SUBSET rest \subseteq T
  BY <1>1, <1>2, <1>3, SubsetInduction
<1>6. rest \in T
  BY <1>5
<1>. QED  BY <1>4, <1>6 DEF T

\* g adds up the weights of L, and f those of a larger set that are the same on L.
Agree(g, L, v, f, K, w) ==
    /\ IsFiniteSet(K) /\ w \in [K -> Nat] /\ IsSum(f, K, w)
    /\ L \in SUBSET K /\ v \in [L -> Nat] /\ IsSum(g, L, v)
    /\ \A x \in L : v[x] = w[x]

\* The sum over a set depends on the weights of its elements only.
LEMMA SumIsUnique ==
    ASSUME NEW K, NEW w, NEW f, NEW L, NEW v, NEW g, Agree(g, L, v, f, K, w)
    PROVE  \A s \in SUBSET L : g[s] = f[s]
<1> DEFINE T == {s \in SUBSET L : g[s] = f[s]}
<1>1. IsFiniteSet(L)
  BY FS_Subset DEF Agree
<1>2. {} \in T
  BY DEF Agree, IsSum
<1>3. ASSUME NEW s \in SUBSET L, s # {}
      PROVE  \E x \in s : s \ {x} \in T => s \in T
  <2> DEFINE x == CHOOSE e \in s : TRUE
  <2>1. x \in s /\ g[s] = v[x] + g[s \ {x}] /\ f[s] = w[x] + f[s \ {x}]
    BY <1>3 DEF Agree, IsSum
  <2> HIDE DEF x
  <2>2. v[x] = w[x]
    BY <2>1 DEF Agree
  <2>3. s \ {x} \in T => s \in T
    BY <2>1, <2>2
  <2> HIDE DEF T
  <2>. QED  BY <2>1, <2>3
<1> HIDE DEF T
<1>4. SUBSET L \subseteq T
  BY <1>1, <1>2, <1>3, SubsetInduction
<1> USE DEF T
<1>. QED  BY <1>4

-----------------------------------------------------------------------------
(* Sequences *)

\* A sequence of sequences is flattened step by step, one of them after the other.
LEMMA FlattenSteps ==
    ASSUME NEW X, NEW s \in Seq(Seq(X))
    PROVE  \E g \in [0..Len(s) -> Seq(X)] : /\ g[0] = <<>> /\ g[Len(s)] = FlattenSeq(s)
                                            /\ \A i \in 1..Len(s) : g[i] = g[i - 1] \o s[i]
<1> DEFINE Next(f, i) == IF i = 1 THEN s[i] ELSE f[i - 1] \o s[i]
           Good(n, f) == f \in [1..n -> Seq(X)] /\ \A i \in 1..n : f[i] = Next(f, i)
           Known == {n \in Nat : n <= Len(s) => \E f : Good(n, f)}
<1>1. Len(s) \in Nat /\ \A i \in 1..Len(s) : s[i] \in Seq(X)
  OBVIOUS
<1>2. \E f : Good(0, f)
  <2>1. [i \in 1..0 |-> <<>>] \in [1..0 -> Seq(X)] /\ \A i \in 1..0 : FALSE
    OBVIOUS
  <2>2. Good(0, [i \in 1..0 |-> <<>>])
    BY <2>1
  <2> HIDE DEF Good
  <2>. QED  BY <2>2
<1>3. ASSUME NEW n \in Nat, n + 1 <= Len(s), NEW f, Good(n, f)
      PROVE  \E g : Good(n + 1, g)
  <2> DEFINE g == [i \in 1..(n + 1) |-> Next(f, i)]
  <2>1. f \in [1..n -> Seq(X)] /\ \A i \in 1..n : f[i] = Next(f, i)
    BY <1>3
  <2>2. g \in [1..(n + 1) -> Seq(X)]
    <3>1. SUFFICES ASSUME NEW i \in 1..(n + 1)
                   PROVE  Next(f, i) \in Seq(X)
      OBVIOUS
    <3>2. s[i] \in Seq(X)
      BY <1>1, <1>3
    <3>3. CASE i = 1
      BY <3>2, <3>3
    <3>4. CASE i # 1
      <4>1. f[i - 1] \in Seq(X)
        BY <2>1, <3>4
      <4>. QED  BY <3>2, <3>4, <4>1
    <3>. QED  BY <3>3, <3>4
  <2>3. ASSUME NEW i \in 1..n
        PROVE  g[i] = f[i]
    <3>1. i \in 1..(n + 1)
      OBVIOUS
    <3>2. g[i] = Next(f, i)
      BY <3>1
    <3> HIDE DEF g, Next
    <3>. QED  BY <2>1, <3>2
  <2>4. \A i \in 1..(n + 1) : g[i] = Next(g, i)
    <3>1. SUFFICES ASSUME NEW i \in 1..(n + 1), i # 1
                   PROVE  g[i] = g[i - 1] \o s[i]
      OBVIOUS
    <3>2. i - 1 \in 1..n
      BY <3>1
    <3>3. g[i - 1] = f[i - 1]
      BY <2>3, <3>2
    <3>. QED  BY <3>1, <3>3
  <2>5. Good(n + 1, g)
    BY <2>2, <2>4
  <2> HIDE DEF g, Good
  <2>. QED  BY <2>5
<1> HIDE DEF Good
<1>4. 0 \in Known
  BY <1>2
<1>5. \A n \in Nat : n \in Known => n + 1 \in Known
  BY <1>1, <1>3
<1> HIDE DEF Known
<1>6. Nat \subseteq Known
  BY <1>4, <1>5, SetInduction
<1> USE DEF Known
<1>7. \E f : Good(Len(s), f)
  BY <1>1, <1>6
<1> DEFINE F == CHOOSE f : f = [i \in 1..Len(s) |-> Next(f, i)]
<1>8. F = [i \in 1..Len(s) |-> Next(F, i)]
  <2>1. \E f : f = [i \in 1..Len(s) |-> Next(f, i)]
    BY <1>7 DEF Good
  <2>. QED  BY <2>1
<1>9. FlattenSeq(s) = IF Len(s) = 0 THEN s ELSE F[Len(s)]
  BY DEF FlattenSeq
<1> HIDE DEF F, Known
<1> DEFINE InType == {n \in Nat : n \in 1..Len(s) => F[n] \in Seq(X)}
<1>10. 0 \in InType
  OBVIOUS
<1>11. ASSUME NEW n \in Nat, n \in InType
       PROVE  n + 1 \in InType
  <2>1. SUFFICES ASSUME n + 1 \in 1..Len(s)
                 PROVE  F[n + 1] \in Seq(X)
    OBVIOUS
  <2>2. F[n + 1] = IF n + 1 = 1 THEN s[n + 1] ELSE F[(n + 1) - 1] \o s[n + 1]
    BY <1>8, <2>1
  <2>3. s[n + 1] \in Seq(X)
    BY <1>1, <2>1
  <2>4. CASE n = 0
    BY <2>2, <2>3, <2>4
  <2>5. CASE n # 0
    <3>1. n \in 1..Len(s) /\ (n + 1) - 1 = n /\ n + 1 # 1
      BY <1>1, <2>1, <2>5
    <3>2. F[n] \in Seq(X)
      BY <1>11, <3>1
    <3>. QED  BY <2>2, <2>3, <3>1, <3>2
  <2>. QED  BY <2>4, <2>5
<1>12. \A n \in 1..Len(s) : F[n] \in Seq(X)
  <2> HIDE DEF InType
  <2>1. Nat \subseteq InType
    BY <1>10, <1>11, SetInduction
  <2> USE DEF InType
  <2>. QED  BY <1>1, <2>1
<1> HIDE DEF InType
<1> DEFINE g == [n \in 0..Len(s) |-> IF n = 0 THEN <<>> ELSE F[n]]
<1>13. g \in [0..Len(s) -> Seq(X)] /\ g[0] = <<>>
  BY <1>1, <1>12
<1>14. g[Len(s)] = FlattenSeq(s)
  <2>1. Len(s) = 0 => s = <<>>
    OBVIOUS
  <2>. QED  BY <1>1, <1>9, <2>1
<1>15. ASSUME NEW i \in 1..Len(s)
       PROVE  g[i] = g[i - 1] \o s[i]
  <2>1. i \in 0..Len(s) /\ i - 1 \in 0..Len(s) /\ i # 0 /\ s[i] \in Seq(X)
    BY <1>1
  <2>2. F[i] = IF i = 1 THEN s[i] ELSE F[i - 1] \o s[i]
    BY <1>8
  <2>3. CASE i = 1
    <3>1. g[i] = s[i] /\ g[i - 1] = <<>>
      BY <2>1, <2>2, <2>3
    <3>2. \A t \in Seq(X) : <<>> \o t = t
      OBVIOUS
    <3> HIDE DEF g
    <3>. QED  BY <2>1, <3>1, <3>2
  <2>4. CASE i # 1
    <3>1. g[i] = F[i] /\ g[i - 1] = F[i - 1]
      BY <2>1, <2>4
    <3>. QED  BY <2>2, <2>4, <3>1
  <2>. QED  BY <2>3, <2>4
<1> HIDE DEF g
<1>. QED  BY <1>13, <1>14, <1>15

\* A sequence of sequences is flattened to a sequence of their elements.
LEMMA FlattenSeqType ==
    ASSUME NEW X, NEW s \in Seq(Seq(X))
    PROVE  FlattenSeq(s) \in Seq(X)
<1>1. PICK g \in [0..Len(s) -> Seq(X)] : g[Len(s)] = FlattenSeq(s)
  BY FlattenSteps
<1>2. Len(s) \in 0..Len(s)
  OBVIOUS
<1>. QED  BY <1>1, <1>2

\* the sequences in which all that comes later is R-after what comes before
Line(X, R) == {s \in Seq(X) : \A i, j \in DOMAIN s : i < j => <<s[i], s[j]>> \in R}

\* A line followed by another one, all of it R-after the first, is a line.
LEMMA LineConcat ==
    ASSUME NEW X, NEW R, NEW s \in Line(X, R), NEW t \in Line(X, R),
           \A i \in DOMAIN s, j \in DOMAIN t : <<s[i], t[j]>> \in R
    PROVE  /\ s \o t \in Line(X, R)
           /\ \A k \in DOMAIN (s \o t) :
                (\E i \in DOMAIN s : (s \o t)[k] = s[i]) \/ (\E j \in DOMAIN t : (s \o t)[k] = t[j])
<1>1. s \in Seq(X) /\ t \in Seq(X)
  BY DEF Line
<1>2. /\ DOMAIN s = 1..Len(s) /\ Len(s) \in Nat /\ DOMAIN t = 1..Len(t) /\ Len(t) \in Nat
      /\ s \o t \in Seq(X) /\ DOMAIN (s \o t) = 1..(Len(s) + Len(t))
  BY <1>1
<1>3. \A k \in 1..Len(s) : (s \o t)[k] = s[k]
  BY <1>1
<1>4. \A k \in (Len(s) + 1)..(Len(s) + Len(t)) :
        k - Len(s) \in 1..Len(t) /\ (s \o t)[k] = t[k - Len(s)]
  BY <1>1
<1> DEFINE st == s \o t
<1> HIDE DEF st
<1>5. ASSUME NEW i \in 1..(Len(s) + Len(t)), NEW j \in 1..(Len(s) + Len(t)), i < j
      PROVE  <<st[i], st[j]>> \in R
  <2>1. CASE j <= Len(s)
    <3>1. i \in 1..Len(s) /\ j \in 1..Len(s)
      BY <1>2, <1>5, <2>1
    <3>2. st[i] = s[i] /\ st[j] = s[j]
      BY <1>3, <3>1 DEF st
    <3>. QED  BY <1>2, <1>5, <3>1, <3>2 DEF Line
  <2>2. CASE i <= Len(s) /\ j > Len(s)
    <3>1. i \in 1..Len(s) /\ j \in (Len(s) + 1)..(Len(s) + Len(t))
      BY <1>2, <2>2
    <3>2. st[i] = s[i] /\ st[j] = t[j - Len(s)] /\ j - Len(s) \in 1..Len(t)
      BY <1>3, <1>4, <3>1 DEF st
    <3>. QED  BY <1>2, <3>1, <3>2
  <2>3. CASE i > Len(s)
    <3>1. i \in (Len(s) + 1)..(Len(s) + Len(t)) /\ j \in (Len(s) + 1)..(Len(s) + Len(t))
      BY <1>2, <1>5, <2>3
    <3>2. /\ st[i] = t[i - Len(s)] /\ st[j] = t[j - Len(s)]
          /\ i - Len(s) \in 1..Len(t) /\ j - Len(s) \in 1..Len(t) /\ i - Len(s) < j - Len(s)
      BY <1>2, <1>4, <1>5, <3>1 DEF st
    <3>. QED  BY <1>2, <3>2 DEF Line
  <2>. QED  BY <1>2, <2>1, <2>2, <2>3
<1>6. ASSUME NEW k \in 1..(Len(s) + Len(t))
      PROVE  (\E i \in DOMAIN s : st[k] = s[i]) \/ (\E j \in DOMAIN t : st[k] = t[j])
  <2>1. CASE k \in 1..Len(s)
    BY <1>2, <1>3, <2>1 DEF st
  <2>2. CASE k \notin 1..Len(s)
    <3>1. k \in (Len(s) + 1)..(Len(s) + Len(t))
      BY <1>2, <2>2
    <3>2. k - Len(s) \in DOMAIN t /\ st[k] = t[k - Len(s)]
      BY <1>2, <1>4, <3>1 DEF st
    <3>. QED  BY <3>2
  <2>. QED  BY <2>1, <2>2
<1>. QED  BY <1>2, <1>5, <1>6 DEF st, Line

\* So is a line followed by one element.
LEMMA LineAppend ==
    ASSUME NEW X, NEW R, NEW s \in Line(X, R), NEW x \in X, \A i \in DOMAIN s : <<s[i], x>> \in R
    PROVE  /\ Append(s, x) \in Line(X, R)
           /\ \A k \in DOMAIN Append(s, x) : Append(s, x)[k] = x \/ \E i \in DOMAIN s : Append(s, x)[k] = s[i]
<1>1. s \in Seq(X) /\ DOMAIN s = 1..Len(s) /\ Len(s) \in Nat
  BY DEF Line
<1> DEFINE sx == Append(s, x)
<1>2. /\ sx \in Seq(X) /\ DOMAIN sx = 1..(Len(s) + 1) /\ sx[Len(s) + 1] = x
      /\ \A k \in 1..Len(s) : sx[k] = s[k]
  BY <1>1
<1> HIDE DEF sx
<1>3. ASSUME NEW i \in 1..(Len(s) + 1), NEW j \in 1..(Len(s) + 1), i < j
      PROVE  <<sx[i], sx[j]>> \in R
  <2>1. i \in DOMAIN s /\ sx[i] = s[i]
    BY <1>1, <1>2, <1>3
  <2>2. CASE j = Len(s) + 1
    BY <1>2, <2>1, <2>2
  <2>3. CASE j # Len(s) + 1
    <3>1. j \in DOMAIN s /\ sx[j] = s[j]
      BY <1>1, <1>2, <2>3
    <3>. QED  BY <1>3, <2>1, <3>1 DEF Line
  <2>. QED  BY <2>2, <2>3
<1>4. \A k \in 1..(Len(s) + 1) : sx[k] = x \/ \E i \in DOMAIN s : sx[k] = s[i]
  <2>1. \A k \in 1..(Len(s) + 1) : k = Len(s) + 1 \/ k \in 1..Len(s)
    BY <1>1
  <2>. QED  BY <1>1, <1>2, <2>1
<1>. QED  BY <1>2, <1>3, <1>4 DEF sx, Line

\* Lines, the elements of a later one R-after those of an earlier one, are flattened to a line of
\* their elements.
LEMMA FlattenLine ==
    ASSUME NEW X, NEW R, NEW s \in Seq(Line(X, R)),
           \A i, j \in DOMAIN s : i < j =>
             \A k \in DOMAIN s[i], l \in DOMAIN s[j] : <<s[i][k], s[j][l]>> \in R
    PROVE  /\ FlattenSeq(s) \in Line(X, R)
           /\ \A m \in DOMAIN FlattenSeq(s) : \E i \in DOMAIN s : \E k \in DOMAIN s[i] :
                FlattenSeq(s)[m] = s[i][k]
<1> DEFINE n == Len(s)
           From(t, k) == \A m \in DOMAIN t : \E i \in 1..k : \E l \in DOMAIN s[i] : t[m] = s[i][l]
<1>1. n \in Nat /\ DOMAIN s = 1..n /\ \A i \in 1..n : s[i] \in Line(X, R)
  OBVIOUS
<1>2. s \in Seq(Seq(X))
  <2>1. Line(X, R) \subseteq Seq(X)
    BY DEF Line
  <2> HIDE DEF n
  <2>. QED  BY <1>1, <2>1 DEF n
<1>3. PICK g \in [0..n -> Seq(X)] : /\ g[0] = <<>> /\ g[n] = FlattenSeq(s)
                                   /\ \A i \in 1..n : g[i] = g[i - 1] \o s[i]
  BY <1>2, FlattenSteps
<1> HIDE DEF n
<1> DEFINE T == {k \in 0..n : g[k] \in Line(X, R) /\ From(g[k], k)}
<1>4. 0 \in T
  BY <1>1, <1>3 DEF Line
<1>5. ASSUME NEW k \in 1..n, k - 1 \in T
      PROVE  k \in T
  <2>1. /\ g[k - 1] \in Line(X, R) /\ From(g[k - 1], k - 1) /\ s[k] \in Line(X, R)
        /\ g[k] = g[k - 1] \o s[k] /\ k \in 0..n
    <3>1. k \in 0..n /\ g[k] = g[k - 1] \o s[k] /\ s[k] \in Line(X, R)
      <4> HIDE DEF From, T
      <4>1. g[k] = g[k - 1] \o s[k]
        BY <1>3
      <4>2. s[k] \in Line(X, R)
        BY <1>1
      <4>. QED  BY <1>1, <4>1, <4>2
    <3>2. g[k - 1] \in Line(X, R) /\ From(g[k - 1], k - 1)
      <4> HIDE DEF From
      <4>. QED  BY <1>5
    <3>. QED  BY <3>1, <3>2
  <2>2. ASSUME NEW m \in DOMAIN g[k - 1], NEW l \in DOMAIN s[k]
        PROVE  <<g[k - 1][m], s[k][l]>> \in R
    <3>1. PICK i \in 1..(k - 1) : \E e \in DOMAIN s[i] : g[k - 1][m] = s[i][e]
      BY <2>1
    <3>2. PICK e \in DOMAIN s[i] : g[k - 1][m] = s[i][e]
      BY <3>1
    <3>3. i \in DOMAIN s /\ k \in DOMAIN s /\ i < k
      BY <1>1
    <3>. QED  BY <3>2, <3>3
  <2> DEFINE t == g[k - 1]
             u == s[k]
  <2>3. /\ t \o u \in Line(X, R)
        /\ \A m \in DOMAIN (t \o u) : (\E i \in DOMAIN t : (t \o u)[m] = t[i]) \/ (\E j \in DOMAIN u : (t \o u)[m] = u[j])
    <3> HIDE DEF t, u
    <3>1. t \in Line(X, R) /\ u \in Line(X, R) /\ \A i \in DOMAIN t, j \in DOMAIN u : <<t[i], u[j]>> \in R
      BY <2>1, <2>2 DEF t, u
    <3>. QED  BY <3>1, LineConcat
  <2>4. From(g[k], k)
    <3>1. SUFFICES ASSUME NEW m \in DOMAIN g[k]
                   PROVE  \E i \in 1..k : \E l \in DOMAIN s[i] : g[k][m] = s[i][l]
      OBVIOUS
    <3>2. k \in 1..k /\ \A i \in 1..(k - 1) : i \in 1..k
      BY <1>1
    <3>3. CASE \E j \in DOMAIN s[k] : g[k][m] = s[k][j]
      BY <3>2, <3>3
    <3>4. CASE \E e \in DOMAIN g[k - 1] : g[k][m] = g[k - 1][e]
      <4>1. PICK e \in DOMAIN g[k - 1] : g[k][m] = g[k - 1][e]
        BY <3>4
      <4>2. \E i \in 1..(k - 1) : \E l \in DOMAIN s[i] : g[k - 1][e] = s[i][l]
        BY <2>1
      <4>. QED  BY <3>2, <4>1, <4>2
    <3>. QED  BY <2>1, <2>3, <3>3, <3>4
  <2>. QED  BY <2>1, <2>3, <2>4
<1> HIDE DEF T
<1>6. \A k \in 0..n : k \in T
  BY <1>1, <1>4, <1>5, StepInduction
<1> USE DEF T
<1>7. g[n] \in Line(X, R) /\ From(g[n], n)
  <2>1. n \in T
    BY <1>1, <1>6
  <2> HIDE DEF From
  <2>. QED  BY <2>1
<1>8. FlattenSeq(s) \in Line(X, R) /\ From(FlattenSeq(s), n)
  <2> HIDE DEF From
  <2>. QED  BY <1>3, <1>7
<1>9. \A m \in DOMAIN FlattenSeq(s) : \E i \in DOMAIN s : \E k \in DOMAIN s[i] : FlattenSeq(s)[m] = s[i][k]
  BY <1>1, <1>8
<1>. QED  BY <1>8, <1>9

\* the elements at some positions, in their order
Kept(seq, keep) == FlattenSeq([i \in DOMAIN seq |-> IF i \in keep THEN <<seq[i]>> ELSE <<>>])

\* What is kept of a line is a line.
LEMMA KeptLine ==
    ASSUME NEW X, NEW R, NEW seq \in Line(X, R), NEW keep
    PROVE  /\ Kept(seq, keep) \in Line(X, R)
           /\ \A m \in DOMAIN Kept(seq, keep) : \E i \in DOMAIN seq : i \in keep /\ Kept(seq, keep)[m] = seq[i]
<1> DEFINE parts == [i \in DOMAIN seq |-> IF i \in keep THEN <<seq[i]>> ELSE <<>>]
<1>1. seq \in Seq(X) /\ DOMAIN seq = 1..Len(seq) /\ Len(seq) \in Nat /\ \A i \in DOMAIN seq : seq[i] \in X
  BY DEF Line
<1>2. /\ DOMAIN parts = DOMAIN seq
      /\ \A i \in DOMAIN seq : parts[i] = IF i \in keep THEN <<seq[i]>> ELSE <<>>
  OBVIOUS
<1> HIDE DEF parts
<1>3. \A i \in DOMAIN seq : parts[i] \in Line(X, R)
  <2>1. <<>> \in Line(X, R)
    BY DEF Line
  <2>2. \A x \in X : <<x>> \in Line(X, R)
    BY DEF Line
  <2>. QED  BY <1>1, <1>2, <2>1, <2>2
<1>4. parts \in Seq(Line(X, R))
  <2>1. parts = [i \in 1..Len(seq) |-> parts[i]]
    BY <1>1, <1>2 DEF parts
  <2>. QED  BY <1>1, <1>3, <2>1
<1>5. \A i \in DOMAIN seq : \A k \in DOMAIN parts[i] : i \in keep /\ parts[i][k] = seq[i]
  <2>1. SUFFICES ASSUME NEW i \in DOMAIN seq, NEW k \in DOMAIN parts[i]
                 PROVE  i \in keep /\ parts[i][k] = seq[i]
    OBVIOUS
  <2>2. CASE i \in keep
    <3>1. DOMAIN <<seq[i]>> = {1} /\ <<seq[i]>>[1] = seq[i]
      OBVIOUS
    <3>. QED  BY <1>2, <2>1, <2>2, <3>1
  <2>3. CASE i \notin keep
    BY <1>2, <2>1, <2>3
  <2>. QED  BY <2>2, <2>3
<1>6. \A i, j \in DOMAIN parts : i < j =>
        \A k \in DOMAIN parts[i], l \in DOMAIN parts[j] : <<parts[i][k], parts[j][l]>> \in R
  BY <1>2, <1>5 DEF Line
<1>7. /\ FlattenSeq(parts) \in Line(X, R)
      /\ \A m \in DOMAIN FlattenSeq(parts) : \E i \in DOMAIN parts : \E k \in DOMAIN parts[i] :
           FlattenSeq(parts)[m] = parts[i][k]
  BY <1>4, <1>6, FlattenLine
<1>8. Kept(seq, keep) = FlattenSeq(parts)
  BY DEF Kept, parts
<1>. QED  BY <1>2, <1>5, <1>7, <1>8

\* What is kept of a sequence is a sequence of its elements.
LEMMA KeptType ==
    ASSUME NEW X, NEW seq \in Seq(X), NEW keep
    PROVE  Kept(seq, keep) \in Seq(X)
<1>1. seq \in Line(X, X \X X)
  BY DEF Line
<1>2. Kept(seq, keep) \in Line(X, X \X X)
  BY <1>1, KeptLine
<1>. QED  BY <1>2 DEF Line

\* Two sums of the same terms go through the same steps.
LEMMA SumsAgree ==
    ASSUME NEW n \in Nat, NEW w, NEW g, NEW h, g[0] = h[0],
           \A k \in 1..n : g[k] = g[k - 1] + w[k],
           \A k \in 1..n : h[k] = h[k - 1] + w[k]
    PROVE  \A k \in 0..n : g[k] = h[k]
<1> DEFINE T == {k \in 0..n : g[k] = h[k]}
<1>1. 0 \in T
  OBVIOUS
<1>2. \A k \in 1..n : k - 1 \in T => k \in T
  OBVIOUS
<1> HIDE DEF T
<1>3. \A k \in 0..n : k \in T
  BY <1>1, <1>2, StepInduction
<1>. QED  BY <1>3 DEF T

\* The elements before an element of a finite strict order, counted.
LEMMA RankGrows ==
    ASSUME NEW N \in Nat, NEW R,
           \A i \in 1..N : <<i, i>> \notin R,
           \A i, j, k \in 1..N : <<i, j>> \in R /\ <<j, k>> \in R => <<i, k>> \in R
    PROVE  /\ \A i \in 1..N : Cardinality({j \in 1..N : <<j, i>> \in R}) \in 0..(N - 1)
           /\ \A i, j \in 1..N : <<i, j>> \in R =>
                Cardinality({k \in 1..N : <<k, i>> \in R}) < Cardinality({k \in 1..N : <<k, j>> \in R})
<1> DEFINE Below(i) == {k \in 1..N : <<k, i>> \in R}
<1>1. IsFiniteSet(1..N) /\ Cardinality(1..N) = N
  BY FS_Interval
<1>2. ASSUME NEW i \in 1..N
      PROVE  IsFiniteSet(Below(i)) /\ Cardinality(Below(i)) \in Nat
  <2>1. Below(i) \in SUBSET (1..N)
    OBVIOUS
  <2>. QED  BY <1>1, <2>1, FS_Subset, FS_CardinalityType
<1>3. ASSUME NEW i \in 1..N
      PROVE  Cardinality(Below(i)) \in 0..(N - 1)
  <2>1. Below(i) \in SUBSET ((1..N) \ {i})
    OBVIOUS
  <2>2. IsFiniteSet((1..N) \ {i}) /\ Cardinality((1..N) \ {i}) = N - 1
    BY <1>1, FS_RemoveElement
  <2>3. Cardinality(Below(i)) \in Nat
    BY <1>2
  <2> HIDE DEF Below
  <2>4. Cardinality(Below(i)) <= N - 1
    BY <2>1, <2>2, FS_Subset
  <2>. QED  BY <2>3, <2>4
<1>4. ASSUME NEW i \in 1..N, NEW j \in 1..N, <<i, j>> \in R
      PROVE  Cardinality(Below(i)) < Cardinality(Below(j))
  <2>1. Below(i) \in SUBSET Below(j)
    BY <1>4
  <2>2. i \in Below(j) /\ i \notin Below(i)
    BY <1>4
  <2>3. /\ IsFiniteSet(Below(j))
        /\ Cardinality(Below(i)) \in Nat /\ Cardinality(Below(j)) \in Nat
    BY <1>2
  <2> HIDE DEF Below
  <2>4. /\ Cardinality(Below(i)) <= Cardinality(Below(j))
        /\ Cardinality(Below(j)) = Cardinality(Below(i)) => Below(j) = Below(i)
    BY <2>1, <2>3, FS_Subset
  <2>. QED  BY <2>2, <2>3, <2>4
<1>. QED  BY <1>3, <1>4

\* A total order of N elements is numbered without a gap, and in order, by what grows along it.
LEMMA NumberingIsOnto ==
    ASSUME NEW N \in Nat, NEW R, NEW rank \in [1..N -> 0..(N - 1)],
           \A i, j \in 1..N : i # j => <<i, j>> \in R \/ <<j, i>> \in R,
           \A i, j \in 1..N : <<i, j>> \in R => rank[i] < rank[j]
    PROVE  /\ \A k \in 1..N : \E i \in 1..N : rank[i] = k - 1
           /\ \A i, j \in 1..N : rank[i] < rank[j] => <<i, j>> \in R
<1>1. IsFiniteSet(1..N) /\ Cardinality(1..N) = N
  BY FS_Interval
<1>2. IsFiniteSet(0..(N - 1)) /\ Cardinality(0..(N - 1)) = N
  <2>1. 0 \in Int /\ N - 1 \in Int
    OBVIOUS
  <2>2. IsFiniteSet(0..(N - 1)) /\ Cardinality(0..(N - 1)) = IF 0 > N - 1 THEN 0 ELSE (N - 1) - 0 + 1
    BY <2>1, FS_Interval
  <2>. QED  BY <2>2
<1>3. \A i \in 1..N : rank[i] \in Int
  OBVIOUS
<1>4. ASSUME NEW i \in 1..N, NEW j \in 1..N, i # j
      PROVE  /\ rank[i] # rank[j]
             /\ rank[i] < rank[j] => <<i, j>> \in R
  <2>1. CASE <<i, j>> \in R
    <3>1. rank[i] < rank[j]
      BY <2>1
    <3>. QED  BY <1>3, <2>1, <3>1
  <2>2. CASE <<j, i>> \in R
    <3>1. rank[j] < rank[i]
      BY <2>2
    <3>. QED  BY <1>3, <3>1
  <2>. QED  BY <1>4, <2>1, <2>2
<1>5. rank \in Injection(1..N, 0..(N - 1))
  BY <1>4, DOMAIN rank = 1..N DEF Injection, IsInjective
<1>6. rank \in Surjection(1..N, 0..(N - 1))
  BY <1>1, <1>2, <1>5, FS_Injection
<1>7. \A t \in 0..(N - 1) : \E i \in 1..N : rank[i] = t
  BY <1>6 DEF Surjection
<1>8. \A k \in 1..N : k - 1 \in 0..(N - 1)
  OBVIOUS
<1>9. \A i, j \in 1..N : rank[i] < rank[j] => <<i, j>> \in R
  BY <1>3, <1>4
<1>. QED  BY <1>7, <1>8, <1>9

IsStrictOrder(R, N) ==
    /\ \A i \in 1..N : <<i, i>> \notin R
    /\ \A i, j \in 1..N : i # j => <<i, j>> \in R \/ <<j, i>> \in R
    /\ \A i, j, k \in 1..N : <<i, j>> \in R /\ <<j, k>> \in R => <<i, k>> \in R

IsRanking(rank, R, N) ==
    rank = [i \in 1..N |-> Cardinality({j \in 1..N : <<j, i>> \in R})]

IsSorting(order, rank, N) == order = [k \in 1..N |-> CHOOSE i \in 1..N : rank[i] = k - 1]

\* The positions of a stable sort: every index comes up, and in the order of R.
LEMMA RanksSort ==
    ASSUME NEW N \in Nat, NEW R, IsStrictOrder(R, N),
           NEW rank, IsRanking(rank, R, N), NEW order, IsSorting(order, rank, N)
    PROVE  /\ order \in [1..N -> 1..N]
           /\ \A k, l \in 1..N : k < l => <<order[k], order[l]>> \in R
<1>1. /\ \A i \in 1..N : Cardinality({j \in 1..N : <<j, i>> \in R}) \in 0..(N - 1)
      /\ \A i, j \in 1..N : <<i, j>> \in R =>
           Cardinality({k \in 1..N : <<k, i>> \in R}) < Cardinality({k \in 1..N : <<k, j>> \in R})
  BY RankGrows DEF IsStrictOrder
<1>2. rank \in [1..N -> 0..(N - 1)]
  BY <1>1 DEF IsRanking
<1>3. \A i, j \in 1..N : <<i, j>> \in R => rank[i] < rank[j]
  BY <1>1 DEF IsRanking
<1>4. /\ \A k \in 1..N : \E i \in 1..N : rank[i] = k - 1
      /\ \A i, j \in 1..N : rank[i] < rank[j] => <<i, j>> \in R
  BY <1>2, <1>3, NumberingIsOnto DEF IsStrictOrder
<1>5. \A k \in 1..N : order[k] \in 1..N /\ rank[order[k]] = k - 1
  BY <1>4 DEF IsSorting
<1>6. order \in [1..N -> 1..N]
  BY <1>5 DEF IsSorting
<1>7. ASSUME NEW k \in 1..N, NEW l \in 1..N, k < l
      PROVE  <<order[k], order[l]>> \in R
  <2>1. rank[order[k]] = k - 1 /\ rank[order[l]] = l - 1
    BY <1>5
  <2>2. k - 1 < l - 1
    BY <1>7
  <2>3. order[k] \in 1..N /\ order[l] \in 1..N
    BY <1>5
  <2>4. rank[order[k]] < rank[order[l]]
    BY <2>1, <2>2
  <2>. QED  BY <1>4, <2>3, <2>4
<1>. QED  BY <1>6, <1>7
=============================================================================
