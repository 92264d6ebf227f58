-------------------------------- MODULE Sums --------------------------------
(***************************************************************************)
(* Least elements, and the sums that loops and folds compute.  A fact      *)
(* about all numbers, or all finite sets, is proved by looking at the      *)
(* least one it fails for.                                                 *)
(***************************************************************************)
EXTENDS Integers, FiniteSets, FiniteSetsExt, FiniteSetTheorems, TLAPS

(* Every set of numbers that is not empty has a least one: the intervals   *)
(* below its elements are finite sets, whose inclusion is well-founded.    *)
LEMMA LeastNumber ==
  ASSUME NEW S \in SUBSET Nat, S # {}
  PROVE  \E x \in S : \A y \in S : x <= y
  <1> DEFINE T == {0 .. x : x \in S}
  <1>1. \A x \in S : 0 .. x \in FiniteSubsetsOf(Nat)
    BY FS_Interval DEF FiniteSubsetsOf
  <1>2. T \subseteq FiniteSubsetsOf(Nat) /\ T # {}
    BY <1>1
  <1>3. PICK X \in T : \A Y \in T : <<Y, X>> \notin StrictSubsetOrdering(Nat)
    BY <1>2, FS_StrictSubsetOrderingWellFounded, WFMin
  <1>4. PICK x \in S : X = 0 .. x
    BY <1>3
  <1>5. ASSUME NEW y \in S, y < x PROVE FALSE
    <2>1. 0 .. y \in T /\ 0 .. y \subseteq X /\ 0 .. y # X
      BY <1>4, <1>5
    <2>2. <<0 .. y, X>> \in StrictSubsetOrdering(Nat)
      BY <1>4, <2>1 DEF StrictSubsetOrdering
    <2>3. QED
      BY <1>3, <2>1, <2>2
  <1>6. QED
    BY <1>5

LEMMA MinIs ==
  ASSUME NEW S \in SUBSET Nat, S # {}
  PROVE  Min(S) \in S /\ \A y \in S : Min(S) <= y
  BY LeastNumber DEF Min

LEMMA MaxIs ==
  ASSUME NEW n \in Nat, NEW S \in SUBSET (0 .. n), S # {}
  PROVE  Max(S) \in S /\ \A y \in S : y <= Max(S)
  <1> DEFINE T == {n - x : x \in S}
  <1>1. T \in SUBSET Nat /\ T # {}
    <2>1. \A x \in S : n - x \in Nat
      OBVIOUS
    <2>2. QED
      BY <2>1
  <1>2. PICK t \in T : \A y \in T : t <= y
    BY <1>1, LeastNumber
  <1>3. PICK x \in S : t = n - x
    BY <1>2
  <1>4. \A y \in S : n - x <= n - y
    BY <1>2, <1>3
  <1>5. \A y \in S : x >= y
    BY <1>4
  <1>6. \E m \in S : \A y \in S : m >= y
    BY <1>5
  <1>7. Max(S) \in S /\ \A y \in S : Max(S) >= y
    BY <1>6 DEF Max
  <1>8. QED
    BY <1>7

(* Every family of subsets of a finite set has a least one.                *)
LEMMA LeastSubset ==
  ASSUME NEW T, IsFiniteSet(T), NEW B \in SUBSET (SUBSET T), B # {}
  PROVE  \E s \in B : \A u \in B : u \subseteq s => u = s
  <1>1. B \subseteq FiniteSubsetsOf(T)
    BY FS_FiniteSubsetsOfFinite
  <1>2. PICK s \in B : \A u \in B : <<u, s>> \notin StrictSubsetOrdering(T)
    BY <1>1, FS_StrictSubsetOrderingWellFounded, WFMin
  <1>3. \A u \in B : u \subseteq s => u = s
    BY <1>2 DEF StrictSubsetOrdering
  <1>4. QED
    BY <1>3

-----------------------------------------------------------------------------
(* A loop that adds up g[0], g[1], ...: the sums it goes through exist.    *)
LEMMA RunningSum ==
  ASSUME NEW n \in Nat, NEW g \in [0 .. n - 1 -> Nat], NEW m \in 0 .. n
  PROVE  \E f \in [0 .. m -> Nat] :
           f = [i \in 0 .. m |-> IF i = 0 THEN 0 ELSE f[i - 1] + g[i - 1]]
  <1> DEFINE Sum(k, f) == f = [i \in 0 .. k |-> IF i = 0 THEN 0 ELSE f[i - 1] + g[i - 1]]
             Bad == {k \in 0 .. n : ~ \E f \in [0 .. k -> Nat] : Sum(k, f)}
  <1>1. Bad = {}
    <2> SUFFICES ASSUME Bad # {} PROVE FALSE
      OBVIOUS
    <2>1. Bad \in SUBSET Nat
      OBVIOUS
    <2>2. PICK k \in Bad : \A j \in Bad : k <= j
      BY <2>1, LeastNumber
    <2>3. CASE k = 0
      <3> DEFINE f == [i \in 0 .. 0 |-> 0]
      <3>1. f \in [0 .. 0 -> Nat] /\ Sum(0, f)
        OBVIOUS
      <3>2. QED
        BY <2>2, <2>3, <3>1
    <2>4. CASE k > 0
      <3>1. k - 1 \in 0 .. n /\ k \in 1 .. n
        BY <2>2, <2>4
      <3>a. k - 1 \notin Bad
        <4> HIDE DEF Bad
        <4>1. ~(k <= k - 1)
          BY <3>1
        <4>2. QED
          BY <2>2, <4>1
      <3>2. PICK f \in [0 .. k - 1 -> Nat] : Sum(k - 1, f)
        BY <3>1, <3>a
      <3> DEFINE h == [i \in 0 .. k |-> IF i = k THEN f[k - 1] + g[k - 1] ELSE f[i]]
      <3>3. f[k - 1] \in Nat /\ g[k - 1] \in Nat
        BY <3>1
      <3>4. h \in [0 .. k -> Nat]
        BY <3>1, <3>3
      <3>5. ASSUME NEW i \in 0 .. k PROVE h[i] = IF i = 0 THEN 0 ELSE h[i - 1] + g[i - 1]
        <4>1. CASE i = k
          BY <3>1, <4>1
        <4>2. CASE i < k
          <5>1. f[i] = IF i = 0 THEN 0 ELSE f[i - 1] + g[i - 1]
            BY <3>1, <3>2, <4>2
          <5>2. QED
            BY <3>1, <4>2, <5>1
        <4>3. QED
          BY <3>1, <4>1, <4>2
      <3>6. Sum(k, h)
        BY <3>5
      <3>7. QED
        BY <2>2, <3>4, <3>6
    <2>5. QED
      BY <2>2, <2>3, <2>4
  <1>2. QED
    BY <1>1

(* They are numbers that never get smaller.                                *)
LEMMA RunningSumIs ==
  ASSUME NEW n \in Nat, NEW g \in [0 .. n - 1 -> Nat], NEW f,
         f = [i \in 0 .. n |-> IF i = 0 THEN 0 ELSE f[i - 1] + g[i - 1]]
  PROVE  /\ f \in [0 .. n -> Nat] /\ f[0] = 0
         /\ \A i \in 0 .. n - 1 : f[i + 1] = f[i] + g[i]
         /\ \A i, j \in 0 .. n : i <= j => f[i] <= f[j]
  <1>1. f[0] = 0 /\ \A i \in 1 .. n : f[i] = f[i - 1] + g[i - 1]
    OBVIOUS
  <1>2. \A i \in 0 .. n : f[i] \in Nat
    <2> DEFINE Bad == {i \in 0 .. n : f[i] \notin Nat}
    <2> SUFFICES ASSUME Bad # {} PROVE FALSE
      OBVIOUS
    <2>1. PICK i \in Bad : \A j \in Bad : i <= j
      <3>1. Bad \in SUBSET Nat
        OBVIOUS
      <3>2. QED
        BY <3>1, LeastNumber
    <2>2. i # 0
      BY <1>1, <2>1
    <2>3. i \in 1 .. n /\ i - 1 \in 0 .. n /\ ~(i <= i - 1) /\ g[i - 1] \in Nat
      BY <2>1, <2>2
    <2>4. i - 1 \notin Bad
      <3> HIDE DEF Bad
      <3>1. QED
        BY <2>1, <2>3
    <2>5. f[i - 1] \in Nat
      BY <2>3, <2>4
    <2>6. QED
      BY <1>1, <2>1, <2>3, <2>5
  <1>3. f \in [0 .. n -> Nat]
    BY <1>2
  <1>4. \A i \in 0 .. n - 1 : f[i + 1] = f[i] + g[i]
    <2> SUFFICES ASSUME NEW i \in 0 .. n - 1 PROVE f[i + 1] = f[i] + g[i]
      OBVIOUS
    <2>1. i + 1 \in 1 .. n /\ (i + 1) - 1 = i
      OBVIOUS
    <2>2. f[i + 1] = f[(i + 1) - 1] + g[(i + 1) - 1]
      BY <1>1, <2>1
    <2>3. QED
      BY <2>1, <2>2
  <1>5. ASSUME NEW i \in 0 .. n PROVE \A j \in 0 .. n : i <= j => f[i] <= f[j]
    <2> DEFINE Bad == {j \in 0 .. n : i <= j /\ ~(f[i] <= f[j])}
    <2> SUFFICES ASSUME Bad # {} PROVE FALSE
      OBVIOUS
    <2>1. PICK j \in Bad : \A k \in Bad : j <= k
      <3>1. Bad \in SUBSET Nat
        OBVIOUS
      <3>2. QED
        BY <3>1, LeastNumber
    <2>2. j \in 0 .. n /\ i <= j /\ ~(f[i] <= f[j])
      BY <2>1
    <2>3. j # i
      BY <1>2, <2>2
    <2>4. j - 1 \in 0 .. n - 1 /\ i <= j - 1 /\ ~(j <= j - 1) /\ (j - 1) + 1 = j
      BY <2>2, <2>3
    <2>5. j - 1 \notin Bad
      <3> HIDE DEF Bad
      <3>1. QED
        BY <2>1, <2>4
    <2>6. f[i] <= f[j - 1]
      BY <2>4, <2>5
    <2>7. f[j] = f[j - 1] + g[j - 1] /\ g[j - 1] \in Nat
      BY <1>1, <2>2, <2>4
    <2>8. f[i] \in Nat /\ f[j - 1] \in Nat
      <3>1. j - 1 \in 0 .. n
        BY <2>4
      <3>2. QED
        BY <1>2, <3>1
    <2>9. QED
      BY <2>2, <2>6, <2>7, <2>8
  <1>6. QED
    BY <1>1, <1>3, <1>4, <1>5

-----------------------------------------------------------------------------
(* A fold over a set adds the value of one element after the other.        *)
Chosen(s) == CHOOSE x \in s : TRUE

AddsUp(f, D, g) ==
  f = [s \in D |-> IF s = {} THEN 0 ELSE g[Chosen(s)] + f[s \ {Chosen(s)}]]

LEMMA ChosenIs ==
  ASSUME NEW s, s # {}
  PROVE  Chosen(s) \in s
  BY DEF Chosen

(* Such a function exists on the subsets of a finite set: it is built up   *)
(* from the sets with at most k elements.                                  *)
LEMMA SetSumExists ==
  ASSUME NEW T, IsFiniteSet(T), NEW g \in [T -> Nat]
  PROVE  \E f \in [SUBSET T -> Nat] : AddsUp(f, SUBSET T, g)
  <1> DEFINE D(k) == {s \in SUBSET T : Cardinality(s) <= k}
             N == Cardinality(T)
             Bad == {k \in 0 .. N : ~ \E f \in [D(k) -> Nat] : AddsUp(f, D(k), g)}
  <1>0. /\ N \in Nat
        /\ \A s \in SUBSET T : IsFiniteSet(s) /\ Cardinality(s) \in Nat /\ Cardinality(s) <= N
    BY FS_CardinalityType, FS_Subset
  <1>1. Bad = {}
    <2> SUFFICES ASSUME Bad # {} PROVE FALSE
      OBVIOUS
    <2>1. PICK k \in Bad : \A j \in Bad : k <= j
      <3>1. Bad \in SUBSET Nat
        BY <1>0
      <3>2. QED
        BY <3>1, LeastNumber
    <2>2. k \in 0 .. N
      BY <2>1
    <2>3. CASE k = 0
      <3> DEFINE f == [s \in D(0) |-> 0]
      <3>1. \A s \in D(0) : s = {}
        BY <1>0, FS_EmptySet
      <3>2. f \in [D(0) -> Nat] /\ AddsUp(f, D(0), g)
        BY <3>1 DEF AddsUp
      <3>3. QED
        BY <2>1, <2>3, <3>2
    <2>4. CASE k > 0
      <3>1. k - 1 \in 0 .. N /\ ~(k <= k - 1)
        BY <1>0, <2>2, <2>4
      <3>2. k - 1 \notin Bad
        <4> HIDE DEF Bad
        <4>1. QED
          BY <2>1, <3>1
      <3>3. PICK f \in [D(k - 1) -> Nat] : AddsUp(f, D(k - 1), g)
        BY <3>1, <3>2
      <3> DEFINE h == [s \in D(k) |-> IF s = {} THEN 0 ELSE g[Chosen(s)] + f[s \ {Chosen(s)}]]
      <3>4. ASSUME NEW s \in D(k), s # {}
            PROVE  /\ Chosen(s) \in T /\ s \ {Chosen(s)} \in D(k - 1)
                   /\ s \ {Chosen(s)} \in D(k)
        <4>1. Chosen(s) \in s
          BY <3>4, ChosenIs
        <4>2. IsFiniteSet(s) /\ Cardinality(s) \in Nat /\ Cardinality(s) <= k
          BY <1>0
        <4>3. Cardinality(s \ {Chosen(s)}) = Cardinality(s) - 1
          BY <4>1, <4>2, FS_RemoveElement
        <4>4. Cardinality(s \ {Chosen(s)}) <= k - 1 /\ Cardinality(s \ {Chosen(s)}) <= k
          BY <2>2, <4>2, <4>3
        <4>5. QED
          BY <4>1, <4>4
      <3>5. \A s \in D(k - 1) : s \in D(k)
        BY <1>0, <2>2
      <3> HIDE DEF D
      <3>6. h \in [D(k) -> Nat]
        BY <3>4
      <3>7. \A s \in D(k - 1) : h[s] = f[s]
        BY <3>3, <3>5 DEF AddsUp
      <3>8. AddsUp(h, D(k), g)
        <4>1. \A s \in D(k) : s # {} => h[s \ {Chosen(s)}] = f[s \ {Chosen(s)}]
          BY <3>4, <3>7
        <4>2. QED
          BY <4>1 DEF AddsUp
      <3>9. QED
        BY <2>1, <3>6, <3>8
    <2>5. QED
      BY <1>0, <2>2, <2>3, <2>4
  <1>2. D(N) = SUBSET T
    BY <1>0
  <1>3. N \in 0 .. N /\ N \notin Bad
    <2>1. N \in 0 .. N
      BY <1>0
    <2>2. N \notin Bad
      BY <1>1, Zenon
    <2>3. QED
      BY <2>1, <2>2
  <1>4. QED
    BY <1>2, <1>3

(* The sum, one element at a time in any order.                            *)
AnyOrder(f, T, g) ==
  /\ f[{}] = 0
  /\ \A s \in SUBSET T : \A x \in s : f[s] = g[x] + f[s \ {x}]

(* The order in which the elements are taken does not matter.              *)
LEMMA SetSumAnyOrder ==
  ASSUME NEW T, IsFiniteSet(T), NEW g \in [T -> Nat],
         NEW f \in [SUBSET T -> Nat], AddsUp(f, SUBSET T, g)
  PROVE  AnyOrder(f, T, g)
  <1> DEFINE Bad == {s \in SUBSET T : \E x \in s : f[s] # g[x] + f[s \ {x}]}
  <1>1. f[{}] = 0
    BY DEF AddsUp
  <1>2. Bad = {}
    <2> SUFFICES ASSUME Bad # {} PROVE FALSE
      OBVIOUS
    <2>1. PICK s \in Bad : \A u \in Bad : u \subseteq s => u = s
      <3>1. Bad \in SUBSET (SUBSET T)
        OBVIOUS
      <3> HIDE DEF Bad
      <3>2. QED
        BY <3>1, LeastSubset
    <2>2. PICK x \in s : f[s] # g[x] + f[s \ {x}]
      BY <2>1
    <2> DEFINE c == Chosen(s)
    <2>3. c \in s /\ s \in SUBSET T
      BY <2>1, <2>2, ChosenIs
    <2>4. f[s] = g[c] + f[s \ {c}]
      BY <2>2, <2>3 DEF AddsUp
    <2>5. c # x
      BY <2>2, <2>4
    <2> HIDE DEF c
    <2>6. s \ {c} \in SUBSET T /\ s \ {c} \subseteq s /\ s \ {c} # s /\ x \in s \ {c}
      BY <2>2, <2>3, <2>5
    <2>7. s \ {x} \in SUBSET T /\ s \ {x} \subseteq s /\ s \ {x} # s /\ c \in s \ {x}
      BY <2>2, <2>3, <2>5
    <2>8. s \ {c} \notin Bad /\ s \ {x} \notin Bad
      <3> HIDE DEF Bad
      <3>1. QED
        BY <2>1, <2>6, <2>7
    <2>9. f[s \ {c}] = g[x] + f[(s \ {c}) \ {x}] /\ f[s \ {x}] = g[c] + f[(s \ {x}) \ {c}]
      BY <2>6, <2>7, <2>8
    <2>10. (s \ {c}) \ {x} = (s \ {x}) \ {c}
      OBVIOUS
    <2>11. /\ f[(s \ {x}) \ {c}] \in Nat /\ g[c] \in Nat /\ g[x] \in Nat
      BY <2>2, <2>3
    <2>12. f[s] = g[c] + (g[x] + f[(s \ {x}) \ {c}]) /\ f[s \ {x}] = g[c] + f[(s \ {x}) \ {c}]
      BY <2>4, <2>9, <2>10, Zenon
    <2>13. QED
      BY <2>2, <2>11, <2>12
  <1>3. QED
    BY <1>1, <1>2 DEF AnyOrder

(* A function that adds up on the subsets of a set also does so on the    *)
(* subsets of a smaller set,                                               *)
LEMMA SetSumWithin ==
  ASSUME NEW T, NEW g \in [T -> Nat],
         NEW f \in [SUBSET T -> Nat], AddsUp(f, SUBSET T, g),
         NEW S \in SUBSET T
  PROVE  AddsUp([s \in SUBSET S |-> f[s]], SUBSET S, g)
  <1>1. \A s \in SUBSET S : s # {} => s \ {Chosen(s)} \in SUBSET S
    OBVIOUS
  <1>2. \A s \in SUBSET S : f[s] = IF s = {} THEN 0 ELSE g[Chosen(s)] + f[s \ {Chosen(s)}]
    BY DEF AddsUp
  <1>3. QED
    BY <1>1, <1>2 DEF AddsUp

(* and no other function adds up on the subsets of the smaller set.        *)
LEMMA SetSum ==
  ASSUME NEW T, IsFiniteSet(T), NEW g \in [T -> Nat],
         NEW f \in [SUBSET T -> Nat], AddsUp(f, SUBSET T, g),
         NEW S \in SUBSET T, NEW h, AddsUp(h, SUBSET S, g)
  PROVE  h[S] = f[S]
  <1> DEFINE Bad == {s \in SUBSET S : h[s] # f[s]}
  <1>1. Bad = {}
    <2> SUFFICES ASSUME Bad # {} PROVE FALSE
      OBVIOUS
    <2>0. IsFiniteSet(S)
      BY FS_Subset
    <2>1. PICK s \in Bad : \A u \in Bad : u \subseteq s => u = s
      <3>1. Bad \in SUBSET (SUBSET S)
        OBVIOUS
      <3> HIDE DEF Bad
      <3>2. QED
        BY <2>0, <3>1, LeastSubset
    <2>2. s # {}
      BY <2>1 DEF AddsUp
    <2>3. Chosen(s) \in s
      BY <2>2, ChosenIs
    <2>4. s \ {Chosen(s)} \in SUBSET S /\ s \ {Chosen(s)} # s /\ s \ {Chosen(s)} \subseteq s
      BY <2>1, <2>3
    <2>5. s \ {Chosen(s)} \notin Bad
      <3> HIDE DEF Bad
      <3>1. QED
        BY <2>1, <2>4
    <2>6. h[s \ {Chosen(s)}] = f[s \ {Chosen(s)}]
      BY <2>4, <2>5
    <2>7. h[s] = g[Chosen(s)] + h[s \ {Chosen(s)}] /\ f[s] = g[Chosen(s)] + f[s \ {Chosen(s)}]
      BY <2>1, <2>2 DEF AddsUp
    <2>8. QED
      BY <2>1, <2>6, <2>7
  <1>2. QED
    BY <1>1
=============================================================================
