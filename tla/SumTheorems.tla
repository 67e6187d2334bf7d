----------------------------- MODULE SumTheorems ----------------------------
(***************************************************************************)
(* What SumFunctionOnSet computes: the facts about sums over finite sets   *)
(* that the proofs about money rest on.                                    *)
(*                                                                         *)
(* The sum is a recursive function on the subsets of the index set.  The   *)
(* lemmas are proved by induction over finite sets in a form without a     *)
(* predicate parameter: a set of subsets that is not empty has a member    *)
(* none of whose proper subsets are in it.                                 *)
(***************************************************************************)
EXTENDS Functions, FiniteSetTheorems, TLAPS

\* A set of subsets of a finite set has a smallest member.
LEMMA SmallestSubset ==
  ASSUME NEW S, IsFiniteSet(S), NEW B \in SUBSET SUBSET S, B # {}
  PROVE  \E T \in B : \A U \in SUBSET T : U # T => U \notin B
  <1>1. IsWellFoundedOn(StrictSubsetOrdering(S), SUBSET S)
    BY FS_StrictSubsetOrderingWellFounded, FS_FiniteSubsetsOfFinite
  <1>2. PICK T \in B : \A U \in B : ~(<<U, T>> \in StrictSubsetOrdering(S))
    BY <1>1, WFMin
  <1>3. \A U \in SUBSET T : U # T /\ U \in B => <<U, T>> \in StrictSubsetOrdering(S)
    BY DEF StrictSubsetOrdering
  <1>4. \A U \in SUBSET T : U # T => U \notin B
    BY <1>2, <1>3
  <1> QED
    BY <1>4

\* The least-number principle, in the same form.
LEMMA SmallestNumber ==
  ASSUME NEW n \in Nat, NEW B \in SUBSET (0..n), B # {}
  PROVE  \E k \in B : \A j \in 0..(k - 1) : j \notin B
  <1> DEFINE C == {1..k : k \in B}
  <1>1. IsFiniteSet(1..n) /\ C \in SUBSET SUBSET (1..n) /\ C # {}
    <2>1. IsFiniteSet(1..n)
      BY FS_Interval
    <2>2. \A k \in B : (1..k) \in SUBSET (1..n)
      OBVIOUS
    <2> QED
      BY <2>1, <2>2
  <1>2. PICK T \in C : \A U \in SUBSET T : U # T => U \notin C
    <2> HIDE DEF C
    <2>1. PICK S : S = 1..n
      OBVIOUS
    <2>2. IsFiniteSet(S) /\ C \in SUBSET SUBSET S /\ C # {}
      BY <1>1, <2>1
    <2> QED
      BY <2>2, SmallestSubset
  <1>3. PICK k \in B : T = 1..k
    OBVIOUS
  <1>4. ASSUME NEW j \in 0..(k - 1), j \in B PROVE FALSE
    <2>1. (1..j) \in C /\ (1..j) \in SUBSET T
      BY <1>3, <1>4
    <2>2. k \in T /\ k \notin 1..j
      BY <1>3, <1>4
    <2> QED
      BY <1>2, <2>1, <2>2
  <1> QED
    BY <1>4

\* Induction over an interval: a set that has 0, and k + 1 with k, has them all.
LEMMA CountUp ==
  ASSUME NEW n \in Nat, NEW A, 0 \in A, \A k \in 0..(n - 1) : k \in A => k + 1 \in A
  PROVE  \A k \in 0..n : k \in A
  <1> DEFINE B == {k \in 0..n : k \notin A}
  <1>1. ASSUME NEW k \in B, \A j \in 0..(k - 1) : j \notin B PROVE FALSE
    <2>1. k # 0 /\ k \in 0..n
      OBVIOUS
    <2>2. k - 1 \in 0..(k - 1) /\ k - 1 \in 0..(n - 1) /\ k - 1 \in 0..n /\ (k - 1) + 1 = k
      BY <2>1
    <2>3. k - 1 \in A
      BY <1>1, <2>2
    <2> QED
      BY <2>2, <2>3
  <1>2. B \in SUBSET (0..n)
    OBVIOUS
  <1>3. B = {}
    <2> HIDE DEF B
    <2> QED
      BY <1>1, <1>2, SmallestNumber
  <1> QED
    BY <1>3

\* The same downwards: a set that has n + 1, and i with i + 1, has 1..(n + 1).
LEMMA CountDown ==
  ASSUME NEW n \in Nat, NEW A, n + 1 \in A, \A i \in 1..n : i + 1 \in A => i \in A
  PROVE  \A i \in 1..(n + 1) : i \in A
  <1> DEFINE C == {k \in 0..n : n + 1 - k \in A}
  <1>1. 0 \in C
    OBVIOUS
  <1>2. ASSUME NEW k \in 0..(n - 1), k \in C PROVE k + 1 \in C
    <2>1. n - k \in 1..n /\ (n - k) + 1 = n + 1 - k /\ n + 1 - (k + 1) = n - k /\ k + 1 \in 0..n
      OBVIOUS
    <2>2. n - k \in A
      BY <1>2, <2>1
    <2> QED
      BY <2>1, <2>2
  <1>3. \A k \in 0..n : k \in C
    <2> HIDE DEF C
    <2> QED
      BY <1>1, <1>2, CountUp
  <1>4. ASSUME NEW i \in 1..(n + 1) PROVE i \in A
    <2>1. n + 1 - i \in 0..n /\ n + 1 - (n + 1 - i) = i
      OBVIOUS
    <2>2. n + 1 - i \in C
      BY <1>3, <2>1
    <2> QED
      BY <2>1, <2>2
  <1> QED
    BY <1>4

First(s) == CHOOSE x \in s : TRUE

\* g is the recursive function that sums f over the subsets of S.
Sums(f, S, g) ==
  g = [s \in SUBSET S |-> IF s = {} THEN 0 ELSE f[First(s)] + g[s \ {First(s)}]]

\* The element that the sum takes first is an element.
LEMMA FirstIsElement ==
  ASSUME NEW s, s # {}
  PROVE  First(s) \in s /\ s \ {First(s)} \subseteq s /\ s \ {First(s)} # s
  BY DEF First

\* The library's sum is the value of that function at S.
LEMMA SumIsChoice ==
  ASSUME NEW f, NEW S
  PROVE  SumFunctionOnSet(f, S) = (CHOOSE g : Sums(f, S, g))[S]
  BY DEF SumFunctionOnSet, FoldFunctionOnSet, MapThenFoldSet, Sums, First

\* Its value at one subset.
LEMMA SumsAt ==
  ASSUME NEW f, NEW S, NEW g, Sums(f, S, g), NEW s \in SUBSET S
  PROVE  g[s] = IF s = {} THEN 0 ELSE f[First(s)] + g[s \ {First(s)}]
  BY DEF Sums

\* A function that sums over S sums over the subsets of S.
LEMMA SumsRestrict ==
  ASSUME NEW f, NEW S, NEW g, Sums(f, S, g), NEW T \in SUBSET S
  PROVE  Sums(f, T, [s \in SUBSET T |-> g[s]])
  <1> DEFINE h == [s \in SUBSET T |-> g[s]]
  <1>1. ASSUME NEW s \in SUBSET T
        PROVE  h[s] = IF s = {} THEN 0 ELSE f[First(s)] + h[s \ {First(s)}]
    <2>1. s \in SUBSET S /\ s \ {First(s)} \in SUBSET T
      OBVIOUS
    <2>2. g[s] = IF s = {} THEN 0 ELSE f[First(s)] + g[s \ {First(s)}]
      BY <2>1 DEF Sums
    <2> QED
      BY <2>1, <2>2
  <1>2. h = [s \in SUBSET T |-> IF s = {} THEN 0 ELSE f[First(s)] + h[s \ {First(s)}]]
    BY <1>1
  <1> QED
    BY <1>2 DEF Sums

\* There is at most one such function.
LEMMA SumsUnique ==
  ASSUME NEW f, NEW S, IsFiniteSet(S), NEW g, NEW h, Sums(f, S, g), Sums(f, S, h)
  PROVE  g = h
  <1> DEFINE B == {s \in SUBSET S : g[s] # h[s]}
  <1>0. B \in SUBSET SUBSET S
    OBVIOUS
  <1>1. ASSUME B # {} PROVE FALSE
    <2> HIDE DEF B
    <2>1. PICK s \in B : \A u \in SUBSET s : u # s => u \notin B
      BY <1>0, <1>1, SmallestSubset
    <2> USE DEF B
    <2>2. /\ g[s] = IF s = {} THEN 0 ELSE f[First(s)] + g[s \ {First(s)}]
          /\ h[s] = IF s = {} THEN 0 ELSE f[First(s)] + h[s \ {First(s)}]
      BY DEF Sums
    <2>3. s # {}
      BY <2>2
    <2>4. s \ {First(s)} \notin B
      BY <2>1, <2>3, FirstIsElement
    <2>5. g[s \ {First(s)}] = h[s \ {First(s)}]
      BY <2>4
    <2> QED
      BY <2>2, <2>5
  <1>2. \A s \in SUBSET S : g[s] = h[s]
    BY <1>1
  <1>3. /\ g = [s \in SUBSET S |-> g[s]]
        /\ h = [s \in SUBSET S |-> h[s]]
    BY DEF Sums
  <1> QED
    BY <1>2, <1>3

\* There is one, so the recursive definition of the sum is sound.
LEMMA SumsExists ==
  ASSUME NEW f, NEW S, IsFiniteSet(S)
  PROVE  \E g : Sums(f, S, g)
  <1> DEFINE B == {T \in SUBSET S : ~ \E g : Sums(f, T, g)}
             G(T) == CHOOSE g : Sums(f, T, g)
  <1>1. ASSUME NEW T \in B, \A U \in SUBSET T : U # T => U \notin B
        PROVE  FALSE
    <2> DEFINE h == [s \in SUBSET T |->
                       IF s = {} THEN 0
                       ELSE f[First(s)] + G(s \ {First(s)})[s \ {First(s)}]]
    <2>1. ASSUME NEW U \in SUBSET T, U # T
          PROVE  Sums(f, U, G(U))
      <3>1. \E g : Sums(f, U, g)
        BY <1>1, <2>1
      <3> QED
        BY <3>1
    <2> HIDE DEF G
    <2>2. ASSUME NEW U \in SUBSET T, U # T, NEW V \in SUBSET U
          PROVE  G(U)[V] = G(V)[V]
      <3>1. Sums(f, U, G(U)) /\ V \in SUBSET T /\ V # T
        BY <2>1, <2>2
      <3>2. Sums(f, V, G(V))
        BY <2>1, <3>1
      <3>3. Sums(f, V, [s \in SUBSET V |-> G(U)[s]])
        BY <3>1, SumsRestrict
      <3>4. IsFiniteSet(V)
        BY <3>1, FS_Subset
      <3>5. G(V) = [s \in SUBSET V |-> G(U)[s]]
        BY <3>2, <3>3, <3>4, SumsUnique
      <3> QED
        BY <3>5
    <2>3. ASSUME NEW u \in SUBSET T, u # T
          PROVE  h[u] = G(u)[u]
      <3>1. G(u)[u] = IF u = {} THEN 0 ELSE f[First(u)] + G(u)[u \ {First(u)}]
        BY <2>1, <2>3, SumsAt
      <3>2. G(u)[u \ {First(u)}] = G(u \ {First(u)})[u \ {First(u)}]
        BY <2>2, <2>3
      <3> QED
        BY <3>1, <3>2
    <2>4. ASSUME NEW s \in SUBSET T, s # {}
          PROVE  h[s] = f[First(s)] + h[s \ {First(s)}]
      <3>1. s \ {First(s)} \in SUBSET T /\ s \ {First(s)} # T
        BY <2>4, FirstIsElement
      <3> QED
        BY <2>3, <2>4, <3>1
    <2>5. h[{}] = 0
      OBVIOUS
    <2>6. h = [s \in SUBSET T |-> h[s]]
      OBVIOUS
    <2> HIDE DEF h
    <2>7. \A s \in SUBSET T : h[s] = IF s = {} THEN 0 ELSE f[First(s)] + h[s \ {First(s)}]
      BY <2>4, <2>5
    <2>8. Sums(f, T, h)
      BY <2>6, <2>7 DEF Sums
    <2> QED
      BY <2>8
  <1>2. B \in SUBSET SUBSET S
    OBVIOUS
  <1>3. B = {}
    <2> HIDE DEF B
    <2> QED
      BY <1>1, <1>2, SmallestSubset
  <1>4. S \notin B
    BY <1>3
  <1> QED
    BY <1>4

-----------------------------------------------------------------------------
(* The sum *)

\* One recursive function gives the sums over all subsets.
LEMMA SumIsSums ==
  ASSUME NEW f, NEW S, IsFiniteSet(S)
  PROVE  \E g : Sums(f, S, g) /\ \A T \in SUBSET S : SumFunctionOnSet(f, T) = g[T]
  <1>1. PICK g : Sums(f, S, g)
    BY SumsExists
  <1>2. ASSUME NEW T \in SUBSET S
        PROVE  SumFunctionOnSet(f, T) = g[T]
    <2> DEFINE h == CHOOSE k : Sums(f, T, k)
    <2>1. IsFiniteSet(T)
      BY FS_Subset
    <2>2. Sums(f, T, h)
      BY <2>1, SumsExists
    <2>3. SumFunctionOnSet(f, T) = h[T]
      BY SumIsChoice
    <2> HIDE DEF h
    <2>4. Sums(f, T, [s \in SUBSET T |-> g[s]])
      BY <1>1, SumsRestrict
    <2>5. h = [s \in SUBSET T |-> g[s]]
      BY <2>1, <2>2, <2>4, SumsUnique
    <2> QED
      BY <2>3, <2>5
  <1> QED
    BY <1>1, <1>2

\* The sum of nothing is 0.
LEMMA SumEmpty ==
  ASSUME NEW f
  PROVE  SumFunctionOnSet(f, {}) = 0
  <1>1. PICK g : Sums(f, {}, g) /\ \A T \in SUBSET {} : SumFunctionOnSet(f, T) = g[T]
    BY SumIsSums, FS_EmptySet
  <1>2. {} \in SUBSET {}
    OBVIOUS
  <1> QED
    BY <1>1, <1>2, SumsAt

\* One step of the recursion.
LEMMA SumFirst ==
  ASSUME NEW f, NEW S, IsFiniteSet(S), S # {}
  PROVE  SumFunctionOnSet(f, S) = f[First(S)] + SumFunctionOnSet(f, S \ {First(S)})
  <1>1. PICK g : Sums(f, S, g) /\ \A T \in SUBSET S : SumFunctionOnSet(f, T) = g[T]
    BY SumIsSums
  <1>2. S \in SUBSET S /\ S \ {First(S)} \in SUBSET S
    OBVIOUS
  <1>3. g[S] = f[First(S)] + g[S \ {First(S)}]
    BY <1>1, <1>2, SumsAt
  <1> QED
    BY <1>1, <1>2, <1>3

\* A sum of integers is an integer.
LEMMA SumType ==
  ASSUME NEW f, NEW S, IsFiniteSet(S), \A x \in S : f[x] \in Int
  PROVE  SumFunctionOnSet(f, S) \in Int
  <1> DEFINE B == {T \in SUBSET S : SumFunctionOnSet(f, T) \notin Int}
  <1>1. ASSUME NEW T \in SUBSET S, \A U \in SUBSET T : U # T => U \notin B
        PROVE  T \notin B
    <2>1. CASE T = {}
      BY <2>1, SumEmpty
    <2>2. CASE T # {}
      <3>1. First(T) \in T /\ T \ {First(T)} \in SUBSET T /\ T \ {First(T)} # T
        BY <2>2, FirstIsElement
      <3>2. SumFunctionOnSet(f, T \ {First(T)}) \in Int
        BY <1>1, <3>1
      <3>3. IsFiniteSet(T)
        BY FS_Subset
      <3>4. SumFunctionOnSet(f, T) = f[First(T)] + SumFunctionOnSet(f, T \ {First(T)})
        BY <2>2, <3>3, SumFirst
      <3> QED
        BY <3>1, <3>2, <3>4
    <2> QED
      BY <2>1, <2>2
  <1>2. B \in SUBSET SUBSET S
    OBVIOUS
  <1>3. B = {}
    <2> HIDE DEF B
    <2> QED
      BY <1>1, <1>2, SmallestSubset
  <1>4. S \notin B
    BY <1>3
  <1> QED
    BY <1>4

\* The order of the elements does not matter: any of them may be taken out first.
LEMMA SumRemove ==
  ASSUME NEW f, NEW S, IsFiniteSet(S), \A y \in S : f[y] \in Int, NEW x \in S
  PROVE  SumFunctionOnSet(f, S) = f[x] + SumFunctionOnSet(f, S \ {x})
  <1> DEFINE Sum(T) == SumFunctionOnSet(f, T)
             B == {T \in SUBSET S : \E y \in T : Sum(T) # f[y] + Sum(T \ {y})}
  <1>1. ASSUME NEW T \in SUBSET S, \A U \in SUBSET T : U # T => U \notin B
        PROVE  T \notin B
    <2> SUFFICES ASSUME NEW y \in T
                 PROVE  Sum(T) = f[y] + Sum(T \ {y})
      OBVIOUS
    <2> DEFINE c == First(T)
               U == T \ {c}
               V == T \ {y}
               W == (T \ {c}) \ {y}
    <2>1. c \in T /\ IsFiniteSet(T)
      BY FirstIsElement, FS_Subset
    <2>2. Sum(T) = f[c] + Sum(U)
      BY <2>1, SumFirst
    <2>3. CASE y = c
      BY <2>2, <2>3
    <2>4. CASE y # c
      <3>1. U \in SUBSET T /\ U # T /\ y \in U /\ V \in SUBSET T /\ V # T /\ c \in V
        BY <2>1, <2>4
      <3>2. V \ {c} = W /\ U \ {y} = W
        OBVIOUS
      <3>3. U \notin B /\ V \notin B /\ U \in SUBSET S /\ V \in SUBSET S
        BY <1>1, <3>1
      <3>4. Sum(U) = f[y] + Sum(W)
        BY <3>1, <3>2, <3>3
      <3>5. Sum(V) = f[c] + Sum(W)
        BY <3>1, <3>2, <3>3
      <3>6. f[c] \in Int /\ f[y] \in Int
        BY <2>1
      <3>7. Sum(W) \in Int
        <4>1. IsFiniteSet(W) /\ \A z \in W : f[z] \in Int
          BY FS_Subset
        <4> QED
          BY <4>1, SumType
      <3> HIDE DEF Sum, U, V, W, c
      <3> QED
        BY <2>2, <3>4, <3>5, <3>6, <3>7 DEF V
    <2> QED
      BY <2>3, <2>4
  <1>2. B \in SUBSET SUBSET S
    OBVIOUS
  <1>3. B = {}
    <2> HIDE DEF B
    <2> QED
      BY <1>1, <1>2, SmallestSubset
  <1>4. S \notin B
    BY <1>3
  <1> QED
    BY <1>4

\* One element more.
LEMMA SumAdd ==
  ASSUME NEW f, NEW S, IsFiniteSet(S), NEW x, x \notin S, \A y \in S \cup {x} : f[y] \in Int
  PROVE  SumFunctionOnSet(f, S \cup {x}) = SumFunctionOnSet(f, S) + f[x]
  <1>1. IsFiniteSet(S \cup {x}) /\ (S \cup {x}) \ {x} = S
    BY FS_AddElement
  <1>2. SumFunctionOnSet(f, S \cup {x}) = f[x] + SumFunctionOnSet(f, S)
    BY <1>1, SumRemove
  <1>3. SumFunctionOnSet(f, S) \in Int /\ f[x] \in Int
    BY SumType
  <1> QED
    BY <1>2, <1>3

\* The sum depends on the values on the index set only.
LEMMA SumSame ==
  ASSUME NEW f, NEW g, NEW S, IsFiniteSet(S), \A x \in S : f[x] = g[x]
  PROVE  SumFunctionOnSet(f, S) = SumFunctionOnSet(g, S)
  <1> DEFINE B == {T \in SUBSET S : SumFunctionOnSet(f, T) # SumFunctionOnSet(g, T)}
  <1>1. ASSUME NEW T \in SUBSET S, \A U \in SUBSET T : U # T => U \notin B
        PROVE  T \notin B
    <2>1. CASE T = {}
      BY <2>1, SumEmpty
    <2>2. CASE T # {}
      <3>1. First(T) \in T /\ T \ {First(T)} \in SUBSET T /\ T \ {First(T)} # T
        BY <2>2, FirstIsElement
      <3>2. SumFunctionOnSet(f, T \ {First(T)}) = SumFunctionOnSet(g, T \ {First(T)})
        BY <1>1, <3>1
      <3>3. IsFiniteSet(T)
        BY FS_Subset
      <3>4. /\ SumFunctionOnSet(f, T) = f[First(T)] + SumFunctionOnSet(f, T \ {First(T)})
            /\ SumFunctionOnSet(g, T) = g[First(T)] + SumFunctionOnSet(g, T \ {First(T)})
        BY <2>2, <3>3, SumFirst
      <3> QED
        BY <3>1, <3>2, <3>4
    <2> QED
      BY <2>1, <2>2
  <1>2. B \in SUBSET SUBSET S
    OBVIOUS
  <1>3. B = {}
    <2> HIDE DEF B
    <2> QED
      BY <1>1, <1>2, SmallestSubset
  <1>4. S \notin B
    BY <1>3
  <1> QED
    BY <1>4

\* A change at one index changes the sum by as much.
LEMMA SumUpdate ==
  ASSUME NEW f, NEW g, NEW S, IsFiniteSet(S), NEW x \in S,
         \A y \in S : f[y] \in Int /\ g[y] \in Int,
         \A y \in S : y # x => f[y] = g[y]
  PROVE  SumFunctionOnSet(g, S) = SumFunctionOnSet(f, S) + (g[x] - f[x])
  <1>1. IsFiniteSet(S \ {x})
    BY FS_RemoveElement
  <1>2. SumFunctionOnSet(f, S \ {x}) = SumFunctionOnSet(g, S \ {x})
    BY <1>1, SumSame
  <1>3. SumFunctionOnSet(f, S \ {x}) \in Int
    BY <1>1, SumType
  <1>4. SumFunctionOnSet(f, S) = f[x] + SumFunctionOnSet(f, S \ {x})
    BY SumRemove
  <1>5. SumFunctionOnSet(g, S) = g[x] + SumFunctionOnSet(g, S \ {x})
    BY SumRemove
  <1>6. f[x] \in Int /\ g[x] \in Int
    OBVIOUS
  <1> QED
    BY <1>2, <1>3, <1>4, <1>5, <1>6

\* A sum of zeros is 0.
LEMMA SumZero ==
  ASSUME NEW f, NEW S, IsFiniteSet(S), \A x \in S : f[x] = 0
  PROVE  SumFunctionOnSet(f, S) = 0
  <1> DEFINE B == {T \in SUBSET S : SumFunctionOnSet(f, T) # 0}
  <1>1. ASSUME NEW T \in SUBSET S, \A U \in SUBSET T : U # T => U \notin B
        PROVE  T \notin B
    <2>1. CASE T = {}
      BY <2>1, SumEmpty
    <2>2. CASE T # {}
      <3>1. First(T) \in T /\ T \ {First(T)} \in SUBSET T /\ T \ {First(T)} # T
        BY <2>2, FirstIsElement
      <3>2. SumFunctionOnSet(f, T \ {First(T)}) = 0 /\ f[First(T)] = 0
        BY <1>1, <3>1
      <3>3. IsFiniteSet(T)
        BY FS_Subset
      <3>4. SumFunctionOnSet(f, T) = f[First(T)] + SumFunctionOnSet(f, T \ {First(T)})
        BY <2>2, <3>3, SumFirst
      <3> QED
        BY <3>2, <3>4
    <2> QED
      BY <2>1, <2>2
  <1>2. B \in SUBSET SUBSET S
    OBVIOUS
  <1>3. B = {}
    <2> HIDE DEF B
    <2> QED
      BY <1>1, <1>2, SmallestSubset
  <1>4. S \notin B
    BY <1>3
  <1> QED
    BY <1>4

\* Without some of its terms a sum of naturals is no larger.
LEMMA SumSubset ==
  ASSUME NEW f, NEW S, IsFiniteSet(S), \A x \in S : f[x] \in Nat, NEW T \in SUBSET S
  PROVE  SumFunctionOnSet(f, T) <= SumFunctionOnSet(f, S)
  <1> DEFINE Sum(U) == SumFunctionOnSet(f, U)
             B == {U \in SUBSET S : T \subseteq U /\ ~(Sum(T) <= Sum(U))}
  <1>0. \A U \in SUBSET S : Sum(U) \in Int /\ IsFiniteSet(U)
    BY SumType, FS_Subset
  <1>1. ASSUME NEW U \in SUBSET S, \A V \in SUBSET U : V # U => V \notin B, T \subseteq U
        PROVE  Sum(T) <= Sum(U)
    <2>1. CASE T = U
      BY <1>0, <2>1
    <2>2. CASE T # U
      <3>1. PICK x \in U : x \notin T
        BY <1>1, <2>2
      <3>2. U \ {x} \in SUBSET U /\ U \ {x} # U /\ T \subseteq U \ {x} /\ U \ {x} \in SUBSET S
        BY <1>1, <3>1
      <3>3. Sum(T) <= Sum(U \ {x})
        BY <1>1, <3>2
      <3>4. Sum(U) = f[x] + Sum(U \ {x})
        BY <1>0, SumRemove
      <3>5. Sum(T) \in Int /\ Sum(U \ {x}) \in Int /\ f[x] \in Nat
        BY <1>0, <3>2
      <3> HIDE DEF Sum
      <3> QED
        BY <3>3, <3>4, <3>5
    <2> QED
      BY <2>1, <2>2
  <1>2. B \in SUBSET SUBSET S
    OBVIOUS
  <1>3. B = {}
    <2>1. \A U \in B : ~ \A V \in SUBSET U : V # U => V \notin B
      BY <1>1
    <2> HIDE DEF B
    <2> QED
      BY <1>2, <2>1, SmallestSubset
  <1>4. S \notin B
    BY <1>3
  <1> QED
    BY <1>4
=============================================================================
