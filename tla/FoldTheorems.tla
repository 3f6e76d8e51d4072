---------------------------- MODULE FoldTheorems ----------------------------
(***************************************************************************)
(* Facts about data that need an induction: what a fold of the community   *)
(* modules does step by step, and that a finite set can be sorted.         *)
(*                                                                         *)
(* The induction theorems of the library take an operator; here the        *)
(* induction is over a set, from the theorem that strict inclusion of      *)
(* finite sets is well founded.                                            *)
(***************************************************************************)
EXTENDS Integers, SequencesExt, FiniteSetsExt, FiniteSetTheorems, SequenceTheorems, TLAPS

\* A set of subsets of a finite set has a minimal one.
LEMMA MinimalSubset ==
  ASSUME NEW D, IsFiniteSet(D), NEW T, T \subseteq SUBSET D, T # {}
  PROVE  \E s \in T : \A t \in T : t \subseteq s => t = s
<1>1. T \subseteq FiniteSubsetsOf(D)
  BY FS_Subset DEF FiniteSubsetsOf
<1>2. \E s \in T : \A t \in T : ~ (<<t, s>> \in StrictSubsetOrdering(D))
  BY <1>1, FS_StrictSubsetOrderingWellFounded, WFMin
<1>3. \A s, t \in SUBSET D : t \subseteq s /\ t # s => <<t, s>> \in StrictSubsetOrdering(D)
  BY DEF StrictSubsetOrdering
<1> QED
  BY <1>2, <1>3

\* A set of naturals that is not empty has a least element.
LEMMA LeastNatural ==
  ASSUME NEW T, T \subseteq Nat, T # {}
  PROVE  \E k \in T : \A j \in T : k <= j
<1>1. PICK n \in T : n \in Nat
  OBVIOUS
<1> DEFINE segments == {0..k : k \in {j \in T : j <= n}}
<1>2. segments \subseteq SUBSET (0..n)
  OBVIOUS
<1>3. 0..n \in segments /\ IsFiniteSet(0..n)
  BY <1>1, FS_Interval
<1>4. \E s \in segments : \A t \in segments : t \subseteq s => t = s
  <2> DEFINE D == 0..n
  <2>1. segments # {} /\ segments \subseteq SUBSET D /\ IsFiniteSet(D)
    BY <1>2, <1>3
  <2> HIDE DEF segments, D
  <2> QED
    BY <2>1, MinimalSubset
<1>5. PICK k \in T : k <= n /\ \A t \in segments : t \subseteq 0..k => t = 0..k
  BY <1>4
<1>6. ASSUME NEW j \in T, j < k PROVE FALSE
  <2>1. 0..j \in segments /\ 0..j \subseteq 0..k
    BY <1>1, <1>5, <1>6
  <2>2. 0..j = 0..k
    BY <1>5, <2>1
  <2>3. k \in 0..k /\ k \notin 0..j
    BY <1>6
  <2> QED
    BY <2>2, <2>3
<1> QED
  BY <1>5, <1>6

\* Induction up to n.
LEMMA UpTo ==
  ASSUME NEW n \in Nat, NEW S, 0 \in S, \A k \in 1..n : k - 1 \in S => k \in S
  PROVE  \A k \in 0..n : k \in S
<1> DEFINE T == {k \in 0..n : k \notin S}
<1>1. SUFFICES ASSUME T # {} PROVE FALSE
  OBVIOUS
<1>2. T \subseteq Nat
  OBVIOUS
<1>3. PICK k \in T : \A j \in T : k <= j
  <2> HIDE DEF T
  <2> QED
    BY <1>1, <1>2, LeastNatural
<1>4. k \in 1..n /\ k - 1 \in 0..n
  OBVIOUS
<1>5. k - 1 \in S
  BY <1>3, <1>4
<1> QED
  BY <1>4, <1>5

\* The greatest of a set of places.
LEMMA MaxOfPlaces ==
  ASSUME NEW n \in Nat, NEW S \in SUBSET (1..n), S # {}
  PROVE  Max(S) \in S /\ \A j \in S : j <= Max(S)
<1> DEFINE T == {k \in Nat : \A j \in S : j <= k}
<1>1. n \in T /\ T \subseteq Nat
  OBVIOUS
<1>2. PICK m \in T : \A k \in T : m <= k
  <2> HIDE DEF T
  <2> QED
    BY <1>1, LeastNatural
<1>3. m \in S
  <2> SUFFICES ASSUME m \notin S PROVE FALSE
    OBVIOUS
  <2>1. m \in Nat /\ \A j \in S : j <= m /\ j # m
    OBVIOUS
  <2>2. m # 0 /\ \A j \in S : j <= m - 1
    <3>1. \A j \in S : j \in Int /\ 1 <= j
      OBVIOUS
    <3>2. \A j \in S : j <= m - 1
      BY <2>1, <3>1
    <3>3. PICK x \in S : TRUE
      OBVIOUS
    <3> QED
      BY <2>1, <3>1, <3>2, <3>3
  <2>3. m - 1 \in T
    BY <2>1, <2>2
  <2> QED
    BY <1>2, <2>1, <2>3
<1>4. \A j \in S : m >= j
  OBVIOUS
<1>5. \E x \in S : \A y \in S : x >= y
  BY <1>3, <1>4
<1>6. Max(S) \in S /\ \A y \in S : Max(S) >= y
  BY <1>5 DEF Max
<1> QED
  BY <1>6

\* The last place of a segment, and the places before it.
LEMMA MaxOfSegment ==
  ASSUME NEW n \in Nat, NEW k \in 1..n
  PROVE  Max(1..k) = k /\ (1..k) \ {k} = 1..(k - 1)
<1>1. 1..k \in SUBSET (1..n) /\ k \in 1..k
  OBVIOUS
<1>2. Max(1..k) \in 1..k /\ k <= Max(1..k)
  BY <1>1, MaxOfPlaces
<1> QED
  BY <1>2

\* F follows the recursion of a fold over the subsets of S that takes the element choice[s]
\* of s and folds what is left.
FoldsBy(F, S, base, choice, step) ==
  \A s \in SUBSET S :
     F[s] = IF s = {} THEN base ELSE step[<<choice[s], F[s \ {choice[s]}]>>]

\* The recursion of a fold has a solution, whatever it does with an element and what it
\* has so far.
LEMMA FoldByExists ==
  ASSUME NEW S, IsFiniteSet(S), NEW T, NEW base \in T, NEW step \in [S \X T -> T],
         NEW choice, \A s \in SUBSET S : s # {} => choice[s] \in s
  PROVE  \E F \in [SUBSET S -> T] : FoldsBy(F, S, base, choice, step)
<1> DEFINE n == Cardinality(S)
           rec(F, s) == IF s = {} THEN base ELSE step[<<choice[s], F[s \ {choice[s]}]>>]
           small(k) == {s \in SUBSET S : Cardinality(s) <= k}
           K == {k \in 0..n : \E F \in [SUBSET S -> T] : \A s \in small(k) : F[s] = rec(F, s)}
<1>1. /\ n \in Nat
      /\ \A s \in SUBSET S : Cardinality(s) \in Nat /\ Cardinality(s) <= n
      /\ \A s \in SUBSET S : Cardinality(s) = 0 => s = {}
  BY FS_CardinalityType, FS_Subset, FS_EmptySet
<1>2. 0 \in K
  <2> DEFINE F == [s \in SUBSET S |-> base]
  <2>1. F \in [SUBSET S -> T]
    OBVIOUS
  <2>2. \A s \in small(0) : F[s] = rec(F, s)
    BY <1>1
  <2> HIDE DEF F, rec
  <2>3. 0 \in 0..n
    BY <1>1
  <2> QED
    BY <2>1, <2>2, <2>3
<1>3. ASSUME NEW k \in 1..n, k - 1 \in K
      PROVE  k \in K
  <2>1. PICK F \in [SUBSET S -> T] : \A s \in small(k - 1) : F[s] = rec(F, s)
    BY <1>3
  <2> DEFINE G == [s \in SUBSET S |-> rec(F, s)]
  <2>2. G \in [SUBSET S -> T]
    <3> SUFFICES ASSUME NEW s \in SUBSET S PROVE rec(F, s) \in T
      OBVIOUS
    <3>1. s # {} => choice[s] \in S /\ F[s \ {choice[s]}] \in T
      OBVIOUS
    <3> QED
      BY <3>1
  <2>3. ASSUME NEW s \in small(k)
        PROVE  G[s] = rec(G, s)
    <3>1. CASE s = {}
      BY <3>1
    <3>2. CASE s # {}
      <4> DEFINE t == s \ {choice[s]}
      <4>1. choice[s] \in s /\ t \in SUBSET S
        BY <3>2
      <4>2. Cardinality(t) = Cardinality(s) - 1
        BY <4>1, FS_Subset, FS_RemoveElement
      <4>3. t \in small(k - 1)
        BY <1>1, <4>1, <4>2
      <4>4. F[t] = G[t]
        BY <2>1, <4>1, <4>3
      <4> QED
        BY <3>2, <4>4
    <3> QED
      BY <3>1, <3>2
  <2> HIDE DEF G, rec
  <2> QED
    BY <2>2, <2>3
<1>4. n \in K
  <2> HIDE DEF K, n
  <2> QED
    BY <1>1, <1>2, <1>3, UpTo
<1>5. PICK F \in [SUBSET S -> T] : \A s \in small(n) : F[s] = rec(F, s)
  BY <1>4
<1>6. \A s \in SUBSET S : F[s] = rec(F, s)
  BY <1>1, <1>5
<1> QED
  BY <1>6 DEF FoldsBy

\* F follows the recursion of a fold over the places 1 to k.
FoldsTo(F, k, base, step) ==
  \A s \in SUBSET (1..k) : F[s] = IF s = {} THEN base ELSE step[<<Max(s), F[s \ {Max(s)}]>>]

\* The same for the folds over the places of a sequence.
LEMMA FoldExists ==
  ASSUME NEW n \in Nat, NEW T, NEW base \in T, NEW step \in [(1..n) \X T -> T]
  PROVE  \E F \in [SUBSET (1..n) -> T] : FoldsTo(F, n, base, step)
<1> DEFINE S == 1..n
           choice == [s \in SUBSET (1..n) |-> Max(s)]
<1>1. IsFiniteSet(S) /\ \A s \in SUBSET S : s # {} => choice[s] \in s
  <2>1. IsFiniteSet(1..n)
    BY FS_Interval
  <2>2. \A s \in SUBSET (1..n) : s # {} => Max(s) \in s
    BY MaxOfPlaces
  <2> QED
    BY <2>1, <2>2
<1>2. \A s \in SUBSET S : choice[s] = Max(s)
  OBVIOUS
<1>3. step \in [S \X T -> T]
  OBVIOUS
<1> HIDE DEF S, choice
<1>4. PICK F \in [SUBSET S -> T] : FoldsBy(F, S, base, choice, step)
  BY <1>1, <1>3, FoldByExists
<1> QED
  BY <1>2, <1>4 DEF FoldsBy, FoldsTo, S

-----------------------------------------------------------------------------
\* The element a sum over s takes first.
First(s) == CHOOSE x \in s : TRUE

\* F follows the recursion of SumFunctionOnSet.
SumsTo(F, g, S) ==
  F = [s \in SUBSET S |-> IF s = {} THEN 0 ELSE g[First(s)] + F[s \ {First(s)}]]

\* The function behind the sum.
SumOf(g, S) ==
  LET iter[s \in SUBSET S] == IF s = {} THEN 0
                              ELSE LET x == CHOOSE x \in s : TRUE IN g[x] + iter[s \ {x}]
  IN  iter

\* SumFunctionOnSet is a fold: it takes the first element and adds the sum of the rest.
LEMMA SumIsFold ==
  ASSUME NEW S, IsFiniteSet(S), NEW g, \A x \in S : g[x] \in Int
  PROVE  /\ SumFunctionOnSet(g, S) = SumOf(g, S)[S]
         /\ SumsTo(SumOf(g, S), g, S)
         /\ SumOf(g, S) \in [SUBSET S -> Int]
<1> DEFINE choice == [s \in SUBSET S |-> First(s)]
           T == Int
           base == 0
           step == [x \in S \X T |-> g[x[1]] + x[2]]
<1>1. \A s \in SUBSET S : s # {} => choice[s] \in s /\ choice[s] = First(s)
  BY DEF First
<1>2. base \in T /\ step \in [S \X T -> T]
  OBVIOUS
<1>3. PICK F \in [SUBSET S -> T] : FoldsBy(F, S, base, choice, step)
  <2> HIDE DEF choice, T, base, step
  <2> QED
    BY <1>1, <1>2, FoldByExists
<1>4. SumsTo(F, g, S)
  <2>1. ASSUME NEW s \in SUBSET S, s # {}
        PROVE  F[s] = g[First(s)] + F[s \ {First(s)}]
    <3>1. First(s) \in S /\ F[s \ {First(s)}] \in T /\ choice[s] = First(s)
      BY <1>1, <2>1
    <3>2. F[s] = step[<<First(s), F[s \ {First(s)}]>>]
      <4> HIDE DEF step, choice
      <4> QED
        BY <1>3, <2>1, <3>1 DEF FoldsBy
    <3> QED
      BY <3>1, <3>2
  <2>2. F[{}] = 0
    BY <1>3 DEF FoldsBy
  <2>3. F = [s \in SUBSET S |-> F[s]]
    OBVIOUS
  <2> QED
    BY <2>1, <2>2, <2>3 DEF SumsTo
<1>5. SumsTo(SumOf(g, S), g, S)
  <2>1. \E iter : SumsTo(iter, g, S)
    BY <1>4
  <2>2. SumOf(g, S) = CHOOSE iter : SumsTo(iter, g, S)
    BY DEF SumOf, SumsTo, First
  <2> QED
    BY <2>1, <2>2
<1>6. SumOf(g, S) \in [SUBSET S -> Int]
  <2> DEFINE G == SumOf(g, S)
             W == {s \in SUBSET S : G[s] \notin Int}
  <2>1. SUFFICES ASSUME W # {} PROVE FALSE
    BY <1>5 DEF SumsTo
  <2>2. PICK s \in W : \A t \in W : t \subseteq s => t = s
    <3>1. W \subseteq SUBSET S
      OBVIOUS
    <3> HIDE DEF W
    <3> QED
      BY <2>1, <3>1, MinimalSubset
  <2> HIDE DEF G
  <2>3. \A t \in SUBSET S : G[t] = IF t = {} THEN 0 ELSE g[First(t)] + G[t \ {First(t)}]
    BY <1>5 DEF SumsTo, G
  <2>4. s # {}
    <3>1. s \in SUBSET S /\ G[s] \notin Int
      OBVIOUS
    <3>2. s = {} => G[s] = 0
      BY <2>3, <3>1
    <3> QED
      BY <3>1, <3>2
  <2>5. First(s) \in s /\ s \ {First(s)} \in SUBSET S /\ s \ {First(s)} # s
    BY <2>4 DEF First
  <2>6. G[s \ {First(s)}] \in Int
    BY <2>2, <2>5
  <2>7. G[s] \in Int
    BY <2>3, <2>4, <2>5, <2>6
  <2> QED
    BY <2>7
<1>7. SumFunctionOnSet(g, S) = SumOf(g, S)[S]
  BY DEF SumFunctionOnSet, FoldFunctionOnSet, MapThenFoldSet, SumOf
<1> QED
  BY <1>5, <1>6, <1>7

\* Two functions that agree on a set have the same sum there, each in its own recursion.
LEMMA SumsAgree ==
  ASSUME NEW S, NEW U \in SUBSET S, IsFiniteSet(U), NEW g, NEW h, \A x \in U : g[x] = h[x],
         NEW F, SumsTo(F, g, S), NEW G, SumsTo(G, h, U)
  PROVE  F[U] = G[U]
<1> DEFINE W == {s \in SUBSET U : F[s] # G[s]}
<1>1. SUFFICES ASSUME W # {} PROVE FALSE
  OBVIOUS
<1>2. PICK s \in W : \A t \in W : t \subseteq s => t = s
  <2>1. W \subseteq SUBSET U
    OBVIOUS
  <2> HIDE DEF W
  <2> QED
    BY <1>1, <2>1, MinimalSubset
<1>3. /\ F[s] = IF s = {} THEN 0 ELSE g[First(s)] + F[s \ {First(s)}]
      /\ G[s] = IF s = {} THEN 0 ELSE h[First(s)] + G[s \ {First(s)}]
  BY DEF SumsTo
<1>4. s # {}
  BY <1>3
<1>5. First(s) \in U /\ s \ {First(s)} \in SUBSET U /\ s \ {First(s)} # s
  BY <1>4 DEF First
<1>6. F[s \ {First(s)}] = G[s \ {First(s)}] /\ g[First(s)] = h[First(s)]
  BY <1>2, <1>5
<1> QED
  BY <1>3, <1>4, <1>6

\* The sum over nothing.
LEMMA SumOfNothing ==
  ASSUME NEW g
  PROVE  SumFunctionOnSet(g, {}) = 0
<1>1. \A x \in {} : g[x] \in Int
  OBVIOUS
<1>2. IsFiniteSet({})
  BY FS_EmptySet
<1>3. SumFunctionOnSet(g, {}) = SumOf(g, {})[{}] /\ SumsTo(SumOf(g, {}), g, {})
  BY <1>1, <1>2, SumIsFold
<1> QED
  BY <1>3 DEF SumsTo

\* A sum of zeros.
LEMMA SumOfZero ==
  ASSUME NEW S, NEW D \in SUBSET S, IsFiniteSet(D)
  PROVE  SumFunctionOnSet([x \in S |-> 0], D) = 0
<1> DEFINE g == [x \in S |-> 0]
           F == SumOf(g, D)
           W == {s \in SUBSET D : F[s] # 0}
<1>1. \A x \in D : g[x] \in Int /\ g[x] = 0
  OBVIOUS
<1> HIDE DEF g
<1>2. SumFunctionOnSet(g, D) = F[D] /\ SumsTo(F, g, D)
  BY <1>1, SumIsFold
<1> HIDE DEF F
<1>3. W = {}
  <2> SUFFICES ASSUME W # {} PROVE FALSE
    OBVIOUS
  <2>1. PICK s \in W : \A t \in W : t \subseteq s => t = s
    <3>1. W \subseteq SUBSET D
      OBVIOUS
    <3> HIDE DEF W
    <3> QED
      BY <3>1, MinimalSubset
  <2>2. F[s] = IF s = {} THEN 0 ELSE g[First(s)] + F[s \ {First(s)}]
    BY <1>2 DEF SumsTo
  <2>3. s # {}
    BY <2>2
  <2>4. First(s) \in s /\ s \ {First(s)} \in SUBSET D /\ s \ {First(s)} # s
    BY <2>3 DEF First
  <2>5. F[s \ {First(s)}] = 0 /\ g[First(s)] = 0
    BY <1>1, <2>1, <2>4
  <2> QED
    BY <2>2, <2>3, <2>5
<1> QED
  BY <1>2, <1>3 DEF g

\* A sum of integers is one.
LEMMA SumType ==
  ASSUME NEW S, IsFiniteSet(S), NEW g, \A x \in S : g[x] \in Int
  PROVE  SumFunctionOnSet(g, S) \in Int
<1>1. SumFunctionOnSet(g, S) = SumOf(g, S)[S] /\ SumOf(g, S) \in [SUBSET S -> Int]
  BY SumIsFold
<1> QED
  BY <1>1

\* The sum depends on the values alone.
LEMMA SumSame ==
  ASSUME NEW S, IsFiniteSet(S), NEW g, NEW h, \A x \in S : g[x] = h[x] /\ g[x] \in Int
  PROVE  SumFunctionOnSet(g, S) = SumFunctionOnSet(h, S)
<1>1. SumFunctionOnSet(g, S) = SumOf(g, S)[S] /\ SumsTo(SumOf(g, S), g, S)
  BY SumIsFold
<1>2. SumFunctionOnSet(h, S) = SumOf(h, S)[S] /\ SumsTo(SumOf(h, S), h, S)
  BY SumIsFold
<1>3. S \in SUBSET S /\ \A x \in S : g[x] = h[x]
  OBVIOUS
<1>4. SumOf(g, S)[S] = SumOf(h, S)[S]
  BY <1>1, <1>2, <1>3, SumsAgree
<1> QED
  BY <1>1, <1>2, <1>4

\* Any element of the set may be taken first.
LEMMA SumRemove ==
  ASSUME NEW S, IsFiniteSet(S), NEW g, \A x \in S : g[x] \in Int, NEW z \in S
  PROVE  SumFunctionOnSet(g, S) = g[z] + SumFunctionOnSet(g, S \ {z})
<1> DEFINE F == SumOf(g, S)
           W == {s \in SUBSET S : \E x \in s : F[s] # g[x] + F[s \ {x}]}
<1>1. /\ SumFunctionOnSet(g, S) = F[S] /\ SumsTo(F, g, S) /\ F \in [SUBSET S -> Int]
  BY SumIsFold
<1> HIDE DEF F
<1>2. W = {}
  <2> SUFFICES ASSUME W # {} PROVE FALSE
    OBVIOUS
  <2>1. PICK s \in W : \A t \in W : t \subseteq s => t = s
    <3>1. W \subseteq SUBSET S
      OBVIOUS
    <3> HIDE DEF W
    <3> QED
      BY <3>1, MinimalSubset
  <2>2. PICK x \in s : F[s] # g[x] + F[s \ {x}]
    OBVIOUS
  <2> DEFINE y == First(s)
  <2>3. y \in s /\ F[s] = g[y] + F[s \ {y}]
    <3>1. y \in s
      BY DEF First
    <3> QED
      BY <1>1, <3>1 DEF SumsTo
  <2> HIDE DEF y
  <2>4. x # y
    BY <2>2, <2>3
  <2>5. s \ {y} \notin W /\ s \ {x} \notin W /\ s \ {x} \in SUBSET S /\ s \ {y} \in SUBSET S
    BY <2>1, <2>3
  <2>6. F[s \ {y}] = g[x] + F[(s \ {y}) \ {x}] /\ F[s \ {x}] = g[y] + F[(s \ {x}) \ {y}]
    <3>1. x \in s \ {y} /\ y \in s \ {x}
      BY <2>3, <2>4
    <3> QED
      BY <2>5, <3>1
  <2>7. (s \ {y}) \ {x} = (s \ {x}) \ {y} /\ (s \ {y}) \ {x} \in SUBSET S
    OBVIOUS
  <2>8. g[x] \in Int /\ g[y] \in Int /\ F[(s \ {y}) \ {x}] \in Int
    BY <1>1, <2>3, <2>7
  <2> DEFINE rest == F[(s \ {y}) \ {x}]
  <2>9. F[s] = g[y] + (g[x] + rest) /\ F[s \ {x}] = g[y] + rest
    BY <2>3, <2>6, <2>7
  <2>10. g[y] + (g[x] + rest) = g[x] + (g[y] + rest)
    <3>1. \A a, b, c \in Int : a + (b + c) = b + (a + c)
      OBVIOUS
    <3> QED
      BY <2>8, <3>1
  <2>11. F[s] = g[x] + F[s \ {x}]
    BY <2>9, <2>10
  <2> QED
    BY <2>2, <2>11
<1>3. F[S] = g[z] + F[S \ {z}]
  BY <1>2
<1>4. F[S \ {z}] = SumFunctionOnSet(g, S \ {z})
  <2> DEFINE U == S \ {z}
  <2>1. U \in SUBSET S /\ IsFiniteSet(U) /\ \A x \in U : g[x] = g[x] /\ g[x] \in Int
    BY FS_RemoveElement
  <2> HIDE DEF U
  <2>2. SumFunctionOnSet(g, U) = SumOf(g, U)[U] /\ SumsTo(SumOf(g, U), g, U)
    BY <2>1, SumIsFold
  <2>3. F[U] = SumOf(g, U)[U]
    BY <1>1, <2>1, <2>2, SumsAgree
  <2> QED
    BY <2>2, <2>3 DEF U
<1> QED
  BY <1>1, <1>3, <1>4

-----------------------------------------------------------------------------
\* Whether R orders every two elements of S, and transitively.
Orders(R, S) ==
  /\ \A x, y \in S : <<x, y>> \in R \/ <<y, x>> \in R
  /\ \A x, y, z \in S : <<x, y>> \in R /\ <<y, z>> \in R => <<x, z>> \in R

\* A finite set that is not empty has a last element in any order.
LEMMA HasLast ==
  ASSUME NEW S, IsFiniteSet(S), S # {}, NEW R, Orders(R, S)
  PROVE  \E m \in S : \A x \in S : <<x, m>> \in R
<1> DEFINE after(x) == {y \in S : <<x, y>> \in R}
           T == {after(x) : x \in S}
<1>1. T \subseteq SUBSET S /\ T # {}
  OBVIOUS
<1>2. \E s \in T : \A t \in T : t \subseteq s => t = s
  <2> HIDE DEF T
  <2> QED
    BY <1>1, MinimalSubset
<1>3. PICK m \in S : \A x \in S : after(x) \subseteq after(m) => after(x) = after(m)
  <2>1. PICK s \in T : \A t \in T : t \subseteq s => t = s
    BY <1>2
  <2>2. PICK m \in S : s = after(m)
    OBVIOUS
  <2>3. \A x \in S : after(x) \in T
    OBVIOUS
  <2> HIDE DEF T, after
  <2> QED
    BY <2>1, <2>2, <2>3
<1>4. ASSUME NEW x \in S, <<x, m>> \notin R PROVE FALSE
  <2>1. <<m, x>> \in R /\ <<m, m>> \in R
    BY <1>4 DEF Orders
  <2>2. after(x) \subseteq after(m)
    BY <2>1 DEF Orders
  <2>3. m \in after(x)
    BY <1>3, <2>1, <2>2
  <2> QED
    BY <1>4, <2>3
<1> QED
  BY <1>4

\* A finite set can be sorted.
LEMMA SortedExists ==
  ASSUME NEW S, IsFiniteSet(S), NEW R, Orders(R, S)
  PROVE  \E s \in SetToSeqs(S) : \A i, j \in DOMAIN s : i < j => <<s[i], s[j]>> \in R
<1> DEFINE isSorted(U) ==
             \E s \in SetToSeqs(U) : \A i, j \in DOMAIN s : i < j => <<s[i], s[j]>> \in R
           T == {U \in SUBSET S : ~isSorted(U)}
<1>1. SUFFICES ASSUME T # {} PROVE FALSE
  OBVIOUS
<1>2. PICK U \in T : \A V \in T : V \subseteq U => V = U
  <2>1. T \subseteq SUBSET S
    OBVIOUS
  <2> HIDE DEF T
  <2> QED
    BY <1>1, <2>1, MinimalSubset
<1>3. IsFiniteSet(U) /\ Cardinality(U) \in Nat
  BY FS_Subset, FS_CardinalityType
<1>4. CASE U = {}
  <2> DEFINE s == [i \in 1..0 |-> 0]
  <2>1. Cardinality(U) = 0 /\ 1..0 = {}
    BY <1>4, FS_EmptySet
  <2>2. s \in SetToSeqs(U) /\ DOMAIN s = {}
    BY <2>1 DEF SetToSeqs
  <2>3. isSorted(U)
    BY <2>2
  <2> QED
    BY <2>3
<1>5. CASE U # {}
  <2>1. Orders(R, U)
    BY DEF Orders
  <2>2. PICK m \in U : \A x \in U : <<x, m>> \in R
    BY <1>3, <1>5, <2>1, HasLast
  <2> DEFINE V == U \ {m}
             n == Cardinality(V)
  <2>3. IsFiniteSet(V) /\ n \in Nat /\ Cardinality(U) = n + 1
    <3>1. IsFiniteSet(V) /\ n = Cardinality(U) - 1
      BY <1>3, FS_RemoveElement
    <3>2. n \in Nat
      BY <3>1, FS_CardinalityType
    <3> HIDE DEF n
    <3> QED
      BY <1>3, <3>1, <3>2
  <2>4. PICK s \in SetToSeqs(V) : \A i, j \in DOMAIN s : i < j => <<s[i], s[j]>> \in R
    <3>1. V \in SUBSET S /\ V \subseteq U /\ V # U
      OBVIOUS
    <3>2. V \notin T
      BY <1>2, <3>1
    <3> QED
      BY <3>1, <3>2
  <2>5. s \in [1..n -> V] /\ \A i, j \in 1..n : i # j => s[i] # s[j]
    BY <2>4 DEF SetToSeqs
  <2> DEFINE g == [i \in 1..(n + 1) |-> IF i = n + 1 THEN m ELSE s[i]]
  <2> HIDE DEF n, V
  <2>6. /\ DOMAIN g = 1..(n + 1) /\ g[n + 1] = m /\ m \notin V /\ V \subseteq U
        /\ \A i \in 1..n : g[i] = s[i] /\ s[i] \in V
        /\ \A i \in 1..(n + 1) : i \in 1..n \/ i = n + 1
    BY <2>3, <2>5 DEF V
  <2> HIDE DEF g
  <2>7. \A i \in 1..(n + 1) : g[i] \in U
    BY <2>2, <2>6
  <2>8. \A i, j \in 1..(n + 1) : i # j => g[i] # g[j]
    BY <2>5, <2>6
  <2>9. g \in SetToSeqs(U)
    <3>1. g \in [1..(n + 1) -> U]
      BY <2>6, <2>7 DEF g
    <3> QED
      BY <2>3, <2>8, <3>1 DEF SetToSeqs
  <2>10. \A i, j \in DOMAIN g : i < j => <<g[i], g[j]>> \in R
    <3> SUFFICES ASSUME NEW i \in 1..(n + 1), NEW j \in 1..(n + 1), i < j
                 PROVE  <<g[i], g[j]>> \in R
      BY <2>6
    <3>1. i \in 1..n
      BY <2>3
    <3>2. CASE j = n + 1
      BY <2>2, <2>6, <2>7, <3>2
    <3>3. CASE j \in 1..n
      BY <2>4, <2>5, <2>6, <3>1, <3>3
    <3> QED
      BY <2>6, <3>2, <3>3
  <2>11. isSorted(U)
    BY <2>9, <2>10
  <2> QED
    BY <2>11
<1> QED
  BY <1>4, <1>5
-----------------------------------------------------------------------------
\* A bounded sequence is a sequence that is not too long.
LEMMA BoundedIsSeq ==
  ASSUME NEW S, NEW n \in Nat, NEW h
  PROVE  h \in BoundedSeq(S, n) <=> h \in Seq(S) /\ Len(h) <= n
<1>1. ASSUME h \in BoundedSeq(S, n) PROVE h \in Seq(S) /\ Len(h) <= n
  <2>1. PICK m \in 0..n : h \in [1..m -> S]
    BY <1>1 DEF BoundedSeq, SeqOf
  <2>2. h \in Seq(S) /\ DOMAIN h = 1..m /\ m \in Nat
    BY <2>1, IsASeq
  <2>3. Len(h) = m
    BY <2>2, LenProperties
  <2> QED
    BY <2>2, <2>3
<1>2. ASSUME h \in Seq(S), Len(h) <= n PROVE h \in BoundedSeq(S, n)
  <2>1. Len(h) \in 0..n /\ h \in [1..Len(h) -> S]
    BY <1>2, LenProperties
  <2> QED
    BY <2>1 DEF BoundedSeq, SeqOf
<1> QED
  BY <1>1, <1>2

\* A sequence with one more element has all it had, at its place.
LEMMA AppendGrows ==
  ASSUME NEW S, NEW f \in Seq(S), NEW c \in S
  PROVE  /\ Append(f, c) \in Seq(S) /\ Len(Append(f, c)) = Len(f) + 1
         /\ Append(f, c)[Len(f) + 1] = c /\ Len(f) + 1 \in DOMAIN Append(f, c)
         /\ \A k \in DOMAIN Append(f, c) : k = Len(f) + 1 \/ k \in DOMAIN f
         /\ \A k \in DOMAIN f : k \in DOMAIN Append(f, c) /\ Append(f, c)[k] = f[k]
<1>1. Len(f) \in Nat /\ DOMAIN f = 1..Len(f)
  BY LenProperties
<1>2. /\ Append(f, c) \in Seq(S) /\ Len(Append(f, c)) = Len(f) + 1
      /\ \A k \in 1..Len(f) : Append(f, c)[k] = f[k]
      /\ Append(f, c)[Len(f) + 1] = c
  BY AppendProperties
<1>3. DOMAIN Append(f, c) = 1..(Len(f) + 1)
  BY <1>2, LenProperties
<1> QED
  BY <1>1, <1>2, <1>3

\* Sums and differences of integers in order.
LEMMA Ordered ==
  /\ \A x, y, z \in Int : x <= y /\ y <= z => x <= z
  /\ \A x, y, z, w \in Int : x <= y /\ y - z <= w => x - z <= w
  /\ \A x, y, z, w \in Int : x - y <= z /\ z <= w => x - y <= w
  /\ \A x, y \in Int : (x..y) \ {y} = x..(y - 1)
OBVIOUS

\* The greatest of a set that has one.
LEMMA MaxIs ==
  ASSUME NEW S, S \subseteq Int, NEW m \in S, \A x \in S : x <= m
  PROVE  Max(S) = m
<1>1. \A x \in S : m >= x
  OBVIOUS
<1>2. Max(S) \in S /\ \A y \in S : Max(S) >= y
  BY <1>1 DEF Max
<1>3. Max(S) \in Int /\ m \in Int /\ Max(S) >= m /\ Max(S) <= m
  BY <1>2
<1> HIDE DEF Max
<1> QED
  BY <1>3

\* A stretch of a curve sums up to the difference of its ends.
LEMMA StretchSum ==
  ASSUME NEW n \in Nat, NEW g \in [1..n -> Int], NEW P \in [0..n -> Int],
         \A k \in 1..n : P[k] = P[k - 1] + g[k],
         NEW i \in 1..n, NEW j \in 1..n, i <= j
  PROVE  SumFunctionOnSet(g, i..j) = P[j] - P[i - 1]
<1> DEFINE m == j - i + 1
           K == {k \in 0..m : SumFunctionOnSet(g, i..(i - 1 + k)) = P[i - 1 + k] - P[i - 1]}
<1>0. m \in Nat /\ i - 1 + m = j /\ i - 1 \in 0..n /\ P[i - 1] \in Int
  OBVIOUS
<1>1. 0 \in K
  <2>1. i..(i - 1) = {} /\ i - 1 + 0 = i - 1 /\ 0 \in 0..m
    BY <1>0
  <2>2. SumFunctionOnSet(g, {}) = 0
    BY SumOfNothing
  <2>3. P[i - 1] - P[i - 1] = 0
    BY <1>0
  <2> QED
    BY <2>1, <2>2, <2>3
<1>2. ASSUME NEW k \in 1..m, k - 1 \in K PROVE k \in K
  <2> DEFINE z == i - 1 + k
             S == i..z
  <2>1. z \in 1..n /\ z \in Nat /\ z - 1 = i - 1 + (k - 1) /\ z \in S /\ k \in 0..m
    OBVIOUS
  <2>2. S \ {z} = i..(i - 1 + (k - 1))
    <3>1. z \in Int /\ i \in Int /\ S = i..z /\ z - 1 = i - 1 + (k - 1)
      BY <2>1
    <3> HIDE DEF z, S
    <3>2. (i..z) \ {z} = i..(z - 1)
      BY <3>1, Ordered
    <3> QED
      BY <3>1, <3>2
  <2>3. IsFiniteSet(S) /\ \A x \in S : g[x] \in Int
    <3>1. z \in Int /\ i \in Int /\ S = i..z /\ S \subseteq 1..n
      BY <2>1
    <3> HIDE DEF z, S
    <3>2. IsFiniteSet(i..z)
      BY <3>1, FS_Interval
    <3> QED
      BY <3>1, <3>2
  <2> HIDE DEF z, S
  <2>4. SumFunctionOnSet(g, S) = g[z] + SumFunctionOnSet(g, S \ {z})
    BY <2>1, <2>3, SumRemove
  <2>5. SumFunctionOnSet(g, S \ {z}) = P[z - 1] - P[i - 1]
    BY <1>2, <2>1, <2>2
  <2>6. P[z] = P[z - 1] + g[z] /\ P[z - 1] \in Int /\ g[z] \in Int
    BY <2>1
  <2>7. SumFunctionOnSet(g, S) = P[z] - P[i - 1]
    BY <1>0, <2>4, <2>5, <2>6
  <2> QED
    BY <2>1, <2>7 DEF S, z
<1>3. m \in K
  <2>0. m \in Nat
    BY <1>0
  <2> HIDE DEF K, m
  <2>1. \A k \in 0..m : k \in K
    BY <1>1, <1>2, <2>0, UpTo
  <2> QED
    BY <2>0, <2>1
<1> QED
  BY <1>0, <1>3
=============================================================================
