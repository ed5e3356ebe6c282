----------------------------- MODULE SetLemmas -----------------------------
(***************************************************************************)
(* Facts about finite sets the proofs use and the library does not state.  *)
(***************************************************************************)
EXTENDS FiniteSetTheorems, WellFoundedInduction, TLAPS

\* Of sets of elements of a finite set, one has no other one within it.
LEMMA SmallestSet ==
  ASSUME NEW S, IsFiniteSet(S), NEW T, T \subseteq SUBSET S, T # {}
  PROVE  \E x \in T : \A y \in T : y \subseteq x => y = x
<1> DEFINE Subsets == SUBSET S
<1>1. IsWellFoundedOn(StrictSubsetOrdering(S), Subsets)
  BY FS_FiniteSubsetsOfFinite, FS_StrictSubsetOrderingWellFounded, Zenon
<1>2. PICK x \in T : \A y \in T : <<y, x>> \notin StrictSubsetOrdering(S)
  BY <1>1, WFMin, Zenon
<1> QED
  BY <1>2 DEF StrictSubsetOrdering

\* Of the numbers up to k in a nonempty set, one is the least.
LEMMA SmallestNumber ==
  ASSUME NEW k \in Nat, NEW B, B \subseteq 1 .. k, B # {}
  PROVE  \E n \in B : \A m \in B : n <= m
<1> DEFINE T == {1 .. n : n \in B}
<1>1. IsFiniteSet(1 .. k)
  BY FS_Interval
<1>2. T \subseteq SUBSET (1 .. k)
  <2> SUFFICES ASSUME NEW n \in B PROVE 1 .. n \subseteq 1 .. k
    OBVIOUS
  <2> QED
    OBVIOUS
<1>3. T # {}
  <2>1. PICK n \in B : TRUE
    OBVIOUS
  <2>2. 1 .. n \in T
    OBVIOUS
  <2> QED
    BY <2>2
<1>4. PICK x \in T : \A y \in T : y \subseteq x => y = x
  <2> DEFINE S == 1 .. k
  <2> HIDE DEF T, S
  <2>1. IsFiniteSet(S) /\ T \subseteq SUBSET S
    BY <1>1, <1>2 DEF S
  <2>2. ASSUME NEW A, IsFiniteSet(A), NEW X, X \subseteq SUBSET A, X # {}
        PROVE  \E x \in X : \A y \in X : y \subseteq x => y = x
    BY <2>2, SmallestSet
  <2> QED
    BY <2>1, <2>2, <1>3
<1>5. PICK n \in B : x = 1 .. n
  BY <1>4
<1>6. ASSUME NEW m \in B, ~(n <= m) PROVE FALSE
  <2>1. 1 .. m \subseteq 1 .. n /\ n \in 1 .. n /\ n \notin 1 .. m
    BY <1>6
  <2> QED
    BY <1>4, <1>5, <2>1
<1> QED
  BY <1>6

-----------------------------------------------------------------------------
\* Induction: a set of numbers with 0 and the successors of its members has them all.
LEMMA NatInductive ==
  ASSUME NEW S \in SUBSET Nat, 0 \in S, \A n \in S : n + 1 \in S
  PROVE  S = Nat
<1> SUFFICES ASSUME NEW k \in Nat, k \notin S PROVE FALSE
  OBVIOUS
<1> DEFINE B == {m \in 1 .. k : m \notin S}
<1>1. B \subseteq 1 .. k /\ k \in B
  OBVIOUS
<1>2. PICK n \in B : \A m \in B : n <= m
  BY <1>1, SmallestNumber
<1>3. n - 1 \in Nat /\ n - 1 \in S
  BY <1>2
<1> QED
  BY <1>2, <1>3

\* A nonempty set of numbers has a least one.
LEMMA LeastNat ==
  ASSUME NEW B \in SUBSET Nat, B # {}
  PROVE  \E n \in B : \A m \in B : n <= m
<1>1. CASE 0 \in B
  BY <1>1
<1>2. CASE 0 \notin B
  <2>1. PICK k \in B : TRUE
    OBVIOUS
  <2> DEFINE Low == B \cap 1 .. k
  <2>2. Low \subseteq 1 .. k /\ k \in Low /\ k \in Nat
    BY <1>2, <2>1
  <2>3. PICK n \in Low : \A m \in Low : n <= m
    <3> HIDE DEF Low
    <3> QED
      BY <2>2, SmallestNumber
  <2> QED
    BY <1>2, <2>3
<1> QED
  BY <1>1, <1>2

\* A bounded nonempty set of numbers has a greatest one.
LEMMA GreatestNat ==
  ASSUME NEW B \in SUBSET Nat, B # {}, NEW k \in Nat, \A n \in B : n <= k
  PROVE  \E n \in B : \A m \in B : m <= n
<1> DEFINE C == {j \in Nat : \E n \in B : j = k - n}
<1>1. C \in SUBSET Nat /\ C # {}
  <2>1. PICK n \in B : TRUE
    OBVIOUS
  <2>2. k - n \in C
    OBVIOUS
  <2> QED
    BY <2>2
<1>2. PICK j \in C : \A i \in C : j <= i
  <2> HIDE DEF C
  <2> QED
    BY <1>1, LeastNat
<1>3. PICK n \in B : j = k - n
  BY <1>2
<1>4. ASSUME NEW m \in B PROVE m <= n
  <2>1. k - m \in C
    OBVIOUS
  <2>2. j <= k - m /\ j = k - n /\ m \in Nat /\ n \in Nat
    BY <1>2, <1>3, <2>1
  <2> QED
    BY <2>2
<1> QED
  BY <1>4

\* A finite set of numbers is bounded.
LEMMA FiniteIsBounded ==
  ASSUME NEW B \in SUBSET Nat, IsFiniteSet(B)
  PROVE  \E k \in Nat : \A n \in B : n <= k
<1>1. PICK k \in Nat : ExistsBijection(1 .. k, B)
  BY FS_NatBijection
<1>2. PICK f \in Bijection(1 .. k, B) : TRUE
  BY <1>1 DEF ExistsBijection
<1>3. f \in [1 .. k -> B] /\ \A b \in B : \E i \in 1 .. k : f[i] = b
  BY <1>2 DEF Bijection, Surjection
<1>4. \A i \in 1 .. k : f[i] \in Nat
  BY <1>3
<1> DEFINE Bounded(n) == \E b \in Nat : \A i \in 1 .. n : f[i] <= b
           S == {n \in Nat : n <= k => Bounded(n)}
<1>5. 0 \in S
  <2>1. \A i \in 1 .. 0 : f[i] <= 0
    OBVIOUS
  <2> QED
    BY <2>1
<1>6. ASSUME NEW n \in S, n + 1 <= k PROVE Bounded(n + 1)
  <2>1. n \in Nat /\ n <= k /\ Bounded(n)
    BY <1>6
  <2>2. PICK b \in Nat : \A i \in 1 .. n : f[i] <= b
    BY <2>1
  <2>3. f[n + 1] \in Nat
    BY <1>4, <1>6, <2>1
  <2>4. ASSUME NEW i \in 1 .. n + 1 PROVE f[i] <= b + f[n + 1]
    <3>1. CASE i = n + 1
      BY <2>3, <3>1
    <3>2. CASE i # n + 1
      <4>1. i \in 1 .. n /\ i \in 1 .. k
        BY <1>6, <2>1, <3>2
      <4>2. f[i] <= b /\ f[i] \in Nat
        BY <1>4, <2>2, <4>1
      <4> QED
        BY <2>3, <4>2
    <3> QED
      BY <3>1, <3>2
  <2>5. b + f[n + 1] \in Nat
    BY <2>3
  <2> QED
    BY <2>4, <2>5
<1>7. S = Nat
  <2> HIDE DEF Bounded
  <2>1. S \in SUBSET Nat
    OBVIOUS
  <2>2. \A n \in S : n + 1 \in S
    BY <1>6
  <2> HIDE DEF S
  <2> QED
    BY <1>5, <2>1, <2>2, NatInductive
<1>8. Bounded(k)
  <2> HIDE DEF Bounded
  <2> QED
    BY <1>7
<1>9. PICK b \in Nat : \A i \in 1 .. k : f[i] <= b
  BY <1>8
<1> QED
  BY <1>3, <1>9

\* The function f of the numbers starts with a and goes on by the steps of G.
Iterates(f, a, G) == f[0] = a /\ \A n \in Nat : f[n + 1] = G[n][f[n]]

\* Recursion: a value and a step for every number have such a function.
LEMMA NatRecursive ==
  ASSUME NEW X, NEW a \in X, NEW G \in [Nat -> [X -> X]]
  PROVE  \E f \in [Nat -> X] : Iterates(f, a, G)
<1> DEFINE Fits(f, n) == f \in [0 .. n -> X] /\ f[0] = a
                           /\ \A i \in 0 .. (n - 1) : f[i + 1] = G[i][f[i]]
           S == {n \in Nat : \E f : Fits(f, n)}
<1>1. 0 \in S
  <2>1. Fits([i \in 0 .. 0 |-> a], 0)
    OBVIOUS
  <2> QED
    BY <2>1
<1>2. ASSUME NEW n \in S PROVE n + 1 \in S
  <2>1. PICK f : Fits(f, n)
    BY <1>2
  <2> DEFINE g == [i \in 0 .. n + 1 |-> IF i = n + 1 THEN G[n][f[n]] ELSE f[i]]
  <2>2. f[n] \in X /\ G[n] \in [X -> X] /\ G[n][f[n]] \in X
    BY <2>1
  <2>3. g \in [0 .. n + 1 -> X] /\ g[0] = a
    BY <2>1, <2>2
  <2>4. ASSUME NEW i \in 0 .. n PROVE g[i + 1] = G[i][g[i]]
    <3>1. CASE i = n
      BY <3>1
    <3>2. CASE i # n
      <4>1. i \in 0 .. (n - 1)
        BY <3>2
      <4> QED
        BY <2>1, <4>1
    <3> QED
      BY <3>1, <3>2
  <2>5. Fits(g, n + 1)
    <3>1. 0 .. (n + 1 - 1) = 0 .. n
      OBVIOUS
    <3> HIDE DEF g
    <3> QED
      BY <2>3, <2>4, <3>1
  <2> HIDE DEF Fits, g
  <2> QED
    BY <2>5
<1>3. S = Nat
  <2>1. S \in SUBSET Nat
    OBVIOUS
  <2> HIDE DEF S
  <2> QED
    BY <1>1, <1>2, <2>1, NatInductive
<1>4. ASSUME NEW m \in Nat, NEW n \in Nat, NEW f, NEW g, Fits(f, m), Fits(g, n), m <= n
      PROVE  \A i \in 0 .. m : f[i] = g[i]
  <2> DEFINE T == {i \in Nat : i <= m => f[i] = g[i]}
  <2>1. 0 \in T
    BY <1>4
  <2>2. ASSUME NEW i \in T PROVE i + 1 \in T
    <3> SUFFICES ASSUME i + 1 <= m PROVE f[i + 1] = g[i + 1]
      OBVIOUS
    <3>1. i \in 0 .. (m - 1) /\ i \in 0 .. (n - 1) /\ f[i] = g[i]
      BY <1>4
    <3> QED
      BY <1>4, <3>1
  <2>3. T = Nat
    <3>1. T \in SUBSET Nat
      OBVIOUS
    <3> HIDE DEF T
    <3> QED
      BY <2>1, <2>2, <3>1, NatInductive
  <2> QED
    BY <2>3
<1> DEFINE Upto(n) == CHOOSE f : Fits(f, n)
           F == [n \in Nat |-> Upto(n)[n]]
<1>5. \A n \in Nat : Fits(Upto(n), n)
  <2> SUFFICES ASSUME NEW n \in Nat PROVE Fits(Upto(n), n)
    OBVIOUS
  <2>1. \E f : Fits(f, n)
    BY <1>3
  <2> HIDE DEF Fits
  <2> QED
    BY <2>1
<1> HIDE DEF Upto
<1>6. F \in [Nat -> X] /\ F[0] = a
  <2>1. \A n \in Nat : Upto(n)[n] \in X
    <3> SUFFICES ASSUME NEW n \in Nat PROVE Upto(n)[n] \in X
      OBVIOUS
    <3>1. Fits(Upto(n), n)
      BY <1>5
    <3> QED
      BY <3>1
  <2>2. Upto(0)[0] = a
    <3>1. Fits(Upto(0), 0)
      BY <1>5
    <3> QED
      BY <3>1
  <2> QED
    BY <2>1, <2>2
<1>7. ASSUME NEW n \in Nat PROVE F[n + 1] = G[n][F[n]]
  <2>1. Fits(Upto(n), n) /\ Fits(Upto(n + 1), n + 1)
    BY <1>5
  <2>2. Upto(n)[n] = Upto(n + 1)[n]
    <3>1. n \in 0 .. n /\ n <= n + 1 /\ n + 1 \in Nat
      OBVIOUS
    <3> HIDE DEF Fits
    <3> QED
      BY <1>4, <2>1, <3>1
  <2>3. Upto(n + 1)[n + 1] = G[n][Upto(n + 1)[n]]
    BY <2>1
  <2> QED
    BY <2>2, <2>3
<1>8. Iterates(F, a, G)
  <2> HIDE DEF F
  <2> QED
    BY <1>6, <1>7 DEF Iterates
<1> HIDE DEF F
<1> QED
  BY <1>6, <1>8

\* The same up to k, in the form of a recursive definition.
IteratesUpto(f, k, a, G) == f = [i \in 0 .. k |-> IF i = 0 THEN a ELSE G[i][f[i - 1]]]

LEMMA RecursionUpto ==
  ASSUME NEW X, NEW a \in X, NEW k \in Nat, NEW G \in [1 .. k -> [X -> X]]
  PROVE  \E f \in [0 .. k -> X] : IteratesUpto(f, k, a, G)
<1> DEFINE H == [n \in Nat |-> IF n < k THEN G[n + 1] ELSE [x \in X |-> x]]
<1>1. H \in [Nat -> [X -> X]]
  OBVIOUS
<1>2. \A n \in 0 .. k - 1 : H[n] = G[n + 1]
  OBVIOUS
<1> HIDE DEF H
<1>3. PICK F \in [Nat -> X] : Iterates(F, a, H)
  BY <1>1, NatRecursive
<1> DEFINE f == [i \in 0 .. k |-> F[i]]
<1>4. f \in [0 .. k -> X] /\ \A i \in 0 .. k : f[i] = F[i]
  OBVIOUS
<1>5. ASSUME NEW i \in 0 .. k PROVE f[i] = IF i = 0 THEN a ELSE G[i][f[i - 1]]
  <2>1. CASE i = 0
    BY <1>3, <2>1 DEF Iterates
  <2>2. CASE i # 0
    <3>1. i - 1 \in Nat /\ i - 1 \in 0 .. k - 1 /\ i - 1 \in 0 .. k /\ (i - 1) + 1 = i
      BY <2>2
    <3>2. F[i] = H[i - 1][F[i - 1]]
      BY <1>3, <3>1 DEF Iterates
    <3>3. H[i - 1] = G[i]
      BY <1>2, <3>1
    <3> QED
      BY <1>4, <2>2, <3>1, <3>2, <3>3
  <2> QED
    BY <2>1, <2>2
<1>6. f = [i \in 0 .. k |-> IF i = 0 THEN a ELSE G[i][f[i - 1]]]
  <2>1. f = [i \in 0 .. k |-> f[i]]
    BY <1>4
  <2> HIDE DEF f
  <2>2. [i \in 0 .. k |-> f[i]] = [i \in 0 .. k |-> IF i = 0 THEN a ELSE G[i][f[i - 1]]]
    BY <1>5
  <2> QED
    BY <2>1, <2>2
<1> QED
  BY <1>4, <1>6 DEF IteratesUpto

-----------------------------------------------------------------------------
\* R is a total order of the members of S.
TotallyOrders(R, S) ==
  /\ \A x \in S : <<x, x>> \in R
  /\ \A x, y \in S : <<x, y>> \in R \/ <<y, x>> \in R
  /\ \A x, y \in S : <<x, y>> \in R /\ <<y, x>> \in R => x = y
  /\ \A x, y, z \in S : <<x, y>> \in R /\ <<y, z>> \in R => <<x, z>> \in R

\* How many members of S come before a member of it, itself included.
Ranks(R, S) == [x \in S |-> Cardinality({y \in S : <<y, x>> \in R})]

\* In a finite set under a total order the ranks run from 1 to the size of the set.
LEMMA RankIsBijection ==
  ASSUME NEW S, IsFiniteSet(S), NEW R,
         TotallyOrders(R, S)
  PROVE  Ranks(R, S) \in Bijection(S, 1 .. Cardinality(S))
<1> DEFINE Down(x) == {y \in S : <<y, x>> \in R}
           rank == [x \in S |-> Cardinality(Down(x))]
           T == 1 .. Cardinality(S)
<1>1. \A x \in S : /\ Down(x) \in SUBSET S /\ x \in Down(x)
                   /\ IsFiniteSet(Down(x)) /\ Cardinality(Down(x)) <= Cardinality(S)
                   /\ Cardinality(Down(x)) \in Nat /\ Cardinality(Down(x)) # 0
  <2> SUFFICES ASSUME NEW x \in S
               PROVE  /\ Down(x) \in SUBSET S /\ x \in Down(x)
                      /\ IsFiniteSet(Down(x)) /\ Cardinality(Down(x)) <= Cardinality(S)
                      /\ Cardinality(Down(x)) \in Nat /\ Cardinality(Down(x)) # 0
    OBVIOUS
  <2>1. Down(x) \in SUBSET S /\ x \in Down(x)
    BY DEF TotallyOrders
  <2> HIDE DEF Down
  <2>2. IsFiniteSet(Down(x)) /\ Cardinality(Down(x)) <= Cardinality(S)
    BY <2>1, FS_Subset
  <2>3. Cardinality(Down(x)) \in Nat /\ Cardinality(Down(x)) # 0
    BY <2>1, <2>2, FS_CardinalityType, FS_EmptySet
  <2> QED
    BY <2>1, <2>2, <2>3
<1>2. Cardinality(S) \in Nat
  BY FS_CardinalityType
<1>3. ASSUME NEW x \in S, NEW y \in S, x # y, <<x, y>> \in R
      PROVE  Cardinality(Down(x)) # Cardinality(Down(y))
  <2>1. Down(x) \in SUBSET Down(y) /\ y \in Down(y) /\ y \notin Down(x)
    BY <1>3 DEF TotallyOrders
  <2> HIDE DEF Down
  <2> QED
    BY <1>1, <2>1, FS_Subset
<1>4. rank \in [S -> T]
  <2> HIDE DEF Down
  <2> QED
    BY <1>1, <1>2
<1>5. \A x, y \in S : rank[x] = rank[y] => x = y
  <2> HIDE DEF Down
  <2> QED
    BY <1>3 DEF TotallyOrders
<1>6. rank \in Injection(S, T)
  <2> HIDE DEF rank, T
  <2> QED
    BY <1>4, <1>5 DEF Injection, IsInjective
<1>7. IsFiniteSet(T) /\ Cardinality(T) = Cardinality(S)
  BY <1>2, FS_Interval
<1>8. rank \in Surjection(S, T)
  <2> HIDE DEF rank, T
  <2> QED
    BY <1>6, <1>7, FS_Injection
<1>9. rank \in Bijection(S, T)
  <2> HIDE DEF rank, T
  <2> QED
    BY <1>6, <1>8 DEF Bijection
<1> QED
  BY <1>9 DEF rank, T, Down, Ranks

\* Sets with as many members as each other.
LEMMA SameSize ==
  ASSUME NEW S, NEW T, IsFiniteSet(S), NEW f \in [S -> T],
         \A x, y \in S : f[x] = f[y] => x = y, \A t \in T : \E x \in S : f[x] = t
  PROVE  IsFiniteSet(T) /\ Cardinality(T) = Cardinality(S)
<1>1. f \in Bijection(S, T)
  BY DEF Bijection, Injection, Surjection, IsInjective
<1> QED
  BY <1>1, FS_Bijection DEF ExistsBijection

\* In a finite set under a total order one member comes first.
LEMMA FirstInOrder ==
  ASSUME NEW S, IsFiniteSet(S), S # {}, NEW R,
         TotallyOrders(R, S)
  PROVE  \E x \in S : \A y \in S : <<x, y>> \in R
<1> DEFINE Down(x) == {y \in S : <<y, x>> \in R}
           rank == Ranks(R, S)
<1>1. rank \in Bijection(S, 1 .. Cardinality(S))
  BY RankIsBijection
<1>2. Cardinality(S) \in Nat /\ Cardinality(S) # 0
  BY FS_CardinalityType, FS_EmptySet
<1>3. 1 \in 1 .. Cardinality(S)
  BY <1>2
<1>4. PICK x \in S : rank[x] = 1
  <2> HIDE DEF rank
  <2> QED
    BY <1>1, <1>3 DEF Bijection, Surjection
<1>5. Cardinality(Down(x)) = 1
  BY <1>4 DEF Ranks
<1>6. IsFiniteSet(Down(x)) /\ x \in Down(x)
  <2>1. Down(x) \in SUBSET S /\ x \in Down(x)
    BY DEF TotallyOrders
  <2> HIDE DEF Down
  <2> QED
    BY <2>1, FS_Subset
<1>7. Down(x) = {x}
  <2> HIDE DEF Down
  <2>1. \E z : Down(x) = {z}
    BY <1>5, <1>6, FS_Singleton
  <2> QED
    BY <1>6, <2>1
<1>8. ASSUME NEW y \in S PROVE <<x, y>> \in R
  <2>1. CASE y = x
    BY <2>1 DEF TotallyOrders
  <2>2. CASE y # x
    <3>1. y \notin Down(x)
      BY <1>7, <2>2
    <3> QED
      BY <3>1 DEF TotallyOrders
  <2> QED
    BY <2>1, <2>2
<1> QED
  BY <1>8

=============================================================================
