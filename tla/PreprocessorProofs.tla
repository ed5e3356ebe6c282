------------------------- MODULE PreprocessorProofs -------------------------
(***************************************************************************)
(* The preprocessor, for every task without conditional effects whose      *)
(* mutex groups hold: what it prunes is on no path to the goal, the dummy  *)
(* task is only written for a task without a plan, no plan is lost and a   *)
(* plan of the output is a plan of the task.                               *)
(***************************************************************************)
EXTENDS PreprocessorInvariants, SetLemmas

-----------------------------------------------------------------------------
(* What the recursive functions compute.                                   *)

\* The nodes reached in a graph: the least set that has the first ones and is closed.
LEMMA ReachableIsLeast ==
  ASSUME NEW nodes, NEW edges, IsFiniteSet(nodes \cup {e[2] : e \in edges})
  PROVE  /\ nodes \subseteq ReachableFrom(nodes, edges)
         /\ ReachableFrom(nodes, edges) \subseteq nodes \cup {e[2] : e \in edges}
         /\ \A e \in edges : e[1] \in ReachableFrom(nodes, edges) => e[2] \in ReachableFrom(nodes, edges)
         /\ \A X : nodes \subseteq X /\ (\A e \in edges : e[1] \in X => e[2] \in X)
                     => ReachableFrom(nodes, edges) \subseteq X
<1> DEFINE all == nodes \cup {e[2] : e \in edges}
           More(S) == {e[2] : e \in {d \in edges : d[1] \in S}} \ S
           Closed(S) == \A e \in edges : e[1] \in S => e[2] \in S
           Least(S) == {x \in all : \A X \in SUBSET all : S \subseteq X /\ Closed(X) => x \in X}
           f == [S \in SUBSET all |-> Least(S)]
           g == CHOOSE c : c = [S \in SUBSET all |-> IF More(S) = {} THEN S ELSE c[S \cup More(S)]]
<1>1. \A S \in SUBSET all : /\ More(S) \subseteq all
                            /\ More(S) = {} <=> Closed(S)
  OBVIOUS
<1>2. \A S \in SUBSET all : More(S) = {} => Least(S) = S
  BY <1>1
<1>3. ASSUME NEW S \in SUBSET all PROVE Least(S \cup More(S)) = Least(S)
  <2>1. ASSUME NEW X \in SUBSET all, Closed(X) PROVE S \subseteq X <=> S \cup More(S) \subseteq X
    BY <2>1
  <2> QED
    BY <2>1
<1>4. f = [S \in SUBSET all |-> IF More(S) = {} THEN S ELSE f[S \cup More(S)]]
  <2> HIDE DEF More, Least, all
  <2>1. \A S \in SUBSET all : S \cup More(S) \in SUBSET all
    BY <1>1
  <2> QED
    BY <1>2, <1>3, <2>1
<1>5. g = [S \in SUBSET all |-> IF More(S) = {} THEN S ELSE g[S \cup More(S)]]
  <2> HIDE DEF More, Least, all
  <2> QED
    BY <1>4
<1>6. ReachableFrom(nodes, edges) = g[nodes]
  BY DEF ReachableFrom
<1> HIDE DEF g
<1>7. \A S \in SUBSET all : g[S] = Least(S)
  <2> DEFINE Wrong == {S \in SUBSET all : g[S] # Least(S)}
             Left == {all \ S : S \in Wrong}
  <2> SUFFICES ASSUME Wrong # {} PROVE FALSE
    OBVIOUS
  <2> HIDE DEF More, Least
  <2>1. Left \subseteq SUBSET all /\ Left # {}
    OBVIOUS
  <2>2. PICK least \in Left : \A y \in Left : y \subseteq least => y = least
    <3> HIDE DEF Left
    <3> QED
      BY <2>1, SmallestSet
  <2>3. PICK S \in Wrong : least = all \ S
    OBVIOUS
  <2>4. More(S) # {}
    BY <1>2, <1>5
  <2>5. S \cup More(S) \in SUBSET all /\ More(S) \cap S = {}
    BY <1>1 DEF More
  <2>6. S \cup More(S) \notin Wrong
    <3> SUFFICES ASSUME S \cup More(S) \in Wrong PROVE FALSE
      OBVIOUS
    <3>1. all \ (S \cup More(S)) \in Left
      OBVIOUS
    <3>2. all \ (S \cup More(S)) = all \ S
      BY <2>2, <2>3, <3>1
    <3> QED
      BY <2>4, <2>5, <3>2
  <2>7. g[S] = g[S \cup More(S)]
    BY <1>5, <2>4
  <2> QED
    BY <1>3, <2>5, <2>6, <2>7
<1>8. ReachableFrom(nodes, edges) = Least(nodes)
  <2>1. nodes \in SUBSET all
    OBVIOUS
  <2> HIDE DEF Least, all
  <2> QED
    BY <1>6, <1>7, <2>1
<1>9. ASSUME NEW X, nodes \subseteq X, Closed(X) PROVE Least(nodes) \subseteq X
  <2>1. nodes \subseteq X \cap all /\ Closed(X \cap all) /\ X \cap all \in SUBSET all
    BY <1>9
  <2> QED
    BY <2>1
<1>10. nodes \subseteq Least(nodes) /\ Least(nodes) \subseteq all /\ Closed(Least(nodes))
  OBVIOUS
<1> QED
  BY <1>8, <1>9, <1>10

\* A set that has the first of some values, and each next one, has them all.
LEMMA InductionUpto ==
  ASSUME NEW X, NEW k \in Nat, NEW g, g[0] \in X, \A i \in 1 .. k : g[i - 1] \in X => g[i] \in X
  PROVE  \A i \in 0 .. k : g[i] \in X
<1> DEFINE S == {n \in Nat : n <= k => g[n] \in X}
<1>1. S \in SUBSET Nat /\ 0 \in S
  OBVIOUS
<1>2. ASSUME NEW n \in S PROVE n + 1 \in S
  <2>1. CASE n + 1 <= k
    <3>1. n + 1 \in 1 .. k /\ (n + 1) - 1 = n /\ n \in Nat
      BY <2>1
    <3> QED
      BY <2>1, <3>1
  <2>2. CASE ~(n + 1 <= k)
    BY <2>2
  <2> QED
    BY <2>1, <2>2
<1>3. S = Nat
  <2> HIDE DEF S
  <2> QED
    BY <1>1, <1>2, NatInductive
<1> QED
  BY <1>3

LEMMA ApplyOpAddsReached ==
  ASSUME NEW H, NEW hh \in VerdictsOn(H), NEW edge, edge.add \subseteq H
  PROVE  /\ ApplyOp(hh, edge) \in VerdictsOn(H)
         /\ hh.reached \subseteq ApplyOp(hh, edge).reached
         /\ ApplyOp(hh, edge) = [hh EXCEPT !.reached = ApplyOp(hh, edge).reached]
<1>1. \A pair \in ReachedBy(hh, edge) : pair \subseteq H
  BY DEF ReachedBy, Pairs, VerdictsOn
<1> QED
  BY <1>1 DEF ApplyOp, VerdictsOn

\* A round of the fixpoint only makes pairs reached; if it makes none, no operator does.
LEMMA RoundAddsReached ==
  ASSUME NEW H, NEW hh \in VerdictsOn(H), NEW n \in Nat, NEW edges,
         \A i \in DOMAIN edges : edges[i].add \subseteq H
  PROVE  /\ Round(hh, edges, n) \in VerdictsOn(H)
         /\ hh.reached \subseteq Round(hh, edges, n).reached
         /\ Round(hh, edges, n) = [hh EXCEPT !.reached = Round(hh, edges, n).reached]
         /\ Round(hh, edges, n) = hh => \A i \in DOMAIN edges \cap 1 .. n : ApplyOp(hh, edges[i]) = hh
<1> DEFINE X == VerdictsOn(H)
           Step(x, i) == IF i \in DOMAIN edges THEN ApplyOp(x, edges[i]) ELSE x
           Body(f, i) == IF i = 0 THEN hh
                         ELSE IF i \in DOMAIN edges THEN ApplyOp(f[i - 1], edges[i]) ELSE f[i - 1]
           G == [i \in 1 .. n |-> [x \in X |-> Step(x, i)]]
           g == CHOOSE f : f = [i \in 0 .. n |-> Body(f, i)]
<1>1. \A x \in X, i \in 1 .. n : /\ Step(x, i) \in X
                                 /\ x.reached \subseteq Step(x, i).reached
                                 /\ Step(x, i) = [x EXCEPT !.reached = Step(x, i).reached]
  <2> SUFFICES ASSUME NEW x \in X, NEW i \in 1 .. n
               PROVE  /\ Step(x, i) \in X
                      /\ x.reached \subseteq Step(x, i).reached
                      /\ Step(x, i) = [x EXCEPT !.reached = Step(x, i).reached]
    OBVIOUS
  <2>1. CASE i \in DOMAIN edges
    BY <2>1, ApplyOpAddsReached
  <2>2. CASE i \notin DOMAIN edges
    BY <2>2 DEF VerdictsOn
  <2> QED
    BY <2>1, <2>2
<1>2. PICK f \in [0 .. n -> X] : IteratesUpto(f, n, hh, G)
  <2>1. hh \in X /\ G \in [1 .. n -> [X -> X]]
    <3> HIDE DEF Step, X
    <3> QED
      BY <1>1 DEF X
  <2> HIDE DEF G, X
  <2> QED
    BY <2>1, RecursionUpto
<1>3. f = [i \in 0 .. n |-> Body(f, i)]
  <2>1. f = [i \in 0 .. n |-> IF i = 0 THEN hh ELSE G[i][f[i - 1]]]
    <3> HIDE DEF G, X
    <3> QED
      BY <1>2 DEF IteratesUpto
  <2>2. ASSUME NEW i \in 0 .. n PROVE f[i] = Body(f, i)
    <3>1. CASE i = 0
      BY <2>1, <3>1
    <3>2. CASE i # 0
      <4>1. i \in 1 .. n /\ i - 1 \in 0 .. n
        BY <3>2
      <4>2. f[i - 1] \in X
        <5> HIDE DEF X
        <5> QED
          BY <1>2, <4>1
      <4>3. f[i] = G[i][f[i - 1]]
        <5> HIDE DEF X, G
        <5> QED
          BY <2>1, <3>2
      <4>4. f[i] = Step(f[i - 1], i)
        <5> HIDE DEF X, Step
        <5> QED
          BY <4>1, <4>2, <4>3
      <4> QED
        BY <3>2, <4>4
    <3> QED
      BY <3>1, <3>2
  <2>3. DOMAIN f = 0 .. n /\ f = [i \in 0 .. n |-> f[i]]
    BY <1>2
  <2> HIDE DEF Body
  <2> QED
    BY <2>2, <2>3
<1>4. g = [i \in 0 .. n |-> Body(g, i)]
  <2> HIDE DEF Body
  <2> QED
    BY <1>3
<1>5. Round(hh, edges, n) = g[n]
  BY DEF Round
<1> HIDE DEF g
<1>6. g[0] = hh /\ \A i \in 1 .. n : g[i] = Step(g[i - 1], i)
  <2>1. g[0] = Body(g, 0)
    <3> HIDE DEF Body
    <3> QED
      BY <1>4
  <2>2. ASSUME NEW i \in 1 .. n PROVE g[i] = Step(g[i - 1], i)
    <3>1. g[i] = Body(g, i) /\ i # 0
      <4> HIDE DEF Body
      <4> QED
        BY <1>4
    <3> QED
      BY <3>1
  <2> QED
    BY <2>1, <2>2
<1> DEFINE Over == {x \in X : hh.reached \subseteq x.reached /\ x = [hh EXCEPT !.reached = x.reached]}
<1>7. \A i \in 0 .. n : g[i] \in Over
  <2>1. g[0] \in Over
    BY <1>6 DEF VerdictsOn
  <2>2. ASSUME NEW i \in 1 .. n, g[i - 1] \in Over PROVE g[i] \in Over
    <3> DEFINE x == g[i - 1]
               y == Step(x, i)
    <3>1. g[i] = y
      BY <1>6
    <3>2. x \in X /\ hh.reached \subseteq x.reached /\ x = [hh EXCEPT !.reached = x.reached]
      BY <2>2
    <3>3. y \in X /\ x.reached \subseteq y.reached /\ y = [x EXCEPT !.reached = y.reached]
      <4> HIDE DEF X, Step
      <4> QED
        BY <1>1, <3>2
    <3> HIDE DEF x, y
    <3>4. y = [hh EXCEPT !.reached = y.reached]
      BY <3>2, <3>3 DEF VerdictsOn
    <3> QED
      BY <3>1, <3>2, <3>3, <3>4
  <2> HIDE DEF Over
  <2> QED
    BY <2>1, <2>2, InductionUpto
<1>8. ASSUME g[n] = hh, NEW i \in DOMAIN edges \cap 1 .. n PROVE ApplyOp(hh, edges[i]) = hh
  <2> DEFINE Back == {x \in Over : x.reached \subseteq hh.reached}
             k == [j \in 0 .. n |-> g[n - j]]
  <2>1. ASSUME NEW x \in Back PROVE x = hh
    <3>1. x.reached = hh.reached /\ x = [hh EXCEPT !.reached = x.reached]
      OBVIOUS
    <3>2. [hh EXCEPT !.reached = hh.reached] = hh
      BY DEF VerdictsOn
    <3> QED
      BY <3>1, <3>2
  <2>2. k[0] \in Back
    <3>1. hh \in Back
      BY DEF VerdictsOn
    <3> QED
      BY <1>8, <3>1
  <2>3. ASSUME NEW j \in 1 .. n, k[j - 1] \in Back PROVE k[j] \in Back
    <3>1. n - j \in 0 .. n /\ n - (j - 1) \in 1 .. n /\ (n - (j - 1)) - 1 = n - j /\ j \in 0 .. n /\ j - 1 \in 0 .. n
      OBVIOUS
    <3>2. g[n - (j - 1)] = Step(g[n - j], n - (j - 1))
      BY <1>6, <3>1
    <3>3. g[n - j] \in Over
      BY <1>7, <3>1
    <3>4. k[j] = g[n - j] /\ k[j - 1] = g[n - (j - 1)]
      BY <3>1
    <3>5. g[n - j].reached \subseteq g[n - (j - 1)].reached
      <4> HIDE DEF Step
      <4> QED
        BY <1>1, <3>1, <3>2, <3>3
    <3> QED
      BY <2>3, <3>3, <3>4, <3>5
  <2>4. \A j \in 0 .. n : k[j] \in Back
    <3> HIDE DEF Back, k
    <3> QED
      BY <2>2, <2>3, InductionUpto
  <2>5. \A j \in 0 .. n : g[j] = hh
    <3> SUFFICES ASSUME NEW j \in 0 .. n PROVE g[j] = hh
      OBVIOUS
    <3>1. n - j \in 0 .. n /\ n - (n - j) = j
      OBVIOUS
    <3>2. k[n - j] = g[j]
      BY <3>1
    <3> HIDE DEF k, Back
    <3> QED
      BY <2>1, <2>4, <3>1, <3>2
  <2>6. i \in 1 .. n /\ i - 1 \in 0 .. n /\ i \in 0 .. n
    OBVIOUS
  <2> QED
    BY <1>6, <2>5, <2>6
<1>9. g[n] \in Over
  BY <1>7
<1> QED
  BY <1>5, <1>8, <1>9

\* What every round of detect_unreachable_fluents keeps, its end has.
LEMMA DetectUnreachableStaysIn ==
  ASSUME NEW hh, IsFiniteSet(hh.facts), NEW Y,
         hh \in Y, \A x \in Y : ExcludeByStatic(x) \in Y
  PROVE  DetectUnreachable(hh) \in Y
<1> DEFINE n == Cardinality(hh.facts) + 1
           start == hh
           Step(x) == ExcludeByStatic(x)
           Body(f, k) == IF k = 0 THEN start ELSE Step(f[k - 1])
           G == [i \in 1 .. n |-> [x \in Y |-> Step(x)]]
           g == CHOOSE f : f = [k \in 0 .. n |-> Body(f, k)]
<1>1. n \in Nat
  BY FS_CardinalityType
<1>2. PICK f \in [0 .. n -> Y] : IteratesUpto(f, n, start, G)
  <2>1. start \in Y /\ G \in [1 .. n -> [Y -> Y]]
    OBVIOUS
  <2> HIDE DEF n, start, G
  <2> QED
    BY <1>1, <2>1, RecursionUpto
<1>3. f = [k \in 0 .. n |-> Body(f, k)]
  <2>1. f = [i \in 0 .. n |-> IF i = 0 THEN start ELSE G[i][f[i - 1]]]
    <3> HIDE DEF n, start, G
    <3> QED
      BY <1>2 DEF IteratesUpto
  <2> HIDE DEF n, start, Step
  <2>2. ASSUME NEW i \in 0 .. n PROVE f[i] = Body(f, i)
    <3>1. CASE i = 0
      BY <2>1, <3>1
    <3>2. CASE i # 0
      <4>1. i \in 1 .. n /\ i - 1 \in 0 .. n
        BY <1>1, <3>2
      <4>2. f[i - 1] \in Y
        BY <1>2, <4>1
      <4>3. f[i] = G[i][f[i - 1]]
        <5> HIDE DEF G
        <5> QED
          BY <2>1, <3>2
      <4> QED
        BY <3>2, <4>1, <4>2, <4>3
    <3> QED
      BY <3>1, <3>2
  <2>3. f = [k \in 0 .. n |-> f[k]]
    BY <1>2
  <2> HIDE DEF Body
  <2> QED
    BY <2>2, <2>3
<1>4. g = [k \in 0 .. n |-> Body(g, k)]
  <2> HIDE DEF Body, n
  <2> QED
    BY <1>3
<1>5. DetectUnreachable(hh) = g[n]
  BY DEF DetectUnreachable
<1> HIDE DEF g, n, start, Step
<1>6. g[0] \in Y /\ \A k \in 1 .. n : g[k - 1] \in Y => g[k] \in Y
  <2>1. \A k \in 0 .. n : g[k] = Body(g, k)
    <3> HIDE DEF Body
    <3> QED
      BY <1>4
  <2>2. g[0] = start
    BY <1>1, <2>1
  <2>3. \A k \in 1 .. n : g[k] = Step(g[k - 1])
    BY <1>1, <2>1
  <2>4. start \in Y /\ \A x \in Y : Step(x) \in Y
    BY DEF start, Step
  <2> QED
    BY <2>2, <2>3, <2>4
<1>7. n \in 0 .. n
  BY <1>1
<1> QED
  BY <1>1, <1>5, <1>6, <1>7, InductionUpto

\* What every round of the disambiguation keeps, its end has.
LEMMA DisambiguateStaysIn ==
  ASSUME NEW hh, NEW op, NEW unknown, NEW known, IsFiniteSet(unknown), NEW Y,
         [possible |-> TRUE, unknown |-> unknown, known |-> known, found |-> {}] \in Y, \A x \in Y : DisambiguationRound(hh, op, x) \in Y
  PROVE  Disambiguate(hh, op, unknown, known) \in Y
<1> DEFINE n == Cardinality(unknown)
           start == [possible |-> TRUE, unknown |-> unknown, known |-> known, found |-> {}]
           Step(x) == DisambiguationRound(hh, op, x)
           Body(f, k) == IF k = 0 THEN start ELSE Step(f[k - 1])
           G == [i \in 1 .. n |-> [x \in Y |-> Step(x)]]
           g == CHOOSE f : f = [k \in 0 .. n |-> Body(f, k)]
<1>1. n \in Nat
  BY FS_CardinalityType
<1>2. PICK f \in [0 .. n -> Y] : IteratesUpto(f, n, start, G)
  <2>1. start \in Y /\ G \in [1 .. n -> [Y -> Y]]
    OBVIOUS
  <2> HIDE DEF n, start, G
  <2> QED
    BY <1>1, <2>1, RecursionUpto
<1>3. f = [k \in 0 .. n |-> Body(f, k)]
  <2>1. f = [i \in 0 .. n |-> IF i = 0 THEN start ELSE G[i][f[i - 1]]]
    <3> HIDE DEF n, start, G
    <3> QED
      BY <1>2 DEF IteratesUpto
  <2> HIDE DEF n, start, Step
  <2>2. ASSUME NEW i \in 0 .. n PROVE f[i] = Body(f, i)
    <3>1. CASE i = 0
      BY <2>1, <3>1
    <3>2. CASE i # 0
      <4>1. i \in 1 .. n /\ i - 1 \in 0 .. n
        BY <1>1, <3>2
      <4>2. f[i - 1] \in Y
        BY <1>2, <4>1
      <4>3. f[i] = G[i][f[i - 1]]
        <5> HIDE DEF G
        <5> QED
          BY <2>1, <3>2
      <4> QED
        BY <3>2, <4>1, <4>2, <4>3
    <3> QED
      BY <3>1, <3>2
  <2>3. f = [k \in 0 .. n |-> f[k]]
    BY <1>2
  <2> HIDE DEF Body
  <2> QED
    BY <2>2, <2>3
<1>4. g = [k \in 0 .. n |-> Body(g, k)]
  <2> HIDE DEF Body, n
  <2> QED
    BY <1>3
<1>5. Disambiguate(hh, op, unknown, known) = g[n]
  BY DEF Disambiguate
<1> HIDE DEF g, n, start, Step
<1>6. g[0] \in Y /\ \A k \in 1 .. n : g[k - 1] \in Y => g[k] \in Y
  <2>1. \A k \in 0 .. n : g[k] = Body(g, k)
    <3> HIDE DEF Body
    <3> QED
      BY <1>4
  <2>2. g[0] = start
    BY <1>1, <2>1
  <2>3. \A k \in 1 .. n : g[k] = Step(g[k - 1])
    BY <1>1, <2>1
  <2>4. start \in Y /\ \A x \in Y : Step(x) \in Y
    BY DEF start, Step
  <2> QED
    BY <2>2, <2>3, <2>4
<1>7. n \in 0 .. n
  BY <1>1
<1> QED
  BY <1>1, <1>5, <1>6, <1>7, InductionUpto

-----------------------------------------------------------------------------
(* Facts, states and the paths between them.                               *)

LEMMA AtMostOne ==
  ASSUME NEW S, IsFiniteSet(S)
  PROVE  Cardinality(S) <= 1 <=> \A x, y \in S : x = y
<1>1. Cardinality(S) \in Nat
  BY FS_CardinalityType
<1>2. CASE S = {}
  BY <1>2, FS_EmptySet
<1>3. CASE S # {}
  <2>1. Cardinality(S) # 0
    BY <1>3, FS_EmptySet
  <2>2. Cardinality(S) <= 1 <=> Cardinality(S) = 1
    BY <1>1, <2>1
  <2>3. Cardinality(S) = 1 <=> \E x : S = {x}
    BY FS_Singleton
  <2>4. (\E x : S = {x}) <=> \A x, y \in S : x = y
    <3>1. PICK x \in S : TRUE
      BY <1>3
    <3>2. (\A p, q \in S : p = q) => S = {x}
      BY <3>1
    <3> QED
      BY <3>2
  <2> QED
    BY <2>2, <2>3, <2>4
<1> QED
  BY <1>2, <1>3

LEMMA PairOfTwo ==
  ASSUME NEW p, NEW q
  PROVE  IsFiniteSet({p, q}) /\ (Cardinality({p, q}) = 2 <=> p # q)
<1>1. IsFiniteSet({p}) /\ Cardinality({p}) = 1
  BY FS_Singleton
<1>2. /\ IsFiniteSet({p} \cup {q})
      /\ Cardinality({p} \cup {q}) = IF q \in {p} THEN Cardinality({p}) ELSE Cardinality({p}) + 1
  BY <1>1, FS_AddElement
<1>3. {p} \cup {q} = {p, q}
  OBVIOUS
<1> QED
  BY <1>1, <1>2, <1>3

LEMMA FactsAreFinite == IsFiniteSet(Facts)
<1> DEFINE f == [v \in Variables |-> {v} \X Values[v]]
           T == {{v} \X Values[v] : v \in Variables}
<1>1. f \in Surjection(Variables, T)
  BY DEF Surjection
<1>2. IsFiniteSet(T)
  <2> HIDE DEF f, T
  <2> QED
    BY <1>1, FS_Surjection, PreprocessorAssumption DEF PreprocessorAssumption
<1>3. \A x \in T : IsFiniteSet(x)
  <2> SUFFICES ASSUME NEW v \in Variables PROVE IsFiniteSet({v} \X Values[v])
    OBVIOUS
  <2>1. IsFiniteSet({v}) /\ IsFiniteSet(Values[v])
    BY FS_Singleton, PreprocessorAssumption DEF PreprocessorAssumption
  <2> QED
    BY <2>1, FS_Product
<1>4. Facts = UNION T
  BY DEF Facts
<1> QED
  BY <1>2, <1>3, <1>4, FS_UNION

LEMMA FactIsPair ==
  /\ \A f \in Facts : f = <<f[1], f[2]>> /\ f[1] \in Variables /\ f[2] \in Values[f[1]]
  /\ \A v \in Variables : \A d \in Values[v] : <<v, d>> \in Facts
  /\ \A V \in SUBSET Variables : /\ OfVariables(V) = {f \in Facts : f[1] \in V}
                                 /\ \A v \in V : \A d \in Values[v] : <<v, d>> \in OfVariables(V)
                                 /\ IsFiniteSet(OfVariables(V))
  /\ \A v \in Variables : \A d \in Values[v] : d \in Nat
<1>1. /\ \A f \in Facts : f = <<f[1], f[2]>> /\ f[1] \in Variables /\ f[2] \in Values[f[1]]
      /\ \A v \in Variables : \A d \in Values[v] : <<v, d>> \in Facts
  BY DEF Facts
<1>2. ASSUME NEW V \in SUBSET Variables
      PROVE  /\ OfVariables(V) = {f \in Facts : f[1] \in V}
             /\ \A v \in V : \A d \in Values[v] : <<v, d>> \in OfVariables(V)
  BY DEF OfVariables, Facts
<1>3. \A V \in SUBSET Variables : IsFiniteSet(OfVariables(V))
  <2> SUFFICES ASSUME NEW V \in SUBSET Variables PROVE IsFiniteSet(OfVariables(V))
    OBVIOUS
  <2>1. OfVariables(V) \in SUBSET Facts
    BY <1>2
  <2> QED
    BY <2>1, FactsAreFinite, FS_Subset
<1>4. \A v \in Variables : \A d \in Values[v] : d \in Nat
  BY PreprocessorAssumption DEF PreprocessorAssumption
<1> QED
  BY <1>1, <1>2, <1>3, <1>4

\* A state as the search has it.
IsState(s) == s = [v \in Variables |-> s[v]] /\ \A v \in Variables : s[v] \in Values[v]

LEMMA FactsOfState ==
  ASSUME NEW s, IsState(s)
  PROVE  /\ DOMAIN s = Variables
         /\ FactsOf(s) \subseteq Facts
         /\ \A v \in Variables : <<v, s[v]>> \in FactsOf(s)
         /\ \A p \in FactsOf(s) : p[1] \in Variables /\ p[2] = s[p[1]] /\ p = <<p[1], s[p[1]]>>
         /\ \A p, q \in FactsOf(s) : p[1] = q[1] => p = q
         /\ \A p : p = <<p[1], p[2]>> /\ p[1] \in Variables /\ s[p[1]] = p[2] => p \in FactsOf(s)
<1>1. DOMAIN s = Variables
  BY DEF IsState
<1> QED
  BY <1>1, FactIsPair DEF FactsOf, IsState

LEMMA TaskIsTask ==
  ASSUME task \in Tasks
  PROVE  /\ DOMAIN task.ops = 1 .. Len(task.ops) /\ Len(task.ops) \in Nat
         /\ \A i \in DOMAIN task.ops : IsOperator(task.ops[i])
         /\ \A op \in AllOps(task.ops) : IsOperator(op)
         /\ IsState(task.init)
         /\ task.goal \subseteq Facts
         /\ \A g \in task.groups : g \subseteq Facts
<1>1. IsTask(task)
  BY PreprocessorAssumption DEF PreprocessorAssumption
<1>2. task.ops \in Seq({task.ops[i] : i \in DOMAIN task.ops})
  BY <1>1 DEF IsTask
<1>3. DOMAIN task.ops = 1 .. Len(task.ops) /\ Len(task.ops) \in Nat
  BY <1>2
<1>4. \A i \in DOMAIN task.ops : IsOperator(task.ops[i])
  BY <1>1 DEF IsTask
<1>5. \A op \in AllOps(task.ops) : IsOperator(op)
  BY <1>4 DEF AllOps
<1>6. DOMAIN task.init = Variables /\ FactsOf(task.init) \subseteq Facts
  BY <1>1 DEF IsTask
<1>7. \A v \in Variables : task.init[v] \in Values[v]
  <2> SUFFICES ASSUME NEW v \in Variables PROVE task.init[v] \in Values[v]
    OBVIOUS
  <2>1. <<v, task.init[v]>> \in Facts
    BY <1>6 DEF FactsOf
  <2> QED
    BY <2>1, FactIsPair
<1>8. task.init = [v \in Variables |-> task.init[v]]
  BY <1>1 DEF IsTask
<1> QED
  BY <1>1, <1>3, <1>4, <1>5, <1>7, <1>8 DEF IsTask, IsState

Unchanged(s) ==
  \A v \in Variables : (\A op \in AllOps(task.ops) : v \notin EffectVars(op)) => s[v] = task.init[v]

LEMMA StatesOfTheTask ==
  ASSUME task \in Tasks
  PROVE  /\ \A s : s \in AllStates <=> IsState(s) /\ Unchanged(s)
         /\ task.init \in AllStates
         /\ IsFiniteSet(AllStates)
<1> DEFINE ops == AllOps(task.ops)
           init == task.init
           changed == UNION {EffectVars(op) : op \in ops}
           R == {r \in [changed -> UNION {Values[v] : v \in Variables}] : \A v \in changed : r[v] \in Values[v]}
           State(r) == [v \in Variables |-> IF v \in changed THEN r[v] ELSE init[v]]
<1>1. changed \subseteq Variables
  BY TaskIsTask DEF IsOperator, EffectVars
<1>2. \A v \in Variables : v \notin changed <=> \A op \in ops : v \notin EffectVars(op)
  OBVIOUS
<1>3. AllStates = {State(s) : s \in R}
  BY DEF AllStates, StatesOf
<1>4. IsState(init) /\ \A v \in Variables : init[v] \in Values[v]
  BY TaskIsTask DEF IsState
<1>5. ASSUME NEW s \in AllStates PROVE IsState(s) /\ Unchanged(s)
  <2>1. PICK r \in R : s = State(r)
    BY <1>3
  <2>2. \A v \in changed : r[v] \in Values[v]
    OBVIOUS
  <2> HIDE DEF changed, R
  <2>3. IsState(s)
    BY <1>4, <2>1, <2>2 DEF IsState
  <2> QED
    BY <1>2, <2>1, <2>3 DEF Unchanged
<1>6. ASSUME NEW s, IsState(s), Unchanged(s) PROVE s \in AllStates
  <2> DEFINE r == [v \in changed |-> s[v]]
  <2>1. r \in R
    <3> HIDE DEF changed
    <3>1. \A v \in changed : s[v] \in Values[v] /\ s[v] \in UNION {Values[w] : w \in Variables}
      BY <1>1, <1>6 DEF IsState
    <3> QED
      BY <3>1
  <2>2. \A v \in Variables : s[v] = State(r)[v]
    <3> HIDE DEF changed
    <3> QED
      BY <1>2, <1>6 DEF Unchanged
  <2>3. s = State(r)
    <3> HIDE DEF r, State
    <3>1. State(r) = [v \in Variables |-> State(r)[v]]
      BY DEF State
    <3> QED
      BY <1>6, <2>2, <3>1 DEF IsState
  <2> HIDE DEF State, R, r
  <2> QED
    BY <1>3, <2>1, <2>3
<1>7. init \in AllStates
  BY <1>4, <1>6 DEF Unchanged
<1>8. IsFiniteSet(AllStates)
  <2> DEFINE f == [s \in AllStates |-> FactsOf(s)]
  <2>1. f \in [AllStates -> SUBSET Facts]
    BY <1>5, FactsOfState
  <2>2. ASSUME NEW s \in AllStates, NEW t \in AllStates, f[s] = f[t] PROVE s = t
    <3>1. IsState(s) /\ IsState(t) /\ FactsOf(s) = FactsOf(t)
      BY <1>5, <2>2
    <3>2. \A v \in Variables : s[v] = t[v]
      <4> SUFFICES ASSUME NEW v \in Variables PROVE s[v] = t[v]
        OBVIOUS
      <4>1. <<v, s[v]>> \in FactsOf(t)
        BY <3>1, FactsOfState
      <4> QED
        BY <3>1, <4>1, FactsOfState
    <3> QED
      BY <3>1, <3>2 DEF IsState
  <2>3. f \in Injection(AllStates, SUBSET Facts)
    <3> HIDE DEF f
    <3> QED
      BY <2>1, <2>2 DEF Injection, IsInjective
  <2>4. IsFiniteSet(SUBSET Facts)
    BY FactsAreFinite, FS_SUBSET
  <2> HIDE DEF f
  <2> QED
    BY <2>3, <2>4, FS_Injection
<1> QED
  BY <1>5, <1>6, <1>7, <1>8

LEMMA ResultIsState ==
  ASSUME task \in Tasks, NEW op \in AllOps(task.ops), NEW s \in AllStates
  PROVE  Result(op, s) \in AllStates
<1> DEFINE Firing(v) == {e \in op.effects : e.var = v /\ e.conds \subseteq FactsOf(s)}
           t == Result(op, s)
<1>1. IsOperator(op) /\ IsState(s) /\ Unchanged(s) /\ DOMAIN s = Variables
  BY TaskIsTask, StatesOfTheTask, FactsOfState
<1>2. t = [v \in Variables |-> IF Firing(v) = {} THEN s[v] ELSE (CHOOSE e \in Firing(v) : TRUE).post]
  BY <1>1 DEF Result
<1>3. \A v \in Variables : IF Firing(v) = {} THEN t[v] = s[v] ELSE \E e \in Firing(v) : t[v] = e.post
  <2> HIDE DEF Firing, t
  <2> QED
    BY <1>2
<1>4. \A v \in Variables : t[v] \in Values[v]
  <2> SUFFICES ASSUME NEW v \in Variables PROVE t[v] \in Values[v]
    OBVIOUS
  <2> HIDE DEF t
  <2>1. CASE Firing(v) = {}
    BY <1>1, <1>3, <2>1 DEF IsState
  <2>2. CASE Firing(v) # {}
    <3>1. PICK e \in Firing(v) : t[v] = e.post
      <4> HIDE DEF Firing
      <4> QED
        BY <1>3, <2>2
    <3>2. <<e.var, e.post>> \in Facts /\ e.var = v
      BY <1>1 DEF IsOperator
    <3> QED
      BY <3>1, <3>2, FactIsPair
  <2> QED
    BY <2>1, <2>2
<1>5. IsState(t)
  <2>1. t = [v \in Variables |-> t[v]]
    BY <1>2
  <2> HIDE DEF t
  <2> QED
    BY <1>4, <2>1 DEF IsState
<1>6. Unchanged(t)
  <2> SUFFICES ASSUME NEW v \in Variables, \A o \in AllOps(task.ops) : v \notin EffectVars(o)
               PROVE  t[v] = task.init[v]
    BY DEF Unchanged
  <2>1. Firing(v) = {}
    BY DEF EffectVars
  <2> HIDE DEF t, Firing
  <2> QED
    BY <1>1, <1>3, <2>1 DEF Unchanged
<1> QED
  BY <1>5, <1>6, StatesOfTheTask

After(step) == Result(task.ops[step[2]], step[1])

LEMMA TransitionsOfTheTask ==
  ASSUME task \in Tasks
  PROVE  /\ \A d \in Transitions(AllOps(task.ops)) :
              /\ d[1] \in AllStates /\ d[2] \in AllStates /\ d = <<d[1], d[2]>>
              /\ \E i \in DOMAIN task.ops : Applicable(task.ops[i], d[1]) /\ d[2] = Result(task.ops[i], d[1])
         /\ \A s \in AllStates : \A i \in DOMAIN task.ops :
              Applicable(task.ops[i], s) => <<s, Result(task.ops[i], s)>> \in Transitions(AllOps(task.ops))
<1> DEFINE Of(op) == {<<s, Result(op, s)>> : s \in {r \in AllStates : Applicable(op, r)}}
<1>1. Transitions(AllOps(task.ops)) = UNION {Of(op) : op \in AllOps(task.ops)}
  BY DEF Transitions
<1>2. \A i \in DOMAIN task.ops : task.ops[i] \in AllOps(task.ops)
  BY DEF AllOps
<1>3. \A op \in AllOps(task.ops) : \E i \in DOMAIN task.ops : op = task.ops[i]
  BY DEF AllOps
<1>4. ASSUME NEW d \in Transitions(AllOps(task.ops))
      PROVE  /\ d[1] \in AllStates /\ d[2] \in AllStates /\ d = <<d[1], d[2]>>
             /\ \E i \in DOMAIN task.ops : Applicable(task.ops[i], d[1]) /\ d[2] = Result(task.ops[i], d[1])
  <2>1. PICK op \in AllOps(task.ops) : d \in Of(op)
    BY <1>1
  <2>2. PICK s \in AllStates : Applicable(op, s) /\ d = <<s, Result(op, s)>>
    BY <2>1
  <2>3. Result(op, s) \in AllStates
    BY ResultIsState
  <2>4. PICK i \in DOMAIN task.ops : op = task.ops[i]
    BY <1>3
  <2>5. d[1] = s /\ d[2] = Result(op, s)
    BY <2>2
  <2> QED
    BY <2>2, <2>3, <2>4, <2>5
<1>5. ASSUME NEW s \in AllStates, NEW i \in DOMAIN task.ops, Applicable(task.ops[i], s)
      PROVE  <<s, Result(task.ops[i], s)>> \in Transitions(AllOps(task.ops))
  <2>1. <<s, Result(task.ops[i], s)>> \in Of(task.ops[i])
    BY <1>5
  <2> QED
    BY <1>1, <1>2, <2>1
<1> QED
  BY <1>4, <1>5

\* The useful states, on the paths from the initial state to the goal: what holds of the
\* first and is handed on along the steps between them holds of them all, and so does what
\* holds of the goals among them and is handed back.
LEMMA UsefulStates ==
  ASSUME task \in Tasks
  PROVE  /\ Useful \subseteq AllStates
         /\ Useful # {} => task.init \in Useful /\ \E s \in Useful : IsGoal(s)
         /\ \A P : /\ task.init \in P
                   /\ \A step \in StepsWithin(Useful) : step[1] \in P => After(step) \in P
                   => Useful \subseteq P
         /\ \A P : /\ \A s \in Useful : IsGoal(s) => s \in P
                   /\ \A step \in StepsWithin(Useful) : After(step) \in P => step[1] \in P
                   => Useful \subseteq P
<1> DEFINE T == Transitions(AllOps(task.ops))
           reached == ReachableFrom({task.init}, T)
           goals == {s \in reached : IsGoal(s)}
           back == {<<e[2], e[1]>> : e \in {d \in T : d[1] \in reached}}
           U == ReachableFrom(goals, back)
<1>1. Useful = U
  BY DEF Useful
<1>2. \A d \in T : d[1] \in AllStates /\ d[2] \in AllStates /\ d = <<d[1], d[2]>>
  BY TransitionsOfTheTask
<1>3. /\ task.init \in reached /\ reached \subseteq AllStates
      /\ \A d \in T : d[1] \in reached => d[2] \in reached
      /\ \A X : task.init \in X /\ (\A d \in T : d[1] \in X => d[2] \in X) => reached \subseteq X
  <2> DEFINE all == {task.init} \cup {e[2] : e \in T}
  <2>1. all \subseteq AllStates
    <3> HIDE DEF T
    <3> QED
      BY <1>2, StatesOfTheTask
  <2>2. IsFiniteSet(all)
    <3> HIDE DEF all
    <3> QED
      BY <2>1, StatesOfTheTask, FS_Subset
  <2>3. /\ {task.init} \subseteq reached /\ reached \subseteq all
        /\ \A d \in T : d[1] \in reached => d[2] \in reached
        /\ \A X : {task.init} \subseteq X /\ (\A d \in T : d[1] \in X => d[2] \in X) => reached \subseteq X
    <3> HIDE DEF T
    <3> QED
      BY <2>2, ReachableIsLeast
  <2> HIDE DEF T, reached, all
  <2> QED
    BY <2>1, <2>3
<1>4. \A e \in back : \E d \in T : d[1] \in reached /\ e = <<d[2], d[1]>> /\ e[1] = d[2] /\ e[2] = d[1]
  <2> HIDE DEF T, reached
  <2> QED
    OBVIOUS
<1>5. /\ goals \subseteq U /\ U \subseteq goals \cup {e[2] : e \in back}
      /\ \A d \in T : d[1] \in reached /\ d[2] \in U => d[1] \in U
      /\ \A X : goals \subseteq X /\ (\A d \in T : d[1] \in reached /\ d[2] \in X => d[1] \in X) => U \subseteq X
  <2> DEFINE all == goals \cup {e[2] : e \in back}
  <2>1. all \subseteq AllStates
    <3> HIDE DEF T, reached, back
    <3> QED
      BY <1>2, <1>3, <1>4
  <2>2. IsFiniteSet(all)
    <3> HIDE DEF all
    <3> QED
      BY <2>1, StatesOfTheTask, FS_Subset
  <2>3. /\ goals \subseteq U /\ U \subseteq all
        /\ \A e \in back : e[1] \in U => e[2] \in U
        /\ \A X : goals \subseteq X /\ (\A e \in back : e[1] \in X => e[2] \in X) => U \subseteq X
    <3> HIDE DEF goals, back
    <3> QED
      BY <2>2, ReachableIsLeast
  <2>4. ASSUME NEW d \in T, d[1] \in reached, d[2] \in U PROVE d[1] \in U
    <3>1. <<d[2], d[1]>> \in back
      <4> HIDE DEF T, reached
      <4> QED
        BY <2>4
    <3>2. <<d[2], d[1]>>[1] = d[2] /\ <<d[2], d[1]>>[2] = d[1]
      OBVIOUS
    <3> HIDE DEF back, U
    <3> QED
      BY <2>3, <2>4, <3>1, <3>2
  <2>5. ASSUME NEW X, goals \subseteq X, \A d \in T : d[1] \in reached /\ d[2] \in X => d[1] \in X
        PROVE  U \subseteq X
    <3>1. \A e \in back : e[1] \in X => e[2] \in X
      <4> HIDE DEF back, T, reached
      <4> QED
        BY <1>4, <2>5
    <3> HIDE DEF goals, back, U
    <3> QED
      BY <2>3, <2>5, <3>1
  <2> HIDE DEF goals, back, U, T, reached
  <2> QED
    BY <2>3, <2>4, <2>5
<1> HIDE DEF T, reached
<1>6. U \subseteq reached
  <2>1. goals \subseteq reached
    OBVIOUS
  <2> HIDE DEF goals, U
  <2> QED
    BY <1>5, <2>1
<1>7. \A s : s \in goals <=> s \in reached /\ IsGoal(s)
  OBVIOUS
<1> HIDE DEF goals, U, back
<1>8. U # {} => task.init \in U /\ \E s \in U : IsGoal(s)
  <2>1. ASSUME U # {} PROVE task.init \in U
    <3> SUFFICES ASSUME task.init \notin U PROVE FALSE
      OBVIOUS
    <3> DEFINE X == reached \ U
    <3>1. task.init \in X /\ \A d \in T : d[1] \in X => d[2] \in X
      BY <1>3, <1>5
    <3>2. reached \subseteq X
      <4> HIDE DEF X
      <4> QED
        BY <1>3, <3>1
    <3> QED
      BY <1>6, <2>1, <3>2
  <2>2. ASSUME U # {} PROVE \E s \in U : IsGoal(s)
    <3> SUFFICES ASSUME goals = {} PROVE FALSE
      BY <1>5, <1>7
    <3> DEFINE X == {}
    <3>1. goals \subseteq X /\ (\A d \in T : d[1] \in reached /\ d[2] \in X => d[1] \in X)
      OBVIOUS
    <3>2. U \subseteq X
      <4> HIDE DEF X
      <4> QED
        BY <1>5, <3>1
    <3> QED
      BY <2>2, <3>2
  <2> QED
    BY <2>1, <2>2
<1>9. ASSUME NEW d \in T, d[1] \in U, d[2] \in U
      PROVE  \E step \in StepsWithin(U) : step[1] = d[1] /\ After(step) = d[2]
  <2>1. PICK i \in DOMAIN task.ops : Applicable(task.ops[i], d[1]) /\ d[2] = Result(task.ops[i], d[1])
    BY TransitionsOfTheTask DEF T
  <2>2. <<d[1], i>> \in StepsWithin(U)
    BY <1>9, <2>1 DEF StepsWithin
  <2>3. <<d[1], i>>[1] = d[1] /\ After(<<d[1], i>>) = d[2]
    BY <2>1 DEF After
  <2> QED
    BY <2>2, <2>3
<1>10. ASSUME NEW P, task.init \in P,
              \A step \in StepsWithin(U) : step[1] \in P => After(step) \in P
       PROVE  U \subseteq P
  <2> DEFINE X == (reached \ U) \cup P
  <2>1. task.init \in X
    BY <1>10
  <2>2. ASSUME NEW d \in T, d[1] \in X \cap reached PROVE d[2] \in X \cap reached
    <3>1. d[2] \in reached
      BY <1>3, <2>2
    <3>2. CASE d[2] \notin U
      BY <3>1, <3>2
    <3>3. CASE d[2] \in U
      <4>1. d[1] \in U /\ d[1] \in P
        BY <1>5, <2>2, <3>3
      <4>2. PICK step \in StepsWithin(U) : step[1] = d[1] /\ After(step) = d[2]
        BY <1>9, <3>3, <4>1
      <4> QED
        BY <1>10, <3>1, <4>1, <4>2
    <3> QED
      BY <3>2, <3>3
  <2>3. reached \subseteq X \cap reached
    <3> DEFINE Y == X \cap reached
    <3>1. task.init \in Y /\ \A d \in T : d[1] \in Y => d[2] \in Y
      BY <1>3, <2>1, <2>2
    <3> HIDE DEF Y
    <3>2. reached \subseteq Y
      BY <1>3, <3>1
    <3> QED
      BY <3>2 DEF Y
  <2> QED
    BY <1>6, <2>3
<1>11. ASSUME NEW P, \A s \in U : IsGoal(s) => s \in P,
              \A step \in StepsWithin(U) : After(step) \in P => step[1] \in P
       PROVE  U \subseteq P
  <2> DEFINE X == P \cap U
  <2>1. goals \subseteq X
    BY <1>5, <1>7, <1>11
  <2>2. ASSUME NEW d \in T, d[1] \in reached, d[2] \in X PROVE d[1] \in X
    <3>1. d[1] \in U
      BY <1>5, <2>2
    <3>2. PICK step \in StepsWithin(U) : step[1] = d[1] /\ After(step) = d[2]
      BY <1>9, <2>2, <3>1
    <3> QED
      BY <1>11, <2>2, <3>1, <3>2
  <2>3. U \subseteq X
    <3> HIDE DEF X
    <3> QED
      BY <1>5, <2>1, <2>2
  <2> QED
    BY <2>3
<1> QED
  BY <1>1, <1>3, <1>6, <1>8, <1>10, <1>11

-----------------------------------------------------------------------------
(* Operators, and the variables that matter.                               *)

LEMMA OperatorFacts ==
  ASSUME NEW op, IsOperator(op)
  PROVE  /\ op.prevail \subseteq Facts /\ Pres(op) \subseteq Facts /\ Posts(op) \subseteq Facts
         /\ Preconditions(op) \subseteq Facts /\ EffectVars(op) \subseteq Variables
         /\ \A e \in op.effects : /\ e.var \in Variables /\ e.conds \subseteq Facts
                                  /\ e.post \in Values[e.var] /\ <<e.var, e.post>> \in Facts
                                  /\ e.pre # NONE => e.pre \in Values[e.var] /\ <<e.var, e.pre>> \in Pres(op)
                                  /\ <<e.var, e.post>> \in Posts(op)
         /\ \A p \in Pres(op) : \E e \in op.effects : e.pre # NONE /\ p = <<e.var, e.pre>>
         /\ \A p \in Posts(op) : \E e \in op.effects : p = <<e.var, e.post>>
<1>1. \A e \in op.effects : /\ e.var \in Variables /\ e.conds \subseteq Facts
                            /\ <<e.var, e.post>> \in Facts
                            /\ e.pre # NONE => <<e.var, e.pre>> \in Facts
  BY DEF IsOperator
<1>2. \A e \in op.effects : /\ e.post \in Values[e.var]
                            /\ e.pre # NONE => e.pre \in Values[e.var] /\ <<e.var, e.pre>> \in Pres(op)
                            /\ <<e.var, e.post>> \in Posts(op)
  BY <1>1, FactIsPair DEF Pres, Posts
<1>3. /\ \A p \in Pres(op) : \E e \in op.effects : e.pre # NONE /\ p = <<e.var, e.pre>>
      /\ \A p \in Posts(op) : \E e \in op.effects : p = <<e.var, e.post>>
  BY DEF Pres, Posts
<1>4. op.prevail \subseteq Facts
  BY DEF IsOperator
<1>5. Pres(op) \subseteq Facts /\ Posts(op) \subseteq Facts
  BY <1>1, <1>3
<1> QED
  BY <1>1, <1>2, <1>3, <1>4, <1>5 DEF Preconditions, EffectVars

LEMMA InfluentialVariables ==
  ASSUME NEW ops, NEW goal, \A g \in goal : g[1] \in Variables,
         \A op \in ops : \A e \in op.effects : \A f \in Preconditions(op) \cup e.conds : f[1] \in Variables
  PROVE  /\ ImportantVars(ops, goal) \subseteq Variables
         /\ \A g \in goal : g[1] \in ImportantVars(ops, goal)
         /\ \A op \in ops : \A e \in op.effects : e.var \in ImportantVars(ops, goal) =>
              \A f \in Preconditions(op) \cup e.conds : f[1] \in ImportantVars(ops, goal)
<1> DEFINE nodes == {g[1] : g \in goal}
           Into(op, e) == {<<e.var, f[1]>> : f \in Preconditions(op) \cup e.conds}
           edges == DependsOn(ops)
           all == nodes \cup {e[2] : e \in edges}
           vs == ImportantVars(ops, goal)
<1>1. edges = UNION {UNION {Into(op, e) : e \in op.effects} : op \in ops}
  BY DEF DependsOn
<1>3. nodes \subseteq Variables
  OBVIOUS
<1>4. \A d \in edges : d[2] \in Variables
  <2> SUFFICES ASSUME NEW d \in edges PROVE d[2] \in Variables
    OBVIOUS
  <2>1. PICK op \in ops : \E e \in op.effects : d \in Into(op, e)
    <3> HIDE DEF Into
    <3> QED
      BY <1>1
  <2>2. PICK e \in op.effects : d \in Into(op, e)
    BY <2>1
  <2>3. PICK f \in Preconditions(op) \cup e.conds : d = <<e.var, f[1]>>
    BY <2>2
  <2> QED
    BY <2>3
<1>5. all \subseteq Variables /\ IsFiniteSet(all)
  <2> HIDE DEF nodes, edges
  <2>1. all \subseteq Variables
    BY <1>3, <1>4
  <2> QED
    BY <2>1, FS_Subset, PreprocessorAssumption DEF PreprocessorAssumption
<1>6. vs = ReachableFrom(nodes, edges)
  BY DEF ImportantVars
<1>7. /\ nodes \subseteq vs /\ vs \subseteq all
      /\ \A d \in edges : d[1] \in vs => d[2] \in vs
  <2> HIDE DEF nodes, edges, vs
  <2> QED
    BY <1>5, <1>6, ReachableIsLeast
<1> HIDE DEF vs
<1>8. ASSUME NEW op \in ops, NEW e \in op.effects, e.var \in vs,
             NEW f \in Preconditions(op) \cup e.conds
      PROVE  f[1] \in vs
  <2>1. <<e.var, f[1]>> \in edges
    BY <1>1
  <2> HIDE DEF edges
  <2>2. <<e.var, f[1]>>[1] = e.var /\ <<e.var, f[1]>>[2] = f[1]
    OBVIOUS
  <2> QED
    BY <1>7, <1>8, <2>1, <2>2
<1>9. vs \subseteq Variables
  <2> HIDE DEF all
  <2> QED
    BY <1>5, <1>7
<1>10. \A g \in goal : g[1] \in vs
  BY <1>7
<1> QED
  BY <1>8, <1>9, <1>10 DEF vs

LEMMA ImportantVariables ==
  ASSUME task \in Tasks
  PROVE  /\ Important \subseteq Variables
         /\ \A g \in task.goal : g[1] \in Important
         /\ \A op \in AllOps(task.ops) : \A e \in op.effects : e.var \in Important =>
              \A f \in Preconditions(op) \cup e.conds : f[1] \in Important
<1>1. \A op \in AllOps(task.ops) : \A e \in op.effects : \A f \in Preconditions(op) \cup e.conds :
        f[1] \in Variables
  BY TaskIsTask, OperatorFacts, FactIsPair
<1>2. \A g \in task.goal : g[1] \in Variables
  BY TaskIsTask, FactIsPair
<1> QED
  BY <1>1, <1>2, InfluentialVariables DEF Important

\* An operator that is kept has the prevail facts of the one that was read, and its effects
\* on the variables that matter; all its facts are of these variables.
IsKept(o, i) ==
  /\ i \in DOMAIN task.ops
  /\ o.prevail = task.ops[i].prevail
  /\ o.effects = {e \in task.ops[i].effects : e.var \in Important}
  /\ o.effects # {}

LEMMA KeptOperator ==
  ASSUME task \in Tasks, NEW i, NEW o, IsKept(o, i)
  PROVE  /\ task.ops[i] \in AllOps(task.ops) /\ IsOperator(task.ops[i])
         /\ Pres(o) = Pres(task.ops[i]) /\ Preconditions(o) = Preconditions(task.ops[i])
         /\ Preconditions(o) \subseteq OfVariables(Important)
         /\ Posts(o) \subseteq OfVariables(Important)
         /\ Posts(o) \subseteq Posts(task.ops[i])
         /\ EffectVars(o) = EffectVars(task.ops[i]) \cap Important
         /\ \A p \in o.prevail : p[1] \notin EffectVars(o)
<1> DEFINE op == task.ops[i]
<1>1. op \in AllOps(task.ops) /\ IsOperator(op)
  BY TaskIsTask DEF IsKept, AllOps
<1>2. /\ o.prevail = op.prevail /\ o.effects = {e \in op.effects : e.var \in Important} /\ o.effects # {}
  BY DEF IsKept
<1> HIDE DEF op
<1>3. \A f \in Preconditions(op) : f[1] \in Important
  BY <1>1, <1>2, ImportantVariables
<1>4. \A e \in op.effects : e.pre # NONE => e \in o.effects
  <2> SUFFICES ASSUME NEW e \in op.effects, e.pre # NONE PROVE e \in o.effects
    OBVIOUS
  <2>1. <<e.var, e.pre>> \in Preconditions(op)
    BY <1>1, OperatorFacts DEF Preconditions
  <2>2. <<e.var, e.pre>>[1] = e.var
    OBVIOUS
  <2> QED
    BY <1>2, <1>3, <2>1, <2>2
<1>5. Pres(o) = Pres(op) /\ Preconditions(o) = Preconditions(op)
  <2>1. {f \in o.effects : f.pre # NONE} = {f \in op.effects : f.pre # NONE}
    BY <1>2, <1>4
  <2> QED
    BY <1>2, <2>1 DEF Pres, Preconditions
<1>6. OfVariables(Important) = {f \in Facts : f[1] \in Important}
  BY ImportantVariables, FactIsPair
<1>7. Preconditions(o) \subseteq OfVariables(Important)
  BY <1>1, <1>3, <1>5, <1>6, OperatorFacts
<1>8. Posts(o) \subseteq Posts(op) /\ \A p \in Posts(o) : p[1] \in Important
  BY <1>2 DEF Posts
<1>9. Posts(o) \subseteq OfVariables(Important)
  BY <1>1, <1>6, <1>8, OperatorFacts
<1>10. EffectVars(o) = EffectVars(op) \cap Important
  BY <1>2 DEF EffectVars
<1>11. \A p \in o.prevail : p[1] \notin EffectVars(o)
  BY <1>1, <1>2, <1>10 DEF IsOperator
<1> QED
  BY <1>1, <1>5, <1>7, <1>8, <1>9, <1>10, <1>11 DEF op

\* Without conditional effects, an operator sets what its effects say and nothing else.
LEMMA PlainResult ==
  ASSUME task \in Tasks, NoConditionalEffects, NEW op \in AllOps(task.ops), NEW s \in AllStates
  PROVE  /\ \A e \in op.effects : e.conds = {}
         /\ \A e, f \in op.effects : e.var = f.var => e = f
         /\ \A e \in op.effects : Result(op, s)[e.var] = e.post
         /\ \A v \in Variables : v \notin EffectVars(op) => Result(op, s)[v] = s[v]
<1> DEFINE Firing(v) == {e \in op.effects : e.var = v /\ e.conds \subseteq FactsOf(s)}
<1>1. IsOperator(op) /\ DOMAIN s = Variables
  BY TaskIsTask, StatesOfTheTask, FactsOfState
<1>2. Unconditional(op) = op.effects
  BY DEF NoConditionalEffects, HasConditionalEffects
<1>3. /\ \A e \in op.effects : e.conds = {} /\ e.var \in Variables
      /\ \A e, f \in op.effects : e.var = f.var => e = f
  BY <1>1, <1>2, OperatorFacts DEF Unconditional, IsOperator
<1>4. Result(op, s) = [v \in Variables |-> IF Firing(v) = {} THEN s[v] ELSE (CHOOSE e \in Firing(v) : TRUE).post]
  BY <1>1 DEF Result
<1>5. ASSUME NEW e \in op.effects PROVE Result(op, s)[e.var] = e.post
  <2>1. Firing(e.var) = {e}
    BY <1>3
  <2>2. (CHOOSE x \in Firing(e.var) : TRUE) = e
    BY <2>1
  <2>3. Firing(e.var) # {} /\ e.var \in Variables
    BY <1>3, <2>1
  <2> HIDE DEF Firing
  <2> QED
    BY <1>4, <2>2, <2>3
<1>6. ASSUME NEW v \in Variables, v \notin EffectVars(op) PROVE Result(op, s)[v] = s[v]
  <2>1. Firing(v) = {}
    BY <1>6 DEF EffectVars
  <2> HIDE DEF Firing
  <2> QED
    BY <1>4, <2>1
<1> QED
  BY <1>3, <1>5, <1>6

\* A step with an operator that is kept, on the facts that matter.
LEMMA StepOfKept ==
  ASSUME task \in Tasks, NoConditionalEffects, NEW i, NEW o, IsKept(o, i),
         NEW s \in AllStates, Applicable(task.ops[i], s),
         NEW t, t = Result(task.ops[i], s)
  PROVE  /\ t \in AllStates /\ IsState(s) /\ IsState(t)
         /\ Preconditions(o) \subseteq FactsOf(s)
         /\ o.prevail \subseteq FactsOf(t) /\ Posts(o) \subseteq FactsOf(t)
         /\ \A e \in o.effects : e.pre # NONE => e.pre = s[e.var] /\ <<e.var, s[e.var]>> \in Pres(o)
         /\ \A p \in OfVariables(Important) : p[1] \notin EffectVars(o) => (p \in FactsOf(s) <=> p \in FactsOf(t))
         /\ \A p \in FactsOf(t) : p[1] \in EffectVars(o) => p \in Posts(o)
<1> DEFINE op == task.ops[i]
<1>1. op \in AllOps(task.ops) /\ IsOperator(op)
  BY KeptOperator
<1>2. /\ \A e \in op.effects : t[e.var] = e.post
      /\ \A v \in Variables : v \notin EffectVars(op) => t[v] = s[v]
  BY <1>1, PlainResult
<1>3. t \in AllStates
  BY <1>1, ResultIsState
<1>4. IsState(s) /\ IsState(t)
  BY <1>3, StatesOfTheTask
<1>5. Preconditions(o) \subseteq FactsOf(s)
  BY KeptOperator DEF Applicable
<1>6. \A e \in o.effects : e \in op.effects
  BY DEF IsKept
<1>7. Posts(o) \subseteq FactsOf(t)
  <2> SUFFICES ASSUME NEW e \in o.effects PROVE <<e.var, e.post>> \in FactsOf(t)
    BY DEF Posts
  <2>1. e.post = t[e.var] /\ e.var \in Variables
    BY <1>1, <1>2, <1>6, OperatorFacts
  <2> QED
    BY <1>4, <2>1, FactsOfState
<1>8. \A e \in o.effects : e.pre # NONE => e.pre = s[e.var] /\ <<e.var, s[e.var]>> \in Pres(o)
  <2> SUFFICES ASSUME NEW e \in o.effects, e.pre # NONE
               PROVE  e.pre = s[e.var] /\ <<e.var, s[e.var]>> \in Pres(o)
    OBVIOUS
  <2>1. <<e.var, e.pre>> \in Pres(o)
    BY DEF Pres
  <2>2. <<e.var, e.pre>> \in FactsOf(s)
    BY <1>5, <2>1 DEF Preconditions
  <2>3. e.pre = s[e.var]
    BY <1>4, <2>2, FactsOfState
  <2> QED
    BY <2>1, <2>3
<1>9. ASSUME NEW p \in OfVariables(Important), p[1] \notin EffectVars(o)
      PROVE  p \in FactsOf(s) <=> p \in FactsOf(t)
  <2>1. p \in Facts /\ p[1] \in Important
    BY ImportantVariables, FactIsPair
  <2>2. p[1] \in Variables /\ p[1] \notin EffectVars(op) /\ p = <<p[1], p[2]>>
    BY <1>9, <2>1, KeptOperator, FactIsPair
  <2>3. t[p[1]] = s[p[1]]
    BY <1>2, <2>2
  <2> QED
    BY <1>4, <2>2, <2>3, FactsOfState
<1>10. o.prevail \subseteq FactsOf(t)
  <2> SUFFICES ASSUME NEW p \in o.prevail PROVE p \in FactsOf(t)
    OBVIOUS
  <2>1. p \in Preconditions(o) /\ p[1] \notin EffectVars(o)
    BY KeptOperator DEF Preconditions
  <2> QED
    BY <1>5, <1>9, <2>1, KeptOperator
<1>11. ASSUME NEW p \in FactsOf(t), p[1] \in EffectVars(o) PROVE p \in Posts(o)
  <2>1. PICK e \in o.effects : e.var = p[1]
    BY <1>11 DEF EffectVars
  <2>2. p = <<e.var, t[e.var]>> /\ t[e.var] = e.post
    BY <1>2, <1>4, <1>6, <2>1, FactsOfState
  <2> QED
    BY <2>2 DEF Posts
<1> QED
  BY <1>3, <1>4, <1>5, <1>7, <1>8, <1>9, <1>10, <1>11

\* An operator that is left out changes no fact that matters.
LEMMA StepOfDropped ==
  ASSUME task \in Tasks, NoConditionalEffects, NEW i \in DOMAIN task.ops,
         \A e \in task.ops[i].effects : e.var \notin Important,
         NEW s \in AllStates, NEW t, t = Result(task.ops[i], s)
  PROVE  /\ t \in AllStates
         /\ \A v \in Important : t[v] = s[v]
         /\ \A p \in OfVariables(Important) : p \in FactsOf(s) <=> p \in FactsOf(t)
<1>1. task.ops[i] \in AllOps(task.ops)
  BY DEF AllOps
<1>2. \A v \in Variables : v \notin EffectVars(task.ops[i]) => t[v] = s[v]
  BY <1>1, PlainResult
<1>3. \A v \in Important : t[v] = s[v]
  BY <1>2, ImportantVariables DEF EffectVars
<1>4. t \in AllStates /\ IsState(t) /\ IsState(s)
  BY <1>1, ResultIsState, StatesOfTheTask
<1>5. ASSUME NEW p \in OfVariables(Important) PROVE p \in FactsOf(s) <=> p \in FactsOf(t)
  <2>1. p \in Facts /\ p[1] \in Important
    BY ImportantVariables, FactIsPair
  <2>2. p[1] \in Variables /\ p = <<p[1], p[2]>> /\ t[p[1]] = s[p[1]]
    BY <1>3, <2>1, FactIsPair
  <2> QED
    BY <1>4, <2>2, FactsOfState
<1> QED
  BY <1>3, <1>4, <1>5

-----------------------------------------------------------------------------
(* The fixpoint over pairs of facts.                                       *)

Reached(hh, s) == \A p, q \in FactsOf(s) \cap hh.facts : {p, q} \in hh.reached

\* What cannot hold with facts of a state is not in the state.
LEMMA RivalsAreElsewhere ==
  ASSUME NEW hh, NEW s, IsState(s), AgreesWith(hh, s), NEW F, F \subseteq FactsOf(s) \cap hh.facts,
         NEW q \in FactsOf(s) \cap hh.facts
  PROVE  q \notin Rivals(hh, F)
<1> SUFFICES ASSUME q \in Rivals(hh, F) PROVE FALSE
  OBVIOUS
<1>1. PICK p \in F : q \in SameVariable(hh, p) \/ q \in Inconsistent(hh, p)
  BY DEF Rivals
<1>2. p \in FactsOf(s) \cap hh.facts
  OBVIOUS
<1>3. q \notin SameVariable(hh, p)
  BY <1>2, FactsOfState DEF SameVariable
<1>4. q \notin Inconsistent(hh, p)
  BY <1>2 DEF Inconsistent, AgreesWith
<1> QED
  BY <1>1, <1>3, <1>4

\* At the fixpoint an operator whose preconditions hold in a state that is reached makes
\* nothing reached that is not.
LEMMA FixpointOfOperator ==
  ASSUME NEW H, NEW hh \in VerdictsOn(H), NEW edge, ApplyOp(hh, edge) = hh,
         NEW s, Reached(hh, s), edge.pre \subseteq FactsOf(s) \cap H
  PROVE  /\ Triggered(hh, edge.pre)
         /\ \A p, q \in edge.add : {p, q} \in hh.reached \cup hh.spurious
         /\ \A p \in edge.add : \A q \in (FactsOf(s) \cap H) \ (edge.add \cup edge.del) :
              {p, q} \in hh.reached \cup hh.spurious
<1>1. hh.facts = H
  BY DEF VerdictsOn
<1>2. Triggered(hh, edge.pre)
  BY <1>1 DEF Triggered, Pairs, Reached
<1>3. ReachedBy(hh, edge) \subseteq hh.reached \cup hh.spurious
  <2>1. hh = [hh EXCEPT !.reached = @ \cup (ReachedBy(hh, edge) \ hh.spurious)]
    BY <1>2 DEF ApplyOp
  <2>2. hh.reached = hh.reached \cup (ReachedBy(hh, edge) \ hh.spurious)
    BY <2>1 DEF VerdictsOn
  <2> QED
    BY <2>2
<1> DEFINE kept == {q \in hh.facts \ (edge.add \cup edge.del) : Pairs({q}, {q} \cup edge.pre) \subseteq hh.reached}
<1>4. ReachedBy(hh, edge) = Pairs(edge.add, edge.add \cup kept)
  BY DEF ReachedBy
<1>5. \A p \in edge.add : \A q \in edge.add \cup kept : {p, q} \in ReachedBy(hh, edge)
  <2> HIDE DEF kept
  <2> QED
    BY <1>4 DEF Pairs
<1>6. ASSUME NEW q \in (FactsOf(s) \cap H) \ (edge.add \cup edge.del) PROVE q \in kept
  <2>1. \A r \in {q} \cup edge.pre : {q, r} \in hh.reached
    BY <1>1 DEF Reached
  <2>2. Pairs({q}, {q} \cup edge.pre) \subseteq hh.reached
    BY <2>1 DEF Pairs
  <2> QED
    BY <1>1, <2>2
<1> HIDE DEF kept
<1> QED
  BY <1>2, <1>3, <1>5, <1>6

LEMMA ForwardOpIsSound ==
  ASSUME task \in Tasks, NoConditionalEffects, NEW i, NEW o, IsKept(o, i),
         NEW s \in AllStates, Applicable(task.ops[i], s),
         NEW t, t = Result(task.ops[i], s),
         NEW hh \in VerdictsOn(OfVariables(Important)),
         o.augmented \subseteq OfVariables(Important), AgreesWithOperator(o, s),
         Reached(hh, s)
  PROVE  /\ Triggered(hh, ForwardOp(hh, o).pre)
         /\ AgreesWith(hh, t) /\ ApplyOp(hh, ForwardOp(hh, o)) = hh => Reached(hh, t)
<1> DEFINE H == OfVariables(Important)
           edge == ForwardOp(hh, o)
           silent == {f \in o.augmented : f[1] \notin EffectVars(o)}
           fixed == o.prevail \cup {<<e.var, e.post>> : e \in Unconditional(o)} \cup silent
<1>1. /\ edge.pre = Preconditions(o) \cup o.augmented /\ edge.add = Posts(o)
      /\ edge.del = Rivals(hh, fixed)
  BY DEF ForwardOp
<1>2. hh.facts = H
  BY DEF VerdictsOn
<1>3. /\ t \in AllStates /\ IsState(s) /\ IsState(t)
      /\ Preconditions(o) \subseteq FactsOf(s)
      /\ o.prevail \subseteq FactsOf(t) /\ Posts(o) \subseteq FactsOf(t)
      /\ \A p \in H : p[1] \notin EffectVars(o) => (p \in FactsOf(s) <=> p \in FactsOf(t))
      /\ \A p \in FactsOf(t) : p[1] \in EffectVars(o) => p \in Posts(o)
  BY StepOfKept
<1>4. Preconditions(o) \subseteq H /\ Posts(o) \subseteq H /\ o.prevail \subseteq H
  BY KeptOperator DEF Preconditions
<1>5. edge.pre \subseteq FactsOf(s) \cap H
  BY <1>1, <1>3, <1>4 DEF AgreesWithOperator
<1>6. fixed \subseteq FactsOf(t) \cap H
  <2>1. {<<e.var, e.post>> : e \in Unconditional(o)} \subseteq Posts(o)
    BY DEF Unconditional, Posts
  <2>2. silent \subseteq FactsOf(t) \cap H
    BY <1>3 DEF AgreesWithOperator
  <2> HIDE DEF silent, H
  <2> QED
    BY <1>3, <1>4, <2>1, <2>2
<1> HIDE DEF edge, fixed, H
<1>7. Triggered(hh, edge.pre)
  BY <1>2, <1>5 DEF Triggered, Pairs, Reached
<1>8. ASSUME AgreesWith(hh, t), ApplyOp(hh, edge) = hh, NEW p \in FactsOf(t) \cap H, NEW q \in FactsOf(t) \cap H
      PROVE  {p, q} \in hh.reached
  <2>1. {p, q} \notin hh.spurious
    BY <1>2, <1>8 DEF AgreesWith
  <2>2. /\ \A x, y \in edge.add : {x, y} \in hh.reached \cup hh.spurious
        /\ \A x \in edge.add : \A y \in (FactsOf(s) \cap H) \ (edge.add \cup edge.del) :
             {x, y} \in hh.reached \cup hh.spurious
    BY <1>5, <1>8, FixpointOfOperator DEF H
  <2>3. \A x \in FactsOf(t) \cap H : x \notin edge.del
    BY <1>1, <1>2, <1>3, <1>6, <1>8, RivalsAreElsewhere
  <2>4. \A x \in FactsOf(t) \cap H : x \in edge.add \/ x \in FactsOf(s)
    BY <1>1, <1>3
  <2>5. {q, p} = {p, q}
    OBVIOUS
  <2>6. CASE p \in edge.add /\ q \in edge.add
    BY <2>1, <2>2, <2>6
  <2>7. CASE p \in edge.add /\ q \notin edge.add
    BY <2>1, <2>2, <2>3, <2>4, <2>7
  <2>8. CASE p \notin edge.add /\ q \in edge.add
    BY <2>1, <2>2, <2>3, <2>4, <2>5, <2>8
  <2>9. CASE p \notin edge.add /\ q \notin edge.add
    BY <1>2, <2>4, <2>9 DEF Reached
  <2> QED
    BY <2>6, <2>7, <2>8, <2>9
<1> QED
  BY <1>2, <1>7, <1>8 DEF edge, Reached

LEMMA BackwardOpIsSound ==
  ASSUME task \in Tasks, NoConditionalEffects, NEW i, NEW o, IsKept(o, i),
         NEW s \in AllStates, Applicable(task.ops[i], s),
         NEW t, t = Result(task.ops[i], s),
         NEW hh \in VerdictsOn(OfVariables(Important)),
         o.augmented \subseteq OfVariables(Important), AgreesWithOperator(o, s),
         HasPotential(o, s), Reached(hh, t)
  PROVE  /\ Triggered(hh, BackwardOp(hh, o).pre)
         /\ AgreesWith(hh, s) /\ ApplyOp(hh, BackwardOp(hh, o)) = hh => Reached(hh, s)
<1> DEFINE H == OfVariables(Important)
           edge == BackwardOp(hh, o)
           silent == {f \in o.augmented : f[1] \notin EffectVars(o)}
           potentialOf(v) == {f \in o.potential : f[1] = v}
           fixed == Preconditions(o) \cup o.augmented
<1>1. /\ edge.pre = o.prevail \cup Posts(o) \cup silent /\ edge.add = Pres(o) \cup o.potential
      /\ edge.del = Rivals(hh, fixed) \cup UNION {PotentialDeletes(hh, potentialOf(f[1])) : f \in o.potential}
  BY DEF BackwardOp
<1>2. hh.facts = H
  BY DEF VerdictsOn
<1>3. /\ t \in AllStates /\ IsState(s) /\ IsState(t)
      /\ Preconditions(o) \subseteq FactsOf(s)
      /\ o.prevail \subseteq FactsOf(t) /\ Posts(o) \subseteq FactsOf(t)
      /\ \A e \in o.effects : e.pre # NONE => e.pre = s[e.var] /\ <<e.var, s[e.var]>> \in Pres(o)
      /\ \A p \in H : p[1] \notin EffectVars(o) => (p \in FactsOf(s) <=> p \in FactsOf(t))
  BY StepOfKept
<1>4. Preconditions(o) \subseteq H /\ Posts(o) \subseteq H /\ o.prevail \subseteq H
  BY KeptOperator DEF Preconditions
<1>5. silent \subseteq FactsOf(t) \cap H
  BY <1>3 DEF AgreesWithOperator
<1>6. edge.pre \subseteq FactsOf(t) \cap H
  <2> HIDE DEF silent, edge, H
  <2> QED
    BY <1>1, <1>3, <1>4, <1>5
<1>7. fixed \subseteq FactsOf(s) \cap H
  BY <1>3, <1>4 DEF AgreesWithOperator
<1>8. \A x \in FactsOf(s) \cap H : x[1] \in EffectVars(o) => x \in edge.add
  <2> SUFFICES ASSUME NEW x \in FactsOf(s) \cap H, x[1] \in EffectVars(o) PROVE x \in edge.add
    OBVIOUS
  <2>1. PICK e \in o.effects : e.var = x[1]
    BY DEF EffectVars
  <2>2. x = <<e.var, s[e.var]>>
    BY <1>3, <2>1, FactsOfState
  <2> QED
    BY <1>1, <1>3, <2>2 DEF HasPotential
<1>9. ASSUME AgreesWith(hh, s), NEW x \in FactsOf(s) \cap H, x \notin edge.add PROVE x \notin edge.del
  <2>1. x \notin Rivals(hh, fixed)
    <3> HIDE DEF fixed, H
    <3> QED
      BY <1>2, <1>3, <1>7, <1>9, RivalsAreElsewhere
  <2>2. ASSUME NEW f \in o.potential PROVE x \notin PotentialDeletes(hh, potentialOf(f[1]))
    <3>1. PICK e \in o.effects : e.var = f[1] /\ e.pre = NONE
      BY DEF AgreesWithOperator
    <3> DEFINE p == <<e.var, s[e.var]>>
    <3>2. p \in o.potential /\ p \in potentialOf(f[1])
      BY <3>1 DEF HasPotential
    <3>3. p \in FactsOf(s) \cap H
      <4>1. e.var \in Important /\ e.var \in Variables
        BY <3>1, ImportantVariables DEF IsKept
      <4>2. s[e.var] \in Values[e.var]
        BY <1>3, <4>1 DEF IsState
      <4> QED
        BY <1>3, <4>1, <4>2, FactsOfState, FactIsPair, ImportantVariables
    <3>4. x # p
      BY <1>1, <1>9, <3>2
    <3>5. x \notin Inconsistent(hh, p)
      BY <1>2, <1>9, <3>3 DEF Inconsistent, AgreesWith
    <3> HIDE DEF potentialOf, p
    <3> QED
      BY <3>2, <3>4, <3>5 DEF PotentialDeletes
  <2> HIDE DEF potentialOf, fixed
  <2> QED
    BY <1>1, <2>1, <2>2
<1> HIDE DEF edge, fixed, H, potentialOf, silent
<1>10. Triggered(hh, edge.pre)
  BY <1>2, <1>6 DEF Triggered, Pairs, Reached
<1>11. ASSUME AgreesWith(hh, s), ApplyOp(hh, edge) = hh, NEW p \in FactsOf(s) \cap H, NEW q \in FactsOf(s) \cap H
      PROVE  {p, q} \in hh.reached
  <2>1. {p, q} \notin hh.spurious
    BY <1>2, <1>11 DEF AgreesWith
  <2>2. /\ \A x, y \in edge.add : {x, y} \in hh.reached \cup hh.spurious
        /\ \A x \in edge.add : \A y \in (FactsOf(t) \cap H) \ (edge.add \cup edge.del) :
             {x, y} \in hh.reached \cup hh.spurious
    BY <1>6, <1>11, FixpointOfOperator DEF H
  <2>3. \A x \in FactsOf(s) \cap H : x \in edge.add \/ x \in (FactsOf(t) \cap H) \ (edge.add \cup edge.del)
    BY <1>3, <1>8, <1>9, <1>11
  <2>4. {q, p} = {p, q}
    OBVIOUS
  <2>5. CASE p \in edge.add /\ q \in edge.add
    BY <2>1, <2>2, <2>5
  <2>6. CASE p \in edge.add /\ q \notin edge.add
    BY <2>1, <2>2, <2>3, <2>6
  <2>7. CASE p \notin edge.add /\ q \in edge.add
    BY <2>1, <2>2, <2>3, <2>4, <2>7
  <2>8. CASE p \notin edge.add /\ q \notin edge.add
    BY <1>2, <2>3, <2>8 DEF Reached
  <2> QED
    BY <2>5, <2>6, <2>7, <2>8
<1> QED
  BY <1>2, <1>10, <1>11 DEF edge, Reached

LEMMA StripEffectsOf ==
  ASSUME task \in Tasks, NEW i \in DOMAIN task.ops
  PROVE  /\ StripEffects(task.ops[i], Important).effects = {e \in task.ops[i].effects : e.var \in Important}
         /\ StripEffects(task.ops[i], Important).prevail = task.ops[i].prevail
<1>1. IsOperator(task.ops[i])
  BY TaskIsTask
<1>2. task.ops[i] \in [prevail : SUBSET Facts,
                       effects : SUBSET [var : Variables, pre : Int, post : Int, conds : SUBSET Facts]]
  BY <1>1 DEF IsOperator
<1> QED
  BY <1>2 DEF StripEffects

LEMMA TypeFacts ==
  ASSUME PreprocessorType
  PROVE  /\ task \in Tasks
         /\ h \in VerdictsOn(OfVariables(Important)) /\ h.facts = OfVariables(Important)
         /\ DOMAIN operators \subseteq DOMAIN task.ops
         /\ \A i \in DOMAIN operators :
              /\ IsKept(operators[i], i)
              /\ operators[i].augmented \subseteq OfVariables(Important)
              /\ operators[i].potential \subseteq OfVariables(Important)
              /\ operators[i].spurious \in BOOLEAN
         /\ \A i \in DOMAIN task.ops : i \notin DOMAIN operators =>
              \A e \in task.ops[i].effects : e.var \notin Important
         /\ InitFacts = FactsOf(task.init) \cap OfVariables(Important)
         /\ InitFacts \subseteq OfVariables(Important)
         /\ task.goal \subseteq OfVariables(Important)
         /\ regression \in BOOLEAN /\ update \in [BOOLEAN -> BOOLEAN]
<1>1. task \in Tasks /\ h \in VerdictsOn(OfVariables(Important)) /\ regression \in BOOLEAN /\ update \in [BOOLEAN -> BOOLEAN]
  BY DEF PreprocessorType
<1>2. h.facts = OfVariables(Important)
  BY <1>1 DEF VerdictsOn
<1>3. DOMAIN operators = {k \in DOMAIN task.ops : StripEffects(task.ops[k], Important).effects # {}}
  BY DEF PreprocessorType
<1>4. \A i \in DOMAIN operators :
        operators[i] \in ExaminedOf(StripEffects(task.ops[i], Important), OfVariables(Important))
  BY DEF PreprocessorType
<1>5. ASSUME NEW i \in DOMAIN operators
      PROVE  /\ IsKept(operators[i], i)
             /\ operators[i].augmented \subseteq OfVariables(Important)
             /\ operators[i].potential \subseteq OfVariables(Important)
             /\ operators[i].spurious \in BOOLEAN
  <2>1. i \in DOMAIN task.ops /\ StripEffects(task.ops[i], Important).effects # {}
    BY <1>3
  <2>2. /\ operators[i].prevail = StripEffects(task.ops[i], Important).prevail
        /\ operators[i].effects = StripEffects(task.ops[i], Important).effects
        /\ operators[i].augmented \subseteq OfVariables(Important)
        /\ operators[i].potential \subseteq OfVariables(Important)
        /\ operators[i].spurious \in BOOLEAN
    BY <1>4 DEF ExaminedOf
  <2> QED
    BY <1>1, <2>1, <2>2, StripEffectsOf DEF IsKept
<1>6. ASSUME NEW i \in DOMAIN task.ops, i \notin DOMAIN operators PROVE \A e \in task.ops[i].effects : e.var \notin Important
  BY <1>1, <1>3, <1>6, StripEffectsOf
<1>7. InitFacts = FactsOf(task.init) \cap OfVariables(Important)
  BY <1>2 DEF InitFacts
<1>8. task.goal \subseteq OfVariables(Important)
  BY <1>1, TaskIsTask, ImportantVariables, FactIsPair
<1> QED
  BY <1>1, <1>2, <1>3, <1>5, <1>6, <1>7, <1>8

LEMMA StepFacts ==
  ASSUME task \in Tasks, NEW step \in StepsWithin(Useful)
  PROVE  /\ step = <<step[1], step[2]>> /\ step[1] \in Useful /\ step[2] \in DOMAIN task.ops
         /\ step[1] \in AllStates /\ Applicable(task.ops[step[2]], step[1])
         /\ After(step) \in Useful /\ After(step) = Result(task.ops[step[2]], step[1])
BY UsefulStates DEF StepsWithin, After

\* When compute ends, every pair of facts of a useful state is reached.
LEMMA UsefulIsReached ==
  ASSUME PreprocessorType, NoConditionalEffects, MutexesAreSound, OperatorsAreSound, PotentialIsComplete,
         ComputeIsStarted, ComputeIsFixpoint, pc = "conclude"
  PROVE  \A s \in Useful : Reached(h, s)
<1> DEFINE H == OfVariables(Important)
           P == {s \in Useful : Reached(h, s)}
<1>1. /\ task \in Tasks /\ h \in VerdictsOn(H) /\ h.facts = H /\ DOMAIN operators \subseteq DOMAIN task.ops
      /\ \A i \in DOMAIN operators : /\ IsKept(operators[i], i)
                                     /\ operators[i].augmented \subseteq H /\ operators[i].potential \subseteq H
      /\ \A i \in DOMAIN task.ops : i \notin DOMAIN operators => \A e \in task.ops[i].effects : e.var \notin Important
      /\ InitFacts = FactsOf(task.init) \cap H
      /\ task.goal \subseteq H
      /\ regression \in BOOLEAN
  BY TypeFacts
<1>2. \A i \in LiveOps : ApplyOp(h, EdgeOf(operators[i])) = h
  <2>1. \A i \in DOMAIN Edges : Edges[i].add \subseteq H
    <3> SUFFICES ASSUME NEW i \in LiveOps PROVE EdgeOf(operators[i]).add \subseteq H
      BY DEF Edges
    <3>1. i \in DOMAIN operators
      BY DEF LiveOps
    <3>2. Pres(operators[i]) \subseteq H /\ Posts(operators[i]) \subseteq H /\ operators[i].potential \subseteq H
      BY <1>1, <3>1, KeptOperator DEF Preconditions
    <3> HIDE DEF H
    <3>3. ForwardOp(h, operators[i]).add \subseteq H
      BY <3>2 DEF ForwardOp
    <3>4. BackwardOp(h, operators[i]).add \subseteq H
      BY <3>2 DEF BackwardOp
    <3> QED
      BY <3>3, <3>4 DEF EdgeOf
  <2>2. Round(h, Edges, Len(task.ops)) = h
    BY DEF ComputeIsFixpoint
  <2>3. \A i \in DOMAIN Edges \cap 1 .. Len(task.ops) : ApplyOp(h, Edges[i]) = h
    <3> HIDE DEF H
    <3>1. Len(task.ops) \in Nat
      BY <1>1, TaskIsTask
    <3> QED
      BY <1>1, <2>1, <2>2, <3>1, RoundAddsReached
  <2>4. \A i \in LiveOps : i \in DOMAIN Edges \cap 1 .. Len(task.ops) /\ Edges[i] = EdgeOf(operators[i])
    BY <1>1, TaskIsTask DEF Edges, LiveOps
  <2> QED
    BY <2>3, <2>4
<1>3. \A s \in Useful : AgreesWith(h, s) /\ s \in AllStates /\ IsState(s)
  BY <1>1, UsefulStates, StatesOfTheTask DEF MutexesAreSound
<1>4. ASSUME NEW step \in StepsWithin(Useful), step[2] \in DOMAIN operators
      PROVE  /\ step[2] \in LiveOps
             /\ AgreesWithOperator(operators[step[2]], step[1])
  BY <1>4 DEF OperatorsAreSound, AgreesWithOperator, LiveOps
<1>5. ASSUME NEW step \in StepsWithin(Useful), step[2] \notin DOMAIN operators
      PROVE  Reached(h, step[1]) <=> Reached(h, After(step))
  <2>1. FactsOf(step[1]) \cap H = FactsOf(After(step)) \cap H
    BY <1>1, <1>5, StepFacts, StepOfDropped
  <2> QED
    BY <1>1, <2>1 DEF Reached
<1>6. CASE ~regression
  <2>1. ASSUME task.init \in Useful PROVE task.init \in P
    <3>1. AgreesWith(h, task.init)
      BY <1>3, <2>1
    <3>2. Pairs(InitFacts, InitFacts) \ h.spurious \subseteq h.reached
      BY <1>1, <1>6 DEF ComputeIsStarted, InitValuesProgression, VerdictsOn
    <3> HIDE DEF H
    <3>3. \A p, q \in FactsOf(task.init) \cap H : {p, q} \in Pairs(InitFacts, InitFacts) \ h.spurious
      BY <1>1, <3>1 DEF Pairs, AgreesWith
    <3> QED
      BY <1>1, <2>1, <3>2, <3>3 DEF Reached
  <2>2. ASSUME NEW step \in StepsWithin(Useful), step[1] \in P PROVE After(step) \in P
    <3>1. After(step) \in Useful /\ AgreesWith(h, After(step))
      BY <1>1, <1>3, StepFacts
    <3>2. CASE step[2] \notin DOMAIN operators
      BY <1>5, <2>2, <3>1, <3>2
    <3>3. CASE step[2] \in DOMAIN operators
      <4>1. ApplyOp(h, ForwardOp(h, operators[step[2]])) = h
        BY <1>2, <1>4, <1>6, <3>3 DEF EdgeOf
      <4>2. Reached(h, step[1])
        BY <2>2
      <4> QED
        BY <1>1, <1>4, <3>1, <3>3, <4>1, <4>2, StepFacts, ForwardOpIsSound
    <3> QED
      BY <3>2, <3>3
  <2>3. Useful \subseteq P
    <3> HIDE DEF P
    <3>1. Useful = {} \/ task.init \in P
      BY <1>1, <2>1, UsefulStates
    <3> QED
      BY <1>1, <2>2, <3>1, UsefulStates
  <2> QED
    BY <2>3
<1>7. CASE regression
  <2>1. ASSUME NEW s \in Useful, IsGoal(s) PROVE s \in P
    <3>1. task.goal \subseteq FactsOf(s) \cap h.facts
      BY <1>1, <2>1 DEF IsGoal
    <3>2. \A q \in FactsOf(s) \cap h.facts : q \notin Rivals(h, task.goal)
      BY <1>3, <3>1, RivalsAreElsewhere
    <3>3. ASSUME NEW p \in FactsOf(s) \cap H, NEW q \in FactsOf(s) \cap H PROVE {p, q} \in h.reached
      <4> DEFINE pairs == Pairs(h.facts, h.facts)
      <4>1. {p, q} \in pairs
        BY <1>1 DEF Pairs
      <4>2. {p, q} \notin h.spurious
        BY <1>1, <1>3 DEF AgreesWith
      <4>3. {p, q} \cap Rivals(h, task.goal) = {}
        BY <1>1, <3>2
      <4>4. {p, q} \notin Touching(pairs, Rivals(h, task.goal))
        BY <4>3 DEF Touching
      <4>5. pairs \ (h.spurious \cup Touching(pairs, Rivals(h, task.goal))) \subseteq h.reached
        BY <1>1, <1>7 DEF ComputeIsStarted, InitValuesRegression, VerdictsOn
      <4> HIDE DEF pairs
      <4> QED
        BY <4>1, <4>2, <4>4, <4>5
    <3> QED
      BY <1>1, <3>3 DEF Reached
  <2>2. ASSUME NEW step \in StepsWithin(Useful), After(step) \in P PROVE step[1] \in P
    <3>1. step[1] \in Useful /\ AgreesWith(h, step[1])
      BY <1>1, <1>3, StepFacts
    <3>2. CASE step[2] \notin DOMAIN operators
      BY <1>5, <2>2, <3>1, <3>2
    <3>3. CASE step[2] \in DOMAIN operators
      <4>1. ApplyOp(h, BackwardOp(h, operators[step[2]])) = h
        BY <1>2, <1>4, <1>7, <3>3 DEF EdgeOf
      <4>2. Reached(h, After(step))
        BY <2>2
      <4>3. HasPotential(operators[step[2]], step[1])
        BY <1>7, <3>3 DEF PotentialIsComplete
      <4> QED
        BY <1>1, <1>4, <3>1, <3>3, <4>1, <4>2, <4>3, StepFacts, BackwardOpIsSound
    <3> QED
      BY <3>2, <3>3
  <2>3. Useful \subseteq P
    <3> HIDE DEF P
    <3> QED
      BY <1>1, <2>1, <2>2, UsefulStates
  <2> QED
    BY <2>3
<1> QED
  BY <1>1, <1>6, <1>7

-----------------------------------------------------------------------------
(* What is concluded from the fixpoint.                                    *)

LEMMA ConcludeIsSound ==
  ASSUME NEW H, NEW hh \in VerdictsOn(H)
  PROVE  /\ Conclude(hh) \in VerdictsOn(H)
         /\ hh.unreachable \subseteq Conclude(hh).unreachable
         /\ \A g \in NewMutexes(hh) : g \subseteq H
         /\ \A s : AgreesWith(hh, s) /\ Reached(hh, s) =>
              AgreesWith(Conclude(hh), s) /\ \A g \in NewMutexes(hh) : RespectsGroup(g, s)
<1>1. hh.facts = H
  BY DEF VerdictsOn
<1>2. \A pair \in NotReached(hh) : pair \subseteq H /\ \E p, q \in H : pair = {p, q}
  BY <1>1 DEF NotReached, Pairs
<1>3. /\ NotReached(hh) \subseteq SUBSET H /\ NewMutexes(hh) \subseteq NotReached(hh)
      /\ NewUnreachable(hh) \subseteq H
  BY <1>1, <1>2 DEF NewMutexes, NewUnreachable
<1>4. Conclude(hh) = [hh EXCEPT !.spurious = hh.spurious \cup NotReached(hh),
                                !.unreachable = hh.unreachable \cup NewUnreachable(hh),
                                !.inconsistent = hh.inconsistent \cup NewMutexes(hh)]
  BY DEF Conclude
<1>5. /\ Conclude(hh) \in VerdictsOn(H)
      /\ Conclude(hh).spurious = hh.spurious \cup NotReached(hh)
      /\ Conclude(hh).unreachable = hh.unreachable \cup NewUnreachable(hh)
      /\ Conclude(hh).inconsistent = hh.inconsistent \cup NewMutexes(hh)
      /\ Conclude(hh).facts = H
  <2> DEFINE NR == NotReached(hh)
             NU == NewUnreachable(hh)
             NM == NewMutexes(hh)
             y == Conclude(hh)
  <2>1. NR \subseteq SUBSET H /\ NU \subseteq H /\ NM \subseteq SUBSET H
    BY <1>3
  <2>2. y = [hh EXCEPT !.spurious = hh.spurious \cup NR, !.unreachable = hh.unreachable \cup NU,
                       !.inconsistent = hh.inconsistent \cup NM]
    BY <1>4
  <2> HIDE DEF NR, NU, NM, y
  <2>3. /\ y.spurious = hh.spurious \cup NR /\ y.unreachable = hh.unreachable \cup NU
        /\ y.inconsistent = hh.inconsistent \cup NM /\ y.facts = H
    BY <2>2 DEF VerdictsOn
  <2>4. y \in VerdictsOn(H)
    BY <2>1, <2>2 DEF VerdictsOn
  <2> QED
    BY <2>3, <2>4 DEF NR, NU, NM, y
<1>6. ASSUME NEW s, AgreesWith(hh, s), Reached(hh, s)
      PROVE  AgreesWith(Conclude(hh), s) /\ \A g \in NewMutexes(hh) : RespectsGroup(g, s)
  <2>1. \A p, q \in FactsOf(s) \cap H : {p, q} \notin NotReached(hh)
    BY <1>1, <1>6 DEF NotReached, Reached
  <2>2. ASSUME NEW p \in FactsOf(s) \cap H PROVE p \notin NewUnreachable(hh)
    <3>1. {p, p} = {p}
      OBVIOUS
    <3> QED
      BY <2>1, <3>1 DEF NewUnreachable
  <2>3. AgreesWith(Conclude(hh), s)
    BY <1>1, <1>3, <1>5, <1>6, <2>1, <2>2 DEF AgreesWith
  <2>4. ASSUME NEW g \in NewMutexes(hh), NEW p \in FactsOf(s) \cap g, NEW q \in FactsOf(s) \cap g, p # q PROVE FALSE
    <3>1. PICK a \in H : \E b \in H : g = {a, b}
      BY <1>2, <1>3
    <3>2. PICK b \in H : g = {a, b}
      BY <3>1
    <3>3. g = {p, q} /\ p \in H /\ q \in H
      BY <2>4, <3>2
    <3> QED
      BY <1>3, <2>1, <3>3
  <2> QED
    BY <2>3, <2>4 DEF RespectsGroup
<1> QED
  BY <1>2, <1>3, <1>5, <1>6

LEMMA DetectUnreachableIsSound ==
  ASSUME NEW H, IsFiniteSet(H), NEW hh \in VerdictsOn(H)
  PROVE  /\ DetectUnreachable(hh) \in VerdictsOn(H)
         /\ hh.unreachable \subseteq DetectUnreachable(hh).unreachable
         /\ \A s : AgreesWith(hh, s) /\ (\A p \in H : \E q \in FactsOf(s) \cap H : q[1] = p[1])
                     => AgreesWith(DetectUnreachable(hh), s)
<1>1. IsFiniteSet(hh.facts)
  BY DEF VerdictsOn
<1>2. ASSUME NEW x \in VerdictsOn(H)
      PROVE  /\ ExcludeByStatic(x) \in VerdictsOn(H)
             /\ x.unreachable \subseteq ExcludeByStatic(x).unreachable
             /\ \A s : AgreesWith(x, s) /\ (\A p \in H : \E q \in FactsOf(s) \cap H : q[1] = p[1])
                         => AgreesWith(ExcludeByStatic(x), s)
  <2> DEFINE static == OnlyValues(x) \ x.static
             excluded == UNION {Inconsistent(x, p) : p \in static} \ x.unreachable
             y == ExcludeByStatic(x)
  <2>1. y = [x EXCEPT !.static = x.static \cup static, !.unreachable = x.unreachable \cup excluded,
                      !.reached = x.reached \ Touching(x.reached, excluded)]
    BY DEF ExcludeByStatic
  <2>2. x.facts = H /\ static \subseteq H /\ excluded \subseteq H
    <3>1. x.facts = H
      BY DEF VerdictsOn
    <3>2. static \subseteq H
      BY <3>1 DEF OnlyValues
    <3>3. \A p : Inconsistent(x, p) \subseteq H
      BY <3>1 DEF Inconsistent
    <3> QED
      BY <3>1, <3>2, <3>3
  <2>3. \A p \in static : SameVariable(x, p) \subseteq x.unreachable
    BY DEF OnlyValues
  <2>4. \A q \in excluded : \E p \in static : {p, q} \in x.inconsistent
    BY DEF Inconsistent
  <2> HIDE DEF static, excluded, y
  <2>5. /\ y \in VerdictsOn(H)
        /\ y.facts = H /\ y.unreachable = x.unreachable \cup excluded
        /\ y.spurious = x.spurious /\ y.inconsistent = x.inconsistent
    BY <2>1, <2>2 DEF VerdictsOn
  <2>6. ASSUME NEW s, AgreesWith(x, s), \A p \in H : \E q \in FactsOf(s) \cap H : q[1] = p[1]
        PROVE  AgreesWith(y, s)
    <3>1. ASSUME NEW p \in static PROVE p \in FactsOf(s)
      <4>1. PICK q \in FactsOf(s) \cap H : q[1] = p[1]
        BY <2>2, <2>6
      <4>2. q \notin x.unreachable
        BY <2>2, <2>6 DEF AgreesWith
      <4>3. q \notin SameVariable(x, p)
        BY <2>3, <4>2
      <4> QED
        BY <2>2, <4>1, <4>3 DEF SameVariable
    <3>2. ASSUME NEW q \in FactsOf(s) \cap H PROVE q \notin excluded
      BY <2>2, <2>4, <2>6, <3>1 DEF AgreesWith
    <3> QED
      BY <2>2, <2>5, <2>6, <3>2 DEF AgreesWith
  <2> QED
    BY <2>5, <2>6 DEF y
<1> DEFINE Y == {x \in VerdictsOn(H) :
                   /\ hh.unreachable \subseteq x.unreachable
                   /\ \A s : AgreesWith(hh, s) /\ (\A p \in H : \E q \in FactsOf(s) \cap H : q[1] = p[1])
                               => AgreesWith(x, s)}
<1>3. hh \in Y
  OBVIOUS
<1>4. \A x \in Y : ExcludeByStatic(x) \in Y
  BY <1>2
<1>5. DetectUnreachable(hh) \in Y
  <2> HIDE DEF Y
  <2> QED
    BY <1>1, <1>3, <1>4, DetectUnreachableStaysIn
<1> QED
  BY <1>5

LEMMA NotMutexInState ==
  ASSUME NEW hh, NEW s, IsState(s), AgreesWith(hh, s),
         NEW p \in FactsOf(s) \cap hh.facts, NEW q \in FactsOf(s) \cap hh.facts
  PROVE  ~AreMutex(hh, p, q)
BY FactsOfState DEF AreMutex, AgreesWith

LEMMA OnlyCandidate ==
  ASSUME NEW H, IsFiniteSet(H), NEW hh \in VerdictsOn(H), NEW op, NEW known, NEW v
  PROVE  /\ Candidates(hh, op, known, v) \subseteq H
         /\ \A p \in Candidates(hh, op, known, v) : p[1] = v /\ p \notin hh.unreachable
         /\ Cardinality(Candidates(hh, op, known, v)) = 1 =>
              \A p, q \in Candidates(hh, op, known, v) : p = q
<1> DEFINE C == Candidates(hh, op, known, v)
<1>1. hh.facts = H
  BY DEF VerdictsOn
<1>2. C \subseteq H /\ \A p \in C : p[1] = v /\ p \notin hh.unreachable
  BY <1>1 DEF Candidates
<1> HIDE DEF C
<1>3. IsFiniteSet(C)
  BY <1>2, FS_Subset
<1>4. Cardinality(C) = 1 => \E x : C = {x}
  BY <1>3, FS_Singleton
<1>5. Cardinality(C) = 1 => \A p, q \in C : p = q
  BY <1>4
<1> QED
  BY <1>2, <1>5 DEF C

\* The disambiguation finds facts that are reachable, one for a variable, and only of the
\* variables it is asked about.
LEMMA DisambiguateFinds ==
  ASSUME NEW H, IsFiniteSet(H), NEW hh \in VerdictsOn(H), NEW op, NEW unknown, NEW known, IsFiniteSet(unknown)
  PROVE  /\ Disambiguate(hh, op, unknown, known).found \subseteq H \ hh.unreachable
         /\ \A p \in Disambiguate(hh, op, unknown, known).found :
              /\ p[1] \in unknown
              /\ \A q \in Disambiguate(hh, op, unknown, known).found : p[1] = q[1] => p = q
<1> DEFINE Fine(r) == /\ r.unknown \subseteq unknown
                      /\ r.found \subseteq H \ hh.unreachable
                      /\ \A p \in r.found : /\ p[1] \in unknown /\ p[1] \notin r.unknown
                                            /\ \A q \in r.found : p[1] = q[1] => p = q
           R == [possible : BOOLEAN, unknown : SUBSET unknown, known : (SUBSET H) \cup {known}, found : SUBSET H]
           Y == {r \in R : Fine(r)}
           start == [possible |-> TRUE, unknown |-> unknown, known |-> known, found |-> {}]
<1>1. start \in Y
  OBVIOUS
<1>2. ASSUME NEW r \in Y PROVE DisambiguationRound(hh, op, r) \in Y
  <2> DEFINE C(v) == Candidates(hh, op, r.known, v)
             candidates == [v \in r.unknown |-> Candidates(hh, op, r.known, v)]
             single == UNION {candidates[v] : v \in {w \in r.unknown : Cardinality(candidates[w]) = 1}}
             possible == r.possible /\ \A v \in r.unknown : candidates[v] # {}
             left == {v \in r.unknown : candidates[v] \cap single = {}}
             y == DisambiguationRound(hh, op, r)
  <2>1. y = [possible |-> possible, unknown |-> left, known |-> single, found |-> r.found \cup single]
    BY DEF DisambiguationRound
  <2>2. \A v \in r.unknown : candidates[v] = C(v)
    OBVIOUS
  <2>3. \A v : /\ C(v) \subseteq H
               /\ \A p \in C(v) : p[1] = v /\ p \notin hh.unreachable
               /\ Cardinality(C(v)) = 1 => \A p, q \in C(v) : p = q
    BY OnlyCandidate
  <2> HIDE DEF C, candidates
  <2>4. \A p \in single : p[1] \in r.unknown /\ p \in C(p[1]) /\ Cardinality(C(p[1])) = 1
    <3> SUFFICES ASSUME NEW p \in single PROVE p[1] \in r.unknown /\ p \in C(p[1]) /\ Cardinality(C(p[1])) = 1
      OBVIOUS
    <3>1. PICK v \in r.unknown : Cardinality(candidates[v]) = 1 /\ p \in candidates[v]
      OBVIOUS
    <3>2. p[1] = v
      BY <2>2, <2>3, <3>1
    <3> QED
      BY <2>2, <3>1, <3>2
  <2> HIDE DEF single
  <2>5. /\ single \subseteq H \ hh.unreachable
        /\ \A p, q \in single : p[1] = q[1] => p = q
    BY <2>3, <2>4
  <2>6. \A p \in single : p[1] \notin left
    BY <2>2, <2>4
  <2>7. left \subseteq r.unknown /\ possible \in BOOLEAN
    OBVIOUS
  <2> HIDE DEF left, possible, y
  <2>8. \A p \in r.found : \A q \in single : p[1] # q[1]
    BY <2>4
  <2>9. /\ y.unknown = left /\ y.found = r.found \cup single
        /\ y \in R
    BY <2>1, <2>5, <2>7
  <2>10. Fine(y)
    BY <2>4, <2>5, <2>6, <2>7, <2>8, <2>9
  <2> QED
    BY <2>9, <2>10 DEF y
<1>3. Disambiguate(hh, op, unknown, known) \in Y
  <2> HIDE DEF Y
  <2> QED
    BY <1>1, <1>2, DisambiguateStaysIn
<1> HIDE DEF R
<1> QED
  BY <1>3

LEMMA RemoveAmbiguityType ==
  ASSUME NEW H, IsFiniteSet(H), NEW hh \in VerdictsOn(H), NEW op, NEW o \in ExaminedOf(op, H)
  PROVE  /\ RemoveAmbiguity(hh, o) \in ExaminedOf(op, H)
         /\ RemoveAmbiguity(hh, o).effects = o.effects /\ RemoveAmbiguity(hh, o).prevail = o.prevail
         /\ /\ ~RemoveAmbiguity(hh, o).spurious
            /\ \A p \in o.augmented : /\ \A q \in Preconditions(o) : p[1] # q[1]
                                      /\ \A q \in o.augmented : p[1] = q[1] => p = q
            => IsKnown(hh.unreachable, RemoveAmbiguity(hh, o))
<1> DEFINE known == Preconditions(o) \cup o.augmented
           unknown == {p[1] : p \in hh.facts} \ {p[1] : p \in known}
           result == Disambiguate(hh, o, unknown, known)
           potential == PotentialPreconditions(hh, o, known \cup result.found)
           y == RemoveAmbiguity(hh, o)
<1>1. hh.facts = H
  BY DEF VerdictsOn
<1>2. y = IF Contradictory(hh, known) \/ ~result.possible THEN [o EXCEPT !.spurious = TRUE]
          ELSE [o EXCEPT !.augmented = o.augmented \cup result.found, !.potential = potential]
  BY DEF RemoveAmbiguity
<1>3. potential \subseteq H
  BY <1>1 DEF PotentialPreconditions
<1>4. IsFiniteSet(unknown)
  <2> DEFINE T == {p[1] : p \in H}
             f == [p \in H |-> p[1]]
  <2>1. f \in Surjection(H, T)
    BY DEF Surjection
  <2>2. IsFiniteSet(T)
    <3> HIDE DEF f, T
    <3> QED
      BY <2>1, FS_Surjection
  <2>3. unknown \in SUBSET T
    BY <1>1
  <2> HIDE DEF T, unknown
  <2> QED
    BY <2>2, <2>3, FS_Subset
<1>5. /\ result.found \subseteq H \ hh.unreachable
      /\ \A p \in result.found : p[1] \in unknown /\ \A q \in result.found : p[1] = q[1] => p = q
  <2> HIDE DEF known, unknown
  <2> QED
    BY <1>4, DisambiguateFinds
<1>6. \A p \in result.found : \A q \in known : p[1] # q[1]
  <2> HIDE DEF known, result
  <2> QED
    BY <1>5
<1> HIDE DEF unknown, result, potential, y
<1>7. /\ y \in ExaminedOf(op, H) /\ y.effects = o.effects /\ y.prevail = o.prevail
  BY <1>2, <1>3, <1>5 DEF ExaminedOf
<1>8. ASSUME ~y.spurious,
             \A p \in o.augmented : /\ \A q \in Preconditions(o) : p[1] # q[1]
                                    /\ \A q \in o.augmented : p[1] = q[1] => p = q
      PROVE  IsKnown(hh.unreachable, y)
  <2>1. ~Contradictory(hh, known) /\ y.augmented = o.augmented \cup result.found
    <3> HIDE DEF known
    <3>1. CASE Contradictory(hh, known) \/ ~result.possible
      BY <1>2, <1>8, <3>1 DEF ExaminedOf
    <3>2. CASE ~(Contradictory(hh, known) \/ ~result.possible)
      BY <1>2, <3>2 DEF ExaminedOf
    <3> QED
      BY <3>1, <3>2
  <2>2. Preconditions(y) = Preconditions(o)
    BY <1>7 DEF Preconditions, Pres
  <2>3. known \cap hh.unreachable = {}
    BY <2>1 DEF Contradictory
  <2> QED
    BY <1>5, <1>6, <1>8, <2>1, <2>2, <2>3 DEF IsKnown
<1> QED
  BY <1>7, <1>8 DEF y

\* What the disambiguation of an operator finds holds where a plan applies the operator.
LEMMA RemoveAmbiguityIsSound ==
  ASSUME task \in Tasks, NoConditionalEffects, NEW i, NEW o, IsKept(o, i),
         NEW op, o \in ExaminedOf(op, OfVariables(Important)),
         NEW s \in AllStates, Applicable(task.ops[i], s),
         NEW t, t = Result(task.ops[i], s),
         NEW hh \in VerdictsOn(OfVariables(Important)),
         AgreesWith(hh, s), AgreesWith(hh, t), AgreesWithOperator(o, s)
  PROVE  /\ AgreesWithOperator(RemoveAmbiguity(hh, o), s)
         /\ HasPotential(RemoveAmbiguity(hh, o), s)
<1> DEFINE H == OfVariables(Important)
           known == Preconditions(o) \cup o.augmented
           unknown == {p[1] : p \in hh.facts} \ {p[1] : p \in known}
           result == Disambiguate(hh, o, unknown, known)
           y == RemoveAmbiguity(hh, o)
<1>1. hh.facts = H /\ IsFiniteSet(H) /\ H = {f \in Facts : f[1] \in Important} /\ Important \subseteq Variables
  BY ImportantVariables, FactIsPair DEF VerdictsOn
<1>2. /\ IsState(s) /\ IsState(t)
      /\ Preconditions(o) \subseteq FactsOf(s) /\ Posts(o) \subseteq FactsOf(t)
      /\ \A p \in H : p[1] \notin EffectVars(o) => (p \in FactsOf(s) <=> p \in FactsOf(t))
  BY StepOfKept
<1>3. Preconditions(o) \subseteq H /\ Posts(o) \subseteq H
  BY KeptOperator
<1>4. o.augmented \subseteq H
  BY DEF ExaminedOf
<1>5. known \subseteq FactsOf(s) \cap H
  BY <1>2, <1>3, <1>4 DEF AgreesWithOperator
<1>6. ~Contradictory(hh, known)
  <2> HIDE DEF known, H
  <2>1. \A p \in known : p \notin hh.unreachable
    BY <1>1, <1>5 DEF AgreesWith
  <2>2. \A p, q \in known : ~AreMutex(hh, p, q)
    BY <1>1, <1>2, <1>5, NotMutexInState
  <2> QED
    BY <2>1, <2>2 DEF Contradictory
<1>7. \A v \in Important : <<v, s[v]>> \in FactsOf(s) \cap H
  BY <1>1, <1>2, FactsOfState DEF IsState
<1>8. unknown \subseteq Important /\ IsFiniteSet(unknown)
  <2>1. unknown \subseteq Important
    BY <1>1
  <2>2. IsFiniteSet(Variables)
    BY PreprocessorAssumption DEF PreprocessorAssumption
  <2> HIDE DEF unknown
  <2> QED
    BY <1>1, <2>1, <2>2, FS_Subset
<1> DEFINE R == [possible : BOOLEAN, unknown : SUBSET unknown, known : SUBSET (FactsOf(s) \cap H),
                 found : SUBSET (FactsOf(s) \cap H)]
           Y == {r \in R : r.possible}
           start == [possible |-> TRUE, unknown |-> unknown, known |-> known, found |-> {}]
<1>9. start \in Y
  <2> HIDE DEF unknown, known, H
  <2> QED
    BY <1>5
<1>10. ASSUME NEW r \in Y PROVE DisambiguationRound(hh, o, r) \in Y
  <2> DEFINE C(v) == Candidates(hh, o, r.known, v)
             candidates == [v \in r.unknown |-> Candidates(hh, o, r.known, v)]
             single == UNION {candidates[v] : v \in {w \in r.unknown : Cardinality(candidates[w]) = 1}}
             possible == r.possible /\ \A v \in r.unknown : candidates[v] # {}
             left == {v \in r.unknown : candidates[v] \cap single = {}}
             z == DisambiguationRound(hh, o, r)
  <2>1. z = [possible |-> possible, unknown |-> left, known |-> single, found |-> r.found \cup single]
    BY DEF DisambiguationRound
  <2>2. /\ r.unknown \subseteq Important /\ r.known \subseteq FactsOf(s) \cap H /\ r.possible
        /\ r.found \subseteq FactsOf(s) \cap H /\ r.unknown \subseteq unknown
    <3> HIDE DEF unknown, H
    <3> QED
      BY <1>8
  <2>3. \A v \in r.unknown : candidates[v] = C(v)
    OBVIOUS
  <2>4. ASSUME NEW v \in r.unknown PROVE <<v, s[v]>> \in C(v)
    <3> DEFINE sv == <<v, s[v]>>
    <3>1. sv \in FactsOf(s) \cap H /\ sv[1] = v
      BY <1>7, <2>2
    <3> HIDE DEF sv, H, known
    <3>2. sv \notin hh.unreachable /\ sv \in hh.facts
      BY <1>1, <3>1 DEF AgreesWith
    <3>3. \A q \in r.known : ~AreMutex(hh, sv, q)
      BY <1>1, <1>2, <2>2, <3>1, NotMutexInState
    <3>4. ASSUME v \notin EffectVars(o), NEW q \in Posts(o) PROVE ~AreMutex(hh, sv, q)
      <4>1. sv \in FactsOf(t) \cap H /\ q \in FactsOf(t) \cap H
        BY <1>2, <1>3, <3>1, <3>4
      <4> QED
        BY <1>1, <1>2, <4>1, NotMutexInState
    <3>5. sv \in C(v)
      BY <3>1, <3>2, <3>3, <3>4 DEF Candidates
    <3> QED
      BY <3>5 DEF sv
  <2>5. \A v : Cardinality(C(v)) = 1 => \A p, q \in C(v) : p = q
    BY <1>1, OnlyCandidate
  <2> HIDE DEF C, candidates
  <2>6. single \subseteq FactsOf(s) \cap H
    <3> SUFFICES ASSUME NEW p \in single PROVE p \in FactsOf(s) \cap H
      OBVIOUS
    <3>1. PICK v \in r.unknown : Cardinality(candidates[v]) = 1 /\ p \in candidates[v]
      OBVIOUS
    <3> HIDE DEF H, single
    <3>2. Cardinality(C(v)) = 1 /\ p \in C(v)
      BY <2>3, <3>1
    <3>3. \A x, w \in C(v) : x = w
      BY <2>5, <3>2
    <3>4. p = <<v, s[v]>> /\ v \in Important
      BY <2>2, <2>4, <3>2, <3>3
    <3> QED
      BY <1>7, <3>4
  <2>7. possible
    BY <2>2, <2>3, <2>4
  <2>8. possible \in BOOLEAN /\ left \subseteq unknown
    BY <2>2
  <2> HIDE DEF single, possible, left, z, unknown, H, known
  <2>9. z \in R /\ z.possible
    BY <2>1, <2>2, <2>6, <2>7, <2>8
  <2> QED
    BY <2>9 DEF z
<1>11. result \in Y
  <2> HIDE DEF Y, unknown, known
  <2> QED
    BY <1>8, <1>9, <1>10, DisambiguateStaysIn
<1>12. result.possible /\ result.found \subseteq FactsOf(s) \cap H
  <2> HIDE DEF result, unknown, H, known
  <2> QED
    BY <1>11
<1> DEFINE all == known \cup result.found
           potential == PotentialPreconditions(hh, o, all)
<1>13. y = [o EXCEPT !.augmented = o.augmented \cup result.found, !.potential = potential]
  BY <1>6, <1>12 DEF RemoveAmbiguity
<1>14. potential \subseteq H /\ \A f \in potential : \E e \in o.effects : e.var = f[1] /\ e.pre = NONE
  BY <1>1 DEF PotentialPreconditions
<1>15. all \subseteq FactsOf(s) \cap H
  BY <1>5, <1>12
<1> HIDE DEF all, potential, result, unknown, known
<1>16. ASSUME NEW e \in o.effects, e.pre = NONE PROVE <<e.var, s[e.var]>> \in potential
  <2> DEFINE sv == <<e.var, s[e.var]>>
  <2>1. e.var \in Important
    BY DEF IsKept
  <2>2. sv \in FactsOf(s) \cap H /\ sv[1] = e.var
    BY <1>7, <2>1
  <2> HIDE DEF sv, H
  <2>3. \A q \in all : ~AreMutex(hh, sv, q) /\ (q[1] = sv[1] => q = sv)
    BY <1>1, <1>2, <1>15, <2>2, NotMutexInState, FactsOfState
  <2>4. sv \in hh.facts /\ \E f \in o.effects : f.var = sv[1] /\ f.pre = NONE
    BY <1>1, <1>16, <2>2
  <2>5. sv \in all \/ \A q \in all : q[1] # sv[1] /\ ~AreMutex(hh, sv, q)
    BY <2>3
  <2>6. sv \in potential
    BY <2>4, <2>5 DEF potential, PotentialPreconditions
  <2> QED
    BY <2>6 DEF sv
<1> HIDE DEF y
<1>17. /\ y.spurious = o.spurious /\ y.augmented = o.augmented \cup result.found
       /\ y.potential = potential /\ y.effects = o.effects
  BY <1>13 DEF ExaminedOf
<1>18. ~y.spurious /\ y.augmented \subseteq FactsOf(s)
  BY <1>12, <1>17 DEF AgreesWithOperator
<1>19. HasPotential(y, s)
  BY <1>16, <1>17 DEF HasPotential
<1>20. AgreesWithOperator(y, s)
  BY <1>14, <1>17, <1>18, <1>19 DEF AgreesWithOperator
<1> QED
  BY <1>19, <1>20 DEF y

-----------------------------------------------------------------------------
(* The invariant of the preprocessor.                                      *)

\* The task that was read stays as it is, and so does what is said of it alone.
LEMMA SameTask ==
  ASSUME task' = task
  PROVE  /\ Useful' = Useful
         /\ StepsWithin(Useful)' = StepsWithin(Useful)
         /\ Important' = Important
         /\ NoConditionalEffects' = NoConditionalEffects
         /\ GroupsHold' = GroupsHold
<1>1. AllStates' = AllStates /\ Important' = Important
  BY DEF AllStates, Important
<1>2. Useful' = Useful
  BY <1>1 DEF Useful, Transitions, IsGoal
<1>3. NoConditionalEffects' = NoConditionalEffects
  BY DEF NoConditionalEffects
<1>4. GroupsHold' = GroupsHold
  BY <1>2 DEF GroupsHold
<1>5. StepsWithin(Useful)' = StepsWithin(Useful)
  BY <1>2 DEF StepsWithin
<1> QED
  BY <1>1, <1>2, <1>3, <1>4, <1>5

\* What a step keeps that leaves the operators, the mutexes and the pairs alone.
LEMMA QuietStep ==
  ASSUME PreprocessorInv, UNCHANGED <<taskVars, operators, mutexes, h>>,
         pc' \in {"iterate", "compute", "conclude", "reduce", "done"},
         update' \in [BOOLEAN -> BOOLEAN], regression' \in BOOLEAN
  PROVE  /\ PreprocessorType'
         /\ KnownOfLiveOperators' /\ ProtectedAreReachable'
         /\ NoConditionalEffects' /\ GroupsHold' =>
              /\ NoConditionalEffects /\ GroupsHold
              /\ MutexesAreSound' /\ OperatorsAreSound' /\ PotentialIsComplete
         /\ Reduced' = Reduced
<1>1. task' = task /\ options' = options /\ operators' = operators /\ mutexes' = mutexes /\ h' = h
  BY DEF taskVars
<1>2. Important' = Important /\ Useful' = Useful /\ StepsWithin(Useful)' = StepsWithin(Useful)
  BY <1>1, SameTask
<1>3. PreprocessorType'
  BY <1>1, <1>2 DEF PreprocessorInv, PreprocessorType
<1>4. KnownOfLiveOperators' /\ ProtectedAreReachable'
  BY <1>1 DEF PreprocessorInv, KnownOfLiveOperators, LiveOps, ProtectedAreReachable, Protected, InitFacts
<1>5. ASSUME NoConditionalEffects', GroupsHold'
      PROVE  /\ NoConditionalEffects /\ GroupsHold
             /\ MutexesAreSound' /\ OperatorsAreSound' /\ PotentialIsComplete
  <2>1. NoConditionalEffects /\ GroupsHold
    BY <1>1, <1>5, SameTask
  <2>2. MutexesAreSound /\ OperatorsAreSound /\ PotentialIsComplete
    BY <2>1 DEF PreprocessorInv, Sound
  <2> QED
    BY <1>1, <1>2, <2>1, <2>2 DEF MutexesAreSound, OperatorsAreSound
<1>6. Reduced' = Reduced
  <2>1. LiveOps' = LiveOps /\ InitFacts' = InitFacts
    BY <1>1 DEF LiveOps, InitFacts
  <2>2. \A v : ReachableValues(v)' = ReachableValues(v) /\ Necessary(v)' = Necessary(v)
    BY <1>1 DEF ReachableValues, Necessary
  <2>3. \A f : NewId(f)' = NewId(f)
    BY <2>2 DEF NewId
  <2>4. \A F : Renumbered(F)' = Renumbered(F) /\ OfNecessary(F)' = OfNecessary(F)
    BY <2>2, <2>3 DEF Renumbered, OfNecessary
  <2>5. \A o : RenumberOp(o)' = RenumberOp(o) /\ FactsToRenumber(o)' = FactsToRenumber(o)
    BY <1>1, <2>3, <2>4 DEF RenumberOp, FactsToRenumber
  <2> DEFINE renumbered == [i \in LiveOps |-> RenumberOp(operators[i])]
             goal == Renumbered(OfNecessary(task.goal))
             kept == {v \in ImportantVars(AllOps(renumbered), goal) : Necessary(v)}
             stripped == StripOperators(renumbered, kept)
             fails == \E i \in LiveOps : FactsToRenumber([j \in LiveOps |-> operators[j]][i]) \cap h.unreachable # {}
             init == [v \in kept |-> NewId(<<v, task.init[v]>>)[2]]
             written == [i \in DOMAIN stripped |->
                             Written(IF options.include_augmented_preconditions
                                     THEN IncludeAugmented(stripped[i]) ELSE stripped[i])]
             groups == StripMutexes({Renumbered(OfNecessary(g \ h.unreachable)) : g \in mutexes}, kept)
  <2>6. renumbered' = renumbered
    BY <1>1, <2>1, <2>5
  <2>7. goal' = goal
    BY <1>1, <2>4
  <2> HIDE DEF renumbered, goal
  <2>8. kept' = kept
    BY <2>2, <2>6, <2>7
  <2> HIDE DEF kept
  <2>9. stripped' = stripped
    BY <2>6, <2>8
  <2>10. fails' = fails
    BY <1>1, <2>1, <2>5
  <2>11. init' = init
    BY <1>1, <2>3, <2>8
  <2> HIDE DEF stripped, fails, init
  <2>12. written' = written
    BY <1>1, <2>9
  <2>13. {Renumbered(OfNecessary(g \ h.unreachable)) : g \in mutexes}' = {Renumbered(OfNecessary(g \ h.unreachable)) : g \in mutexes}
    BY <1>1, <2>4
  <2>14. groups' = groups
    BY <2>8, <2>13
  <2> HIDE DEF written, groups
  <2>15. Reduced = IF fails THEN Error
                   ELSE IF InitFacts \cap h.unreachable # {} \/ kept = {} THEN Unsolvable
                   ELSE [status |-> "written", variables |-> kept, init |-> init, goal |-> goal,
                         operators |-> written, mutexes |-> groups]
    BY DEF Reduced, renumbered, goal, kept, stripped, fails, init, written, groups
  <2>16. Reduced' = IF fails' THEN Error
                    ELSE IF InitFacts' \cap h'.unreachable # {} \/ kept' = {} THEN Unsolvable
                    ELSE [status |-> "written", variables |-> kept', init |-> init', goal |-> goal',
                          operators |-> written', mutexes |-> groups']
    BY DEF Reduced, renumbered, goal, kept, stripped, fails, init, written, groups, Error, Unsolvable
  <2> QED
    BY <1>1, <2>1, <2>7, <2>8, <2>10, <2>11, <2>12, <2>14, <2>15, <2>16
<1> QED
  BY <1>3, <1>4, <1>5, <1>6

\* What the translator says is mutex is so in every state that respects its groups.
LEMMA InitializeIsSound ==
  ASSUME NEW H, NEW groups, \A g \in groups : g \subseteq H
  PROVE  /\ Initialize(H, groups) \in VerdictsOn(H)
         /\ Initialize(H, groups).unreachable = {}
         /\ \A s : IsState(s) /\ (\A g \in groups : RespectsGroup(g, s)) => AgreesWith(Initialize(H, groups), s)
<1> DEFINE known == {pair \in UNION {Pairs(g, g) : g \in groups} : \A p, q \in pair : p # q => p[1] # q[1]}
           mutex(pair) == \E p, q \in pair : p # q /\ (p[1] = q[1] \/ pair \in known)
           inconsistent == {pair \in known : Cardinality(pair) = 2}
           spurious == {pair \in Pairs(H, H) : mutex(pair)}
<1>1. Initialize(H, groups) = [facts |-> H, unreachable |-> {}, static |-> {}, reached |-> {},
                               inconsistent |-> inconsistent, spurious |-> spurious]
  BY DEF Initialize
<1>2. known \subseteq SUBSET H /\ spurious \subseteq SUBSET H
  BY DEF Pairs
<1>3. ASSUME NEW s, \A g \in groups : RespectsGroup(g, s),
             NEW p \in FactsOf(s), NEW q \in FactsOf(s), {p, q} \in known
      PROVE  p = q
  <2>1. PICK g \in groups : {p, q} \in Pairs(g, g)
    BY <1>3
  <2>2. p \in g /\ q \in g
    BY <2>1 DEF Pairs
  <2> QED
    BY <1>3, <2>2 DEF RespectsGroup
<1> HIDE DEF known
<1>4. ASSUME NEW s, IsState(s), \A g \in groups : RespectsGroup(g, s),
             NEW p \in FactsOf(s), NEW q \in FactsOf(s)
      PROVE  {p, q} \notin spurious /\ {p, q} \notin inconsistent
  <2>1. {p, q} \in known => p = q
    BY <1>3, <1>4
  <2>2. p[1] = q[1] => p = q
    BY <1>4, FactsOfState
  <2>3. ~mutex({p, q})
    BY <2>1, <2>2
  <2>4. {p, q} \notin inconsistent
    BY <2>1, PairOfTwo
  <2> QED
    BY <2>3, <2>4
<1> HIDE DEF spurious, inconsistent
<1>5. Initialize(H, groups) \in VerdictsOn(H)
  <2>1. inconsistent \subseteq SUBSET H
    BY <1>2 DEF inconsistent
  <2> QED
    BY <1>1, <1>2, <2>1 DEF VerdictsOn
<1>6. ASSUME NEW s, IsState(s), \A g \in groups : RespectsGroup(g, s)
      PROVE  AgreesWith(Initialize(H, groups), s)
  BY <1>1, <1>4, <1>6 DEF AgreesWith
<1>7. Initialize(H, groups).unreachable = {}
  BY <1>1
<1> QED
  BY <1>5, <1>6, <1>7

\* The operators that are read, as far as they set variables that matter.
LEMMA InitialOperators ==
  ASSUME task \in Tasks,
         operators = StripOperators([i \in DOMAIN task.ops |-> Fresh(task.ops[i])], Important)
  PROVE  /\ operators = [i \in {k \in DOMAIN task.ops : StripEffects(task.ops[k], Important).effects # {}}
                          |-> operators[i]]
         /\ \A i \in DOMAIN operators :
              /\ i \in DOMAIN task.ops
              /\ operators[i] \in ExaminedOf(StripEffects(task.ops[i], Important), OfVariables(Important))
              /\ ~operators[i].spurious /\ operators[i].augmented = {} /\ operators[i].potential = {}
<1> DEFINE fresh == [i \in DOMAIN task.ops |-> Fresh(task.ops[i])]
           stripped == [i \in DOMAIN fresh |-> StripEffects(fresh[i], Important)]
           left == {k \in DOMAIN fresh : stripped[k].effects # {} /\ ~stripped[k].spurious}
           here == {k \in DOMAIN task.ops : StripEffects(task.ops[k], Important).effects # {}}
<1>1. operators = [i \in left |-> stripped[i]]
  BY DEF StripOperators
<1>2. ASSUME NEW i \in DOMAIN task.ops
      PROVE  /\ stripped[i].effects = StripEffects(task.ops[i], Important).effects
             /\ stripped[i] \in ExaminedOf(StripEffects(task.ops[i], Important), OfVariables(Important))
             /\ ~stripped[i].spurious /\ stripped[i].augmented = {} /\ stripped[i].potential = {}
  <2> DEFINE op == task.ops[i]
             effects == {e \in op.effects : e.var \in Important}
  <2>1. stripped[i] = StripEffects(Fresh(op), Important)
    OBVIOUS
  <2>2. StripEffects(Fresh(op), Important)
          = [prevail |-> op.prevail, effects |-> effects, spurious |-> FALSE, augmented |-> {}, potential |-> {}]
    <3>1. effects = {e \in Fresh(op).effects : e.var \in Important}
      BY DEF Fresh
    <3>2. StripEffects(Fresh(op), Important) = [Fresh(op) EXCEPT !.effects = effects]
      BY <3>1 DEF StripEffects
    <3> HIDE DEF effects
    <3> QED
      BY <3>2 DEF Fresh
  <2>3. StripEffects(op, Important).effects = effects /\ StripEffects(op, Important).prevail = op.prevail
    BY StripEffectsOf
  <2> HIDE DEF effects
  <2>4. StripEffects(Fresh(op), Important) \in ExaminedOf(StripEffects(op, Important), OfVariables(Important))
    BY <2>2, <2>3 DEF ExaminedOf
  <2> QED
    BY <2>1, <2>2, <2>3, <2>4
<1> HIDE DEF stripped
<1>3. left = here
  BY <1>2
<1> HIDE DEF left
<1>4. operators = [i \in here |-> stripped[i]]
  BY <1>1, <1>3
<1>5. operators = [i \in here |-> operators[i]]
  BY <1>4
<1>6. ASSUME NEW i \in DOMAIN operators
      PROVE  i \in DOMAIN task.ops /\ operators[i] = stripped[i]
  BY <1>4
<1> QED
  BY <1>2, <1>5, <1>6

LEMMA InitInv == Init => PreprocessorInv
<1> SUFFICES ASSUME Init PROVE PreprocessorInv
  OBVIOUS
<1>1. /\ task \in Tasks
      /\ operators = StripOperators([i \in DOMAIN task.ops |-> Fresh(task.ops[i])], Important)
      /\ mutexes = StripMutexes(task.groups, Important)
      /\ h = Initialize(OfVariables(Important), mutexes)
      /\ pc = "iterate" /\ update = [backward \in BOOLEAN |-> TRUE] /\ regression = FALSE
      /\ output = NoOutput
      /\ options \in [include_augmented_preconditions : BOOLEAN, no_bw_h2 : BOOLEAN]
  BY DEF Init, Important
<1>2. \A g \in mutexes : g \subseteq OfVariables(Important) /\ \E group \in task.groups : g \subseteq group
  <2>1. ASSUME NEW g \in mutexes
        PROVE  \E group \in task.groups : g = {f \in group : f[1] \in Important}
    BY <1>1 DEF StripMutexes
  <2>2. \A group \in task.groups : group \subseteq Facts
    BY <1>1, TaskIsTask
  <2>3. OfVariables(Important) = {f \in Facts : f[1] \in Important}
    BY <1>1, ImportantVariables, FactIsPair
  <2> QED
    BY <2>1, <2>2, <2>3
<1>3. /\ h \in VerdictsOn(OfVariables(Important)) /\ h.unreachable = {}
      /\ \A s : IsState(s) /\ (\A g \in mutexes : RespectsGroup(g, s)) => AgreesWith(h, s)
  BY <1>1, <1>2, InitializeIsSound
<1>4. /\ operators = [i \in {k \in DOMAIN task.ops : StripEffects(task.ops[k], Important).effects # {}}
                          |-> operators[i]]
      /\ \A i \in DOMAIN operators :
              /\ i \in DOMAIN task.ops
              /\ operators[i] \in ExaminedOf(StripEffects(task.ops[i], Important), OfVariables(Important))
              /\ ~operators[i].spurious /\ operators[i].augmented = {} /\ operators[i].potential = {}
  BY <1>1, InitialOperators
<1>5. PreprocessorType
  BY <1>1, <1>2, <1>3, <1>4 DEF PreprocessorType
<1>6. KnownOfLiveOperators /\ ProtectedAreReachable
  BY <1>3, <1>4 DEF KnownOfLiveOperators, LiveOps, IsKnown, ProtectedAreReachable
<1>7. ComputeIsStarted /\ ComputeIsFixpoint /\ OutputIsReduced
  BY <1>1 DEF ComputeIsStarted, ComputeIsFixpoint, OutputIsReduced, NoOutput
<1>8. ASSUME NoConditionalEffects, GroupsHold
      PROVE  MutexesAreSound /\ OperatorsAreSound /\ PotentialIsComplete
  <2>1. ASSUME NEW s \in Useful
        PROVE  AgreesWith(h, s) /\ \A g \in mutexes : RespectsGroup(g, s)
    <3>1. IsState(s)
      BY <1>1, UsefulStates, StatesOfTheTask
    <3>2. ASSUME NEW g \in mutexes
          PROVE  RespectsGroup(g, s)
      <4>1. PICK group \in task.groups : g \subseteq group
        BY <1>2
      <4>2. Cardinality(FactsOf(s) \cap group) <= 1
        BY <1>8 DEF GroupsHold
      <4>3. IsFiniteSet(FactsOf(s) \cap group)
        BY <3>1, FactsOfState, FactsAreFinite, FS_Subset
      <4>4. \A p, q \in FactsOf(s) \cap group : p = q
        BY <4>2, <4>3, AtMostOne
      <4> QED
        BY <4>1, <4>4 DEF RespectsGroup
    <3> QED
      BY <1>3, <3>1, <3>2
  <2>2. OperatorsAreSound
    BY <1>4 DEF OperatorsAreSound, AgreesWithOperator
  <2>3. PotentialIsComplete
    BY <1>1 DEF PotentialIsComplete
  <2> QED
    BY <2>1, <2>2, <2>3 DEF MutexesAreSound
<1> QED
  BY <1>5, <1>6, <1>7, <1>8 DEF PreprocessorInv, Sound

\* A step that leaves the operators, the mutexes and the pairs alone and starts nothing.
LEMMA QuietInv ==
  ASSUME PreprocessorInv, UNCHANGED <<taskVars, operators, mutexes, h>>,
         pc # "done", pc' \in {"iterate", "reduce", "done"},
         update' \in [BOOLEAN -> BOOLEAN], regression' \in BOOLEAN,
         output' \in {output, Unsolvable} \/ (pc' = "done" /\ output' = Reduced),
         regression' \/ (pc' = "iterate" /\ ~update'[FALSE]) => regression \/ (pc = "iterate" /\ ~update[FALSE])
  PROVE  PreprocessorInv'
<1>1. PreprocessorType' /\ KnownOfLiveOperators' /\ ProtectedAreReachable' /\ Reduced' = Reduced
  BY QuietStep
<1>2. ComputeIsStarted' /\ ComputeIsFixpoint'
  BY DEF ComputeIsStarted, ComputeIsFixpoint
<1>3. OutputIsReduced'
  BY <1>1 DEF PreprocessorInv, OutputIsReduced, Unsolvable
<1>4. ASSUME NoConditionalEffects', GroupsHold'
      PROVE  MutexesAreSound' /\ OperatorsAreSound' /\ PotentialIsComplete'
  <2>1. MutexesAreSound' /\ OperatorsAreSound' /\ PotentialIsComplete
    BY <1>4, QuietStep
  <2>2. StepsWithin(Useful)' = StepsWithin(Useful) /\ operators' = operators
    BY SameTask DEF taskVars
  <2>3. PotentialIsComplete'
    BY <2>1, <2>2 DEF PotentialIsComplete
  <2> QED
    BY <2>1, <2>3
<1> QED
  BY <1>1, <1>2, <1>3, <1>4 DEF PreprocessorInv, Sound

\* What a step keeps that only finds pairs reached.
LEMMA ReachingStep ==
  ASSUME PreprocessorInv, UNCHANGED <<taskVars, operators, mutexes, regression, output>>,
         h' \in VerdictsOn(OfVariables(Important)), h' = [h EXCEPT !.reached = h'.reached],
         pc \in {"iterate", "compute"}, pc' \in {"compute", "conclude"},
         update' \in [BOOLEAN -> BOOLEAN]
  PROVE  /\ PreprocessorType' /\ KnownOfLiveOperators' /\ ProtectedAreReachable'
         /\ OutputIsReduced' /\ Sound'
         /\ InitFacts' = InitFacts
<1>1. task' = task /\ options' = options /\ operators' = operators /\ mutexes' = mutexes
  BY DEF taskVars
<1>2. Important' = Important /\ Useful' = Useful /\ StepsWithin(Useful)' = StepsWithin(Useful)
  BY <1>1, SameTask
<1> DEFINE hh == h'
<1>3. h \in VerdictsOn(OfVariables(Important))
  BY TypeFacts DEF PreprocessorInv
<1>4. /\ hh.facts = h.facts /\ hh.unreachable = h.unreachable
      /\ hh.spurious = h.spurious /\ hh.inconsistent = h.inconsistent
  BY <1>3 DEF VerdictsOn
<1>5. PreprocessorType'
  BY <1>1, <1>2 DEF PreprocessorInv, PreprocessorType
<1>6. InitFacts' = InitFacts
  BY <1>1, <1>4 DEF InitFacts
<1>7. KnownOfLiveOperators' /\ ProtectedAreReachable'
  BY <1>1, <1>4, <1>6 DEF PreprocessorInv, KnownOfLiveOperators, LiveOps, ProtectedAreReachable, Protected
<1>8. OutputIsReduced'
  BY DEF PreprocessorInv, OutputIsReduced
<1>9. ASSUME NoConditionalEffects', GroupsHold'
      PROVE  MutexesAreSound' /\ OperatorsAreSound' /\ PotentialIsComplete'
  <2>1. NoConditionalEffects /\ GroupsHold
    BY <1>1, <1>9, SameTask
  <2>2. MutexesAreSound /\ OperatorsAreSound /\ PotentialIsComplete
    BY <2>1 DEF PreprocessorInv, Sound
  <2>3. \A s : AgreesWith(hh, s) <=> AgreesWith(h, s)
    BY <1>4 DEF AgreesWith
  <2>4. MutexesAreSound'
    BY <1>1, <1>2, <2>2, <2>3 DEF MutexesAreSound
  <2>5. OperatorsAreSound'
    BY <1>1, <1>2, <2>2 DEF OperatorsAreSound
  <2>6. PotentialIsComplete'
    BY <1>1, <1>2, <2>2 DEF PotentialIsComplete
  <2> QED
    BY <2>4, <2>5, <2>6
<1> QED
  BY <1>5, <1>6, <1>7, <1>8, <1>9 DEF Sound

\* The pairs a computation starts with do not depend on those that are reached.
LEMMA StartIsTheSame ==
  ASSUME NEW H, NEW hh \in VerdictsOn(H), NEW R, NEW facts
  PROVE  LET after == [hh EXCEPT !.reached = R]
         IN  /\ InitValuesRegression(after, facts).reached = InitValuesRegression(hh, facts).reached
             /\ InitValuesProgression(after, facts).reached = InitValuesProgression(hh, facts).reached
<1> DEFINE after == [hh EXCEPT !.reached = R]
           pairs == Pairs(hh.facts, hh.facts)
<1>1. /\ after.facts = hh.facts /\ after.spurious = hh.spurious /\ after.inconsistent = hh.inconsistent
      /\ \A S : [after EXCEPT !.reached = S].reached = S /\ [hh EXCEPT !.reached = S].reached = S
  BY DEF VerdictsOn
<1> HIDE DEF after
<1>2. Rivals(after, facts) = Rivals(hh, facts)
  BY <1>1 DEF Rivals, SameVariable, Inconsistent
<1>3. /\ InitValuesRegression(after, facts).reached = pairs \ (after.spurious \cup Touching(pairs, Rivals(after, facts)))
      /\ InitValuesRegression(hh, facts).reached = pairs \ (hh.spurious \cup Touching(pairs, Rivals(hh, facts)))
  BY <1>1 DEF InitValuesRegression
<1>4. /\ InitValuesProgression(after, facts).reached = Pairs(facts, facts) \ after.spurious
      /\ InitValuesProgression(hh, facts).reached = Pairs(facts, facts) \ hh.spurious
  BY <1>1 DEF InitValuesProgression
<1> QED
  BY <1>1, <1>2, <1>3, <1>4 DEF after

LEMMA NothingToUpdateInv == PreprocessorInv /\ NothingToUpdate => PreprocessorInv'
<1> SUFFICES ASSUME PreprocessorInv, NothingToUpdate PROVE PreprocessorInv'
  OBVIOUS
<1>1. /\ UNCHANGED <<taskVars, operators, mutexes, h>> /\ pc = "iterate" /\ pc' \in {"iterate", "reduce"}
      /\ update' = update /\ regression' = ~regression /\ output' = output /\ ~update[regression]
  BY DEF NothingToUpdate, LoopWhile
<1>2. regression \in BOOLEAN /\ update \in [BOOLEAN -> BOOLEAN]
  BY TypeFacts DEF PreprocessorInv
<1>3. regression \/ (pc = "iterate" /\ ~update[FALSE])
  BY <1>1, <1>2
<1>4. /\ UNCHANGED <<taskVars, operators, mutexes, h>> /\ pc # "done" /\ pc' \in {"iterate", "reduce", "done"}
      /\ update' \in [BOOLEAN -> BOOLEAN] /\ regression' \in BOOLEAN
      /\ output' \in {output, Unsolvable} \/ (pc' = "done" /\ output' = Reduced)
  BY <1>1, <1>2
<1>5. regression' \/ (pc' = "iterate" /\ ~update'[FALSE]) => regression \/ (pc = "iterate" /\ ~update[FALSE])
  BY <1>1, <1>2, <1>3
<1> QED
  BY <1>4, <1>5, QuietInv

LEMMA SkipBackwardInv == PreprocessorInv /\ SkipBackward => PreprocessorInv'
<1> SUFFICES ASSUME PreprocessorInv, SkipBackward PROVE PreprocessorInv'
  OBVIOUS
<1>1. /\ UNCHANGED <<taskVars, operators, mutexes, h>> /\ pc = "iterate" /\ pc' \in {"iterate", "reduce"}
      /\ update' = [update EXCEPT ![regression] = FALSE] /\ regression' = regression
      /\ output' = output /\ regression
  BY DEF SkipBackward, LoopWhile
<1>2. regression \in BOOLEAN /\ update \in [BOOLEAN -> BOOLEAN]
  BY TypeFacts DEF PreprocessorInv
<1>4. /\ UNCHANGED <<taskVars, operators, mutexes, h>> /\ pc # "done" /\ pc' \in {"iterate", "reduce", "done"}
      /\ update' \in [BOOLEAN -> BOOLEAN] /\ regression' \in BOOLEAN
      /\ output' \in {output, Unsolvable} \/ (pc' = "done" /\ output' = Reduced)
  BY <1>1, <1>2
<1>5. regression' \/ (pc' = "iterate" /\ ~update'[FALSE]) => regression \/ (pc = "iterate" /\ ~update[FALSE])
  BY <1>1, <1>2
<1> QED
  BY <1>4, <1>5, QuietInv

LEMMA TimeExceededInv == PreprocessorInv /\ TimeExceeded => PreprocessorInv'
<1> SUFFICES ASSUME PreprocessorInv, TimeExceeded PROVE PreprocessorInv'
  OBVIOUS
<1>1. /\ UNCHANGED <<taskVars, operators, mutexes, h>> /\ pc = "compute" /\ pc' = "reduce"
      /\ update' = update /\ regression' = regression /\ output' = output
  BY DEF TimeExceeded, loopVars
<1>2. regression \in BOOLEAN /\ update \in [BOOLEAN -> BOOLEAN]
  BY TypeFacts DEF PreprocessorInv
<1>4. /\ UNCHANGED <<taskVars, operators, mutexes, h>> /\ pc # "done" /\ pc' \in {"iterate", "reduce", "done"}
      /\ update' \in [BOOLEAN -> BOOLEAN] /\ regression' \in BOOLEAN
      /\ output' \in {output, Unsolvable} \/ (pc' = "done" /\ output' = Reduced)
  BY <1>1, <1>2
<1>5. regression' \/ (pc' = "iterate" /\ ~update'[FALSE]) => regression \/ (pc = "iterate" /\ ~update[FALSE])
  BY <1>1, <1>2
<1> QED
  BY <1>4, <1>5, QuietInv

LEMMA ReduceInv == PreprocessorInv /\ Reduce => PreprocessorInv'
<1> SUFFICES ASSUME PreprocessorInv, Reduce PROVE PreprocessorInv'
  OBVIOUS
<1>1. /\ UNCHANGED <<taskVars, operators, mutexes, h>> /\ pc = "reduce" /\ pc' = "done"
      /\ update' = update /\ regression' = regression /\ output' = Reduced
  BY DEF Reduce, Finish, loopVars
<1>2. regression \in BOOLEAN /\ update \in [BOOLEAN -> BOOLEAN]
  BY TypeFacts DEF PreprocessorInv
<1>3. Reduced' = Reduced
  BY <1>1, <1>2, QuietStep
<1>4. /\ UNCHANGED <<taskVars, operators, mutexes, h>> /\ pc # "done" /\ pc' \in {"iterate", "reduce", "done"}
      /\ update' \in [BOOLEAN -> BOOLEAN] /\ regression' \in BOOLEAN
      /\ output' \in {output, Unsolvable} \/ (pc' = "done" /\ output' = Reduced)
  BY <1>1, <1>2, <1>3
<1>5. regression' \/ (pc' = "iterate" /\ ~update'[FALSE]) => regression \/ (pc = "iterate" /\ ~update[FALSE])
  BY <1>1, <1>2
<1> QED
  BY <1>4, <1>5, QuietInv

\* The computation starts: forward from the initial state, backward from the goal.
LEMMA StartComputeInv == PreprocessorInv /\ StartCompute => PreprocessorInv'
<1> SUFFICES ASSUME PreprocessorInv, StartCompute PROVE PreprocessorInv'
  OBVIOUS
<1> DEFINE H == OfVariables(Important)
           unsolvable == HoldsSpurious(h, IF regression THEN task.goal ELSE InitFacts)
<1>1. /\ UNCHANGED <<taskVars, operators, mutexes, regression>> /\ pc = "iterate"
      /\ update' = [update EXCEPT ![regression] = FALSE] /\ update[regression]
      /\ unsolvable => pc' = "done" /\ output' = Unsolvable /\ h' = h
      /\ ~unsolvable => /\ pc' = "compute" /\ output' = output
                        /\ h' = IF regression THEN InitValuesRegression(h, task.goal)
                                ELSE InitValuesProgression(h, InitFacts)
  BY DEF StartCompute, Finish
<1>2. /\ regression \in BOOLEAN /\ update \in [BOOLEAN -> BOOLEAN] /\ task \in Tasks
      /\ h \in VerdictsOn(H) /\ InitFacts \subseteq H
  BY TypeFacts DEF PreprocessorInv
<1>3. CASE unsolvable
  <2>1. /\ UNCHANGED <<taskVars, operators, mutexes, h>> /\ pc # "done" /\ pc' \in {"iterate", "reduce", "done"}
        /\ update' \in [BOOLEAN -> BOOLEAN] /\ regression' \in BOOLEAN
        /\ output' \in {output, Unsolvable} \/ (pc' = "done" /\ output' = Reduced)
    BY <1>1, <1>2, <1>3
  <2>2. regression' \/ (pc' = "iterate" /\ ~update'[FALSE]) => regression \/ (pc = "iterate" /\ ~update[FALSE])
    BY <1>1, <1>2, <1>3
  <2> QED
    BY <2>1, <2>2, QuietInv
<1>4. CASE ~unsolvable
  <2> DEFINE started == IF regression THEN InitValuesRegression(h, task.goal).reached
                        ELSE InitValuesProgression(h, InitFacts).reached
  <2>1. h' = [h EXCEPT !.reached = started] /\ started \in SUBSET SUBSET H
    <3>1. CASE regression
      <4>1. started = InitValuesRegression(h, task.goal).reached /\ h' = InitValuesRegression(h, task.goal)
        BY <1>1, <1>4, <3>1
      <4> DEFINE pairs == Pairs(h.facts, h.facts)
                 S == pairs \ (h.spurious \cup Touching(pairs, Rivals(h, task.goal)))
      <4>2. InitValuesRegression(h, task.goal) = [h EXCEPT !.reached = S]
        BY DEF InitValuesRegression
      <4>3. S \in SUBSET SUBSET H
        BY <1>2 DEF VerdictsOn, Pairs
      <4> HIDE DEF S
      <4>4. [h EXCEPT !.reached = S].reached = S
        BY <1>2 DEF VerdictsOn
      <4> QED
        BY <4>1, <4>2, <4>3, <4>4
    <3>2. CASE ~regression
      BY <1>1, <1>2, <1>4, <3>2 DEF InitValuesProgression, VerdictsOn, Pairs
    <3> QED
      BY <3>1, <3>2
  <2> HIDE DEF started
  <2>2. h' \in VerdictsOn(H) /\ h'.reached = started
    BY <1>2, <2>1 DEF VerdictsOn
  <2>3. /\ PreprocessorType' /\ KnownOfLiveOperators' /\ ProtectedAreReachable'
        /\ OutputIsReduced' /\ Sound' /\ InitFacts' = InitFacts
    BY <1>1, <1>2, <1>4, <2>1, <2>2, ReachingStep
  <2>4. ComputeIsStarted'
    <3>1. /\ InitValuesRegression(h', task.goal).reached = InitValuesRegression(h, task.goal).reached
          /\ InitValuesProgression(h', InitFacts).reached = InitValuesProgression(h, InitFacts).reached
      BY <1>2, <2>1, StartIsTheSame
    <3>2. task' = task /\ regression' = regression /\ InitFacts' = InitFacts
      BY <1>1, <2>3 DEF taskVars
    <3> QED
      BY <2>2, <3>1, <3>2 DEF ComputeIsStarted, started
  <2>5. ComputeIsFixpoint'
    BY <1>1, <1>4 DEF ComputeIsFixpoint
  <2> QED
    BY <2>3, <2>4, <2>5 DEF PreprocessorInv
<1> QED
  BY <1>3, <1>4

\* A round finds more pairs reached; one that finds none is the last.
LEMMA ComputeRoundInv == PreprocessorInv /\ ComputeRound => PreprocessorInv'
<1> SUFFICES ASSUME PreprocessorInv, ComputeRound PROVE PreprocessorInv'
  OBVIOUS
<1> DEFINE H == OfVariables(Important)
<1>1. /\ UNCHANGED <<taskVars, operators, mutexes, update, regression, output>> /\ pc = "compute"
      /\ h' = Round(h, Edges, Len(task.ops))
      /\ pc' = IF h' = h THEN "conclude" ELSE "compute"
  BY DEF ComputeRound, loopVars
<1>2. /\ regression \in BOOLEAN /\ update \in [BOOLEAN -> BOOLEAN] /\ task \in Tasks
      /\ h \in VerdictsOn(H) /\ InitFacts \subseteq H
      /\ \A i \in DOMAIN operators : IsKept(operators[i], i) /\ operators[i].potential \subseteq H
  BY TypeFacts DEF PreprocessorInv
<1>3. Len(task.ops) \in Nat
  BY <1>2, TaskIsTask
<1>4. ASSUME NEW i \in DOMAIN Edges
      PROVE  Edges[i].add \subseteq H
  <2>1. i \in DOMAIN operators /\ Edges[i] = EdgeOf(operators[i])
    BY DEF Edges, LiveOps
  <2> DEFINE o == operators[i]
  <2>2. Posts(o) \subseteq H /\ Pres(o) \subseteq H
    BY <1>2, <2>1, KeptOperator DEF Preconditions
  <2>3. o.potential \subseteq H
    BY <1>2, <2>1
  <2>4. ForwardOp(h, o).add = Posts(o) /\ BackwardOp(h, o).add = Pres(o) \cup o.potential
    BY DEF ForwardOp, BackwardOp
  <2> HIDE DEF o
  <2> QED
    BY <1>2, <2>1, <2>2, <2>3, <2>4 DEF EdgeOf, o
<1>5. /\ h' \in VerdictsOn(H) /\ h.reached \subseteq h'.reached /\ h' = [h EXCEPT !.reached = h'.reached]
  BY <1>1, <1>2, <1>3, <1>4, RoundAddsReached
<1>6. /\ PreprocessorType' /\ KnownOfLiveOperators' /\ ProtectedAreReachable'
      /\ OutputIsReduced' /\ Sound' /\ InitFacts' = InitFacts
  BY <1>1, <1>2, <1>5, ReachingStep
<1>7. ComputeIsStarted'
  <2>1. /\ InitValuesRegression(h', task.goal).reached = InitValuesRegression(h, task.goal).reached
        /\ InitValuesProgression(h', InitFacts).reached = InitValuesProgression(h, InitFacts).reached
    BY <1>2, <1>5, StartIsTheSame
  <2>2. task' = task /\ regression' = regression /\ InitFacts' = InitFacts
    BY <1>1, <1>6 DEF taskVars
  <2>3. IF regression THEN InitValuesRegression(h, task.goal).reached \subseteq h.reached
        ELSE InitValuesProgression(h, InitFacts).reached \subseteq h.reached
    BY <1>1 DEF PreprocessorInv, ComputeIsStarted
  <2> QED
    BY <1>5, <2>1, <2>2, <2>3 DEF ComputeIsStarted
<1>8. ComputeIsFixpoint'
  <2> SUFFICES ASSUME h' = h PROVE Round(h', Edges', Len(task.ops)') = h'
    BY <1>1 DEF ComputeIsFixpoint
  <2>1. Edges' = Edges /\ task' = task
    BY <1>1 DEF Edges, EdgeOf, LiveOps, taskVars
  <2> QED
    BY <1>1, <2>1
<1> QED
  BY <1>6, <1>7, <1>8 DEF PreprocessorInv

\* What ConcludeIteration finds unreachable, and makes of the operators.
Detected == DetectUnreachable(Conclude(h))

Examined(i) ==
  IF i \in {k \in LiveOps : ~Triggered(h, EdgeOf(operators[k]).pre)} THEN [operators[i] EXCEPT !.spurious = TRUE]
  ELSE IF operators[i].spurious THEN operators[i]
  ELSE RemoveAmbiguity(Detected, operators[i])

LEMMA DetectedFacts ==
  ASSUME PreprocessorInv
  PROVE  /\ Detected \in VerdictsOn(OfVariables(Important))
         /\ h.unreachable \subseteq Detected.unreachable
         /\ \A g \in NewMutexes(h) : g \subseteq OfVariables(Important)
<1> DEFINE H == OfVariables(Important)
<1>1. h \in VerdictsOn(H) /\ task \in Tasks
  BY TypeFacts DEF PreprocessorInv
<1>2. IsFiniteSet(H)
  BY <1>1, ImportantVariables, FactIsPair
<1>3. Conclude(h) \in VerdictsOn(H) /\ h.unreachable \subseteq Conclude(h).unreachable
      /\ \A g \in NewMutexes(h) : g \subseteq H
  BY <1>1, ConcludeIsSound
<1> QED
  BY <1>2, <1>3, DetectUnreachableIsSound DEF Detected

\* An operator that is examined keeps its form, and what is known about it is consistent.
LEMMA ExaminedType ==
  ASSUME PreprocessorInv, NEW i \in DOMAIN operators
  PROVE  /\ Examined(i) \in ExaminedOf(StripEffects(task.ops[i], Important), OfVariables(Important))
         /\ ~Examined(i).spurious => IsKnown(Detected.unreachable, Examined(i))
<1> DEFINE H == OfVariables(Important)
           op == StripEffects(task.ops[i], Important)
           o == operators[i]
<1>1. task \in Tasks /\ o.spurious \in BOOLEAN
  BY TypeFacts DEF PreprocessorInv
<1>2. o \in ExaminedOf(op, H)
  BY DEF PreprocessorInv, PreprocessorType
<1>3. Detected \in VerdictsOn(H)
  BY DetectedFacts
<1>4. IsFiniteSet(H)
  BY <1>1, ImportantVariables, FactIsPair
<1> HIDE DEF H, op
<1>5. CASE i \in {k \in LiveOps : ~Triggered(h, EdgeOf(operators[k]).pre)}
  <2>1. Examined(i) = [o EXCEPT !.spurious = TRUE]
    BY <1>5 DEF Examined
  <2> HIDE DEF o
  <2>2. Examined(i) \in ExaminedOf(op, H) /\ Examined(i).spurious = TRUE
    BY <1>2, <2>1 DEF ExaminedOf
  <2> QED
    BY <2>2 DEF H, op
<1>6. CASE i \notin {k \in LiveOps : ~Triggered(h, EdgeOf(operators[k]).pre)} /\ o.spurious
  <2>1. Examined(i) = o
    BY <1>6 DEF Examined
  <2> QED
    BY <1>2, <1>6, <2>1 DEF H, op
<1>7. CASE i \notin {k \in LiveOps : ~Triggered(h, EdgeOf(operators[k]).pre)} /\ ~o.spurious
  <2>1. Examined(i) = RemoveAmbiguity(Detected, o)
    BY <1>7 DEF Examined
  <2>2. i \in LiveOps
    BY <1>7 DEF LiveOps
  <2>3. IsKnown(h.unreachable, o)
    BY <2>2 DEF PreprocessorInv, KnownOfLiveOperators
  <2>4. \A p \in o.augmented : /\ \A q \in Preconditions(o) : p[1] # q[1]
                               /\ \A q \in o.augmented : p[1] = q[1] => p = q
    BY <2>3 DEF IsKnown
  <2> HIDE DEF o
  <2>5. /\ RemoveAmbiguity(Detected, o) \in ExaminedOf(op, H)
        /\ ~RemoveAmbiguity(Detected, o).spurious => IsKnown(Detected.unreachable, RemoveAmbiguity(Detected, o))
    BY <1>2, <1>3, <1>4, <2>4, RemoveAmbiguityType
  <2> QED
    BY <2>1, <2>5 DEF H, op
<1> QED
  BY <1>5, <1>6, <1>7

\* No state on a path to the goal has what the iteration concludes cannot be.
LEMMA DetectedIsSound ==
  ASSUME PreprocessorInv, NoConditionalEffects, GroupsHold, pc = "conclude", NEW s \in Useful
  PROVE  /\ Reached(h, s) /\ AgreesWith(Detected, s)
         /\ \A g \in NewMutexes(h) : RespectsGroup(g, s)
<1> DEFINE H == OfVariables(Important)
<1>1. MutexesAreSound /\ OperatorsAreSound /\ PotentialIsComplete
  BY DEF PreprocessorInv, Sound
<1>2. h \in VerdictsOn(H) /\ task \in Tasks
  BY TypeFacts DEF PreprocessorInv
<1>3. IsFiniteSet(H)
  BY <1>2, ImportantVariables, FactIsPair
<1>4. AgreesWith(h, s) /\ Reached(h, s)
  BY <1>1, UsefulIsReached DEF PreprocessorInv, MutexesAreSound
<1>5. Conclude(h) \in VerdictsOn(H) /\ AgreesWith(Conclude(h), s) /\ \A g \in NewMutexes(h) : RespectsGroup(g, s)
  BY <1>2, <1>4, ConcludeIsSound
<1>6. ASSUME NEW p \in H
      PROVE  \E q \in FactsOf(s) \cap H : q[1] = p[1]
  <2>1. IsState(s) /\ Important \subseteq Variables
    BY <1>2, UsefulStates, StatesOfTheTask, ImportantVariables
  <2>2. p[1] \in Important /\ p[1] \in Variables
    BY <2>1, FactIsPair
  <2>3. <<p[1], s[p[1]]>> \in FactsOf(s) /\ <<p[1], s[p[1]]>> \in H
    BY <2>1, <2>2, FactsOfState, FactIsPair DEF IsState
  <2> QED
    BY <2>3
<1> HIDE DEF H
<1>7. AgreesWith(Detected, s)
  BY <1>3, <1>5, <1>6, DetectUnreachableIsSound DEF Detected
<1> QED
  BY <1>4, <1>5, <1>7

\* Nor does any step of a path use an operator that is found spurious.
LEMMA ExaminedIsSound ==
  ASSUME PreprocessorInv, NoConditionalEffects, GroupsHold, pc = "conclude",
         NEW step \in StepsWithin(Useful), step[2] \in DOMAIN operators
  PROVE  AgreesWithOperator(Examined(step[2]), step[1]) /\ HasPotential(Examined(step[2]), step[1])
<1> DEFINE H == OfVariables(Important)
           i == step[2]
           s == step[1]
           t == After(step)
           o == operators[i]
           op == StripEffects(task.ops[i], Important)
<1>1. MutexesAreSound /\ OperatorsAreSound /\ PotentialIsComplete
  BY DEF PreprocessorInv, Sound
<1>2. /\ h \in VerdictsOn(H) /\ task \in Tasks /\ regression \in BOOLEAN
      /\ IsKept(o, i) /\ o.augmented \subseteq H
  BY TypeFacts DEF PreprocessorInv
<1>3. /\ s \in Useful /\ t \in Useful /\ s \in AllStates
      /\ Applicable(task.ops[i], s) /\ t = Result(task.ops[i], s)
  BY <1>2, StepFacts
<1>4. AgreesWithOperator(o, s)
  BY <1>1 DEF OperatorsAreSound
<1>5. regression => HasPotential(o, s)
  BY <1>1 DEF PotentialIsComplete
<1>6. Reached(h, s) /\ Reached(h, t) /\ AgreesWith(Detected, s) /\ AgreesWith(Detected, t)
  BY <1>3, DetectedIsSound
<1>7. Detected \in VerdictsOn(H)
  BY DetectedFacts
<1>8. o \in ExaminedOf(op, H)
  BY DEF PreprocessorInv, PreprocessorType
<1>9. i \notin {k \in LiveOps : ~Triggered(h, EdgeOf(operators[k]).pre)}
  <2> HIDE DEF i, s, t, o, H
  <2>1. CASE regression
    <3>1. Triggered(h, BackwardOp(h, o).pre)
      BY <1>2, <1>3, <1>4, <1>5, <1>6, <2>1, BackwardOpIsSound DEF H
    <3> QED
      BY <2>1, <3>1 DEF EdgeOf, o
  <2>2. CASE ~regression
    <3>1. Triggered(h, ForwardOp(h, o).pre)
      BY <1>2, <1>3, <1>4, <1>6, ForwardOpIsSound DEF H
    <3> QED
      BY <2>2, <3>1 DEF EdgeOf, o
  <2> QED
    BY <2>1, <2>2
<1>10. ~o.spurious
  BY <1>4 DEF AgreesWithOperator
<1>11. Examined(i) = RemoveAmbiguity(Detected, o)
  BY <1>9, <1>10 DEF Examined
<1> HIDE DEF i, s, t, o, op, H
<1>12. AgreesWithOperator(RemoveAmbiguity(Detected, o), s) /\ HasPotential(RemoveAmbiguity(Detected, o), s)
  BY <1>2, <1>3, <1>4, <1>6, <1>7, <1>8, RemoveAmbiguityIsSound DEF H
<1> QED
  BY <1>11, <1>12 DEF i, s

\* The end of an iteration: what was found is sound, and so is what follows from it.
LEMMA ConcludeIterationInv == PreprocessorInv /\ ConcludeIteration => PreprocessorInv'
<1> SUFFICES ASSUME PreprocessorInv, ConcludeIteration PROVE PreprocessorInv'
  OBVIOUS
<1> DEFINE H == OfVariables(Important)
           ends == (Detected.unreachable \ h.unreachable) \cap Protected # {}
           untriggered == {i \in LiveOps : ~Triggered(h, EdgeOf(operators[i]).pre)}
           mutexesDetected == NewMutexes(h) # {} \/ NewUnreachable(h) # {}
           spuriousDetected == \E i \in LiveOps \ untriggered : Examined(i).spurious
           unreachableDetected == Detected.unreachable # Conclude(h).unreachable
           updated(backward) == \/ update[backward] \/ spuriousDetected \/ unreachableDetected
                                \/ mutexesDetected /\ backward # regression
<1>1. pc = "conclude" /\ task' = task /\ options' = options
  BY DEF ConcludeIteration, taskVars
<1>2. ends => /\ pc' = "done" /\ output' = Unsolvable
              /\ UNCHANGED <<operators, mutexes, h, update, regression>>
  BY DEF ConcludeIteration, Finish, Detected, loopVars
<1>3. ~ends => /\ h' = Detected /\ mutexes' = mutexes \cup NewMutexes(h)
               /\ operators' = [i \in DOMAIN operators |-> Examined(i)]
               /\ update' = [backward \in BOOLEAN |-> updated(backward)]
               /\ regression' = ~regression /\ pc' \in {"iterate", "reduce"} /\ output' = output
  BY DEF ConcludeIteration, LoopWhile, Detected, Examined
<1>4. /\ regression \in BOOLEAN /\ update \in [BOOLEAN -> BOOLEAN] /\ task \in Tasks
      /\ h \in VerdictsOn(H) /\ h.facts = H
  BY TypeFacts DEF PreprocessorInv
<1>5. CASE ends
  <2>1. /\ UNCHANGED <<taskVars, operators, mutexes, h>> /\ pc # "done" /\ pc' \in {"iterate", "reduce", "done"}
        /\ update' \in [BOOLEAN -> BOOLEAN] /\ regression' \in BOOLEAN
        /\ output' \in {output, Unsolvable} \/ (pc' = "done" /\ output' = Reduced)
    BY <1>1, <1>2, <1>4, <1>5 DEF taskVars
  <2>2. regression' \/ (pc' = "iterate" /\ ~update'[FALSE]) => regression \/ (pc = "iterate" /\ ~update[FALSE])
    BY <1>2, <1>5
  <2> QED
    BY <2>1, <2>2, QuietInv
<1>6. CASE ~ends
  <2> HIDE DEF ends
  <2>1. /\ h' = Detected /\ mutexes' = mutexes \cup NewMutexes(h)
        /\ operators' = [i \in DOMAIN operators |-> Examined(i)]
        /\ regression' = ~regression /\ pc' \in {"iterate", "reduce"} /\ output' = output
    BY <1>3, <1>6
  <2>2. update' \in [BOOLEAN -> BOOLEAN]
    <3>1. \A backward \in BOOLEAN : updated(backward) \in BOOLEAN
      BY <1>4
    <3> HIDE DEF updated
    <3> QED
      BY <1>3, <1>6, <3>1
  <2>3. /\ Detected \in VerdictsOn(H) /\ h.unreachable \subseteq Detected.unreachable
        /\ \A g \in NewMutexes(h) : g \subseteq H
    BY DetectedFacts
  <2>4. Important' = Important /\ Useful' = Useful /\ StepsWithin(Useful)' = StepsWithin(Useful)
    BY <1>1, SameTask
  <2>5. DOMAIN operators' = DOMAIN operators /\ \A i \in DOMAIN operators : operators'[i] = Examined(i)
    BY <2>1
  <2>6. \A i \in DOMAIN operators : Examined(i) \in ExaminedOf(StripEffects(task.ops[i], Important), H)
    BY ExaminedType
  <2>7. PreprocessorType'
    <3>1. /\ options \in [include_augmented_preconditions : BOOLEAN, no_bw_h2 : BOOLEAN]
          /\ \A g \in mutexes : g \subseteq H
          /\ DOMAIN operators = {k \in DOMAIN task.ops : StripEffects(task.ops[k], Important).effects # {}}
      BY DEF PreprocessorInv, PreprocessorType
    <3>2. \A g \in mutexes' : g \subseteq H
      BY <2>1, <2>3, <3>1
    <3>3. operators' = [i \in {k \in DOMAIN task.ops : StripEffects(task.ops[k], Important).effects # {}}
                          |-> operators'[i]]
      BY <2>1, <2>5, <3>1
    <3>4. \A i \in DOMAIN operators' : operators'[i] \in ExaminedOf(StripEffects(task.ops[i], Important), H)
      BY <2>5, <2>6
    <3>5. pc' \in {"iterate", "compute", "conclude", "reduce", "done"} /\ regression' \in BOOLEAN
      BY <1>4, <2>1
    <3> QED
      BY <1>1, <1>4, <2>1, <2>2, <2>3, <2>4, <3>1, <3>2, <3>3, <3>4, <3>5 DEF PreprocessorType
  <2>8. KnownOfLiveOperators'
    <3>1. ASSUME NEW i \in LiveOps'
          PROVE  IsKnown(h'.unreachable, operators'[i])
      <4>1. i \in DOMAIN operators /\ operators'[i] = Examined(i) /\ ~Examined(i).spurious
        BY <2>5, <3>1 DEF LiveOps
      <4> QED
        BY <2>1, <4>1, ExaminedType
    <3> QED
      BY <3>1 DEF KnownOfLiveOperators
  <2>9. ProtectedAreReachable'
    <3>1. InitFacts' = InitFacts
      BY <1>1, <1>4, <2>1, <2>3 DEF InitFacts, VerdictsOn
    <3>2. Protected' = Protected
      BY <1>1, <3>1 DEF Protected
    <3> QED
      BY <1>6, <2>1, <3>2 DEF ends, PreprocessorInv, ProtectedAreReachable
  <2>10. ComputeIsStarted' /\ ComputeIsFixpoint' /\ OutputIsReduced'
    BY <1>1, <2>1 DEF PreprocessorInv, ComputeIsStarted, ComputeIsFixpoint, OutputIsReduced
  <2>11. ASSUME NoConditionalEffects', GroupsHold'
         PROVE  MutexesAreSound' /\ OperatorsAreSound' /\ PotentialIsComplete'
    <3>1. NoConditionalEffects /\ GroupsHold
      BY <1>1, <2>11, SameTask
    <3>2. MutexesAreSound
      BY <3>1 DEF PreprocessorInv, Sound
    <3>3. \A s \in Useful : AgreesWith(Detected, s) /\ \A g \in NewMutexes(h) : RespectsGroup(g, s)
      BY <1>1, <3>1, DetectedIsSound
    <3>4. MutexesAreSound'
      BY <2>1, <2>4, <3>2, <3>3 DEF MutexesAreSound
    <3>5. \A step \in StepsWithin(Useful) : step[2] \in DOMAIN operators =>
            AgreesWithOperator(Examined(step[2]), step[1]) /\ HasPotential(Examined(step[2]), step[1])
      BY <1>1, <3>1, ExaminedIsSound
    <3>6. OperatorsAreSound' /\ PotentialIsComplete'
      BY <2>4, <2>5, <3>5 DEF OperatorsAreSound, PotentialIsComplete
    <3> QED
      BY <3>4, <3>6
  <2> QED
    BY <2>7, <2>8, <2>9, <2>10, <2>11 DEF PreprocessorInv, Sound
<1> QED
  BY <1>5, <1>6

LEMMA StutterInv == PreprocessorInv /\ UNCHANGED vars => PreprocessorInv'
<1> SUFFICES ASSUME PreprocessorInv, UNCHANGED vars PROVE PreprocessorInv'
  OBVIOUS
<1>1. UNCHANGED <<task, options, pc, operators, mutexes, h, update, regression, output>>
  BY DEF vars, taskVars, loopVars
<1>2. UNCHANGED <<taskVars, operators, mutexes, h>> /\ pc' \in {"iterate", "compute", "conclude", "reduce", "done"}
      /\ update' \in [BOOLEAN -> BOOLEAN] /\ regression' \in BOOLEAN
  BY <1>1 DEF taskVars, PreprocessorInv, PreprocessorType
<1>3. /\ PreprocessorType' /\ KnownOfLiveOperators' /\ ProtectedAreReachable' /\ Reduced' = Reduced
      /\ NoConditionalEffects' /\ GroupsHold' =>
              /\ NoConditionalEffects /\ GroupsHold
              /\ MutexesAreSound' /\ OperatorsAreSound' /\ PotentialIsComplete
  BY <1>2, QuietStep
<1>4. OutputIsReduced'
  BY <1>1, <1>3 DEF PreprocessorInv, OutputIsReduced
<1>5. ComputeIsStarted' /\ ComputeIsFixpoint'
  BY <1>1 DEF PreprocessorInv, ComputeIsStarted, ComputeIsFixpoint, InitFacts, Edges, EdgeOf, LiveOps
<1>6. PotentialIsComplete => PotentialIsComplete'
  BY <1>1, SameTask DEF PotentialIsComplete
<1> QED
  BY <1>3, <1>4, <1>5, <1>6 DEF PreprocessorInv, Sound

LEMMA NextInv == PreprocessorInv /\ [Next]_vars => PreprocessorInv'
<1> SUFFICES ASSUME PreprocessorInv, [Next]_vars PROVE PreprocessorInv'
  OBVIOUS
<1>1. CASE NothingToUpdate
  BY <1>1, NothingToUpdateInv
<1>2. CASE SkipBackward
  BY <1>2, SkipBackwardInv
<1>3. CASE StartCompute
  BY <1>3, StartComputeInv
<1>4. CASE ComputeRound
  BY <1>4, ComputeRoundInv
<1>5. CASE TimeExceeded
  BY <1>5, TimeExceededInv
<1>6. CASE ConcludeIteration
  BY <1>6, ConcludeIterationInv
<1>7. CASE Reduce
  BY <1>7, ReduceInv
<1>8. CASE UNCHANGED vars
  BY <1>8, StutterInv
<1> QED
  BY <1>1, <1>2, <1>3, <1>4, <1>5, <1>6, <1>7, <1>8 DEF Next, Compute

\* The inductive invariant of the preprocessor: among others, that what it concludes from
\* either direction is sound for the other one (Sound).
THEOREM PreprocessorInvariant == Spec => []PreprocessorInv
<1>1. Init => PreprocessorInv
  BY InitInv
<1>2. PreprocessorInv /\ [Next]_vars => PreprocessorInv'
  BY NextInv
<1> QED
  BY <1>1, <1>2, PTL DEF Spec

-----------------------------------------------------------------------------
(* What is pruned.                                                         *)

\* The facts of a state on a path are reachable, those of the variables left out too.
LEMMA UsefulIsReachable ==
  ASSUME PreprocessorInv, NoConditionalEffects, GroupsHold, NEW s \in Useful
  PROVE  /\ s \in AllStates /\ IsState(s) /\ AgreesWith(h, s)
         /\ FactsOf(s) \cap h.unreachable = {}
<1>1. MutexesAreSound /\ task \in Tasks /\ h \in VerdictsOn(OfVariables(Important))
  BY TypeFacts DEF PreprocessorInv, Sound
<1>2. AgreesWith(h, s)
  BY <1>1 DEF MutexesAreSound
<1>3. h.unreachable \subseteq h.facts
  BY <1>1 DEF VerdictsOn
<1> QED
  BY <1>1, <1>2, <1>3, UsefulStates, StatesOfTheTask DEF AgreesWith

LEMMA PrunedFollows == PreprocessorInv /\ NoConditionalEffects /\ GroupsHold => PrunedIsUseless
<1> SUFFICES ASSUME PreprocessorInv, NoConditionalEffects, GroupsHold PROVE PrunedIsUseless
  OBVIOUS
<1>1. /\ task \in Tasks /\ \A g \in mutexes : g \subseteq OfVariables(Important)
      /\ MutexesAreSound /\ OperatorsAreSound
  BY TypeFacts DEF PreprocessorInv, PreprocessorType, Sound
<1>2. ASSUME NEW s \in Useful
      PROVE  /\ FactsOf(s) \cap h.unreachable = {}
             /\ ~HoldsSpurious(h, FactsOf(s) \cap h.facts)
             /\ \A g \in mutexes : Cardinality(FactsOf(s) \cap g) <= 1
  <2>1. IsState(s) /\ AgreesWith(h, s) /\ FactsOf(s) \cap h.unreachable = {}
    BY <1>2, UsefulIsReachable
  <2>2. ~HoldsSpurious(h, FactsOf(s) \cap h.facts)
    BY <2>1 DEF AgreesWith, HoldsSpurious, Pairs
  <2>3. ASSUME NEW g \in mutexes
        PROVE  Cardinality(FactsOf(s) \cap g) <= 1
    <3>1. IsFiniteSet(FactsOf(s) \cap g)
      BY <2>1, FactsOfState, FactsAreFinite, FS_Subset
    <3>2. RespectsGroup(g, s)
      BY <1>1, <1>2 DEF MutexesAreSound
    <3> QED
      BY <3>1, <3>2, AtMostOne DEF RespectsGroup
  <2> QED
    BY <2>1, <2>2, <2>3
<1>3. ASSUME NEW step \in StepsWithin(Useful), step[2] \in DOMAIN operators
      PROVE  /\ ~operators[step[2]].spurious
             /\ operators[step[2]].augmented \subseteq FactsOf(step[1])
             /\ \A f \in operators[step[2]].potential : <<f[1], step[1][f[1]]>> \in operators[step[2]].potential
  <2>1. AgreesWithOperator(operators[step[2]], step[1])
    BY <1>1, <1>3 DEF OperatorsAreSound
  <2> QED
    BY <2>1 DEF AgreesWithOperator, HasPotential
<1> QED
  BY <1>2, <1>3 DEF PrunedIsUseless

\* PrunedIsUseless for every task without conditional effects (with them the operators are
\* examined as if all effects fired, which a run shows to be wrong) whose mutex groups
\* hold: what the iterations found out and nothing of a plan contradict each other.
THEOREM PruningIsSound == Spec => [](NoConditionalEffects /\ GroupsHold => PrunedIsUseless)
<1>1. PreprocessorInv => (NoConditionalEffects /\ GroupsHold => PrunedIsUseless)
  BY PrunedFollows
<1> QED
  BY <1>1, PreprocessorInvariant, PTL

-----------------------------------------------------------------------------
(* The numbers that the values get.                                        *)

LEMMA NewIdsDiffer ==
  ASSUME NEW v \in Variables
  PROVE  /\ IsFiniteSet(ReachableValues(v))
         /\ \A d : NewId(<<v, d>>) = <<v, NewId(<<v, d>>)[2]>> /\ NewId(<<v, d>>)[2] \in Nat
         /\ \A c, d \in ReachableValues(v) : NewId(<<v, c>>) = NewId(<<v, d>>) => c = d
<1> DEFINE below(d) == {c \in ReachableValues(v) : c < d}
<1>1. IsFiniteSet(ReachableValues(v)) /\ ReachableValues(v) \subseteq Nat
  <2>1. IsFiniteSet(Values[v]) /\ Values[v] \subseteq Nat
    BY PreprocessorAssumption
  <2>2. ReachableValues(v) \subseteq Values[v]
    BY DEF ReachableValues
  <2> QED
    BY <2>1, <2>2, FS_Subset
<1>2. \A d : IsFiniteSet(below(d)) /\ Cardinality(below(d)) \in Nat
  <2> SUFFICES ASSUME NEW d PROVE IsFiniteSet(below(d)) /\ Cardinality(below(d)) \in Nat
    OBVIOUS
  <2>1. below(d) \subseteq ReachableValues(v)
    OBVIOUS
  <2> HIDE DEF below
  <2>2. IsFiniteSet(below(d))
    BY <1>1, <2>1, FS_Subset
  <2> QED
    BY <2>2, FS_CardinalityType
<1>3. \A d : NewId(<<v, d>>) = <<v, Cardinality(below(d))>>
  BY DEF NewId
<1>4. ASSUME NEW c \in ReachableValues(v), NEW d \in ReachableValues(v), c < d
      PROVE  Cardinality(below(c)) # Cardinality(below(d))
  <2>1. below(c) \subseteq below(d) /\ c \in below(d) /\ c \notin below(c)
    BY <1>1, <1>4
  <2> HIDE DEF below
  <2> QED
    BY <1>2, <2>1, FS_Subset
<1> HIDE DEF below
<1>5. \A c, d \in ReachableValues(v) : NewId(<<v, c>>) = NewId(<<v, d>>) => c = d
  BY <1>1, <1>3, <1>4
<1>6. \A d : NewId(<<v, d>>) = <<v, NewId(<<v, d>>)[2]>> /\ NewId(<<v, d>>)[2] \in Nat
  BY <1>2, <1>3
<1> QED
  BY <1>1, <1>5, <1>6

\* A state that has no unreachable fact.
IsReachable(s) == IsState(s) /\ FactsOf(s) \cap h.unreachable = {}

\* A variable with one value left has it in every such state; the numbers of the values of
\* the others tell them apart.
LEMMA ReachableFacts ==
  ASSUME task \in Tasks, h \in VerdictsOn(OfVariables(Important)), NEW s, IsReachable(s),
         NEW f \in OfVariables(Important) \ h.unreachable
  PROVE  /\ f[1] \in Important /\ f[1] \in Variables /\ NewId(f)[1] = f[1] /\ NewId(f)[2] \in Nat
         /\ NewId(f) = <<f[1], NewId(f)[2]>>
         /\ ~Necessary(f[1]) => f \in FactsOf(s)
         /\ NewId(f) = NewId(<<f[1], s[f[1]]>>) <=> f \in FactsOf(s)
<1> DEFINE v == f[1]
           d == f[2]
<1>1. Important \subseteq Variables
  BY ImportantVariables
<1>2. f = <<v, d>> /\ v \in Important /\ v \in Variables /\ d \in Values[v]
  BY <1>1, FactIsPair
<1>3. d \in ReachableValues(v)
  BY <1>2 DEF ReachableValues
<1>4. s[v] \in ReachableValues(v)
  <2>1. IsState(s) /\ <<v, s[v]>> \in FactsOf(s) /\ s[v] \in Values[v]
    BY <1>2, FactsOfState DEF IsReachable, IsState
  <2> QED
    BY <2>1 DEF IsReachable, ReachableValues
<1>5. f \in FactsOf(s) <=> d = s[v]
  BY <1>2, FactsOfState DEF IsReachable
<1> HIDE DEF v, d
<1>6. IsFiniteSet(ReachableValues(v))
  BY <1>2, NewIdsDiffer
<1>7. ~Necessary(v) => d = s[v]
  <2>1. v \in {q[1] : q \in h.facts}
    BY <1>2 DEF VerdictsOn, v
  <2> SUFFICES ASSUME ~(Cardinality(ReachableValues(v)) > 1) PROVE d = s[v]
    BY <2>1 DEF Necessary
  <2>2. Cardinality(ReachableValues(v)) <= 1
    BY <1>6, FS_CardinalityType
  <2> QED
    BY <1>3, <1>4, <1>6, <2>2, AtMostOne
<1>8. NewId(f) = NewId(<<v, s[v]>>) <=> d = s[v]
  BY <1>2, <1>3, <1>4, NewIdsDiffer
<1>9. NewId(f) = <<v, NewId(f)[2]>> /\ NewId(f)[2] \in Nat
  BY <1>2, NewIdsDiffer
<1> QED
  BY <1>2, <1>5, <1>7, <1>8, <1>9 DEF v

-----------------------------------------------------------------------------
(* What is written of an operator.                                         *)

\* What the operators that are written have in common: no conditions, one effect on a
\* variable, and additional preconditions on variables of which nothing else is required.
IsPlain(op) ==
  /\ op = [prevail |-> op.prevail, effects |-> op.effects, spurious |-> op.spurious,
           augmented |-> op.augmented, potential |-> op.potential]
  /\ \A e \in op.effects : /\ e.conds = {}
                           /\ e = [var |-> e.var, pre |-> e.pre, post |-> e.post, conds |-> e.conds]
  /\ \A e, f \in op.effects : e.var = f.var => e = f
  /\ \A f \in op.augmented : /\ f = <<f[1], f[2]>> /\ f[2] # NONE
                             /\ \A g \in Preconditions(op) : g[1] # f[1]
                             /\ \A g \in op.augmented : g[1] = f[1] => g = f

\* An effect that an additional precondition makes superfluous is left out, the others get
\* it as their precondition, and it is a prevail condition if there is no effect to carry it.
LEMMA AugmentedEffects ==
  ASSUME NEW op, IsPlain(op)
  PROVE  /\ \A f \in IncludeAugmented(op).effects : \E e \in op.effects :
              /\ <<e.var, e.post>> \notin op.augmented
              /\ f.var = e.var /\ f.post = e.post /\ f.conds = {}
              /\ f.pre = e.pre \/ (e.pre = NONE /\ <<f.var, f.pre>> \in op.augmented)
         /\ \A e \in op.effects : <<e.var, e.post>> \notin op.augmented =>
              \E f \in IncludeAugmented(op).effects :
                /\ f.var = e.var /\ f.post = e.post
                /\ \A g \in op.augmented : g[1] = e.var => g[2] = f.pre
                /\ e.pre # NONE => f.pre = e.pre
         /\ op.prevail \subseteq IncludeAugmented(op).prevail
         /\ IncludeAugmented(op).prevail \subseteq op.prevail \cup op.augmented
         /\ \A g \in op.augmented : g \in IncludeAugmented(op).prevail
              \/ \E e \in op.effects : e.var = g[1] /\ <<e.var, e.post>> \notin op.augmented
         /\ \A e \in op.effects : <<e.var, e.post>> \in op.augmented =>
              <<e.var, e.post>> \in IncludeAugmented(op).prevail
         /\ \A e \in op.effects : e.pre # NONE => <<e.var, e.post>> \notin op.augmented
<1> DEFINE onEffect == {f \in op.augmented : f[1] \in EffectVars(op)}
           changes(e) == \E f \in onEffect : f[1] = e.var /\ f[2] # e.post
           already == {e \in op.effects : <<e.var, e.post>> \in onEffect}
           chosen(e) == (CHOOSE f \in onEffect : f[1] = e.var)[2]
           precondition(e) == [e EXCEPT !.pre = IF changes(e) THEN chosen(e) ELSE @]
           effects == {precondition(e) : e \in op.effects \ already}
           moved == {f \in op.augmented : ~\E e \in op.effects : e.var = f[1] /\ changes(e)}
           after == IncludeAugmented(op)
<1>1. after = [op EXCEPT !.effects = {precondition(e) : e \in @ \ already}, !.prevail = @ \cup moved]
  BY DEF IncludeAugmented
<1>2. after.effects = effects /\ after.prevail = op.prevail \cup moved
  <2> HIDE DEF precondition, already, moved, after
  <2>1. after = [op EXCEPT !.effects = effects, !.prevail = op.prevail \cup moved]
    BY <1>1
  <2> HIDE DEF effects
  <2> QED
    BY <2>1 DEF IsPlain
<1>3. ASSUME NEW e \in op.effects, NEW g \in op.augmented, g[1] = e.var
      PROVE  g \in onEffect /\ e.pre = NONE /\ g = <<e.var, g[2]>>
             /\ (\A f \in onEffect : f[1] = e.var => f = g)
  <2>1. /\ g = <<g[1], g[2]>> /\ \A f \in op.augmented : f[1] = g[1] => f = g
        /\ \A q \in Preconditions(op) : q[1] # g[1]
    BY DEF IsPlain
  <2>2. g \in onEffect
    BY <1>3 DEF EffectVars
  <2>3. e.pre # NONE => <<e.var, e.pre>> \in Preconditions(op)
    BY DEF Preconditions, Pres
  <2>4. e.pre = NONE
    BY <1>3, <2>1, <2>3
  <2> QED
    BY <1>3, <2>1, <2>2, <2>4
<1>4. ASSUME NEW e \in op.effects, NEW g \in op.augmented, g[1] = e.var
      PROVE  (changes(e) <=> g[2] # e.post) /\ chosen(e) = g[2]
  <2> HIDE DEF onEffect
  <2>1. g \in onEffect /\ \A f \in onEffect : f[1] = e.var => f = g
    BY <1>3, <1>4
  <2>2. (CHOOSE f \in onEffect : f[1] = e.var) = g
    BY <1>4, <2>1
  <2> QED
    BY <1>4, <2>1, <2>2
<1>5. \A e \in op.effects : changes(e) => \E g \in op.augmented : g[1] = e.var /\ g[2] # e.post
  OBVIOUS
<1>6. \A e \in op.effects : e \in already <=> <<e.var, e.post>> \in op.augmented
  BY DEF EffectVars
<1>7. ASSUME NEW e \in op.effects
      PROVE  /\ precondition(e).var = e.var /\ precondition(e).post = e.post /\ precondition(e).conds = {}
             /\ precondition(e).pre = IF changes(e) THEN chosen(e) ELSE e.pre
  <2> DEFINE pre == IF changes(e) THEN chosen(e) ELSE e.pre
  <2>1. precondition(e) = [e EXCEPT !.pre = pre]
    OBVIOUS
  <2> HIDE DEF pre, precondition
  <2>2. e = [var |-> e.var, pre |-> e.pre, post |-> e.post, conds |-> e.conds] /\ e.conds = {}
    BY DEF IsPlain
  <2>3. precondition(e).pre = pre
    BY <2>1, <2>2
  <2> QED
    BY <2>1, <2>2, <2>3 DEF pre
<1> HIDE DEF chosen, precondition, after, already
<1>8. \A f \in after.effects : \E e \in op.effects :
              /\ <<e.var, e.post>> \notin op.augmented
              /\ f.var = e.var /\ f.post = e.post /\ f.conds = {}
              /\ f.pre = e.pre \/ (e.pre = NONE /\ <<f.var, f.pre>> \in op.augmented)
  <2> SUFFICES ASSUME NEW e \in op.effects \ already
               PROVE  /\ <<e.var, e.post>> \notin op.augmented
                      /\ precondition(e).var = e.var /\ precondition(e).post = e.post
                      /\ precondition(e).conds = {}
                      /\ \/ precondition(e).pre = e.pre
                         \/ e.pre = NONE /\ <<precondition(e).var, precondition(e).pre>> \in op.augmented
    BY <1>2
  <2>1. CASE changes(e)
    <3>1. PICK g \in op.augmented : g[1] = e.var
      BY <1>5, <2>1
    <3>2. e.pre = NONE /\ g = <<e.var, g[2]>> /\ chosen(e) = g[2]
      BY <1>3, <1>4, <3>1
    <3>3. precondition(e).var = e.var /\ precondition(e).pre = g[2]
      BY <1>7, <2>1, <3>2
    <3> QED
      BY <1>6, <1>7, <3>1, <3>2, <3>3
  <2>2. CASE ~changes(e)
    BY <1>6, <1>7, <2>2
  <2> QED
    BY <2>1, <2>2
<1>9. ASSUME NEW e \in op.effects, <<e.var, e.post>> \notin op.augmented
      PROVE  \E f \in after.effects :
                /\ f.var = e.var /\ f.post = e.post
                /\ \A g \in op.augmented : g[1] = e.var => g[2] = f.pre
                /\ e.pre # NONE => f.pre = e.pre
  <2>1. precondition(e) \in after.effects
    BY <1>2, <1>6, <1>9
  <2>2. ASSUME NEW g \in op.augmented, g[1] = e.var
        PROVE  g[2] = precondition(e).pre
    <3>1. g = <<e.var, g[2]>>
      BY <1>3, <2>2
    <3>2. g[2] # e.post
      BY <1>9, <3>1
    <3> QED
      BY <1>4, <1>7, <2>2, <3>2
  <2>3. e.pre # NONE => precondition(e).pre = e.pre
    BY <1>3, <1>5, <1>7
  <2> QED
    BY <1>7, <2>1, <2>2, <2>3
<1>10. \A g \in op.augmented : g \in moved \/ \E e \in op.effects : e.var = g[1] /\ <<e.var, e.post>> \notin op.augmented
  <2> SUFFICES ASSUME NEW g \in op.augmented, NEW e \in op.effects, e.var = g[1], changes(e)
               PROVE  <<e.var, e.post>> \notin op.augmented
    OBVIOUS
  <2>1. g[2] # e.post
    BY <1>4
  <2> DEFINE other == <<e.var, e.post>>
  <2> SUFFICES ASSUME other \in op.augmented PROVE FALSE
    OBVIOUS
  <2>2. other[1] = g[1] /\ other[2] = e.post
    OBVIOUS
  <2> HIDE DEF other
  <2>3. other = g
    BY <2>2 DEF IsPlain
  <2> QED
    BY <2>1, <2>2, <2>3
<1>11. \A e \in op.effects : <<e.var, e.post>> \in op.augmented => <<e.var, e.post>> \in moved
  <2> SUFFICES ASSUME NEW e \in op.effects, <<e.var, e.post>> \in op.augmented,
                      NEW f \in op.effects, f.var = e.var
               PROVE  ~changes(f)
    OBVIOUS
  <2>1. f = e
    BY DEF IsPlain
  <2> DEFINE g == <<e.var, e.post>>
  <2>2. g \in op.augmented /\ g[1] = e.var /\ g[2] = e.post
    OBVIOUS
  <2> HIDE DEF g
  <2>3. ~changes(e)
    BY <1>4, <2>2
  <2> QED
    BY <2>1, <2>3
<1>12. \A e \in op.effects : e.pre # NONE => <<e.var, e.post>> \notin op.augmented
  <2> SUFFICES ASSUME NEW e \in op.effects, <<e.var, e.post>> \in op.augmented PROVE e.pre = NONE
    OBVIOUS
  <2> DEFINE g == <<e.var, e.post>>
  <2>1. g \in op.augmented /\ g[1] = e.var
    OBVIOUS
  <2> HIDE DEF g
  <2> QED
    BY <1>3, <2>1
<1>13. moved \subseteq op.augmented
  OBVIOUS
<1> HIDE DEF moved
<1> QED
  BY <1>2, <1>8, <1>9, <1>10, <1>11, <1>12, <1>13 DEF after

\* The state after an operator whose effects are unconditional.
LEMMA PlainEffects ==
  ASSUME NEW op, NEW p, \A e \in op.effects : e.conds = {},
         \A e, f \in op.effects : e.var = f.var => e.post = f.post
  PROVE  /\ Result(op, p) = [v \in DOMAIN p |-> Result(op, p)[v]]
         /\ \A v \in DOMAIN p : /\ \A e \in op.effects : e.var = v => Result(op, p)[v] = e.post
                                /\ (\A e \in op.effects : e.var # v) => Result(op, p)[v] = p[v]
<1> DEFINE Firing(v) == {e \in op.effects : e.var = v /\ e.conds \subseteq FactsOf(p)}
           value(v) == IF Firing(v) = {} THEN p[v] ELSE (CHOOSE e \in Firing(v) : TRUE).post
<1>1. Result(op, p) = [v \in DOMAIN p |-> value(v)]
  BY DEF Result
<1>2. ASSUME NEW v \in DOMAIN p, NEW e \in op.effects, e.var = v
      PROVE  value(v) = e.post
  <2>1. e \in Firing(v) /\ \A f \in Firing(v) : f.post = e.post
    BY <1>2
  <2> HIDE DEF Firing
  <2>2. (CHOOSE f \in Firing(v) : TRUE) \in Firing(v)
    BY <2>1
  <2> QED
    BY <2>1, <2>2
<1>3. ASSUME NEW v \in DOMAIN p, \A e \in op.effects : e.var # v
      PROVE  value(v) = p[v]
  BY <1>3
<1> HIDE DEF value
<1>4. \A v \in DOMAIN p : Result(op, p)[v] = value(v)
  BY <1>1
<1> QED
  BY <1>1, <1>2, <1>3, <1>4

LEMMA AugmentedOperator ==
  ASSUME NEW op, IsPlain(op), NEW p
  PROVE  /\ Preconditions(IncludeAugmented(op)) = Preconditions(op) \cup op.augmented
         /\ Applicable(IncludeAugmented(op), p) => Result(IncludeAugmented(op), p) = Result(op, p)
<1> DEFINE after == IncludeAugmented(op)
<1>1. \A f \in after.effects : \E e \in op.effects :
              /\ <<e.var, e.post>> \notin op.augmented
              /\ f.var = e.var /\ f.post = e.post /\ f.conds = {}
              /\ f.pre = e.pre \/ (e.pre = NONE /\ <<f.var, f.pre>> \in op.augmented)
  BY AugmentedEffects
<1>2. \A e \in op.effects : <<e.var, e.post>> \notin op.augmented =>
              \E f \in after.effects :
                /\ f.var = e.var /\ f.post = e.post
                /\ \A g \in op.augmented : g[1] = e.var => g[2] = f.pre
                /\ e.pre # NONE => f.pre = e.pre
  BY AugmentedEffects
<1>3. /\ op.prevail \subseteq after.prevail
      /\ after.prevail \subseteq op.prevail \cup op.augmented
      /\ \A g \in op.augmented : g \in after.prevail
              \/ \E e \in op.effects : e.var = g[1] /\ <<e.var, e.post>> \notin op.augmented
      /\ \A e \in op.effects : <<e.var, e.post>> \in op.augmented => <<e.var, e.post>> \in after.prevail
      /\ \A e \in op.effects : e.pre # NONE => <<e.var, e.post>> \notin op.augmented
  BY AugmentedEffects
<1>4. /\ \A e \in op.effects : e.conds = {}
      /\ \A e, f \in op.effects : e.var = f.var => e = f
      /\ \A g \in op.augmented : g = <<g[1], g[2]>> /\ g[2] # NONE
  BY DEF IsPlain
<1> HIDE DEF after
<1>5. Preconditions(after) = Preconditions(op) \cup op.augmented
  <2>1. Pres(after) \subseteq Pres(op) \cup op.augmented
    BY <1>1 DEF Pres
  <2>2. Pres(op) \subseteq Pres(after)
    <3> SUFFICES ASSUME NEW e \in op.effects, e.pre # NONE PROVE <<e.var, e.pre>> \in Pres(after)
      BY DEF Pres
    <3>1. PICK f \in after.effects : f.var = e.var /\ f.pre = e.pre
      BY <1>2, <1>3
    <3> QED
      BY <3>1 DEF Pres
  <2>3. op.augmented \subseteq after.prevail \cup Pres(after)
    <3> SUFFICES ASSUME NEW g \in op.augmented, g \notin after.prevail PROVE g \in Pres(after)
      OBVIOUS
    <3>1. PICK e \in op.effects : e.var = g[1] /\ <<e.var, e.post>> \notin op.augmented
      BY <1>3
    <3>2. PICK f \in after.effects : f.var = e.var /\ g[2] = f.pre
      BY <1>2, <3>1
    <3>3. g = <<f.var, f.pre>> /\ f.pre # NONE
      BY <1>4, <3>1, <3>2
    <3> QED
      BY <3>3 DEF Pres
  <2> QED
    BY <1>3, <2>1, <2>2, <2>3 DEF Preconditions
<1>6. ASSUME Applicable(after, p)
      PROVE  Result(after, p) = Result(op, p)
  <2>1. \A e \in after.effects : e.conds = {}
    BY <1>1
  <2>2. \A e, f \in after.effects : e.var = f.var => e.post = f.post
    <3> SUFFICES ASSUME NEW e \in after.effects, NEW f \in after.effects, e.var = f.var PROVE e.post = f.post
      OBVIOUS
    <3>1. PICK a \in op.effects : e.var = a.var /\ e.post = a.post
      BY <1>1
    <3>2. PICK b \in op.effects : f.var = b.var /\ f.post = b.post
      BY <1>1
    <3> QED
      BY <1>4, <3>1, <3>2
  <2>3. /\ Result(after, p) = [v \in DOMAIN p |-> Result(after, p)[v]]
        /\ \A v \in DOMAIN p : /\ \A e \in after.effects : e.var = v => Result(after, p)[v] = e.post
                               /\ (\A e \in after.effects : e.var # v) => Result(after, p)[v] = p[v]
    BY <2>1, <2>2, PlainEffects
  <2>4. /\ Result(op, p) = [v \in DOMAIN p |-> Result(op, p)[v]]
        /\ \A v \in DOMAIN p : /\ \A e \in op.effects : e.var = v => Result(op, p)[v] = e.post
                               /\ (\A e \in op.effects : e.var # v) => Result(op, p)[v] = p[v]
    BY <1>4, PlainEffects
  <2>5. ASSUME NEW v \in DOMAIN p
        PROVE  Result(after, p)[v] = Result(op, p)[v]
    <3>1. CASE \A e \in op.effects : e.var # v
      <4>1. \A f \in after.effects : f.var # v
        BY <1>1, <3>1
      <4> QED
        BY <2>3, <2>4, <3>1, <4>1
    <3>2. CASE \E e \in op.effects : e.var = v
      <4>1. PICK e \in op.effects : e.var = v
        BY <3>2
      <4>2. CASE <<e.var, e.post>> \notin op.augmented
        <5>1. PICK f \in after.effects : f.var = e.var /\ f.post = e.post
          BY <1>2, <4>2
        <5> QED
          BY <2>3, <2>4, <4>1, <5>1
      <4>3. CASE <<e.var, e.post>> \in op.augmented
        <5>1. <<v, e.post>> \in FactsOf(p)
          BY <1>3, <1>6, <4>1, <4>3 DEF Applicable, Preconditions
        <5>2. p[v] = e.post
          BY <5>1 DEF FactsOf
        <5>3. \A f \in after.effects : f.var # v
          <6> SUFFICES ASSUME NEW f \in after.effects, f.var = v PROVE FALSE
            OBVIOUS
          <6>1. PICK b \in op.effects : <<b.var, b.post>> \notin op.augmented /\ f.var = b.var
            BY <1>1
          <6>2. b = e
            BY <1>4, <4>1, <6>1
          <6> QED
            BY <4>3, <6>1, <6>2
        <5> QED
          BY <2>3, <2>4, <4>1, <5>2, <5>3
      <4> QED
        BY <4>2, <4>3
    <3> QED
      BY <3>1, <3>2
  <2> DEFINE x == Result(after, p)
             y == Result(op, p)
  <2>6. x = [v \in DOMAIN p |-> x[v]] /\ y = [v \in DOMAIN p |-> y[v]] /\ \A v \in DOMAIN p : x[v] = y[v]
    BY <2>3, <2>4, <2>5
  <2> HIDE DEF x, y
  <2>7. x = y
    BY <2>6
  <2> QED
    BY <2>7 DEF x, y
<1> QED
  BY <1>5, <1>6 DEF after

-----------------------------------------------------------------------------
(* What is in the file.                                                    *)

RenumberEffect(e) ==
  [var |-> e.var, pre |-> IF e.pre = NONE THEN NONE ELSE NewId(<<e.var, e.pre>>)[2],
   post |-> NewId(<<e.var, e.post>>)[2], conds |-> Renumbered(e.conds \ h.unreachable)]

\* An operator as it is before its additional preconditions are included, if they are.
Numbered(i) == StripEffects(RenumberOp(operators[i]), output.variables)

LEMMA NumberedOperator ==
  ASSUME NEW i
  PROVE  Numbered(i) = [prevail |-> Renumbered(OfNecessary(operators[i].prevail)),
                        effects |-> {RenumberEffect(e) : e \in {f \in operators[i].effects : f.var \in output.variables}},
                        spurious |-> FALSE,
                        augmented |-> Renumbered(OfNecessary(operators[i].augmented)),
                        potential |-> Renumbered(OfNecessary(operators[i].potential))]
<1> DEFINE r == RenumberOp(operators[i])
           effects == {RenumberEffect(e) : e \in {f \in operators[i].effects : f.var \in output.variables}}
           prevail == Renumbered(OfNecessary(operators[i].prevail))
           augmented == Renumbered(OfNecessary(operators[i].augmented))
           potential == Renumbered(OfNecessary(operators[i].potential))
<1>1. r = [prevail |-> prevail, effects |-> {RenumberEffect(e) : e \in operators[i].effects}, spurious |-> FALSE,
           augmented |-> augmented, potential |-> potential]
  BY DEF RenumberOp, RenumberEffect
<1>2. \A e : RenumberEffect(e).var = e.var
  BY DEF RenumberEffect
<1> HIDE DEF r, prevail, augmented, potential
<1>3. r.effects = {RenumberEffect(e) : e \in operators[i].effects}
  BY <1>1
<1>4. {e \in r.effects : e.var \in output.variables} = effects
  BY <1>2, <1>3
<1>5. Numbered(i) = [r EXCEPT !.effects = effects]
  BY <1>4 DEF Numbered, StripEffects, r
<1> HIDE DEF effects
<1>6. Numbered(i) = [prevail |-> prevail, effects |-> effects, spurious |-> FALSE,
                     augmented |-> augmented, potential |-> potential]
  BY <1>1, <1>5
<1> QED
  BY <1>6 DEF effects, prevail, augmented, potential

LEMMA WrittenOutput ==
  ASSUME PreprocessorInv, output.status = "written"
  PROVE  /\ output.variables = {v \in ImportantVars({RenumberOp(operators[i]) : i \in LiveOps}, output.goal) : Necessary(v)}
         /\ output.goal = Renumbered(OfNecessary(task.goal))
         /\ output.init = [v \in output.variables |-> NewId(<<v, task.init[v]>>)[2]]
         /\ \A i \in DOMAIN output.operators :
              /\ i \in LiveOps
              /\ \E e \in operators[i].effects : e.var \in output.variables
              /\ output.operators[i] = Written(IF options.include_augmented_preconditions
                                               THEN IncludeAugmented(Numbered(i)) ELSE Numbered(i))
         /\ \A i \in LiveOps : (\E e \in operators[i].effects : e.var \in output.variables)
                                 => i \in DOMAIN output.operators
         /\ \A i \in LiveOps : FactsToRenumber(operators[i]) \cap h.unreachable = {}
<1> DEFINE renumbered == [i \in LiveOps |-> RenumberOp(operators[i])]
           goal == Renumbered(OfNecessary(task.goal))
           kept == {v \in ImportantVars(AllOps(renumbered), goal) : Necessary(v)}
           stripped == StripOperators(renumbered, kept)
           live == [j \in LiveOps |-> operators[j]]
           fails == \E i \in LiveOps : FactsToRenumber(live[i]) \cap h.unreachable # {}
           init == [v \in kept |-> NewId(<<v, task.init[v]>>)[2]]
           written == [i \in DOMAIN stripped |->
                         Written(IF options.include_augmented_preconditions
                                 THEN IncludeAugmented(stripped[i]) ELSE stripped[i])]
           groups == StripMutexes({Renumbered(OfNecessary(g \ h.unreachable)) : g \in mutexes}, kept)
<1>1. output = IF fails THEN Error
               ELSE IF InitFacts \cap h.unreachable # {} \/ kept = {} THEN Unsolvable
               ELSE [status |-> "written", variables |-> kept, init |-> init, goal |-> goal,
                     operators |-> written, mutexes |-> groups]
  BY DEF PreprocessorInv, OutputIsReduced, Reduced
<1> HIDE DEF fails, kept, init, goal, written, groups
<1>2. /\ ~fails /\ output.variables = kept /\ output.init = init /\ output.goal = goal
      /\ output.operators = written
  BY <1>1 DEF Error, Unsolvable
<1>3. \A i \in LiveOps : FactsToRenumber(operators[i]) \cap h.unreachable = {}
  BY <1>2 DEF fails
<1>4. AllOps(renumbered) = {RenumberOp(operators[i]) : i \in LiveOps}
  BY DEF AllOps
<1>5. ASSUME NEW i \in LiveOps
      PROVE  StripEffects(renumbered[i], kept) = Numbered(i)
  BY <1>2 DEF Numbered
<1>6. ASSUME NEW i
      PROVE  /\ ~Numbered(i).spurious
             /\ Numbered(i).effects # {} <=> \E e \in operators[i].effects : e.var \in output.variables
  <2> DEFINE effects == {RenumberEffect(e) : e \in {f \in operators[i].effects : f.var \in output.variables}}
  <2>1. effects # {} <=> \E e \in operators[i].effects : e.var \in output.variables
    OBVIOUS
  <2> HIDE DEF effects
  <2>2. Numbered(i).effects = effects /\ Numbered(i).spurious = FALSE
    BY NumberedOperator DEF effects
  <2> QED
    BY <2>1, <2>2
<1> DEFINE ids == {k \in LiveOps : \E e \in operators[k].effects : e.var \in output.variables}
<1>7. stripped = [i \in ids |-> Numbered(i)]
  <2> DEFINE all == [i \in DOMAIN renumbered |-> StripEffects(renumbered[i], kept)]
             left == {k \in DOMAIN renumbered : all[k].effects # {} /\ ~all[k].spurious}
  <2>1. stripped = [i \in left |-> all[i]]
    BY DEF StripOperators
  <2>2. DOMAIN renumbered = LiveOps /\ \A i \in LiveOps : all[i] = Numbered(i)
    BY <1>5
  <2> HIDE DEF all, renumbered
  <2>3. left = ids
    BY <1>6, <2>2
  <2> HIDE DEF left
  <2> QED
    BY <2>1, <2>2, <2>3
<1> HIDE DEF stripped, ids
<1>8. /\ DOMAIN written = ids
      /\ \A i \in ids : written[i] = Written(IF options.include_augmented_preconditions
                                             THEN IncludeAugmented(Numbered(i)) ELSE Numbered(i))
  BY <1>7 DEF written
<1>9. \A i : i \in ids <=> i \in LiveOps /\ \E e \in operators[i].effects : e.var \in output.variables
  BY DEF ids
<1>10. output.variables = {v \in ImportantVars({RenumberOp(operators[i]) : i \in LiveOps}, output.goal) : Necessary(v)}
  BY <1>2, <1>4 DEF kept
<1>11. output.goal = Renumbered(OfNecessary(task.goal)) /\ output.init = [v \in output.variables |-> NewId(<<v, task.init[v]>>)[2]]
  BY <1>2 DEF goal, init
<1> QED
  BY <1>2, <1>3, <1>8, <1>9, <1>10, <1>11

LEMMA RenumberedOperators ==
  ASSUME PreprocessorInv
  PROVE  /\ \A i \in LiveOps :
              /\ operators[i].prevail \subseteq Facts
              /\ \A e \in operators[i].effects : e.var \in Variables
              /\ RenumberOp(operators[i]).prevail = Renumbered(OfNecessary(operators[i].prevail))
              /\ RenumberOp(operators[i]).effects = {RenumberEffect(e) : e \in operators[i].effects}
         /\ \A op \in {RenumberOp(operators[i]) : i \in LiveOps} :
              \A e \in op.effects : \A f \in Preconditions(op) \cup e.conds : f[1] \in Variables
<1> DEFINE ops == {RenumberOp(operators[i]) : i \in LiveOps}
<1>2. /\ task \in Tasks /\ h.facts = OfVariables(Important)
      /\ \A i \in LiveOps : IsKept(operators[i], i)
  BY TypeFacts DEF PreprocessorInv, LiveOps
<1>4. \A f \in Facts : NewId(f)[1] = f[1] /\ f[1] \in Variables
  BY FactIsPair DEF NewId
<1>5. ASSUME NEW i \in LiveOps
      PROVE  /\ \A e \in operators[i].effects : e.var \in Variables /\ e.conds \subseteq Facts
             /\ operators[i].prevail \subseteq Facts
             /\ \A e \in operators[i].effects : e.pre # NONE => <<e.var, e.pre>> \in Facts
  <2> DEFINE o == operators[i]
             op == task.ops[i]
  <2>1. IsKept(o, i) /\ IsOperator(op)
    BY <1>2, TaskIsTask DEF IsKept
  <2>2. o.prevail = op.prevail /\ o.effects \subseteq op.effects
    BY <2>1 DEF IsKept
  <2> HIDE DEF o, op
  <2> QED
    BY <2>1, <2>2, OperatorFacts DEF o
<1>6. ASSUME NEW i \in LiveOps
      PROVE  LET r == RenumberOp(operators[i])
             IN  /\ r.prevail = Renumbered(OfNecessary(operators[i].prevail))
                 /\ r.effects = {RenumberEffect(e) : e \in operators[i].effects}
  BY DEF RenumberOp, RenumberEffect
<1>7. \A e : /\ RenumberEffect(e).var = e.var /\ RenumberEffect(e).conds = Renumbered(e.conds \ h.unreachable)
             /\ RenumberEffect(e).pre = IF e.pre = NONE THEN NONE ELSE NewId(<<e.var, e.pre>>)[2]
  BY DEF RenumberEffect
<1> HIDE DEF RenumberEffect
<1>8. ASSUME NEW i \in LiveOps, NEW d \in operators[i].effects
      PROVE  LET r == RenumberOp(operators[i]) IN
             /\ \A f \in Preconditions(r) \cup RenumberEffect(d).conds : f[1] \in Variables
  <2> DEFINE r == RenumberOp(operators[i])
  <2>1. \A f \in r.prevail : f[1] \in Variables
    BY <1>4, <1>5, <1>6 DEF Renumbered, OfNecessary
  <2>2. \A f \in Pres(r) : f[1] \in Variables
    BY <1>5, <1>6, <1>7 DEF Pres
  <2>3. \A f \in RenumberEffect(d).conds : f[1] \in Variables
    BY <1>4, <1>5, <1>7, <1>8 DEF Renumbered
  <2> QED
    BY <2>1, <2>2, <2>3 DEF Preconditions
<1>9. \A op \in ops : \A e \in op.effects : \A f \in Preconditions(op) \cup e.conds : f[1] \in Variables
  BY <1>6, <1>8
<1> QED
  BY <1>5, <1>6, <1>9

\* The variables of the file are some of those that matter; they are closed like them, as
\* far as variables that have more than one value left are concerned.
LEMMA OutputVariables ==
  ASSUME PreprocessorInv, output.status = "written"
  PROVE  /\ output.variables \subseteq Important /\ Important \subseteq Variables
         /\ \A v \in output.variables : Necessary(v)
         /\ \A g \in task.goal : Necessary(g[1]) => g[1] \in output.variables
         /\ \A i \in LiveOps : \A e \in operators[i].effects : e.var \in output.variables =>
              \A f \in Preconditions(operators[i]) : Necessary(f[1]) => f[1] \in output.variables
<1> DEFINE ops == {RenumberOp(operators[i]) : i \in LiveOps}
           vs == ImportantVars(ops, output.goal)
<1>1. /\ output.variables = {v \in vs : Necessary(v)}
      /\ output.goal = Renumbered(OfNecessary(task.goal))
  BY WrittenOutput
<1>2. /\ task \in Tasks /\ h.facts = OfVariables(Important)
      /\ \A i \in LiveOps : IsKept(operators[i], i)
  BY TypeFacts DEF PreprocessorInv, LiveOps
<1>3. Important \subseteq Variables /\ task.goal \subseteq Facts
  BY <1>2, ImportantVariables, TaskIsTask
<1>4. \A f \in Facts : NewId(f)[1] = f[1] /\ f[1] \in Variables
  BY FactIsPair DEF NewId
<1>5. ASSUME NEW i \in LiveOps
      PROVE  /\ \A e \in operators[i].effects : e.var \in Variables
             /\ operators[i].prevail \subseteq Facts
  BY RenumberedOperators
<1>6. ASSUME NEW i \in LiveOps
      PROVE  LET r == RenumberOp(operators[i])
             IN  /\ r.prevail = Renumbered(OfNecessary(operators[i].prevail))
                 /\ r.effects = {RenumberEffect(e) : e \in operators[i].effects}
  BY RenumberedOperators
<1>7. \A e : /\ RenumberEffect(e).var = e.var
             /\ RenumberEffect(e).pre = IF e.pre = NONE THEN NONE ELSE NewId(<<e.var, e.pre>>)[2]
  BY DEF RenumberEffect
<1> HIDE DEF RenumberEffect
<1>9. \A op \in ops : \A e \in op.effects : \A f \in Preconditions(op) \cup e.conds : f[1] \in Variables
  BY RenumberedOperators
<1>10. \A g \in output.goal : g[1] \in Variables
  BY <1>1, <1>3, <1>4 DEF Renumbered, OfNecessary
<1>11. /\ \A g \in output.goal : g[1] \in vs
       /\ \A op \in ops : \A e \in op.effects : e.var \in vs =>
              \A f \in Preconditions(op) \cup e.conds : f[1] \in vs
  <2> HIDE DEF ops
  <2> QED
    BY <1>9, <1>10, InfluentialVariables
<1> HIDE DEF vs
<1>12. ASSUME NEW g \in task.goal, Necessary(g[1])
       PROVE  g[1] \in output.variables
  <2>1. NewId(g) \in output.goal /\ NewId(g)[1] = g[1]
    BY <1>1, <1>3, <1>4, <1>12 DEF Renumbered, OfNecessary
  <2> QED
    BY <1>1, <1>11, <1>12, <2>1
<1>13. ASSUME NEW i \in LiveOps, NEW e \in operators[i].effects, e.var \in output.variables,
              NEW f \in Preconditions(operators[i]), Necessary(f[1])
       PROVE  f[1] \in output.variables
  <2> DEFINE r == RenumberOp(operators[i])
  <2>1. RenumberEffect(e) \in r.effects /\ RenumberEffect(e).var \in vs
    BY <1>1, <1>6, <1>7, <1>13
  <2>2. \E q \in Preconditions(r) : q[1] = f[1]
    <3>1. CASE f \in operators[i].prevail
      <4>1. NewId(f) \in r.prevail /\ NewId(f)[1] = f[1]
        BY <1>4, <1>5, <1>6, <1>13, <3>1 DEF Renumbered, OfNecessary
      <4> QED
        BY <4>1 DEF Preconditions
    <3>2. CASE f \in Pres(operators[i])
      <4>1. PICK d \in operators[i].effects : d.pre # NONE /\ f = <<d.var, d.pre>>
        BY <3>2 DEF Pres
      <4>2. d.var \in Variables
        BY <1>5
      <4>3. RenumberEffect(d).var = d.var /\ RenumberEffect(d).pre \in Nat
        BY <1>7, <4>1, <4>2, NewIdsDiffer
      <4>4. RenumberEffect(d) \in r.effects /\ RenumberEffect(d).pre # NONE
        BY <1>6, <4>3 DEF NONE
      <4>5. <<d.var, RenumberEffect(d).pre>> \in Pres(r)
        BY <4>3, <4>4 DEF Pres
      <4> QED
        BY <4>1, <4>5 DEF Preconditions
    <3> QED
      BY <1>13, <3>1, <3>2 DEF Preconditions
  <2>3. r \in ops
    OBVIOUS
  <2> HIDE DEF r, ops
  <2>4. f[1] \in vs
    BY <1>11, <2>1, <2>2, <2>3
  <2> QED
    BY <1>1, <1>13, <2>4
<1>14. output.variables \subseteq Important /\ \A v \in output.variables : Necessary(v)
  <2> SUFFICES ASSUME NEW v, Necessary(v) PROVE v \in Important
    BY <1>1
  <2>1. PICK f \in h.facts : v = f[1]
    BY DEF Necessary
  <2> QED
    BY <1>2, <1>3, <2>1, FactIsPair
<1> QED
  BY <1>3, <1>12, <1>13, <1>14

\* The state that the file knows tells apart the facts of its variables.
LEMMA ProjectedFacts ==
  ASSUME PreprocessorInv, output.status = "written", NEW s, IsReachable(s),
         NEW f \in OfVariables(Important) \ h.unreachable, f[1] \in output.variables
  PROVE  NewId(f) \in FactsOf(Projection(s)) <=> f \in FactsOf(s)
<1>1. task \in Tasks /\ h \in VerdictsOn(OfVariables(Important))
  BY TypeFacts DEF PreprocessorInv
<1>2. output.variables \subseteq Variables
  BY OutputVariables
<1> DEFINE p == Projection(s)
<1>3. DOMAIN p = output.variables /\ \A v \in output.variables : p[v] = NewId(<<v, s[v]>>)[2]
  BY DEF Projection
<1>4. \A v \in output.variables : <<v, p[v]>> = NewId(<<v, s[v]>>)
  BY <1>2, <1>3, NewIdsDiffer
<1> HIDE DEF p
<1>5. /\ NewId(f)[1] = f[1]
      /\ NewId(f) = NewId(<<f[1], s[f[1]]>>) <=> f \in FactsOf(s)
  BY <1>1, ReachableFacts
<1>6. ASSUME NewId(f) \in FactsOf(p)
      PROVE  NewId(f) = NewId(<<f[1], s[f[1]]>>)
  <2>1. PICK v \in output.variables : NewId(f) = <<v, p[v]>>
    BY <1>3, <1>6 DEF FactsOf
  <2>2. v = f[1]
    BY <1>5, <2>1
  <2> QED
    BY <1>4, <2>1, <2>2
<1>7. <<f[1], p[f[1]]>> \in FactsOf(p)
  BY <1>3 DEF FactsOf
<1> QED
  BY <1>4, <1>5, <1>6, <1>7 DEF p

\* Goals are goals.
LEMMA OutputGoal ==
  ASSUME PreprocessorInv, output.status = "written", NEW s, IsReachable(s)
  PROVE  output.goal \subseteq FactsOf(Projection(s)) <=> IsGoal(s)
<1>1. /\ task \in Tasks /\ h \in VerdictsOn(OfVariables(Important)) /\ task.goal \subseteq OfVariables(Important)
      /\ task.goal \cap h.unreachable = {}
  BY TypeFacts DEF PreprocessorInv, ProtectedAreReachable, Protected
<1>2. output.goal = {NewId(g) : g \in {f \in task.goal : Necessary(f[1])}}
  BY WrittenOutput DEF Renumbered, OfNecessary
<1>3. ASSUME NEW g \in task.goal, Necessary(g[1])
      PROVE  NewId(g) \in FactsOf(Projection(s)) <=> g \in FactsOf(s)
  BY <1>1, <1>3, OutputVariables, ProjectedFacts
<1>4. ASSUME NEW g \in task.goal, ~Necessary(g[1])
      PROVE  g \in FactsOf(s)
  BY <1>1, <1>4, ReachableFacts
<1> QED
  BY <1>2, <1>3, <1>4 DEF IsGoal

\* What an operator of the file is made of.
LEMMA OutputOperator ==
  ASSUME PreprocessorInv, NoConditionalEffects, output.status = "written", NEW i \in DOMAIN output.operators
  PROVE  /\ i \in LiveOps /\ IsKept(operators[i], i)
         /\ \A e \in operators[i].effects : e.conds = {} /\ e.var \in Variables
         /\ \A e, f \in operators[i].effects : e.var = f.var => e = f
         /\ operators[i].augmented \subseteq OfVariables(Important) \ h.unreachable
         /\ Preconditions(operators[i]) \subseteq OfVariables(Important) \ h.unreachable
         /\ \A f \in Preconditions(operators[i]) : Necessary(f[1]) => f[1] \in output.variables
<1> DEFINE o == operators[i]
           op == task.ops[i]
<1>1. i \in LiveOps /\ \E e \in o.effects : e.var \in output.variables
  BY WrittenOutput
<1>2. /\ task \in Tasks /\ IsKept(o, i) /\ o.augmented \subseteq OfVariables(Important)
  BY <1>1, TypeFacts DEF PreprocessorInv, LiveOps
<1>3. op \in AllOps(task.ops) /\ task.init \in AllStates /\ Preconditions(o) \subseteq OfVariables(Important)
      /\ IsOperator(op)
  BY <1>2, KeptOperator, StatesOfTheTask
<1>4. o.effects \subseteq op.effects
  BY <1>2 DEF IsKept
<1>5. /\ \A e \in op.effects : e.conds = {} /\ e.var \in Variables
      /\ \A e, f \in op.effects : e.var = f.var => e = f
  BY <1>2, <1>3, PlainResult, OperatorFacts
<1>6. (Preconditions(o) \cup o.augmented) \cap h.unreachable = {}
  BY <1>1 DEF PreprocessorInv, KnownOfLiveOperators, IsKnown
<1>7. \A f \in Preconditions(o) : Necessary(f[1]) => f[1] \in output.variables
  BY <1>1, OutputVariables
<1> HIDE DEF op
<1> QED
  BY <1>1, <1>2, <1>3, <1>4, <1>5, <1>6, <1>7

LEMMA NumberedPreconditions ==
  ASSUME PreprocessorInv, NoConditionalEffects, output.status = "written", NEW i \in DOMAIN output.operators
  PROVE  Preconditions(Numbered(i)) = {NewId(f) : f \in {g \in Preconditions(operators[i]) : Necessary(g[1])}}
<1> DEFINE o == operators[i]
           n == Numbered(i)
           here == {f \in o.effects : f.var \in output.variables}
           needed == {g \in Preconditions(o) : Necessary(g[1])}
<1>1. n.prevail = {NewId(f) : f \in {g \in o.prevail : Necessary(g[1])}} /\ n.effects = {RenumberEffect(e) : e \in here}
  BY NumberedOperator DEF Renumbered, OfNecessary
<1>2. /\ \A e \in o.effects : e.var \in Variables
      /\ \A f \in Preconditions(o) : Necessary(f[1]) => f[1] \in output.variables
      /\ \A v \in output.variables : Necessary(v)
  BY OutputOperator, OutputVariables
<1>3. ASSUME NEW e \in o.effects
      PROVE  /\ RenumberEffect(e).var = e.var
             /\ RenumberEffect(e).pre # NONE <=> e.pre # NONE
             /\ e.pre # NONE => <<e.var, RenumberEffect(e).pre>> = NewId(<<e.var, e.pre>>)
  <2>1. /\ RenumberEffect(e).var = e.var
        /\ RenumberEffect(e).pre = IF e.pre = NONE THEN NONE ELSE NewId(<<e.var, e.pre>>)[2]
    BY DEF RenumberEffect
  <2>2. NewId(<<e.var, e.pre>>) = <<e.var, NewId(<<e.var, e.pre>>)[2]>> /\ NewId(<<e.var, e.pre>>)[2] \in Nat
    BY <1>2, NewIdsDiffer
  <2> QED
    BY <2>1, <2>2 DEF NONE
<1> HIDE DEF n
<1>4. Pres(n) = {NewId(<<e.var, e.pre>>) : e \in {f \in here : f.pre # NONE}}
  <2> DEFINE ids == {NewId(<<e.var, e.pre>>) : e \in {f \in here : f.pre # NONE}}
  <2>1. ASSUME NEW e \in here
        PROVE  /\ e.pre # NONE => <<RenumberEffect(e).var, RenumberEffect(e).pre>> = NewId(<<e.var, e.pre>>)
               /\ RenumberEffect(e).pre # NONE <=> e.pre # NONE
    BY <1>3
  <2>2. Pres(n) = {<<f.var, f.pre>> : f \in {g \in n.effects : g.pre # NONE}}
    BY DEF Pres
  <2>3. Pres(n) \subseteq ids
    BY <1>1, <2>1, <2>2
  <2>4. ASSUME NEW e \in here, e.pre # NONE
        PROVE  NewId(<<e.var, e.pre>>) \in Pres(n)
    <3>1. RenumberEffect(e) \in n.effects /\ RenumberEffect(e).pre # NONE
      BY <1>1, <2>1, <2>4
    <3> QED
      BY <2>1, <2>2, <2>4, <3>1
  <2> QED
    BY <2>3, <2>4
<1>5. Pres(n) \subseteq {NewId(f) : f \in needed}
  <2> SUFFICES ASSUME NEW e \in here, e.pre # NONE PROVE NewId(<<e.var, e.pre>>) \in {NewId(f) : f \in needed}
    BY <1>4
  <2> DEFINE q == <<e.var, e.pre>>
  <2>1. q \in Preconditions(o) /\ q[1] = e.var /\ Necessary(e.var)
    BY <1>2 DEF Preconditions, Pres
  <2>2. q \in needed
    BY <2>1
  <2> HIDE DEF q, needed
  <2> QED
    BY <2>2 DEF q
<1>6. ASSUME NEW f \in Pres(o), Necessary(f[1])
      PROVE  NewId(f) \in Pres(n)
  <2>1. PICK e \in o.effects : e.pre # NONE /\ f = <<e.var, e.pre>>
    BY DEF Pres
  <2>2. f[1] = e.var /\ f \in Preconditions(o)
    BY <2>1 DEF Preconditions
  <2>3. e \in here
    BY <1>2, <1>6, <2>2
  <2> QED
    BY <1>4, <2>1, <2>3
<1> QED
  BY <1>1, <1>5, <1>6 DEF Preconditions, n

LEMMA NumberedIsPlain ==
  ASSUME PreprocessorInv, NoConditionalEffects, output.status = "written", NEW i \in DOMAIN output.operators
  PROVE  IsPlain(Numbered(i))
<1> DEFINE o == operators[i]
           n == Numbered(i)
           here == {f \in o.effects : f.var \in output.variables}
<1>1. /\ n = [prevail |-> n.prevail, effects |-> n.effects, spurious |-> n.spurious,
              augmented |-> n.augmented, potential |-> n.potential]
      /\ n.effects = {RenumberEffect(e) : e \in here}
      /\ n.augmented = {NewId(f) : f \in {g \in o.augmented : Necessary(g[1])}}
  BY NumberedOperator DEF Renumbered, OfNecessary
<1>2. /\ \A e \in o.effects : e.conds = {} /\ e.var \in Variables
      /\ \A e, f \in o.effects : e.var = f.var => e = f
      /\ o.augmented \subseteq OfVariables(Important) \ h.unreachable
      /\ Preconditions(o) \subseteq OfVariables(Important) \ h.unreachable
  BY OutputOperator
<1>3. Preconditions(n) = {NewId(f) : f \in {g \in Preconditions(o) : Necessary(g[1])}}
  BY NumberedPreconditions
<1>4. i \in LiveOps /\ Important \subseteq Variables
  BY OutputOperator, OutputVariables
<1>5. \A p \in o.augmented : /\ \A q \in Preconditions(o) : p[1] # q[1]
                             /\ \A q \in o.augmented : p[1] = q[1] => p = q
  BY <1>4 DEF PreprocessorInv, KnownOfLiveOperators, IsKnown
<1>6. \A f \in OfVariables(Important) : /\ NewId(f)[1] = f[1] /\ NewId(f)[2] \in Nat
                                        /\ NewId(f) = <<f[1], NewId(f)[2]>>
  <2> SUFFICES ASSUME NEW f \in OfVariables(Important)
               PROVE  NewId(f)[1] = f[1] /\ NewId(f)[2] \in Nat /\ NewId(f) = <<f[1], NewId(f)[2]>>
    OBVIOUS
  <2>1. f = <<f[1], f[2]>> /\ f[1] \in Variables
    BY <1>4, FactIsPair
  <2>2. NewId(<<f[1], f[2]>>) = <<f[1], NewId(<<f[1], f[2]>>)[2]>> /\ NewId(<<f[1], f[2]>>)[2] \in Nat
    BY <2>1, NewIdsDiffer
  <2>3. NewId(f) = <<f[1], NewId(f)[2]>> /\ NewId(f)[2] \in Nat
    BY <2>1, <2>2
  <2> QED
    BY <2>3
<1>7. \A e \in o.effects :
        /\ RenumberEffect(e).conds = {} /\ RenumberEffect(e).var = e.var
        /\ RenumberEffect(e) = [var |-> RenumberEffect(e).var, pre |-> RenumberEffect(e).pre,
                                post |-> RenumberEffect(e).post, conds |-> RenumberEffect(e).conds]
  BY <1>2 DEF RenumberEffect, Renumbered
<1> HIDE DEF n, o
<1>8. /\ \A e \in n.effects : /\ e.conds = {}
                              /\ e = [var |-> e.var, pre |-> e.pre, post |-> e.post, conds |-> e.conds]
      /\ \A e, f \in n.effects : e.var = f.var => e = f
  BY <1>1, <1>2, <1>7
<1>9. ASSUME NEW f \in n.augmented
      PROVE  /\ f = <<f[1], f[2]>> /\ f[2] # NONE
             /\ \A g \in Preconditions(n) : g[1] # f[1]
             /\ \A g \in n.augmented : g[1] = f[1] => g = f
  <2>1. PICK p \in o.augmented : f = NewId(p)
    BY <1>1
  <2>2. f = <<f[1], f[2]>> /\ f[2] \in Nat /\ f[1] = p[1]
    BY <1>2, <1>6, <2>1
  <2>3. ASSUME NEW g \in Preconditions(n) PROVE g[1] # f[1]
    <3>1. PICK q \in Preconditions(o) : g = NewId(q)
      BY <1>3
    <3> QED
      BY <1>2, <1>5, <1>6, <2>2, <3>1
  <2>4. ASSUME NEW g \in n.augmented, g[1] = f[1] PROVE g = f
    <3>1. PICK q \in o.augmented : g = NewId(q)
      BY <1>1
    <3> QED
      BY <1>2, <1>5, <1>6, <2>1, <2>2, <2>4, <3>1
  <2> QED
    BY <2>2, <2>3, <2>4 DEF NONE
<1> QED
  BY <1>1, <1>8, <1>9 DEF IsPlain, n

\* An operator can be applied in the file when it can in the task, and does the same.
LEMMA NumberedApplicable ==
  ASSUME PreprocessorInv, NoConditionalEffects, output.status = "written", NEW i \in DOMAIN output.operators,
         NEW s, IsReachable(s)
  PROVE  Preconditions(Numbered(i)) \subseteq FactsOf(Projection(s)) <=> Applicable(task.ops[i], s)
<1> DEFINE o == operators[i]
<1>1. /\ task \in Tasks /\ h \in VerdictsOn(OfVariables(Important)) /\ IsKept(o, i)
  BY TypeFacts, OutputOperator DEF PreprocessorInv
<1>2. Preconditions(o) = Preconditions(task.ops[i])
  BY <1>1, KeptOperator
<1>3. /\ Preconditions(o) \subseteq OfVariables(Important) \ h.unreachable
      /\ \A f \in Preconditions(o) : Necessary(f[1]) => f[1] \in output.variables
  BY OutputOperator
<1>4. Preconditions(Numbered(i)) = {NewId(f) : f \in {g \in Preconditions(o) : Necessary(g[1])}}
  BY NumberedPreconditions
<1> HIDE DEF o
<1>5. ASSUME NEW f \in Preconditions(o), Necessary(f[1])
      PROVE  NewId(f) \in FactsOf(Projection(s)) <=> f \in FactsOf(s)
  BY <1>3, <1>5, ProjectedFacts
<1>6. ASSUME NEW f \in Preconditions(o), ~Necessary(f[1])
      PROVE  f \in FactsOf(s)
  BY <1>1, <1>3, <1>6, ReachableFacts
<1> QED
  BY <1>2, <1>4, <1>5, <1>6 DEF Applicable

LEMMA NumberedResult ==
  ASSUME PreprocessorInv, NoConditionalEffects, output.status = "written", NEW i \in DOMAIN output.operators,
         NEW s \in AllStates
  PROVE  Result(Numbered(i), Projection(s)) = Projection(Result(task.ops[i], s))
<1> DEFINE o == operators[i]
           op == task.ops[i]
           n == Numbered(i)
           t == Result(op, s)
           p == Projection(s)
           r == Projection(t)
           q == Result(n, p)
<1>1. task \in Tasks /\ IsKept(o, i)
  BY TypeFacts, OutputOperator DEF PreprocessorInv
<1>2. op \in AllOps(task.ops) /\ EffectVars(o) = EffectVars(op) \cap Important /\ o.effects \subseteq op.effects
  BY <1>1, KeptOperator DEF IsKept
<1>3. output.variables \subseteq Important /\ Important \subseteq Variables
  BY OutputVariables
<1>4. /\ p = [v \in output.variables |-> NewId(<<v, s[v]>>)[2]]
      /\ r = [v \in output.variables |-> NewId(<<v, t[v]>>)[2]]
  BY DEF Projection
<1>5. /\ \A e \in o.effects : t[e.var] = e.post
      /\ \A v \in output.variables : v \notin EffectVars(o) => t[v] = s[v]
  <2>1. /\ \A e \in op.effects : t[e.var] = e.post
        /\ \A v \in Variables : v \notin EffectVars(op) => t[v] = s[v]
    BY <1>1, <1>2, PlainResult
  <2> QED
    BY <1>2, <1>3, <2>1
<1>6. n.effects = {RenumberEffect(e) : e \in {f \in o.effects : f.var \in output.variables}}
  BY NumberedOperator
<1>7. IsPlain(n)
  BY NumberedIsPlain
<1>8. \A e : RenumberEffect(e).var = e.var /\ RenumberEffect(e).post = NewId(<<e.var, e.post>>)[2]
  BY DEF RenumberEffect
<1> HIDE DEF n, p, r, t, op, o
<1>9. /\ q = [v \in DOMAIN p |-> q[v]]
      /\ \A v \in DOMAIN p : /\ \A e \in n.effects : e.var = v => q[v] = e.post
                             /\ (\A e \in n.effects : e.var # v) => q[v] = p[v]
  BY <1>7, PlainEffects DEF IsPlain
<1> HIDE DEF q
<1>10. ASSUME NEW v \in output.variables
       PROVE  q[v] = r[v]
  <2>1. CASE \E e \in o.effects : e.var = v
    <3>1. PICK e \in o.effects : e.var = v
      BY <2>1
    <3>2. RenumberEffect(e) \in n.effects
      BY <1>6, <3>1
    <3>3. q[v] = NewId(<<e.var, e.post>>)[2]
      BY <1>4, <1>8, <1>9, <3>1, <3>2
    <3> QED
      BY <1>4, <1>5, <3>1, <3>3
  <2>2. CASE \A e \in o.effects : e.var # v
    <3>1. \A e \in n.effects : e.var # v
      BY <1>6, <1>8, <2>2
    <3>2. t[v] = s[v]
      BY <1>5, <2>2 DEF EffectVars
    <3> QED
      BY <1>4, <1>9, <3>1, <3>2
  <2> QED
    BY <2>1, <2>2
<1>11. q = r
  <2>1. DOMAIN p = output.variables /\ r = [v \in output.variables |-> r[v]]
    BY <1>4
  <2> QED
    BY <1>9, <1>10, <2>1
<1> QED
  BY <1>11 DEF q, r, n, p, t, op

\* No operator that is left leads to an unreachable fact.
LEMMA StepsStayReachable ==
  ASSUME PreprocessorInv, NoConditionalEffects, output.status = "written", NEW i \in LiveOps,
         NEW s \in AllStates, IsReachable(s)
  PROVE  Result(task.ops[i], s) \in AllStates /\ IsReachable(Result(task.ops[i], s))
<1> DEFINE o == operators[i]
           op == task.ops[i]
           t == Result(op, s)
<1>1. task \in Tasks /\ IsKept(o, i) /\ h \in VerdictsOn(OfVariables(Important))
  BY TypeFacts DEF PreprocessorInv, LiveOps
<1>2. op \in AllOps(task.ops) /\ EffectVars(o) = EffectVars(op) \cap Important /\ o.effects \subseteq op.effects
  BY <1>1, KeptOperator DEF IsKept
<1>3. t \in AllStates /\ IsState(t)
  BY <1>1, <1>2, ResultIsState, StatesOfTheTask
<1>4. Posts(o) \cap h.unreachable = {}
  BY WrittenOutput DEF FactsToRenumber
<1>5. /\ \A e \in op.effects : t[e.var] = e.post
      /\ \A v \in Variables : v \notin EffectVars(op) => t[v] = s[v]
  BY <1>1, <1>2, PlainResult
<1>6. Important \subseteq Variables
  BY OutputVariables
<1> HIDE DEF o, op, t
<1>7. ASSUME NEW p \in FactsOf(t), p \in h.unreachable
      PROVE  FALSE
  <2>1. p = <<p[1], t[p[1]]>> /\ p[1] \in Variables
    BY <1>3, FactsOfState
  <2>2. p[1] \in Important
    BY <1>1, <1>6, <1>7, FactIsPair DEF VerdictsOn
  <2>3. CASE p[1] \in EffectVars(op)
    <3>1. p[1] \in EffectVars(o)
      BY <1>2, <2>2, <2>3
    <3>2. PICK e \in o.effects : p[1] = e.var
      BY <3>1 DEF EffectVars
    <3>3. t[p[1]] = e.post
      BY <1>2, <1>5, <3>2
    <3>4. p = <<e.var, e.post>>
      BY <2>1, <3>2, <3>3
    <3>5. p \in Posts(o)
      BY <3>4 DEF Posts
    <3> QED
      BY <1>4, <1>7, <3>5
  <2>4. CASE p[1] \notin EffectVars(op)
    <3>1. p = <<p[1], s[p[1]]>>
      BY <1>5, <2>1, <2>4
    <3>2. p \in FactsOf(s)
      BY <2>1, <3>1, FactsOfState DEF IsReachable
    <3> QED
      BY <1>7, <3>2 DEF IsReachable
  <2> QED
    BY <2>3, <2>4
<1> QED
  BY <1>3, <1>7 DEF IsReachable, t, op

\* Writing leaves out what is only known about an operator.
LEMMA WrittenIsSame ==
  ASSUME NEW op, NEW p
  PROVE  /\ Preconditions(Written(op)) = Preconditions(op)
         /\ Result(Written(op), p) = Result(op, p)
<1>1. Written(op).prevail = op.prevail /\ Written(op).effects = op.effects
  BY DEF Written
<1> QED
  BY <1>1 DEF Preconditions, Pres, Result

LEMMA OutputStep ==
  ASSUME PreprocessorInv, NoConditionalEffects, output.status = "written", NEW i \in DOMAIN output.operators,
         NEW s \in AllStates, IsReachable(s)
  PROVE  /\ Applicable(output.operators[i], Projection(s)) =>
              /\ Applicable(task.ops[i], s)
              /\ Result(output.operators[i], Projection(s)) = Projection(Result(task.ops[i], s))
         /\ Preconditions(output.operators[i]) = Preconditions(Numbered(i))
              \cup (IF options.include_augmented_preconditions THEN Numbered(i).augmented ELSE {})
<1> DEFINE w == output.operators[i]
           n == Numbered(i)
           p == Projection(s)
<1>1. w = Written(IF options.include_augmented_preconditions THEN IncludeAugmented(n) ELSE n)
  BY WrittenOutput
<1>2. IsPlain(n)
  BY NumberedIsPlain
<1>3. Preconditions(n) \subseteq FactsOf(p) <=> Applicable(task.ops[i], s)
  BY NumberedApplicable
<1>4. Result(n, p) = Projection(Result(task.ops[i], s))
  BY NumberedResult
<1> HIDE DEF n, p
<1>5. /\ Preconditions(w) = Preconditions(n) \cup (IF options.include_augmented_preconditions THEN n.augmented ELSE {})
      /\ Applicable(w, p) => Result(w, p) = Result(n, p)
  <2>1. CASE options.include_augmented_preconditions
    <3>1. Preconditions(w) = Preconditions(IncludeAugmented(n)) /\ Result(w, p) = Result(IncludeAugmented(n), p)
      BY <1>1, <2>1, WrittenIsSame
    <3>2. /\ Preconditions(IncludeAugmented(n)) = Preconditions(n) \cup n.augmented
          /\ Applicable(IncludeAugmented(n), p) => Result(IncludeAugmented(n), p) = Result(n, p)
      BY <1>2, AugmentedOperator
    <3> QED
      BY <2>1, <3>1, <3>2 DEF Applicable
  <2>2. CASE ~options.include_augmented_preconditions
    BY <1>1, <2>2, WrittenIsSame
  <2> QED
    BY <2>1, <2>2
<1> QED
  BY <1>3, <1>4, <1>5 DEF Applicable, n, p

LEMMA InitIsReachable ==
  ASSUME PreprocessorInv
  PROVE  task.init \in AllStates /\ IsReachable(task.init)
<1>1. /\ task \in Tasks /\ h \in VerdictsOn(OfVariables(Important))
      /\ InitFacts = FactsOf(task.init) \cap OfVariables(Important)
  BY TypeFacts DEF PreprocessorInv
<1>2. InitFacts \cap h.unreachable = {} /\ h.unreachable \subseteq OfVariables(Important)
  BY <1>1 DEF PreprocessorInv, ProtectedAreReachable, Protected, VerdictsOn
<1>3. FactsOf(task.init) \cap h.unreachable = {}
  BY <1>1, <1>2
<1> QED
  BY <1>1, <1>3, StatesOfTheTask, TaskIsTask DEF IsReachable

LEMMA PlansOfTheFile ==
  PreprocessorInv => (NoConditionalEffects => OutputPlansArePlans)
<1> SUFFICES ASSUME PreprocessorInv, NoConditionalEffects, output.status = "written"
             PROVE  OutputPlansArePlans
  BY DEF OutputPlansArePlans
<1> DEFINE enabled(s) == {i \in DOMAIN output.operators : Applicable(output.operators[i], Projection(s))}
           edges == UNION {{<<s, Result(task.ops[i], s)>> : i \in enabled(s)} : s \in AllStates}
           followed == ReachableFrom({task.init}, edges)
           X == {s \in AllStates : IsReachable(s)}
<1>1. task \in Tasks /\ task.init \in X
  BY TypeFacts, InitIsReachable DEF PreprocessorInv
<1>2. ASSUME NEW d \in edges
      PROVE  d[2] \in AllStates /\ (d[1] \in X => d[2] \in X)
  <2>1. PICK s \in AllStates : \E i \in enabled(s) : d = <<s, Result(task.ops[i], s)>>
    OBVIOUS
  <2>2. PICK i \in enabled(s) : d = <<s, Result(task.ops[i], s)>>
    BY <2>1
  <2>3. i \in LiveOps /\ IsKept(operators[i], i)
    BY OutputOperator
  <2>4. Result(task.ops[i], s) \in AllStates
    BY <1>1, <2>3, KeptOperator, ResultIsState
  <2>5. IsReachable(s) => IsReachable(Result(task.ops[i], s))
    BY <2>3, StepsStayReachable
  <2> QED
    BY <2>2, <2>4, <2>5
<1>3. followed \subseteq X
  <2> DEFINE all == {task.init} \cup {d[2] : d \in edges}
  <2>1. all \subseteq AllStates
    BY <1>1, <1>2
  <2>2. IsFiniteSet(AllStates)
    BY <1>1, StatesOfTheTask
  <2>3. IsFiniteSet(all)
    BY <2>1, <2>2, FS_Subset
  <2>4. {task.init} \subseteq X /\ \A d \in edges : d[1] \in X => d[2] \in X
    BY <1>1, <1>2
  <2> HIDE DEF X, edges
  <2> QED
    BY <2>3, <2>4, ReachableIsLeast
<1>4. ASSUME NEW s \in followed
      PROVE  /\ output.goal \subseteq FactsOf(Projection(s)) => IsGoal(s)
             /\ \A i \in enabled(s) :
                  /\ Applicable(task.ops[i], s)
                  /\ Result(output.operators[i], Projection(s)) = Projection(Result(task.ops[i], s))
  <2>1. s \in AllStates /\ IsReachable(s)
    BY <1>3
  <2> HIDE DEF followed
  <2>2. output.goal \subseteq FactsOf(Projection(s)) => IsGoal(s)
    BY <2>1, OutputGoal
  <2> QED
    BY <2>1, <2>2, OutputStep
<1> HIDE DEF enabled
<1> QED
  BY <1>4 DEF OutputPlansArePlans, enabled

\* OutputPlansArePlans for every task without conditional effects, whatever was pruned and
\* why: the preconditions that the file leaves out, of variables with one value left, hold
\* in every state that its operators lead to, because none of them leads to a fact that
\* was pruned, and an effect is only left out where an added precondition has it hold.
THEOREM OutputIsCorrect == Spec => [](NoConditionalEffects => OutputPlansArePlans)
<1> QED
  BY PlansOfTheFile, PreprocessorInvariant, PTL

\* Every step of a plan is in the file, unless it changes nothing that the file knows.
LEMMA StepOfAPlan ==
  ASSUME PreprocessorInv, NoConditionalEffects, GroupsHold, output.status = "written",
         options.include_augmented_preconditions => WellFormed,
         NEW step \in StepsWithin(Useful)
  PROVE  LET before == Projection(step[1])
             after == Projection(Result(task.ops[step[2]], step[1]))
         IN  \/ before = after
             \/ /\ step[2] \in DOMAIN output.operators
                /\ Applicable(output.operators[step[2]], before)
                /\ Result(output.operators[step[2]], before) = after
<1> DEFINE i == step[2]
           s == step[1]
           t == Result(task.ops[i], s)
           p == Projection(s)
           o == operators[i]
<1>1. /\ task \in Tasks /\ OperatorsAreSound /\ h \in VerdictsOn(OfVariables(Important))
      /\ \A j \in DOMAIN operators : IsKept(operators[j], j)
      /\ i \notin DOMAIN operators => \A e \in task.ops[i].effects : e.var \notin Important
  BY TypeFacts, StepFacts DEF PreprocessorInv, Sound
<1>2. s \in Useful /\ i \in DOMAIN task.ops /\ s \in AllStates /\ Applicable(task.ops[i], s)
  BY <1>1, StepFacts
<1>3. IsReachable(s)
  BY <1>2, UsefulIsReachable DEF IsReachable
<1>4. output.variables \subseteq Important /\ Important \subseteq Variables
  BY OutputVariables
<1>5. ASSUME \A v \in output.variables : t[v] = s[v]
      PROVE  Projection(s) = Projection(t)
  BY <1>5 DEF Projection
<1>6. CASE i \notin DOMAIN operators
  <2>1. \A v \in Important : t[v] = s[v]
    BY <1>1, <1>2, <1>6, StepOfDropped
  <2> QED
    BY <1>4, <1>5, <2>1
<1>7. CASE i \in DOMAIN operators /\ i \notin DOMAIN output.operators
  <2>1. AgreesWithOperator(o, s)
    BY <1>1, <1>7 DEF OperatorsAreSound
  <2>2. i \in LiveOps
    BY <1>7, <2>1 DEF AgreesWithOperator, LiveOps
  <2>3. \A e \in o.effects : e.var \notin output.variables
    BY <1>7, <2>2, WrittenOutput
  <2>4. task.ops[i] \in AllOps(task.ops) /\ EffectVars(o) = EffectVars(task.ops[i]) \cap Important
    BY <1>1, <1>7, KeptOperator
  <2>5. \A v \in output.variables : v \notin EffectVars(task.ops[i])
    BY <1>4, <2>3, <2>4 DEF EffectVars
  <2>6. \A v \in output.variables : t[v] = s[v]
    BY <1>1, <1>2, <1>4, <2>4, <2>5, PlainResult
  <2> QED
    BY <1>5, <2>6
<1>8. CASE i \in DOMAIN operators /\ i \in DOMAIN output.operators
  <2> HIDE DEF i, s
  <2>1. AgreesWithOperator(o, s)
    BY <1>1, <1>8 DEF OperatorsAreSound, i, s
  <2>2. /\ Preconditions(output.operators[i]) = Preconditions(Numbered(i))
              \cup (IF options.include_augmented_preconditions THEN Numbered(i).augmented ELSE {})
        /\ Applicable(output.operators[i], p) => Result(output.operators[i], p) = Projection(t)
    BY <1>2, <1>3, <1>8, OutputStep
  <2>3. Preconditions(Numbered(i)) \subseteq FactsOf(p)
    BY <1>2, <1>3, <1>8, NumberedApplicable
  <2>4. ASSUME options.include_augmented_preconditions
        PROVE  Numbered(i).augmented \subseteq FactsOf(p)
    <3> SUFFICES ASSUME NEW g \in Numbered(i).augmented PROVE g \in FactsOf(p)
      OBVIOUS
    <3>1. PICK f \in o.augmented : g = NewId(f)
      BY NumberedOperator DEF Renumbered, OfNecessary
    <3>2. f \in OfVariables(Important) \ h.unreachable
      BY <1>8, OutputOperator
    <3>3. f \in FactsOf(s)
      BY <2>1 DEF AgreesWithOperator
    <3>4. g[1] = f[1]
      BY <3>1 DEF NewId
    <3>5. g[1] \in output.variables
      <4>1. g \in Preconditions(output.operators[i]) /\ output.operators[i] \in AllOps(output.operators)
        BY <1>8, <2>2, <2>4 DEF AllOps
      <4>2. WellFormed
        BY <2>4
      <4> QED
        BY <4>1, <4>2 DEF WellFormed
    <3> QED
      BY <1>3, <3>1, <3>2, <3>3, <3>4, <3>5, ProjectedFacts
  <2>5. Applicable(output.operators[i], p)
    BY <2>2, <2>3, <2>4 DEF Applicable
  <2> QED
    BY <1>8, <2>2, <2>5 DEF i, s
<1> QED
  BY <1>6, <1>7, <1>8

LEMMA PlansInTheFile ==
  PreprocessorInv => (NoConditionalEffects /\ GroupsHold => NoPlanIsLost)
<1> SUFFICES ASSUME PreprocessorInv, NoConditionalEffects, GroupsHold, output.status = "written",
                    options.include_augmented_preconditions => WellFormed
             PROVE  NoPlanIsLost
  BY DEF NoPlanIsLost
<1>1. output.init = Projection(task.init)
  BY WrittenOutput DEF Projection
<1>2. ASSUME NEW s \in Useful
      PROVE  IsGoal(s) <=> output.goal \subseteq FactsOf(Projection(s))
  <2>1. IsReachable(s)
    BY UsefulIsReachable DEF IsReachable
  <2> QED
    BY <2>1, OutputGoal
<1> QED
  BY <1>1, <1>2, StepOfAPlan DEF NoPlanIsLost

\* NoPlanIsLost for every task without conditional effects whose mutex groups hold: each
\* step of a plan is in the file or changes nothing that the file knows.
THEOREM PlansAreKept == Spec => [](NoConditionalEffects /\ GroupsHold => NoPlanIsLost)
<1> QED
  BY PlansInTheFile, PreprocessorInvariant, PTL

-----------------------------------------------------------------------------
(* Tasks declared unsolvable.                                              *)

\* On a path to the goal, the facts of the initial state and those of the goal hold together.
LEMMA ProtectedOnAPath ==
  ASSUME task \in Tasks, Useful # {}
  PROVE  /\ task.init \in Useful
         /\ \E s \in Useful : task.goal \subseteq FactsOf(s)
<1> QED
  BY UsefulStates DEF IsGoal

LEMMA StartCanSucceed ==
  ASSUME PreprocessorInv, NoConditionalEffects, GroupsHold, Useful # {}
  PROVE  ~HoldsSpurious(h, InitFacts) /\ ~HoldsSpurious(h, task.goal)
<1>1. /\ task \in Tasks /\ h.facts = OfVariables(Important)
      /\ InitFacts = FactsOf(task.init) \cap OfVariables(Important) /\ task.goal \subseteq OfVariables(Important)
  BY TypeFacts DEF PreprocessorInv
<1>2. ASSUME NEW s \in Useful, NEW F, F \subseteq FactsOf(s) \cap h.facts
      PROVE  ~HoldsSpurious(h, F)
  <2>1. AgreesWith(h, s)
    BY UsefulIsReachable
  <2> QED
    BY <1>2, <2>1 DEF AgreesWith, HoldsSpurious, Pairs
<1>3. PICK s \in Useful : task.goal \subseteq FactsOf(s)
  BY <1>1, ProtectedOnAPath
<1>4. task.init \in Useful
  BY <1>1, ProtectedOnAPath
<1> QED
  BY <1>1, <1>2, <1>3, <1>4

LEMMA IterationCanSucceed ==
  ASSUME PreprocessorInv, NoConditionalEffects, GroupsHold, Useful # {}, pc = "conclude"
  PROVE  Detected.unreachable \cap Protected = {}
<1>1. /\ task \in Tasks /\ h.facts = OfVariables(Important)
      /\ InitFacts = FactsOf(task.init) \cap OfVariables(Important) /\ task.goal \subseteq OfVariables(Important)
  BY TypeFacts DEF PreprocessorInv
<1>2. Detected \in VerdictsOn(OfVariables(Important))
  BY DetectedFacts
<1>3. ASSUME NEW s \in Useful
      PROVE  FactsOf(s) \cap OfVariables(Important) \cap Detected.unreachable = {}
  BY <1>2, <1>3, DetectedIsSound DEF AgreesWith, VerdictsOn
<1>4. PICK s \in Useful : task.goal \subseteq FactsOf(s)
  BY <1>1, ProtectedOnAPath
<1>5. task.init \in Useful
  BY <1>1, ProtectedOnAPath
<1> QED
  BY <1>1, <1>3, <1>4, <1>5 DEF Protected

\* Without a variable left, every goal variable has one value, the one it has initially.
LEMMA NoVariableLeft ==
  ASSUME PreprocessorInv, Reduced = Unsolvable
  PROVE  IsGoal(task.init)
<1> DEFINE renumbered == [i \in LiveOps |-> RenumberOp(operators[i])]
           goal == Renumbered(OfNecessary(task.goal))
           vs == ImportantVars(AllOps(renumbered), goal)
           kept == {v \in vs : Necessary(v)}
<1>1. /\ task \in Tasks /\ h \in VerdictsOn(OfVariables(Important)) /\ task.goal \subseteq OfVariables(Important)
      /\ task.goal \cap h.unreachable = {} /\ InitFacts \cap h.unreachable = {}
  BY TypeFacts DEF PreprocessorInv, ProtectedAreReachable, Protected
<1>2. kept = {}
  BY <1>1 DEF Reduced, Unsolvable, Error
<1>3. IsReachable(task.init)
  BY InitIsReachable
<1>4. \A g \in goal : g[1] \in vs
  <2>1. AllOps(renumbered) = {RenumberOp(operators[i]) : i \in LiveOps}
    BY DEF AllOps
  <2>2. \A op \in AllOps(renumbered) :
          \A e \in op.effects : \A f \in Preconditions(op) \cup e.conds : f[1] \in Variables
    BY <2>1, RenumberedOperators
  <2>3. \A g \in goal : g[1] \in Variables
    <3>1. \A g \in task.goal : g[1] \in Variables
      BY <1>1, ImportantVariables
    <3>2. \A g : NewId(g)[1] = g[1]
      BY DEF NewId
    <3> QED
      BY <3>1, <3>2 DEF Renumbered, OfNecessary
  <2> HIDE DEF renumbered, goal
  <2> QED
    BY <2>2, <2>3, InfluentialVariables
<1>5. ASSUME NEW g \in task.goal
      PROVE  ~Necessary(g[1])
  <2> SUFFICES ASSUME Necessary(g[1]) PROVE FALSE
    OBVIOUS
  <2>1. NewId(g) \in goal /\ NewId(g)[1] = g[1]
    BY DEF Renumbered, OfNecessary, NewId
  <2> HIDE DEF goal, vs
  <2> QED
    BY <1>2, <1>4, <2>1
<1> QED
  BY <1>1, <1>3, <1>5, ReachableFacts DEF IsGoal

LEMMA UnsolvableStaysSound ==
  PreprocessorInv /\ UnsolvableIsSound /\ [Next]_vars => UnsolvableIsSound'
<1> SUFFICES ASSUME PreprocessorInv, UnsolvableIsSound, [Next]_vars,
                    NoConditionalEffects', GroupsHold', ~IsGoal(task.init)', output'.status = "unsolvable"
             PROVE  Useful' = {}
  BY DEF UnsolvableIsSound, UnsolvableMeansNoPlan
<1>1. task' = task
  BY DEF Next, Compute, NothingToUpdate, SkipBackward, StartCompute, ComputeRound, TimeExceeded,
         ConcludeIteration, Reduce, taskVars, vars
<1>2. NoConditionalEffects /\ GroupsHold /\ Useful' = Useful
  BY <1>1, SameTask
<1>3. ~IsGoal(task.init)
  BY <1>1 DEF IsGoal
<1> SUFFICES ASSUME Useful # {} PROVE FALSE
  BY <1>2
<1>4. CASE output' = output
  BY <1>2, <1>3, <1>4 DEF UnsolvableIsSound, UnsolvableMeansNoPlan
<1>5. CASE StartCompute
  <2>1. HoldsSpurious(h, IF regression THEN task.goal ELSE InitFacts) \/ output' = output
    BY <1>5 DEF StartCompute
  <2> QED
    BY <1>2, <1>4, <2>1, StartCanSucceed
<1>6. CASE ConcludeIteration
  <2>1. pc = "conclude" /\ ((Detected.unreachable \ h.unreachable) \cap Protected # {} \/ output' = output)
    BY <1>6 DEF ConcludeIteration, Detected
  <2> QED
    BY <1>2, <1>4, <2>1, IterationCanSucceed
<1>7. CASE Reduce
  <2>1. output' = Reduced
    BY <1>7 DEF Reduce, Finish
  <2>2. Reduced = Unsolvable
    <3> HIDE DEF Reduced
    <3>1. Reduced \in {Error, Unsolvable} \/ Reduced.status = "written"
      BY DEF Reduced
    <3> QED
      BY <2>1, <3>1 DEF Error
  <2> QED
    BY <1>3, <2>2, NoVariableLeft
<1>8. output' = output \/ StartCompute \/ ConcludeIteration \/ Reduce
  BY DEF Next, Compute, NothingToUpdate, SkipBackward, ComputeRound, TimeExceeded, vars
<1> QED
  BY <1>4, <1>5, <1>6, <1>7, <1>8

\* UnsolvableMeansNoPlan for every task without conditional effects whose mutex groups
\* hold and whose initial state is no goal: whatever led to the dummy task (the initial state
\* or the goal mutex, a fact of theirs unreachable in either direction, no variable left)
\* there is no plan.  An initial state that is a goal may lead to the dummy task.
THEOREM UnsolvableHasNoPlan ==
  Spec => [](NoConditionalEffects /\ GroupsHold /\ ~IsGoal(task.init) => UnsolvableMeansNoPlan)
<1>1. Init => UnsolvableIsSound
  BY DEF Init, UnsolvableIsSound, UnsolvableMeansNoPlan, NoOutput
<1>2. PreprocessorInv /\ UnsolvableIsSound /\ [Next]_vars => UnsolvableIsSound'
  BY UnsolvableStaysSound
<1>3. UnsolvableIsSound => (NoConditionalEffects /\ GroupsHold /\ ~IsGoal(task.init) => UnsolvableMeansNoPlan)
  BY DEF UnsolvableIsSound
<1> QED
  BY <1>1, <1>2, <1>3, PreprocessorInvariant, PTL DEF Spec

=============================================================================
