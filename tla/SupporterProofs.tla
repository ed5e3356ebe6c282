-------------------------- MODULE SupporterProofs --------------------------
(***************************************************************************)
(* An evaluation of the conjunctions heuristic, for every task, any        *)
(* conjunctions learned, every option and every order among equals: the    *)
(* relaxed plan reaches the goal, its nodes are applicable and supporters  *)
(* come later; a dead end has no plan, and no plan is shorter than h^Cmax; *)
(* the best supporter functions compute what defines them.                 *)
(***************************************************************************)
EXTENDS SupporterInvariants, SetLemmas, SequenceTheorems

-----------------------------------------------------------------------------
(* What the functions on facts and action instances return. *)

\* Every conjunction within a fact set is part of one that no other dominates.
LEMMA NonDominatedAbove ==
  ASSUME NEW C \in SUBSET SUBSET Facts, NEW F, NEW c \in C, c \subseteq F
  PROVE  \E d \in NonDominatedWithin(F, C) : c \subseteq d
<1> DEFINE Above == {d \in C : d \subseteq F /\ c \subseteq d}
           LeftOut == {Facts \ d : d \in Above}
<1>1. LeftOut \subseteq SUBSET Facts /\ Facts \ c \in LeftOut
  OBVIOUS
<1>2. PICK least \in LeftOut : \A x \in LeftOut : x \subseteq least => x = least
  <2> HIDE DEF LeftOut
  <2>1. IsFiniteSet(Facts)
    BY RegressionAssumption DEF RegressionAssumption
  <2> QED
    BY <1>1, <2>1, SmallestSet
<1>3. PICK d \in Above : least = Facts \ d
  OBVIOUS
<1>4. ASSUME NEW e \in C, e \subseteq F, d \subseteq e
      PROVE  d = e
  <2>1. Facts \ e \in LeftOut
    BY <1>4
  <2>2. Facts \ e = Facts \ d
    BY <1>2, <1>3, <1>4, <2>1
  <2> QED
    BY <1>4, <2>2
<1> QED
  BY <1>3, <1>4 DEF NonDominatedWithin, NonDominated

\* compute_regressions goes through the actions once, in the order of their ids.
LEMMA RegressionsByAction ==
  ASSUME NEW facts
  PROVE  \E kept \in [Nat -> SUBSET Actions] :
           /\ kept[0] = {}
           /\ \A n \in Nat : kept[n + 1] = IF n \in SupportingActions(facts)
                                           THEN KeepSimplest(kept[n], n, facts) ELSE kept[n]
           /\ ComputeRegressions(facts) = kept[Max({0} \cup Actions) + 1]
<1> DEFINE Step(K, n) == IF n \in SupportingActions(facts) THEN KeepSimplest(K, n, facts) ELSE K
           Body(f, n) == IF n = 0 THEN {}
                         ELSE IF n - 1 \in SupportingActions(facts)
                         THEN KeepSimplest(f[n - 1], n - 1, facts) ELSE f[n - 1]
           G == [n \in Nat |-> [K \in SUBSET Actions |-> Step(K, n)]]
           g == CHOOSE f : f = [n \in Nat |-> Body(f, n)]
<1>1. \A n \in Nat : \A K \in SUBSET Actions : Step(K, n) \in SUBSET Actions
  BY DEF KeepSimplest, SupportingActions
<1>2. PICK f \in [Nat -> SUBSET Actions] : Iterates(f, {}, G)
  <2>1. G \in [Nat -> [SUBSET Actions -> SUBSET Actions]]
    <3> HIDE DEF Step
    <3> QED
      BY <1>1
  <2> DEFINE X == SUBSET Actions
  <2>2. {} \in X /\ G \in [Nat -> [X -> X]]
    BY <2>1
  <2> HIDE DEF G, X
  <2>3. \E f \in [Nat -> X] : Iterates(f, {}, G)
    BY <2>2, NatRecursive
  <2> QED
    BY <2>3 DEF X
<1>3. f[0] = {} /\ \A n \in Nat : f[n + 1] = Step(f[n], n)
  <2> HIDE DEF Step
  <2> QED
    BY <1>2 DEF Iterates
<1>4. f = [n \in Nat |-> Body(f, n)]
  <2>1. ASSUME NEW n \in Nat PROVE f[n] = Body(f, n)
    <3>1. CASE n = 0
      BY <1>3, <3>1
    <3>2. CASE n # 0
      <4>1. n - 1 \in Nat /\ f[(n - 1) + 1] = Step(f[n - 1], n - 1) /\ (n - 1) + 1 = n
        <5> HIDE DEF Step
        <5> QED
          BY <1>3, <3>2
      <4> QED
        BY <3>2, <4>1
    <3> QED
      BY <3>1, <3>2
  <2> HIDE DEF Body
  <2> QED
    BY <2>1
<1>5. g = [n \in Nat |-> Body(g, n)]
  <2> HIDE DEF Body
  <2> QED
    BY <1>4
<1>6. ComputeRegressions(facts) = g[Max({0} \cup Actions) + 1]
  BY DEF ComputeRegressions
<1> DEFINE S == {n \in Nat : g[n] \in SUBSET Actions}
<1> HIDE DEF g
<1>7. g[0] = {} /\ \A n \in Nat : g[n + 1] = Step(g[n], n)
  <2>1. g[0] = Body(g, 0)
    <3> HIDE DEF Body
    <3> QED
      BY <1>5
  <2>2. ASSUME NEW n \in Nat PROVE g[n + 1] = Step(g[n], n)
    <3>1. g[n + 1] = Body(g, n + 1)
      <4> HIDE DEF Body
      <4> QED
        BY <1>5
    <3>2. (n + 1) - 1 = n /\ n + 1 # 0
      OBVIOUS
    <3> QED
      BY <3>1, <3>2
  <2> QED
    BY <2>1, <2>2
<1>8. S = Nat
  <2>1. S \in SUBSET Nat /\ 0 \in S /\ \A n \in S : n + 1 \in S
    <3> HIDE DEF Step
    <3> QED
      BY <1>1, <1>7
  <2> HIDE DEF S
  <2> QED
    BY <2>1, NatInductive
<1>9. g \in [Nat -> SUBSET Actions]
  <2> HIDE DEF Body
  <2> QED
    BY <1>5, <1>8
<1> QED
  BY <1>6, <1>7, <1>9

\* What compute_regressions has kept of the actions with ids below n has for each of
\* them one as simple.
LEMMA KeptAreAsSimple ==
  ASSUME NEW facts \in SUBSET Facts, NEW kept \in [Nat -> SUBSET Actions],
         kept[0] = {},
         \A n \in Nat : kept[n + 1] = IF n \in SupportingActions(facts)
                                      THEN KeepSimplest(kept[n], n, facts) ELSE kept[n],
         NEW n \in Nat
  PROVE  /\ kept[n] \subseteq SupportingActions(facts)
         /\ \A b \in SupportingActions(facts) : b < n =>
              \E a \in kept[n] : IsSimpler(a, b, facts)
<1> DEFINE Supporting == SupportingActions(facts)
           Good(m) == /\ kept[m] \subseteq Supporting
                      /\ \A b \in Supporting : b < m => \E a \in kept[m] : IsSimpler(a, b, facts)
           S == {m \in Nat : Good(m)}
<1>1. /\ \A a \in Supporting : a \in Actions /\ a \in Nat
      /\ ActionCost \in [Actions -> Nat]
  BY RegressionAssumption DEF RegressionAssumption, SupportingActions
<1>2. ASSUME NEW a \in Actions, NEW b \in Actions, NEW c \in Actions,
             IsSimpler(a, b, facts), IsSimpler(b, c, facts)
      PROVE  IsSimpler(a, c, facts)
  BY <1>1, <1>2 DEF IsSimpler
<1>3. \A a \in Actions : IsSimpler(a, a, facts)
  BY <1>1 DEF IsSimpler
<1>4. Good(0)
  BY <1>1
<1>5. ASSUME NEW m \in Nat, Good(m) PROVE Good(m + 1)
  <2>1. \A b \in Supporting : b < m + 1 <=> b < m \/ b = m
    BY <1>1
  <2>2. CASE m \notin Supporting
    <3>1. kept[m + 1] = kept[m]
      BY <2>2
    <3> QED
      BY <1>5, <2>1, <2>2, <3>1
  <2>3. CASE m \in Supporting /\ \E b \in kept[m] : IsSimpler(b, m, facts)
    <3>1. kept[m + 1] = kept[m]
      BY <2>3 DEF KeepSimplest
    <3> QED
      BY <1>5, <2>1, <2>3, <3>1
  <2>4. CASE m \in Supporting /\ ~\E b \in kept[m] : IsSimpler(b, m, facts)
    <3>1. kept[m + 1] = {b \in kept[m] : Regression(b, facts) = Regression(m, facts)
                                           \/ ~IsSimpler(m, b, facts)} \cup {m}
      BY <2>4 DEF KeepSimplest
    <3>2. m \in Actions
      BY <1>1, <2>4
    <3>3. ASSUME NEW b \in Supporting, b < m + 1
          PROVE  \E a \in kept[m + 1] : IsSimpler(a, b, facts)
      <4>1. CASE b = m
        BY <1>3, <3>1, <3>2, <4>1
      <4>2. CASE b < m
        <5>1. PICK a \in kept[m] : IsSimpler(a, b, facts)
          BY <1>5, <4>2
        <5>2. a \in Actions /\ b \in Actions
          BY <1>1, <1>5, <5>1
        <5>3. CASE a \in kept[m + 1]
          BY <5>1, <5>3
        <5>4. CASE a \notin kept[m + 1]
          <6>1. IsSimpler(m, a, facts) /\ m \in kept[m + 1]
            BY <3>1, <5>4
          <6> QED
            BY <1>2, <3>2, <5>1, <5>2, <6>1
        <5> QED
          BY <5>3, <5>4
      <4> QED
        BY <2>1, <3>3, <4>1, <4>2
    <3> QED
      BY <1>5, <2>4, <3>1, <3>3
  <2> QED
    BY <2>2, <2>3, <2>4
<1>6. S = Nat
  <2> HIDE DEF Good, Supporting
  <2>1. S \in SUBSET Nat /\ 0 \in S /\ \A m \in S : m + 1 \in S
    BY <1>4, <1>5
  <2> HIDE DEF S
  <2> QED
    BY <2>1, NatInductive
<1> QED
  BY <1>6

\* compute_regressions keeps supporting actions only, and for each of them one as simple.
LEMMA KeptRegressions ==
  ASSUME NEW facts \in SUBSET Facts
  PROVE  /\ ComputeRegressions(facts) \subseteq SupportingActions(facts)
         /\ \A b \in SupportingActions(facts) :
              \E a \in ComputeRegressions(facts) : IsSimpler(a, b, facts)
<1>1. PICK kept \in [Nat -> SUBSET Actions] :
           /\ kept[0] = {}
           /\ \A n \in Nat : kept[n + 1] = IF n \in SupportingActions(facts)
                                           THEN KeepSimplest(kept[n], n, facts) ELSE kept[n]
           /\ ComputeRegressions(facts) = kept[Max({0} \cup Actions) + 1]
  BY RegressionsByAction
<1> DEFINE Ids == {0} \cup Actions
<1>2. Ids \in SUBSET Nat /\ IsFiniteSet(Ids) /\ Ids # {}
  <2>1. IsFiniteSet(Actions) /\ IsFiniteSet({0})
    BY RegressionAssumption, FS_Singleton DEF RegressionAssumption
  <2>2. IsFiniteSet({0} \cup Actions)
    BY <2>1, FS_Union
  <2> QED
    BY <2>2, RegressionAssumption DEF RegressionAssumption
<1>3. Max(Ids) \in Ids /\ \A a \in Ids : a <= Max(Ids)
  <2> HIDE DEF Ids
  <2>1. PICK k \in Nat : \A a \in Ids : a <= k
    BY <1>2, FiniteIsBounded
  <2>2. PICK n \in Ids : \A a \in Ids : a <= n
    BY <1>2, <2>1, GreatestNat
  <2>3. \E m \in Ids : \A a \in Ids : m >= a
    BY <1>2, <2>2
  <2> QED
    BY <1>2, <2>3 DEF Max
<1>4. Max(Ids) + 1 \in Nat /\ \A b \in SupportingActions(facts) : b < Max(Ids) + 1
  <2>1. \A b \in SupportingActions(facts) : b \in Ids
    BY DEF SupportingActions
  <2>2. \A b \in Ids : b \in Nat
    BY <1>2
  <2> HIDE DEF Ids
  <2> QED
    BY <2>2, <1>3, <2>1
<1> DEFINE n == Max(Ids) + 1
<1>5. n \in Nat /\ ComputeRegressions(facts) = kept[n] /\ \A b \in SupportingActions(facts) : b < n
  BY <1>1, <1>4
<1> HIDE DEF n
<1>6. /\ kept[n] \subseteq SupportingActions(facts)
      /\ \A b \in SupportingActions(facts) : b < n => \E a \in kept[n] : IsSimpler(a, b, facts)
  BY <1>1, <1>5, KeptAreAsSimple
<1> QED
  BY <1>5, <1>6

-----------------------------------------------------------------------------
(* Conjunctions, regressions and counter groups. *)

LEMMA KnownConjunctions ==
  ASSUME NEW C \in SUBSET Learnable
  PROVE  /\ Known(C) \in SUBSET SUBSET Facts
         /\ IsFiniteSet(Known(C))
         /\ DummyPrecondition \notin Known(C)
         /\ Singletons \subseteq Known(C)
<1>1. Known(C) \in SUBSET SUBSET Facts
  BY SupporterAssumption DEF SupporterAssumption, Known, Singletons
<1>2. IsFiniteSet(SUBSET Facts)
  BY RegressionAssumption, FS_SUBSET DEF RegressionAssumption
<1>3. \A c \in Known(C) : c # {}
  <2>1. \A c \in Learnable : c # {}
    BY SupporterAssumption, FS_EmptySet DEF SupporterAssumption
  <2> QED
    BY <2>1 DEF Known, Singletons
<1> QED
  BY <1>1, <1>2, <1>3, FS_Subset DEF Known, DummyPrecondition

LEMMA RegressionFacts ==
  ASSUME NEW c \in SUBSET Facts, NEW a \in Regressions(c)
  PROVE  /\ a \in Actions /\ a \in SupportingActions(c)
         /\ ~ContainsMutex(c)
         /\ Regression(a, c) \in SUBSET Facts
<1>1. ~ContainsMutex(c) /\ a \in ComputeRegressions(c)
  BY DEF Regressions
<1>2. a \in SupportingActions(c)
  BY <1>1, KeptRegressions
<1> QED
  BY <1>1, <1>2, RegressionAssumption DEF RegressionAssumption, SupportingActions, Regression

LEMMA GroupsOfConjunctions ==
  ASSUME NEW C \in SUBSET Learnable
  PROVE  /\ \A r \in DOMAIN CounterGroups(C) :
              /\ r \in SUBSET Facts
              /\ CounterGroups(C)[r].waitsFor = Preconditions(r, C)
              /\ \A k \in CounterGroups(C)[r].group :
                   /\ k = <<k[1], k[2]>> /\ k[2] \in Known(C)
                   /\ k[1] \in Regressions(k[2]) /\ Regression(k[1], k[2]) = r
         /\ \A c \in Known(C) : \A a \in Regressions(c) :
              /\ Regression(a, c) \in DOMAIN CounterGroups(C)
              /\ <<a, c>> \in CounterGroups(C)[Regression(a, c)].group
<1> DEFINE counters == UNION {{<<a, c>> : a \in Regressions(c)} : c \in Known(C)}
           R == {Regression(k[1], k[2]) : k \in counters}
           G == [r \in R |->
                   [waitsFor |-> Preconditions(r, C),
                    group |-> {k \in counters : Regression(k[1], k[2]) = r}]]
<1>1. CounterGroups(C) = G
  BY DEF CounterGroups
<1>2. \A k \in counters : k = <<k[1], k[2]>> /\ k[2] \in Known(C) /\ k[1] \in Regressions(k[2])
  OBVIOUS
<1>3. \A c \in Known(C) : \A a \in Regressions(c) : <<a, c>> \in counters
  OBVIOUS
<1>4. \A c \in Known(C) : c \in SUBSET Facts
  BY KnownConjunctions
<1> HIDE DEF counters
<1>5. \A r \in R : r \in SUBSET Facts
  BY <1>2, <1>4, RegressionFacts
<1>6. /\ DOMAIN G = R
      /\ \A r \in R : /\ G[r].waitsFor = Preconditions(r, C)
                      /\ G[r].group = {k \in counters : Regression(k[1], k[2]) = r}
  OBVIOUS
<1>7. \A c \in Known(C) : \A a \in Regressions(c) : Regression(a, c) \in R
  <2> SUFFICES ASSUME NEW c \in Known(C), NEW a \in Regressions(c) PROVE Regression(a, c) \in R
    OBVIOUS
  <2>1. <<a, c>> \in counters /\ <<a, c>>[1] = a /\ <<a, c>>[2] = c
    BY <1>3
  <2> QED
    BY <2>1
<1> HIDE DEF G, R
<1>8. \A c \in Known(C) : \A a \in Regressions(c) : <<a, c>> \in G[Regression(a, c)].group
  BY <1>3, <1>6, <1>7
<1> QED
  BY <1>1, <1>2, <1>5, <1>6, <1>7, <1>8

\* What a group waits for lies within its regression, and is never nothing.
LEMMA PreconditionsWithin ==
  ASSUME NEW C \in SUBSET Learnable, NEW r \in SUBSET Facts
  PROVE  /\ Preconditions(r, C) \subseteq Known(C) \cup {DummyPrecondition}
         /\ \A d \in Preconditions(r, C) : d \subseteq r
         /\ Preconditions(r, C) # {}
<1>1. CASE r = {}
  BY <1>1 DEF Preconditions, DummyPrecondition
<1>2. CASE r # {}
  <2>1. PICK f \in r : f \in Facts
    BY <1>2
  <2>2. {f} \in Known(C) /\ {f} \subseteq r /\ Known(C) \in SUBSET SUBSET Facts
    BY <2>1, KnownConjunctions DEF Singletons
  <2>3. NonDominatedWithin(r, Known(C)) # {}
    BY <2>2, NonDominatedAbove
  <2> QED
    BY <1>2, <2>3 DEF Preconditions, NonDominatedWithin, NonDominated
<1> QED
  BY <1>1, <1>2

-----------------------------------------------------------------------------
(* A node of the relaxed plan. *)

LEMMA MutexIsSymmetric ==
  ASSUME NEW f, NEW g, AreMutex(f, g)
  PROVE  AreMutex(g, f)
<1>1. {f, g} = {g, f}
  OBVIOUS
<1> QED
  BY <1>1 DEF AreMutex

LEMMA ConsistentRegression ==
  ASSUME NEW c \in SUBSET Facts, NEW a \in Regressions(c), RequiresNoMutex
  PROVE  ~ContainsMutex(Regression(a, c))
<1>1. a \in Actions /\ IsRegressableAndMutexFree(a, c) /\ ~ContainsMutex(c)
  BY RegressionFacts DEF SupportingActions
<1>2. \A f, g \in c : ~AreMutex(f, g)
  BY <1>1 DEF ContainsMutex
<1>3. \A f, g \in Pre[a] : ~AreMutex(f, g)
  BY <1>1 DEF RequiresNoMutex, ContainsMutex
<1>4. \A f \in c \ Eff[a] : \A g \in Pre[a] : ~AreMutex(f, g)
  BY <1>1 DEF IsRegressableAndMutexFree
<1>5. \A f \in c \ Eff[a] : \A g \in Pre[a] : ~AreMutex(g, f)
  BY <1>4, MutexIsSymmetric
<1>6. SUFFICES ASSUME NEW f \in Regression(a, c), NEW g \in Regression(a, c) PROVE ~AreMutex(f, g)
  BY DEF ContainsMutex
<1>7. (f \in c \ Eff[a] \/ f \in Pre[a]) /\ (g \in c \ Eff[a] \/ g \in Pre[a])
  BY DEF Regression
<1> QED
  BY <1>2, <1>3, <1>4, <1>5, <1>7

\* What the facts of two contexts need: what is new to the first is added, and what
\* that dominates goes.
LEMMA ContextsMerge ==
  ASSUME NEW C \in SUBSET Learnable, NEW F \in SUBSET Facts, NEW G \in SUBSET Facts, F \subseteq G
  PROVE  NonDominated(Preconditions(F, C) \cup {d \in Known(C) : d \subseteq G /\ ~(d \subseteq F)})
           = Preconditions(G, C)
<1> DEFINE K == Known(C)
           P == Preconditions(F, C)
           N == {d \in K : d \subseteq G /\ ~(d \subseteq F)}
<1>1. K \in SUBSET SUBSET Facts /\ DummyPrecondition \notin K
  BY KnownConjunctions
<1>2. CASE G = {}
  <2>1. N = {} /\ F = {} /\ P = {DummyPrecondition} /\ Preconditions(G, C) = {DummyPrecondition}
    BY <1>2 DEF Preconditions
  <2> QED
    BY <2>1 DEF NonDominated
<1>3. CASE G # {}
  <2>1. Preconditions(G, C) = NonDominatedWithin(G, K)
    BY <1>3 DEF Preconditions
  <2>2. /\ P \subseteq K \cup {DummyPrecondition} /\ \A d \in P : d \subseteq F
        /\ \A d \in K : d \subseteq F /\ F # {} => \E e \in P : d \subseteq e
    <3>1. ASSUME NEW d \in K, d \subseteq F, F # {} PROVE \E e \in P : d \subseteq e
      BY <1>1, <3>1, NonDominatedAbove DEF Preconditions
    <3> QED
      BY <3>1, PreconditionsWithin
  <2>3. \A d \in K : d # {}
    BY <1>1 DEF DummyPrecondition
  <2>4. ASSUME NEW d \in NonDominated(P \cup N) PROVE d \in NonDominatedWithin(G, K)
    <3>1. d \in P \cup N /\ \A e \in P \cup N : d \subseteq e => d = e
      BY <2>4 DEF NonDominated
    <3>2. d # DummyPrecondition
      <4> SUFFICES ASSUME d = {} PROVE FALSE
        BY DEF DummyPrecondition
      <4>1. PICK f \in G : f \in Facts
        BY <1>3
      <4>2. {f} \in K /\ {f} \subseteq G
        BY <4>1, KnownConjunctions DEF Singletons
      <4>3. CASE {f} \subseteq F
        <5>1. PICK e \in P : {f} \subseteq e
          BY <2>2, <4>2, <4>3
        <5> QED
          BY <3>1, <5>1
      <4>4. CASE ~({f} \subseteq F)
        BY <3>1, <4>2, <4>4
      <4> QED
        BY <4>3, <4>4
    <3>3. d \in K /\ d \subseteq G
      BY <2>2, <3>1, <3>2
    <3>4. ASSUME NEW e \in K, e \subseteq G, d \subseteq e PROVE d = e
      <4>1. CASE e \subseteq F
        <5>1. PICK x \in P : e \subseteq x
          BY <2>2, <2>3, <3>4, <4>1
        <5> QED
          BY <3>1, <3>4, <5>1
      <4>2. CASE ~(e \subseteq F)
        BY <3>1, <3>4, <4>2
      <4> QED
        BY <4>1, <4>2
    <3> QED
      BY <3>3, <3>4 DEF NonDominatedWithin, NonDominated
  <2>5. ASSUME NEW d \in NonDominatedWithin(G, K) PROVE d \in NonDominated(P \cup N)
    <3>1. d \in K /\ d \subseteq G /\ \A e \in K : e \subseteq G /\ d \subseteq e => d = e
      BY <2>5 DEF NonDominatedWithin, NonDominated
    <3>2. d \in P \cup N
      <4>1. CASE d \subseteq F
        <5>1. F # {}
          BY <2>3, <3>1, <4>1
        <5>2. P = NonDominatedWithin(F, K)
          BY <5>1 DEF Preconditions
        <5> QED
          BY <3>1, <4>1, <5>2 DEF NonDominatedWithin, NonDominated
      <4>2. CASE ~(d \subseteq F)
        BY <3>1, <4>2
      <4> QED
        BY <4>1, <4>2
    <3>3. ASSUME NEW e \in P \cup N, d \subseteq e PROVE d = e
      <4>1. e # {}
        BY <2>3, <3>1, <3>3
      <4>2. e \in K /\ e \subseteq G
        BY <2>2, <4>1 DEF DummyPrecondition
      <4> QED
        BY <3>1, <3>3, <4>2
    <3> QED
      BY <3>2, <3>3 DEF NonDominated
  <2> QED
    BY <2>1, <2>4, <2>5
<1> QED
  BY <1>2, <1>3

LEMMA PreconditionsAreNonDominated ==
  ASSUME NEW C \in SUBSET Learnable, NEW F \in SUBSET Facts
  PROVE  NonDominated(Preconditions(F, C)) = Preconditions(F, C)
<1>1. {d \in Known(C) : d \subseteq F /\ ~(d \subseteq F)} = {}
  OBVIOUS
<1> QED
  BY <1>1, ContextsMerge

\* The node of one conjunction.
LEMMA AloneIsApplication ==
  ASSUME DataInv, NEW c \in Known_, NEW a \in Regressions(c)
  PROVE  IsApplication([action |-> a, supported |-> {c}, preconditions |-> GroupOf(a, c).waitsFor,
                        facts |-> Regression(a, c)], a)
<1> DEFINE r == Regression(a, c)
<1>1. learned \in SUBSET Learnable /\ groups = CounterGroups(learned)
  BY DEF DataInv
<1>2. c \in SUBSET Facts
  BY <1>1, KnownConjunctions DEF Known_
<1>3. a \in Actions /\ r \in SUBSET Facts
  BY <1>2, RegressionFacts
<1>4. GroupOf(a, c).waitsFor = Preconditions(r, learned)
  BY <1>1, GroupsOfConjunctions DEF GroupOf, Known_
<1>5. /\ Preconditions(r, learned) \in SUBSET (Known_ \cup {DummyPrecondition})
      /\ \A d \in Preconditions(r, learned) : d \subseteq r
  BY <1>1, <1>3, PreconditionsWithin DEF Known_
<1>6. r \cap Eff[a] \subseteq Pre[a]
  BY DEF Regression
<1>7. RequiresNoMutex => ~ContainsMutex(r)
  BY <1>2, ConsistentRegression
<1> HIDE DEF r
<1> QED
  BY <1>3, <1>4, <1>5, <1>6, <1>7 DEF IsApplication, BsgNode, r

\* Another conjunction joins a node, or does not.
LEMMA MergeIsApplication ==
  ASSUME DataInv, NEW a, NEW node, IsApplication(node, a),
         NEW c \in Known_, a \in Regressions(c), NEW bound
  PROVE  /\ IsApplication(Merge(node, c, a, bound), a)
         /\ Merge(node, c, a, bound).supported \subseteq node.supported \cup {c}
<1> DEFINE r == Regression(a, c)
           facts == node.facts \cup r
           fresh == {d \in Known(learned) : d \subseteq facts /\ ~(d \subseteq node.facts)}
           needs == IF option.cross_context
                    THEN NonDominated(node.preconditions \cup fresh)
                    ELSE node.preconditions \cup GroupOf(a, c).waitsFor
           merged == [node EXCEPT !.facts = facts, !.preconditions = needs, !.supported = @ \cup {c}]
<1>1. learned \in SUBSET Learnable /\ groups = CounterGroups(learned)
  BY DEF DataInv
<1>2. c \in SUBSET Facts
  BY <1>1, KnownConjunctions DEF Known_
<1>3. a \in Actions /\ r \in SUBSET Facts
  BY <1>2, RegressionFacts
<1>4. /\ node \in BsgNode /\ node.action = a
      /\ \A d \in node.supported : a \in Regressions(d) /\ Regression(a, d) \subseteq node.facts
      /\ \A d \in node.preconditions : d \subseteq node.facts
      /\ node.facts \cap Eff[a] \subseteq Pre[a]
      /\ option.cross_context => node.preconditions = Preconditions(node.facts, learned)
  BY DEF IsApplication
<1>5. facts \in SUBSET Facts /\ facts \cap Eff[a] \subseteq Pre[a]
  BY <1>3, <1>4 DEF BsgNode, Regression
<1>6. ASSUME option.cross_context PROVE needs = Preconditions(facts, learned)
  <2> DEFINE F == node.facts
             P == Preconditions(F, learned)
  <2>1. F \in SUBSET Facts /\ F \subseteq facts /\ node.preconditions = P
    BY <1>4, <1>6 DEF BsgNode
  <2>2. needs = NonDominated(P \cup fresh)
    BY <1>6, <2>1
  <2>3. fresh = {d \in Known(learned) : d \subseteq facts /\ ~(d \subseteq F)}
    OBVIOUS
  <2> HIDE DEF needs, facts, fresh, F
  <2> QED
    BY <1>1, <1>5, <2>1, <2>2, <2>3, ContextsMerge
<1>7. needs \in SUBSET (Known_ \cup {DummyPrecondition}) /\ \A d \in needs : d \subseteq facts
  <2>1. CASE option.cross_context
    <3> HIDE DEF needs, facts
    <3> QED
      BY <1>1, <1>5, <1>6, <2>1, PreconditionsWithin DEF Known_
  <2>2. CASE ~option.cross_context
    <3>1. GroupOf(a, c).waitsFor = Preconditions(r, learned)
      BY <1>1, GroupsOfConjunctions DEF GroupOf, Known_
    <3>2. /\ GroupOf(a, c).waitsFor \subseteq Known_ \cup {DummyPrecondition}
          /\ \A d \in GroupOf(a, c).waitsFor : d \subseteq r
      BY <1>1, <1>3, <3>1, PreconditionsWithin DEF Known_
    <3> QED
      BY <1>4, <2>2, <3>2 DEF BsgNode
  <2> QED
    BY <2>1, <2>2
<1>8. Merge(node, c, a, bound) = node \/ (Merge(node, c, a, bound) = merged /\ ~ContainsMutex(facts))
  BY DEF Merge
<1> HIDE DEF facts, needs
<1>9. /\ merged \in BsgNode /\ merged.action = a /\ merged.facts = facts
      /\ merged.preconditions = needs /\ merged.supported = node.supported \cup {c}
  BY <1>4, <1>5, <1>7 DEF BsgNode
<1>10. r \subseteq facts /\ node.facts \subseteq facts
  BY DEF facts
<1> HIDE DEF merged, r
<1>11. ASSUME ~ContainsMutex(facts) PROVE IsApplication(merged, a)
  <2>1. \A d \in merged.supported : a \in Regressions(d) /\ Regression(a, d) \subseteq merged.facts
    BY <1>4, <1>9, <1>10 DEF r
  <2> QED
    BY <1>3, <1>5, <1>6, <1>7, <1>9, <1>11, <2>1 DEF IsApplication
<1> QED
  BY <1>8, <1>9, <1>11

\* The recursive function of MergeAll.
MergedBy(f, alone, order, a, bound) ==
  f = [i \in 0 .. Len(order) |-> IF i = 0 THEN alone ELSE Merge(f[i - 1], order[i], a, bound)]

\* Whatever joins it and in whatever order, a node stays one application of its action.
LEMMA MergeAllIsApplication ==
  ASSUME DataInv, NEW a, NEW alone, IsApplication(alone, a),
         NEW S \in SUBSET Known_, \A c \in S : a \in Regressions(c), alone.supported \subseteq S,
         NEW order \in Seq(S), NEW bound
  PROVE  /\ IsApplication(MergeAll(alone, order, a, bound), a)
         /\ MergeAll(alone, order, a, bound).supported \subseteq S
<1> DEFINE X == {node \in BsgNode : IsApplication(node, a) /\ node.supported \subseteq S}
           k == Len(order)
           G == [i \in 1 .. k |-> [node \in X |-> Merge(node, order[i], a, bound)]]
           g == CHOOSE f : MergedBy(f, alone, order, a, bound)
<1>1. k \in Nat /\ \A i \in 1 .. k : order[i] \in S
  BY LenProperties
<1>2. ASSUME NEW node \in X, NEW i \in 1 .. k PROVE Merge(node, order[i], a, bound) \in X
  <2>1. /\ IsApplication(Merge(node, order[i], a, bound), a)
        /\ Merge(node, order[i], a, bound).supported \subseteq node.supported \cup {order[i]}
    BY <1>1, MergeIsApplication
  <2> QED
    BY <1>1, <2>1 DEF IsApplication
<1>3. alone \in X
  BY DEF IsApplication
<1>4. PICK f \in [0 .. k -> X] : IteratesUpto(f, k, alone, G)
  <2>1. G \in [1 .. k -> [X -> X]]
    <3> HIDE DEF X
    <3> QED
      BY <1>2
  <2> HIDE DEF X, G, k
  <2> QED
    BY <1>1, <1>3, <2>1, RecursionUpto
<1>5. MergedBy(f, alone, order, a, bound)
  <2>1. \A i \in 0 .. k : i # 0 => G[i][f[i - 1]] = Merge(f[i - 1], order[i], a, bound)
    <3> SUFFICES ASSUME NEW i \in 0 .. k, i # 0
                 PROVE  G[i][f[i - 1]] = Merge(f[i - 1], order[i], a, bound)
      OBVIOUS
    <3>1. i \in 1 .. k /\ f[i - 1] \in X
      <4> HIDE DEF X, G, k
      <4> QED
        BY <1>1
    <3> HIDE DEF X, k
    <3> QED
      BY <3>1
  <2>2. f = [i \in 0 .. k |-> IF i = 0 THEN alone ELSE G[i][f[i - 1]]]
    BY <1>4 DEF IteratesUpto
  <2> HIDE DEF G, X
  <2>3. [i \in 0 .. k |-> IF i = 0 THEN alone ELSE G[i][f[i - 1]]]
          = [i \in 0 .. k |-> IF i = 0 THEN alone ELSE Merge(f[i - 1], order[i], a, bound)]
    BY <2>1
  <2> QED
    BY <2>2, <2>3, Zenon DEF MergedBy
<1>6. MergedBy(g, alone, order, a, bound)
  BY <1>5
<1>7. MergeAll(alone, order, a, bound) = g[k]
  BY Zenon DEF MergeAll, MergedBy
<1> HIDE DEF g
<1>8. \A i \in 0 .. k : g[i] = IF i = 0 THEN alone ELSE Merge(g[i - 1], order[i], a, bound)
  BY <1>6, Zenon DEF MergedBy
<1> DEFINE T == {n \in Nat : n <= k => g[n] \in X}
<1>9. T = Nat
  <2> HIDE DEF X, k
  <2>1. T \in SUBSET Nat /\ 0 \in T
    BY <1>1, <1>3, <1>8
  <2>2. ASSUME NEW n \in T PROVE n + 1 \in T
    <3>1. SUFFICES ASSUME n + 1 <= k PROVE g[n + 1] \in X
      OBVIOUS
    <3>2. n \in Nat /\ g[n] \in X /\ n + 1 \in 1 .. k /\ n + 1 \in 0 .. k /\ n + 1 # 0 /\ (n + 1) - 1 = n
      BY <1>1, <3>1
    <3>3. g[n + 1] = Merge(g[n], order[n + 1], a, bound)
      BY <1>8, <3>2
    <3> QED
      BY <1>2, <3>2, <3>3
  <2> HIDE DEF T
  <2> QED
    BY <2>1, <2>2, NatInductive
<1>10. g[k] \in X
  BY <1>1, <1>9
<1> QED
  BY <1>7, <1>10

\* Its preconditions are reduced once more at the end.
LEMMA ReducedIsApplication ==
  ASSUME DataInv, NEW a, NEW node, IsApplication(node, a)
  PROVE  LET reduced == [node EXCEPT !.preconditions = NonDominated(@)]
         IN  IsApplication(reduced, a) /\ reduced.supported = node.supported
<1> DEFINE needs == NonDominated(node.preconditions)
           reduced == [node EXCEPT !.preconditions = needs]
<1>1. learned \in SUBSET Learnable
  BY DEF DataInv
<1>2. needs \subseteq node.preconditions
  BY DEF NonDominated
<1>3. node \in BsgNode /\ node.facts \in SUBSET Facts
  BY DEF IsApplication, BsgNode
<1>4. option.cross_context => needs = node.preconditions
  BY <1>1, <1>3, PreconditionsAreNonDominated DEF IsApplication
<1> HIDE DEF needs
<1>5. /\ reduced \in BsgNode /\ reduced.action = node.action /\ reduced.supported = node.supported
      /\ reduced.facts = node.facts /\ reduced.preconditions = needs
  BY <1>2, <1>3 DEF BsgNode
<1> HIDE DEF reduced
<1>6. IsApplication(reduced, a)
  BY <1>2, <1>4, <1>5 DEF IsApplication
<1> QED
  BY <1>5, <1>6 DEF reduced, needs

-----------------------------------------------------------------------------
(* The inductive invariant of an evaluation's data. *)

LEMMA DataInit == Init => DataInv
<1> SUFFICES ASSUME Init PROVE DataInv
  OBVIOUS
<1>1. {} \in SUBSET Learnable /\ learned = {} /\ Known_ = Known({})
  BY DEF Init, Known_
<1>2. DOMAIN supporters = Known_ /\ \A c \in Known_ : supporters[c] \subseteq Regressions(c)
  BY <1>1 DEF Init, NoSupporters
<1>3. DOMAIN value = DOMAIN groups
  BY DEF Init, Zero
<1>4. ~Extracted /\ pc = "idle"
  BY DEF Init, Extracted, Evaluated
<1> QED
  BY <1>1, <1>2, <1>3, <1>4 DEF DataInv, Init

\* What the counters offer as supporters are actions with a regression.
LEMMA OffersAreRegressions ==
  ASSUME DataInv, NEW completed \in SUBSET DOMAIN groups, NEW additional,
         NEW o \in Offers(completed, additional)
  PROVE  o[1] \in Known_ /\ o[3] \in Regressions(o[1])
<1>1. PICK r \in completed : \E k \in groups[r].group :
           o = <<k[2], groupCost[r] + additional + ActionCost[k[1]], k[1]>>
  BY DEF Offers
<1>2. PICK k \in groups[r].group :
           o = <<k[2], groupCost[r] + additional + ActionCost[k[1]], k[1]>>
  BY <1>1
<1>3. k[2] \in Known_ /\ k[1] \in Regressions(k[2])
  BY GroupsOfConjunctions DEF DataInv, Known_
<1> QED
  BY <1>2, <1>3

LEMMA WaysAreRegressions ==
  ASSUME DataInv, NEW completed \in SUBSET DOMAIN groups, NEW c \in Known_
  PROVE  Ways(c, completed) \subseteq Regressions(c)
<1> SUFFICES ASSUME NEW a \in Ways(c, completed) PROVE a \in Regressions(c)
  OBVIOUS
<1>1. PICK r \in completed : <<a, c>> \in groups[r].group
  BY DEF Ways
<1>2. \A k \in groups[r].group : k[1] \in Regressions(k[2])
  BY GroupsOfConjunctions DEF DataInv
<1>3. <<a, c>>[1] \in Regressions(<<a, c>>[2])
  BY <1>1, <1>2
<1> QED
  BY <1>3

LEMMA DataNext == DataInv /\ [Next]_vars => DataInv'
<1> SUFFICES ASSUME DataInv, [Next]_vars PROVE DataInv'
  OBVIOUS
<1>1. /\ learned \in SUBSET Learnable /\ groups = CounterGroups(learned)
      /\ option \in Options /\ state \in EvaluatedStates
      /\ pc \in {"idle", "search", "extract"}
      /\ DOMAIN value = DOMAIN groups
      /\ DOMAIN supporters = Known_ /\ \A c \in Known_ : supporters[c] \subseteq Regressions(c)
      /\ pc = "extract" \/ Extracted => ~option.no_relaxed_plan_extraction
  BY DEF DataInv
<1>2. CASE UNCHANGED vars
  BY <1>1, <1>2 DEF vars, searchVars, planVars, DataInv, Known_, Extracted, Evaluated
<1>3. CASE Relearn
  <2>1. learned' \in SUBSET Learnable
    BY <1>1, <1>3 DEF Relearn
  <2>2. /\ supporters' = NoSupporters(learned') /\ groups' = CounterGroups(learned')
        /\ value' = Zero(groups') /\ result' = NONE /\ pc' = "idle" /\ UNCHANGED <<option, state>>
    BY <1>3 DEF Relearn
  <2>3. Known_' = Known(learned')
    BY DEF Known_
  <2>4. (DOMAIN supporters = Known_ /\ \A c \in Known_ : supporters[c] \subseteq Regressions(c))'
    BY <2>2, <2>3 DEF NoSupporters
  <2>5. (DOMAIN value = DOMAIN groups)'
    BY <2>2 DEF Zero
  <2>6. ~Extracted'
    BY <2>2 DEF Extracted, Evaluated
  <2> QED
    BY <1>1, <2>1, <2>2, <2>4, <2>5, <2>6 DEF DataInv
<1>4. ASSUME NEW s \in EvaluatedStates, Evaluate(s) PROVE DataInv'
  <2>1. /\ supporters' = NoSupporters(learned) /\ UNCHANGED <<learned, groups, option>>
        /\ value' = [r \in DOMAIN value |-> ResetValue(r)] /\ pc' = "search" /\ state' = s
    BY <1>4 DEF Evaluate
  <2>2. Known_' = Known(learned)
    BY <2>1 DEF Known_
  <2>3. (DOMAIN supporters = Known_ /\ \A c \in Known_ : supporters[c] \subseteq Regressions(c))'
    BY <2>1, <2>2 DEF NoSupporters
  <2>4. (DOMAIN value = DOMAIN groups)'
    BY <1>1, <2>1
  <2>5. ~Extracted'
    BY <2>1 DEF Extracted, Evaluated
  <2> QED
    BY <1>1, <2>1, <2>3, <2>4, <2>5 DEF DataInv
<1>5. CASE Finish
  <2>1. PICK v : Return(v)
    BY <1>5 DEF Finish
  <2>2. UNCHANGED <<learned, groups, option, state, supporters, value>> /\ best' = v
    BY <2>1 DEF Return
  <2>3. pc' \in {"idle", "search", "extract"}
    BY <2>1 DEF Return, StartExtraction
  <2>4. (pc = "extract" \/ Extracted => ~option.no_relaxed_plan_extraction)'
    BY <2>1, <2>2 DEF Return, StartExtraction, Extracted, Evaluated
  <2> QED
    BY <1>1, <2>2, <2>3, <2>4 DEF DataInv, Known_
<1>6. CASE PopEntry
  <2>1. UNCHANGED <<learned, groups, option, pc, state>> /\ pc = "search"
    BY <1>6 DEF PopEntry
  <2>2. DOMAIN value' = DOMAIN groups' /\ DOMAIN supporters' = Known_'
    BY <1>1, <1>6, <2>1 DEF PopEntry, Trigger, Known_
  <2>3. \A c \in Known_ : supporters'[c] \subseteq Regressions(c)
    <3>1. CASE UNCHANGED supporters
      BY <1>1, <3>1
    <3>2. CASE \E e \in queue : Trigger(e[2])
      <4>1. PICK e \in queue : Trigger(e[2])
        BY <3>2
      <4> DEFINE triggered == WaitingFor(e[2])
                 completed == {r \in triggered : value[r] = 1}
                 offers == Offers(completed, cost[e[2]])
                 By(d) == {o \in offers : o[1] = d}
      <4>2. completed \in SUBSET DOMAIN groups
        BY DEF WaitingFor
      <4> HIDE DEF completed
      <4>3. \A o \in offers : o[3] \in Regressions(o[1])
        BY <4>2, OffersAreRegressions
      <4>4. \A c \in Known_ : supporters'[c] = supporters[c]
                               \/ supporters'[c] = BestActions(c, LowestCost(c, By(c)), By(c))
        BY <1>1, <4>1 DEF Trigger, completed
      <4>5. \A c, lowest : c \in Known_ => BestActions(c, lowest, By(c)) \subseteq Regressions(c)
        <5> SUFFICES ASSUME NEW c \in Known_, NEW lowest, NEW a \in BestActions(c, lowest, By(c))
                     PROVE  a \in Regressions(c)
          OBVIOUS
        <5>1. a \in supporters[c] \/ \E o \in offers : o[1] = c /\ a = o[3]
          BY DEF BestActions
        <5> QED
          BY <1>1, <4>3, <5>1
      <4> HIDE DEF By
      <4> QED
        BY <1>1, <4>4, <4>5
    <3> QED
      BY <1>6, <3>1, <3>2 DEF PopEntry
  <2> QED
    BY <1>1, <2>1, <2>2, <2>3 DEF DataInv, Known_, Extracted, Evaluated
<1>7. CASE NextLayer
  <2> DEFINE scheduled == {e[2] : e \in queue}
             left == [r \in DOMAIN value |-> value[r] - Cardinality(groups[r].waitsFor \cap scheduled)]
             completed == {r \in DOMAIN value : left[r] = 0 /\ value[r] > 0}
             new == {c \in DOMAIN supporters : cost[c] = UNREACHED /\ Ways(c, completed) # {}}
  <2>1. UNCHANGED <<learned, groups, option, pc, state>> /\ pc = "search"
        /\ value' = left /\ supporters' \in SupporterChoices(new, completed)
    BY <1>7 DEF NextLayer
  <2>2. completed \in SUBSET DOMAIN groups
    BY <1>1
  <2>3. DOMAIN value' = DOMAIN groups'
    BY <1>1, <2>1
  <2> HIDE DEF completed, new, left
  <2>4. PICK first : /\ \A c \in new : first[c] \in Ways(c, completed)
                     /\ supporters' = [c \in DOMAIN supporters |->
                          IF c \notin new THEN supporters[c]
                          ELSE IF Greedy THEN {first[c]} ELSE Ways(c, completed)]
    BY <2>1 DEF SupporterChoices
  <2>5. \A c \in Known_ : Ways(c, completed) \subseteq Regressions(c)
    BY <2>2, WaysAreRegressions
  <2>6. DOMAIN supporters' = Known_ /\ \A c \in Known_ : supporters'[c] \subseteq Regressions(c)
    BY <1>1, <2>4, <2>5
  <2> QED
    BY <1>1, <2>1, <2>3, <2>6 DEF DataInv, Known_, Extracted, Evaluated
<1>8. CASE AddNode
  <2>1. UNCHANGED <<learned, groups, option, state, supporters, value>> /\ pc = "extract"
        /\ pc' \in {"idle", "extract"}
    BY <1>8 DEF AddNode, searchVars
  <2> QED
    BY <1>1, <2>1 DEF DataInv, Known_, Extracted, Evaluated
<1> QED
  BY <1>2, <1>3, <1>4, <1>5, <1>6, <1>7, <1>8 DEF Next, Search

LEMMA DataAlways == Spec => []DataInv
<1> QED
  BY DataInit, DataNext, PTL DEF Spec

-----------------------------------------------------------------------------
(* The relaxed plan. *)

\* What AddNode adds: one application of an action that supports open conjunctions.
LEMMA AddedNode ==
  ASSUME DataInv, GraphInv, AddNode
  PROVE  \E a, node :
           /\ IsApplication(node, a) /\ node.supported \subseteq openConjunctions
           /\ bsg' = Append(bsg, node)
           /\ supporterPos' = SupporterPos(node, Len(bsg) + 1)
           /\ openConjunctions' = StillOpen(node)
<1>1. PICK selected \in openConjunctions : \E a \in supporters[selected] :
        /\ \A c \in openConjunctions : cost[c] <= cost[selected]
        /\ \E order \in MergeOrders(IF option.use_singleton_subgoals THEN {}
                                    ELSE {c \in openConjunctions \ {selected} : a \in supporters[c]}) :
             LET alone == [action |-> a, supported |-> {selected},
                           preconditions |-> GroupOf(a, selected).waitsFor,
                           facts |-> Regression(a, selected)]
                 node == [MergeAll(alone, order, a, cost[selected]) EXCEPT !.preconditions = NonDominated(@)]
             IN /\ bsg' = Append(bsg, node)
                /\ supporterPos' = SupporterPos(node, Len(bsg) + 1)
                /\ openConjunctions' = StillOpen(node)
                /\ preferred' = IF \A c \in node.preconditions : InitiallyTrue(c)
                                THEN preferred \cup {a} ELSE preferred
  BY Zenon DEF AddNode
<1>2. PICK a \in supporters[selected] :
        \E order \in MergeOrders(IF option.use_singleton_subgoals THEN {}
                                 ELSE {c \in openConjunctions \ {selected} : a \in supporters[c]}) :
             LET alone == [action |-> a, supported |-> {selected},
                           preconditions |-> GroupOf(a, selected).waitsFor,
                           facts |-> Regression(a, selected)]
                 node == [MergeAll(alone, order, a, cost[selected]) EXCEPT !.preconditions = NonDominated(@)]
             IN /\ bsg' = Append(bsg, node)
                /\ supporterPos' = SupporterPos(node, Len(bsg) + 1)
                /\ openConjunctions' = StillOpen(node)
                /\ preferred' = IF \A c \in node.preconditions : InitiallyTrue(c)
                                THEN preferred \cup {a} ELSE preferred
  BY <1>1, Zenon
<1> DEFINE candidates == IF option.use_singleton_subgoals THEN {}
                         ELSE {c \in openConjunctions \ {selected} : a \in supporters[c]}
           alone == [action |-> a, supported |-> {selected},
                     preconditions |-> GroupOf(a, selected).waitsFor,
                     facts |-> Regression(a, selected)]
           S == {c \in openConjunctions : a \in supporters[c]}
<1>3. PICK order \in MergeOrders(candidates) :
        LET node == [MergeAll(alone, order, a, cost[selected]) EXCEPT !.preconditions = NonDominated(@)]
        IN /\ bsg' = Append(bsg, node)
           /\ supporterPos' = SupporterPos(node, Len(bsg) + 1)
           /\ openConjunctions' = StillOpen(node)
  BY <1>2
<1>4. /\ openConjunctions \subseteq Known_ /\ \A c \in Known_ : supporters[c] \subseteq Regressions(c)
      /\ learned \in SUBSET Learnable
  BY DEF DataInv, GraphInv
<1>5. S \in SUBSET Known_ /\ selected \in S /\ \A c \in S : a \in Regressions(c)
  BY <1>4
<1>6. order \in Seq(S)
  <2>1. candidates \in SUBSET S /\ candidates \in SUBSET Known(learned)
    BY <1>4 DEF Known_
  <2>2. IsFiniteSet(candidates)
    BY <1>4, <2>1, KnownConjunctions, FS_Subset
  <2>3. Cardinality(candidates) \in Nat
    BY <2>2, FS_CardinalityType
  <2>4. order \in [1 .. Cardinality(candidates) -> candidates]
    BY DEF MergeOrders, SetToSeqs
  <2> HIDE DEF candidates, S
  <2>5. order \in [1 .. Cardinality(candidates) -> S]
    BY <2>1, <2>4
  <2> QED
    BY <2>3, <2>5
<1>7. IsApplication(alone, a) /\ alone.supported = {selected}
  BY <1>4, <1>5, AloneIsApplication
<1> HIDE DEF candidates, alone, S
<1> DEFINE merged == MergeAll(alone, order, a, cost[selected])
<1>8. IsApplication(merged, a) /\ merged.supported \subseteq S
  BY <1>5, <1>6, <1>7, MergeAllIsApplication
<1> HIDE DEF merged
<1> DEFINE node == [merged EXCEPT !.preconditions = NonDominated(@)]
<1>9. IsApplication(node, a) /\ node.supported = merged.supported
  BY <1>8, ReducedIsApplication
<1>10. /\ bsg' = Append(bsg, node)
       /\ supporterPos' = SupporterPos(node, Len(bsg) + 1)
       /\ openConjunctions' = StillOpen(node)
  BY <1>3 DEF merged
<1> HIDE DEF node
<1>11. node.supported \subseteq openConjunctions
  BY <1>8, <1>9 DEF S
<1> QED
  BY <1>9, <1>10, <1>11

\* A node needs nothing that it supports.
LEMMA NodeNeedsNothingItSupports ==
  ASSUME DataInv, AddsNothingItRequires, NEW a, NEW node, IsApplication(node, a)
  PROVE  node.preconditions \cap node.supported = {}
<1> SUFFICES ASSUME NEW c \in node.preconditions, c \in node.supported PROVE FALSE
  OBVIOUS
<1>1. /\ a \in Actions /\ c \in Known_ /\ a \in Regressions(c) /\ c \subseteq node.facts
      /\ node.facts \cap Eff[a] \subseteq Pre[a]
  BY DEF IsApplication, BsgNode
<1>2. c \in SUBSET Facts
  BY <1>1, KnownConjunctions DEF DataInv, Known_
<1>3. Eff[a] \cap c # {}
  BY <1>1, <1>2, RegressionFacts DEF SupportingActions
<1> QED
  BY <1>1, <1>3 DEF AddsNothingItRequires

LEMMA GraphAddNode ==
  ASSUME DataInv, GraphInv, AddNode
  PROVE  GraphInv'
<1>1. PICK a, node :
           /\ IsApplication(node, a) /\ node.supported \subseteq openConjunctions
           /\ bsg' = Append(bsg, node)
           /\ supporterPos' = SupporterPos(node, Len(bsg) + 1)
           /\ openConjunctions' = StillOpen(node)
  BY AddedNode
<1>2. UNCHANGED <<learned, option, state>>
  BY DEF AddNode
<1>3. BsgNode' = BsgNode /\ \A n, b : IsApplication(n, b)' <=> IsApplication(n, b)
  BY <1>2 DEF BsgNode, Known_, IsApplication
<1>4. Known_' = Known_ /\ \A c : InitiallyTrue(c)' <=> InitiallyTrue(c)
  BY <1>2 DEF Known_, InitiallyTrue
<1>5. node \in BsgNode /\ node.action = a /\ node.preconditions \subseteq Known_ \cup {DummyPrecondition}
  BY <1>1 DEF IsApplication, BsgNode
<1>6. bsg \in Seq(BsgNode) /\ bsg # <<>>
  BY DEF GraphInv
<1>7. bsg' \in Seq(BsgNode) /\ bsg' # <<>> /\ Len(bsg') = Len(bsg) + 1 /\ Len(bsg) \in Nat
  BY <1>1, <1>5, <1>6, AppendProperties
<1>8. InitiallyTrue(DummyPrecondition)
  BY DEF InitiallyTrue, DummyPrecondition
<1>9. openConjunctions' \subseteq {c \in Known_ : ~InitiallyTrue(c)}
  BY <1>1, <1>5, <1>8 DEF StillOpen, GraphInv
<1>10. supporterPos' \in [Known_ -> Nat]
  BY <1>1, <1>7 DEF SupporterPos, GraphInv
<1>11. \A c \in Known_ : InitiallyTrue(c) => supporterPos'[c] = NO_SUPPORTER
  BY <1>1 DEF SupporterPos, GraphInv
<1>12. ASSUME NEW i \in DOMAIN bsg' \ {1} PROVE IsApplication(bsg'[i], bsg'[i].action)
  <2>1. CASE i = Len(bsg) + 1
    <3>1. bsg'[i] = node
      BY <1>1, <1>5, <1>6, <2>1, AppendProperties
    <3> QED
      BY <1>1, <1>5, <3>1
  <2>2. CASE i # Len(bsg) + 1
    <3>1. i \in 1 .. Len(bsg) /\ i # 1
      BY <1>7, <2>2
    <3>2. bsg'[i] = bsg[i] /\ i \in DOMAIN bsg \ {1}
      BY <1>1, <1>5, <1>6, <3>1, AppendProperties
    <3> QED
      BY <3>2 DEF GraphInv
  <2> QED
    BY <2>1, <2>2
<1>13. Extracted' => openConjunctions' = {}
  BY DEF AddNode, Extracted, Evaluated
<1>14. (\A i \in DOMAIN bsg \ {1} : IsApplication(bsg[i], bsg[i].action))'
  BY <1>3, <1>12
<1> QED
  BY <1>3, <1>4, <1>7, <1>9, <1>10, <1>11, <1>13, <1>14 DEF GraphInv

LEMMA SupportAddNode ==
  ASSUME DataInv, GraphInv, AddsNothingItRequires, SupportInv, AddNode
  PROVE  SupportInv'
<1>1. PICK a, node :
           /\ IsApplication(node, a) /\ node.supported \subseteq openConjunctions
           /\ bsg' = Append(bsg, node)
           /\ supporterPos' = SupporterPos(node, Len(bsg) + 1)
           /\ openConjunctions' = StillOpen(node)
  BY AddedNode
<1>2. UNCHANGED <<learned, option, state>>
  BY DEF AddNode
<1>3. Known_' = Known_ /\ \A c : InitiallyTrue(c)' <=> InitiallyTrue(c)
  BY <1>2 DEF Known_, InitiallyTrue
<1>4. node \in BsgNode
  BY <1>1 DEF IsApplication
<1> DEFINE end == Len(bsg) + 1
<1>5. bsg \in Seq(BsgNode) /\ Len(bsg) \in Nat
  BY LenProperties DEF GraphInv
<1>6. /\ DOMAIN bsg' = 1 .. end /\ bsg'[end] = node
      /\ \A i \in 1 .. Len(bsg) : bsg'[i] = bsg[i]
  BY <1>1, <1>4, <1>5, AppendProperties
<1>7. /\ DOMAIN supporterPos = Known_
      /\ openConjunctions \subseteq Known_ /\ \A c \in openConjunctions : ~InitiallyTrue(c)
      /\ \A c \in Known_ : InitiallyTrue(c) => supporterPos[c] = NO_SUPPORTER
  BY DEF GraphInv
<1>8. \A c \in Known_ : supporterPos'[c] = IF c \in node.supported THEN end ELSE supporterPos[c]
  BY <1>1, <1>7 DEF SupporterPos
<1>9. end \in Nat /\ DOMAIN bsg = 1 .. Len(bsg) /\ end \in 1 .. end
  BY <1>5
<1>10. SUFFICES ASSUME NEW i \in DOMAIN bsg', NEW c \in bsg'[i].preconditions \cap Known_
                PROVE  IF InitiallyTrue(c) THEN supporterPos'[c] = NO_SUPPORTER
                       ELSE \/ c \in openConjunctions'
                            \/ /\ supporterPos'[c] > i /\ supporterPos'[c] \in DOMAIN bsg'
                               /\ c \in bsg'[supporterPos'[c]].supported
  BY <1>3 DEF SupportInv, IsSupported
<1>11. CASE InitiallyTrue(c)
  BY <1>1, <1>7, <1>8, <1>11
<1>12. CASE ~InitiallyTrue(c) /\ i = end
  <2>1. c \in node.preconditions /\ c \notin node.supported
    BY <1>1, <1>6, <1>12, NodeNeedsNothingItSupports
  <2> QED
    BY <1>1, <1>12, <2>1 DEF StillOpen
<1>13. CASE ~InitiallyTrue(c) /\ i # end
  <2>1. i \in 1 .. Len(bsg) /\ i \in DOMAIN bsg /\ i < end
    BY <1>5, <1>6, <1>9, <1>13
  <2>2. c \in bsg[i].preconditions /\ c \in Known_
    BY <1>6, <2>1
  <2>3. CASE c \in node.supported
    BY <1>6, <1>8, <1>9, <1>13, <2>1, <2>2, <2>3
  <2>4. CASE c \notin node.supported
    <3>1. IsSupported(c, i)
      BY <2>1, <2>2 DEF SupportInv
    <3>2. CASE c \in openConjunctions
      BY <1>1, <1>13, <2>4, <3>2 DEF StillOpen
    <3>3. CASE c \notin openConjunctions
      <4>1. /\ supporterPos[c] > i /\ supporterPos[c] \in 1 .. Len(bsg)
            /\ c \in bsg[supporterPos[c]].supported
        BY <1>9, <1>13, <3>1, <3>3 DEF IsSupported
      <4>2. supporterPos'[c] = supporterPos[c] /\ bsg'[supporterPos[c]] = bsg[supporterPos[c]]
            /\ supporterPos[c] \in 1 .. end
        BY <1>5, <1>6, <1>8, <2>2, <2>4, <4>1
      <4> QED
        BY <1>6, <1>13, <4>1, <4>2
    <3> QED
      BY <3>2, <3>3
  <2> QED
    BY <2>3, <2>4
<1> QED
  BY <1>11, <1>12, <1>13

\* The end node: what it needs and does not hold is open.
LEMMA PlanFinish ==
  ASSUME DataInv, PlanInv, Finish
  PROVE  PlanInv'
<1>1. PICK v : Return(v)
  BY DEF Finish
<1>2. UNCHANGED <<learned, option, state>> /\ best' = v /\ pc = "search" /\ pc' # "search"
  BY <1>1 DEF Return, Finish, StartExtraction
<1>3. SUFFICES ASSUME pc' = "extract" \/ Extracted'
               PROVE  GraphInv' /\ (AddsNothingItRequires' => SupportInv')
  BY <1>2 DEF PlanInv
<1>4. StartExtraction
  BY <1>1, <1>2, <1>3 DEF Return, Extracted, Evaluated
<1> DEFINE goals == NonDominated(GoalConjunctions)
           node == [action |-> END_ACTION, supported |-> {}, preconditions |-> goals, facts |-> GoalFacts]
<1>5. /\ bsg' = <<node>> /\ openConjunctions' = {c \in goals : ~InitiallyTrue(c)}
      /\ supporterPos' = supporterPos
  BY <1>4 DEF StartExtraction
<1>6. goals \subseteq Known_
  BY DEF NonDominated, GoalConjunctions, Known_
<1>7. Known_' = Known_ /\ BsgNode' = BsgNode /\ \A c : InitiallyTrue(c)' <=> InitiallyTrue(c)
  BY <1>2 DEF Known_, InitiallyTrue, BsgNode
<1> HIDE DEF goals
<1>8. node \in BsgNode /\ node.preconditions = goals
  BY <1>6, RegressionAssumption DEF RegressionAssumption, BsgNode
<1> HIDE DEF node
<1>9. bsg' \in Seq(BsgNode) /\ bsg' # <<>> /\ DOMAIN bsg' = {1} /\ bsg'[1] = node
  BY <1>5, <1>8
<1>10. supporterPos' = [c \in Known_ |-> NO_SUPPORTER]
  BY <1>2, <1>5 DEF PlanInv, NoPositions, Known_
<1>11. Extracted' => openConjunctions' = {}
  BY <1>2, <1>4, <1>5 DEF StartExtraction, Extracted, Evaluated, goals
<1>12. GraphInv'
  BY <1>5, <1>6, <1>7, <1>9, <1>10, <1>11 DEF GraphInv, NO_SUPPORTER
<1>13. SupportInv'
  BY <1>5, <1>7, <1>8, <1>9, <1>10 DEF SupportInv, IsSupported
<1> QED
  BY <1>12, <1>13

LEMMA PlanNext == DataInv /\ PlanInv /\ [Next]_vars => PlanInv'
<1> SUFFICES ASSUME DataInv, PlanInv, [Next]_vars PROVE PlanInv'
  OBVIOUS
<1>1. CASE UNCHANGED vars
  BY <1>1 DEF vars, searchVars, planVars, PlanInv, Known_, Extracted, Evaluated, GraphInv, SupportInv,
              IsSupported, InitiallyTrue, IsApplication, BsgNode
<1>2. CASE Relearn
  BY <1>2 DEF Relearn, PlanInv, Extracted, Evaluated
<1>3. ASSUME NEW s \in EvaluatedStates, Evaluate(s) PROVE PlanInv'
  BY <1>3 DEF Evaluate, PlanInv, Extracted, Evaluated
<1>4. CASE Finish
  BY <1>4, PlanFinish
<1>5. CASE PopEntry
  BY <1>5 DEF PopEntry, planVars, PlanInv, Extracted, Evaluated
<1>6. CASE NextLayer
  BY <1>6 DEF NextLayer, planVars, PlanInv, Extracted, Evaluated
<1>7. CASE AddNode
  <2>1. pc = "extract" /\ pc' # "search"
    BY <1>7 DEF AddNode
  <2> QED
    BY <1>7, <2>1, GraphAddNode, SupportAddNode DEF PlanInv
<1> QED
  BY <1>1, <1>2, <1>3, <1>4, <1>5, <1>6, <1>7 DEF Next, Search

LEMMA PlanAlways == Spec => []PlanInv
<1>1. Init => PlanInv
  BY DEF Init, PlanInv, Extracted, Evaluated
<1> QED
  BY <1>1, DataAlways, PlanNext, PTL DEF Spec

\* Property SupportersComeLater: in an extracted plan nothing is open, and supporters
\* only move to later positions.
THEOREM SupportersAlwaysComeLater ==
  ASSUME AddsNothingItRequires
  PROVE  Spec => []SupportersComeLater
<1>1. PlanInv => SupportersComeLater
  <2> SUFFICES ASSUME PlanInv, Extracted PROVE SupportersComeLater
    BY DEF SupportersComeLater
  <2>1. /\ openConjunctions = {} /\ \A c \in Known_ : InitiallyTrue(c) => supporterPos[c] = NO_SUPPORTER
        /\ \A i \in DOMAIN bsg : \A c \in bsg[i].preconditions \cap Known_ : IsSupported(c, i)
    BY DEF PlanInv, GraphInv, SupportInv
  <2> QED
    BY <2>1 DEF SupportersComeLater, IsSupported
<1> QED
  BY <1>1, PlanAlways, PTL

\* Property RelaxedPlanReachesGoal: from the last node to the first, what a node needs
\* holds from the start or has been supported.
THEOREM RelaxedPlanAlwaysReachesGoal ==
  ASSUME AddsNothingItRequires
  PROVE  Spec => []RelaxedPlanReachesGoal
<1>1. PlanInv => RelaxedPlanReachesGoal
  <2> SUFFICES ASSUME PlanInv, Extracted PROVE RelaxedPlanReachesGoal
    BY DEF RelaxedPlanReachesGoal
  <2>1. /\ bsg \in Seq(BsgNode) /\ openConjunctions = {} /\ supporterPos \in [Known_ -> Nat]
        /\ \A i \in DOMAIN bsg : \A c \in bsg[i].preconditions \cap Known_ : IsSupported(c, i)
    BY DEF PlanInv, GraphInv, SupportInv
  <2>2. Len(bsg) \in Nat /\ DOMAIN bsg = 1 .. Len(bsg) /\ \A i \in 1 .. Len(bsg) : bsg[i] \in BsgNode
    BY <2>1, LenProperties
  <2>3. SUFFICES ASSUME NEW i \in DOMAIN bsg, NEW c \in bsg[i].preconditions
                 PROVE  c \in ReachedBefore(i)
    BY DEF RelaxedPlanReachesGoal
  <2>4. c \in Known_ \cup {DummyPrecondition}
    BY <2>2, <2>3 DEF BsgNode
  <2>5. CASE c = DummyPrecondition \/ (c \in Known_ /\ InitiallyTrue(c))
    BY <2>5 DEF ReachedBefore
  <2>6. CASE c \in Known_ /\ ~InitiallyTrue(c)
    <3> DEFINE j == supporterPos[c]
    <3>1. j > i /\ j \in DOMAIN bsg /\ c \in bsg[j].supported
      BY <2>1, <2>3, <2>6 DEF IsSupported
    <3> HIDE DEF j
    <3>2. j \in i + 1 .. Len(bsg)
      BY <2>2, <3>1
    <3> QED
      BY <3>1, <3>2 DEF ReachedBefore
  <2> QED
    BY <2>4, <2>5, <2>6
<1> QED
  BY <1>1, PlanAlways, PTL

\* Property NodesAreApplicable: whatever has joined a node, its facts are consistent,
\* contain the regressions of all that it supports, and are all that it needs.
THEOREM NodesAreAlwaysApplicable ==
  ASSUME RequiresNoMutex
  PROVE  Spec => []NodesAreApplicable
<1>1. DataInv /\ PlanInv => NodesAreApplicable
  <2> SUFFICES ASSUME DataInv, PlanInv, Extracted, NEW i \in DOMAIN bsg \ {1}
               PROVE  /\ ~ContainsMutex(bsg[i].facts)
                      /\ \A c \in bsg[i].supported : Regression(bsg[i].action, c) \subseteq bsg[i].facts
                      /\ option.cross_context /\ bsg[i].facts # {} =>
                           bsg[i].preconditions = NonDominatedWithin(bsg[i].facts, Known_)
    BY DEF NodesAreApplicable
  <2>1. IsApplication(bsg[i], bsg[i].action)
    BY DEF PlanInv, GraphInv
  <2> QED
    BY <2>1 DEF IsApplication, Preconditions, Known_
<1> QED
  BY <1>1, DataAlways, PlanAlways, PTL

-----------------------------------------------------------------------------
(* The planning task: plans backwards from the goal, and forwards from a state. *)

LEMMA EvaluatedStatesAreFinite == IsFiniteSet(EvaluatedStates) /\ Cardinality(EvaluatedStates) \in Nat
<1>1. IsFiniteSet(EvaluatedStates)
  BY RegressionAssumption, SupporterAssumption, FS_SUBSET, FS_Subset DEF RegressionAssumption, SupporterAssumption
<1> QED
  BY <1>1, FS_CardinalityType

LEMMA SolvedSteps ==
  /\ SolvedWithin[0] = {s \in EvaluatedStates : GoalFacts \subseteq s}
  /\ \A n \in Nat : SolvedWithin[n + 1] = SolvedWithin[n] \cup Predecessors(SolvedWithin[n])
<1> DEFINE X == SUBSET EvaluatedStates
           goal == {s \in EvaluatedStates : GoalFacts \subseteq s}
           Step(S) == S \cup Predecessors(S)
           Body(f, n) == IF n = 0 THEN goal ELSE Step(f[n - 1])
           G == [n \in Nat |-> [S \in X |-> Step(S)]]
           g == CHOOSE f : f = [n \in Nat |-> Body(f, n)]
<1>1. goal \in X /\ \A S \in X : Step(S) \in X
  BY DEF Predecessors
<1> HIDE DEF Step, goal, X
<1>2. G \in [Nat -> [X -> X]]
  BY <1>1
<1>3. PICK f \in [Nat -> X] : Iterates(f, goal, G)
  <2> HIDE DEF G
  <2>1. \E f \in [Nat -> X] : Iterates(f, goal, G)
    BY <1>1, <1>2, NatRecursive
  <2> QED
    BY <2>1
<1>4. f[0] = goal /\ \A n \in Nat : f[n + 1] = Step(f[n])
  BY <1>3 DEF Iterates
<1>5. f = [n \in Nat |-> Body(f, n)]
  <2>1. ASSUME NEW n \in Nat PROVE f[n] = Body(f, n)
    <3>1. CASE n = 0
      BY <1>4, <3>1
    <3>2. CASE n # 0
      <4>1. n - 1 \in Nat /\ (n - 1) + 1 = n
        BY <3>2
      <4>2. f[(n - 1) + 1] = Step(f[n - 1])
        BY <1>4, <4>1
      <4> QED
        BY <3>2, <4>1, <4>2
    <3> QED
      BY <3>1, <3>2
  <2> HIDE DEF Body
  <2> QED
    BY <2>1
<1>6. g = [n \in Nat |-> Body(g, n)]
  <2> HIDE DEF Body
  <2> QED
    BY <1>5
<1>7. SolvedWithin = g
  BY Zenon DEF SolvedWithin, Step, goal
<1> HIDE DEF g
<1>8. g[0] = goal
  BY <1>6
<1>9. \A n \in Nat : g[n + 1] = Step(g[n])
  <2> SUFFICES ASSUME NEW n \in Nat PROVE g[n + 1] = Step(g[n])
    OBVIOUS
  <2>1. g[n + 1] = Body(g, n + 1) /\ n + 1 # 0 /\ (n + 1) - 1 = n
    BY <1>6
  <2> QED
    BY <2>1
<1> QED
  BY <1>7, <1>8, <1>9 DEF Step, goal

LEMMA SolvedAreStates == \A n \in Nat : SolvedWithin[n] \subseteq EvaluatedStates
<1> DEFINE S == {n \in Nat : SolvedWithin[n] \subseteq EvaluatedStates}
<1>1. S \in SUBSET Nat /\ 0 \in S /\ \A n \in S : n + 1 \in S
  BY SolvedSteps DEF Predecessors
<1> HIDE DEF S
<1>2. S = Nat
  BY <1>1, NatInductive
<1> QED
  BY <1>2 DEF S

LEMMA WithinSteps ==
  /\ \A n \in Nat : \A s \in EvaluatedStates : Within[n][s] \in SUBSET EvaluatedStates
  /\ \A s \in EvaluatedStates : Within[0][s] = {s}
  /\ \A n \in Nat : \A s \in EvaluatedStates :
       Within[n + 1][s] = Within[n][s] \cup {t \in EvaluatedStates :
                            \E p \in Within[n][s], a \in Actions : Pre[a] \subseteq p /\ t = Successor(p, a)}
<1> DEFINE X == [EvaluatedStates -> SUBSET EvaluatedStates]
           first == [s \in EvaluatedStates |-> {s}]
           Step(W) == [s \in EvaluatedStates |->
                         W[s] \cup {t \in EvaluatedStates :
                           \E p \in W[s], a \in Actions : Pre[a] \subseteq p /\ t = Successor(p, a)}]
           Body(f, n) == IF n = 0 THEN first ELSE Step(f[n - 1])
           G == [n \in Nat |-> [W \in X |-> Step(W)]]
           g == CHOOSE f : f = [n \in Nat |-> Body(f, n)]
<1>1. first \in X /\ \A W \in X : Step(W) \in X
  <2> SUFFICES ASSUME NEW W \in X PROVE Step(W) \in X
    OBVIOUS
  <2> QED
    OBVIOUS
<1> HIDE DEF Step, first, X
<1>2. G \in [Nat -> [X -> X]]
  BY <1>1
<1>3. PICK f \in [Nat -> X] : Iterates(f, first, G)
  <2> HIDE DEF G
  <2>1. \E f \in [Nat -> X] : Iterates(f, first, G)
    BY <1>1, <1>2, NatRecursive
  <2> QED
    BY <2>1
<1>4. f[0] = first /\ \A n \in Nat : f[n + 1] = Step(f[n])
  BY <1>3 DEF Iterates
<1>5. f = [n \in Nat |-> Body(f, n)]
  <2>1. ASSUME NEW n \in Nat PROVE f[n] = Body(f, n)
    <3>1. CASE n = 0
      BY <1>4, <3>1
    <3>2. CASE n # 0
      <4>1. n - 1 \in Nat /\ (n - 1) + 1 = n
        BY <3>2
      <4>2. f[(n - 1) + 1] = Step(f[n - 1])
        BY <1>4, <4>1
      <4> QED
        BY <3>2, <4>1, <4>2
    <3> QED
      BY <3>1, <3>2
  <2> HIDE DEF Body
  <2> QED
    BY <2>1
<1>6. g = [n \in Nat |-> Body(g, n)]
  <2> HIDE DEF Body
  <2> QED
    BY <1>5
<1>7. Within = g
  BY Zenon DEF Within, Step, first
<1> HIDE DEF g
<1>8. g[0] = first
  BY <1>6
<1>9. \A n \in Nat : g[n + 1] = Step(g[n])
  <2> SUFFICES ASSUME NEW n \in Nat PROVE g[n + 1] = Step(g[n])
    OBVIOUS
  <2>1. g[n + 1] = Body(g, n + 1) /\ n + 1 # 0 /\ (n + 1) - 1 = n
    BY <1>6
  <2> QED
    BY <2>1
<1> DEFINE T == {n \in Nat : g[n] \in X}
<1>10. T = Nat
  <2>1. T \in SUBSET Nat /\ 0 \in T /\ \A n \in T : n + 1 \in T
    BY <1>1, <1>8, <1>9
  <2> HIDE DEF T
  <2> QED
    BY <2>1, NatInductive
<1>11. \A n \in Nat : \A s \in EvaluatedStates : g[n][s] \in SUBSET EvaluatedStates
  BY <1>10 DEF X
<1>12. \A s \in EvaluatedStates : g[0][s] = {s}
  BY <1>8 DEF first
<1>13. \A n \in Nat : \A s \in EvaluatedStates :
         g[n + 1][s] = g[n][s] \cup {t \in EvaluatedStates :
                         \E p \in g[n][s], a \in Actions : Pre[a] \subseteq p /\ t = Successor(p, a)}
  <2> SUFFICES ASSUME NEW n \in Nat, NEW s \in EvaluatedStates
               PROVE  g[n + 1][s] = g[n][s] \cup {t \in EvaluatedStates :
                         \E p \in g[n][s], a \in Actions : Pre[a] \subseteq p /\ t = Successor(p, a)}
    OBVIOUS
  <2>1. g[n + 1] = Step(g[n])
    BY <1>9
  <2> QED
    BY <2>1 DEF Step
<1> HIDE DEF first, X
<1>14. \A n \in Nat : \A s \in EvaluatedStates : Within[n][s] \in SUBSET EvaluatedStates
  BY <1>7, <1>11
<1>15. \A s \in EvaluatedStates : Within[0][s] = {s}
  BY <1>7, <1>12
<1>16. ASSUME NEW n \in Nat, NEW s \in EvaluatedStates
       PROVE  Within[n + 1][s] = Within[n][s] \cup {t \in EvaluatedStates :
                \E p \in Within[n][s], a \in Actions : Pre[a] \subseteq p /\ t = Successor(p, a)}
  <2>1. g[n + 1][s] = g[n][s] \cup {t \in EvaluatedStates :
                \E p \in g[n][s], a \in Actions : Pre[a] \subseteq p /\ t = Successor(p, a)}
    BY <1>13
  <2>2. g[n + 1][s] = Within[n + 1][s] /\ g[n][s] = Within[n][s]
    BY <1>7
  <2> QED
    BY <2>1, <2>2
<1> QED
  BY <1>14, <1>15, <1>16

\* A state that is solved within n actions has a goal state within n actions, and one
\* that is k actions away has it within k + n.
LEMMA SolvedHasGoalWithin ==
  ASSUME NEW s \in EvaluatedStates, NEW n \in Nat, s \in SolvedWithin[n]
  PROVE  \E t \in Within[n][s] : GoalFacts \subseteq t
<1> DEFINE HasGoal(k) == \E t \in Within[k][s] : GoalFacts \subseteq t
           S == {m \in Nat : \A k \in Nat : \A p \in Within[k][s] : p \in SolvedWithin[m] => HasGoal(k + m)}
<1>1. 0 \in S
  BY SolvedSteps
<1>2. ASSUME NEW m \in S PROVE m + 1 \in S
  <2>1. SUFFICES ASSUME NEW k \in Nat, NEW p \in Within[k][s], p \in SolvedWithin[m + 1]
                 PROVE  HasGoal(k + (m + 1))
    OBVIOUS
  <2>2. k + (m + 1) = (k + m) + 1 /\ k + (m + 1) = (k + 1) + m /\ k + m \in Nat /\ k + 1 \in Nat
    OBVIOUS
  <2>3. CASE p \in SolvedWithin[m]
    <3>1. PICK t \in Within[k + m][s] : GoalFacts \subseteq t
      BY <2>3
    <3>2. t \in Within[(k + m) + 1][s]
      BY <2>2, WithinSteps
    <3> QED
      BY <2>2, <3>1, <3>2
  <2>4. CASE p \in Predecessors(SolvedWithin[m])
    <3>1. PICK a \in Actions : Pre[a] \subseteq p /\ Successor(p, a) \in SolvedWithin[m]
      BY <2>4 DEF Predecessors
    <3>2. Successor(p, a) \in Within[k + 1][s]
      BY <3>1, SolvedAreStates, WithinSteps
    <3>3. HasGoal((k + 1) + m)
      BY <2>2, <3>1, <3>2
    <3> QED
      BY <2>2, <3>3
  <2> QED
    BY <2>1, <2>3, <2>4, SolvedSteps
<1>3. S = Nat
  <2>1. S \in SUBSET Nat
    OBVIOUS
  <2> HIDE DEF S
  <2> QED
    BY <1>1, <1>2, <2>1, NatInductive
<1>4. s \in Within[0][s] /\ 0 + n = n
  BY WithinSteps
<1>5. HasGoal(0 + n)
  BY <1>3, <1>4
<1> QED
  BY <1>4, <1>5

\* A conjunction that holds after an action held before it, or is supported by a
\* regression that did; what the counter group of that waits for held then too.
LEMMA SuccessorNeeds ==
  ASSUME DataInv, StatesAreConsistent,
         NEW s \in EvaluatedStates, NEW a \in Actions, Pre[a] \subseteq s, Successor(s, a) \in EvaluatedStates,
         NEW c \in Known_, c \subseteq Successor(s, a), ~(c \subseteq s)
  PROVE  \E r \in DOMAIN groups :
           /\ \E k \in groups[r].group : k[2] = c
           /\ \A d \in groups[r].waitsFor : d \in Known_ \cup {DummyPrecondition} /\ d \subseteq s
<1> DEFINE t == Successor(s, a)
<1>1. learned \in SUBSET Learnable /\ groups = CounterGroups(learned) /\ Known_ = Known(learned)
  BY DEF DataInv, Known_
<1>2. c \in SUBSET Facts
  BY <1>1, KnownConjunctions
<1>3. /\ \A f, g \in s : ~AreMutex(f, g)
      /\ \A f, g \in t : ~AreMutex(f, g)
  BY DEF StatesAreConsistent, ContainsMutex
<1>4. /\ \A f \in t : f \in Eff[a] \/ (f \in s /\ \A e \in Eff[a] : Variable[e] # Variable[f])
      /\ \A e \in Eff[a] : e \in t
  BY DEF Successor
<1> HIDE DEF t
<1>5. c \subseteq t
  BY DEF t
<1>6. Eff[a] \cap c # {}
  BY <1>4, <1>5
<1>7. \A e \in Eff[a], f \in c : Variable[e] = Variable[f] => e = f
  BY <1>3, <1>4, <1>5 DEF AreMutex
<1>8. \A p \in Pre[a], f \in c :
        Variable[p] = Variable[f] /\ p # f => \E e \in Eff[a] : Variable[e] = Variable[p]
  <2> SUFFICES ASSUME NEW p \in Pre[a], NEW f \in c, Variable[p] = Variable[f], p # f
               PROVE  \E e \in Eff[a] : Variable[e] = Variable[p]
    OBVIOUS
  <2>1. f \notin s
    BY <1>3 DEF AreMutex
  <2> QED
    BY <1>4, <1>5, <2>1
<1>9. \A f \in c \ Eff[a] : \A g \in Pre[a] \cup Eff[a] : ~AreMutex(f, g)
  BY <1>3, <1>4, <1>5
<1>10. a \in SupportingActions(c)
  BY <1>6, <1>7, <1>8, <1>9 DEF SupportingActions, IsRegressableAndMutexFree, IsRegressable
<1>11. ~ContainsMutex(c)
  BY <1>3, <1>5 DEF ContainsMutex
<1>12. PICK b \in ComputeRegressions(c) : IsSimpler(b, a, c)
  BY <1>2, <1>10, KeptRegressions
<1>13. b \in Regressions(c)
  BY <1>11, <1>12 DEF Regressions
<1> DEFINE r == Regression(b, c)
<1>14. r \subseteq s
  <2>1. r \subseteq Regression(a, c)
    BY <1>12 DEF IsSimpler
  <2>2. Regression(a, c) \subseteq s
    BY <1>4, <1>5 DEF Regression
  <2> QED
    BY <2>1, <2>2
<1>15. r \in SUBSET Facts
  BY <1>2, <1>13, RegressionFacts
<1> HIDE DEF r
<1>16. r \in DOMAIN groups /\ <<b, c>> \in groups[r].group /\ groups[r].waitsFor = Preconditions(r, learned)
  BY <1>1, <1>13, GroupsOfConjunctions DEF r
<1>17. \A d \in groups[r].waitsFor : d \in Known_ \cup {DummyPrecondition} /\ d \subseteq s
  BY <1>1, <1>14, <1>15, <1>16, PreconditionsWithin
<1>18. \E k \in groups[r].group : k[2] = c
  <2>1. <<b, c>>[2] = c
    OBVIOUS
  <2> QED
    BY <1>16, <2>1
<1> QED
  BY <1>16, <1>17, <1>18

\* A closed set of reached conjunctions that covers a state covers all that the actions
\* lead to from it.
LEMMA ClosedCoversSuccessors ==
  ASSUME DataInv, CostInv, StatesAreConsistent, Closed,
         NEW s \in EvaluatedStates, Covered(s),
         NEW a \in Actions, Pre[a] \subseteq s, Successor(s, a) \in EvaluatedStates
  PROVE  Covered(Successor(s, a))
<1> SUFFICES ASSUME NEW c \in Known_, c \subseteq Successor(s, a) PROVE Reached(c)
  BY DEF Covered
<1>1. CASE c \subseteq s
  BY <1>1 DEF Covered
<1>2. CASE ~(c \subseteq s)
  <2>1. PICK r \in DOMAIN groups :
          /\ \E k \in groups[r].group : k[2] = c
          /\ \A d \in groups[r].waitsFor : d \in Known_ \cup {DummyPrecondition} /\ d \subseteq s
    BY <1>2, SuccessorNeeds
  <2>2. Reached(DummyPrecondition)
    <3>1. DummyPrecondition \in DOMAIN cost /\ InitiallyTrue(DummyPrecondition)
      BY DEF CostInv, InitiallyTrue, DummyPrecondition
    <3> QED
      BY <3>1 DEF Closed
  <2>3. \A d \in groups[r].waitsFor : Reached(d)
    BY <2>1, <2>2 DEF Covered
  <2> QED
    BY <2>1, <2>3 DEF Closed
<1> QED
  BY <1>1, <1>2

\* With a goal out of its reach, a closed set of reached conjunctions covers no state
\* that has a plan.
LEMMA ClosedMeansDeadEnd ==
  ASSUME DataInv, CostInv, StatesAreConsistent, Closed,
         NEW g \in GoalConjunctions, ~Reached(g)
  PROVE  state \notin Solvable
<1> DEFINE S == {n \in Nat : \A s \in EvaluatedStates : Covered(s) => s \notin SolvedWithin[n]}
<1>1. 0 \in S
  <2> SUFFICES ASSUME NEW s \in EvaluatedStates, Covered(s), s \in SolvedWithin[0] PROVE FALSE
    OBVIOUS
  <2>1. g \in Known_ /\ g \subseteq s
    BY SolvedSteps DEF GoalConjunctions, Known_
  <2> QED
    BY <2>1 DEF Covered
<1>2. ASSUME NEW n \in S PROVE n + 1 \in S
  <2> SUFFICES ASSUME NEW s \in EvaluatedStates, Covered(s), s \in SolvedWithin[n + 1] PROVE FALSE
    OBVIOUS
  <2>1. s \in Predecessors(SolvedWithin[n])
    BY SolvedSteps
  <2>2. PICK a \in Actions : Pre[a] \subseteq s /\ Successor(s, a) \in SolvedWithin[n]
    BY <2>1 DEF Predecessors
  <2>3. Successor(s, a) \in EvaluatedStates
    BY <2>2, SolvedAreStates
  <2>4. Covered(Successor(s, a))
    BY <2>2, <2>3, ClosedCoversSuccessors
  <2> QED
    BY <2>2, <2>3, <2>4
<1>3. S = Nat
  <2>1. S \in SUBSET Nat
    OBVIOUS
  <2> HIDE DEF S
  <2> QED
    BY <1>1, <1>2, <2>1, NatInductive
<1>4. state \in EvaluatedStates /\ Covered(state)
  <2>1. \A c \in Known_ : c \in DOMAIN cost
    BY DEF CostInv
  <2> QED
    BY <2>1 DEF DataInv, Closed, Covered, InitiallyTrue
<1> QED
  BY <1>3, <1>4, EvaluatedStatesAreFinite DEF Solvable

-----------------------------------------------------------------------------
(* compute_hcadd: the cheapest conjunction leaves the queue, and what it       *)
(* completes is no cheaper.                                                    *)

LEMMA MinOfNats ==
  ASSUME NEW S \in SUBSET Nat, S # {}
  PROVE  Min(S) \in S /\ \A n \in S : Min(S) <= n
<1>1. \E m \in S : \A n \in S : m <= n
  BY LeastNat
<1> QED
  BY <1>1 DEF Min

LEMMA LowestCostProperties ==
  ASSUME NEW d, cost[d] \in Nat \cup {UNREACHED},
         NEW offered, offered # {}, \A o \in offered : o[2] \in Nat
  PROVE  /\ LowestCost(d, offered) \in Nat
         /\ Reached(d) => LowestCost(d, offered) <= cost[d]
         /\ LowestCost(d, offered) = cost[d] \/ \E o \in offered : LowestCost(d, offered) = o[2]
<1> DEFINE S == {o[2] : o \in offered} \cup (IF cost[d] = UNREACHED THEN {} ELSE {cost[d]})
<1>1. S \in SUBSET Nat /\ S # {}
  OBVIOUS
<1>2. LowestCost(d, offered) = Min(S)
  BY DEF LowestCost
<1>3. Min(S) \in S /\ \A n \in S : Min(S) <= n
  <2> HIDE DEF S
  <2> QED
    BY <1>1, MinOfNats
<1>4. Min(S) \in Nat
  BY <1>1, <1>3
<1>5. Reached(d) => cost[d] \in S
  BY DEF Reached
<1>6. Min(S) = cost[d] \/ \E o \in offered : Min(S) = o[2]
  BY <1>3
<1> HIDE DEF S
<1> QED
  BY <1>2, <1>3, <1>4, <1>5, <1>6

\* What counters offer is no cheaper than what completed them.
LEMMA OffersAreNats ==
  ASSUME DataInv, CostInv, NEW completed \in SUBSET DOMAIN groups, NEW additional \in Nat,
         NEW o \in Offers(completed, additional)
  PROVE  o[1] \in Known_ /\ o[2] \in Nat /\ additional <= o[2]
<1>1. PICK r \in completed : \E k \in groups[r].group :
           o = <<k[2], groupCost[r] + additional + ActionCost[k[1]], k[1]>>
  BY DEF Offers
<1>2. PICK k \in groups[r].group :
           o = <<k[2], groupCost[r] + additional + ActionCost[k[1]], k[1]>>
  BY <1>1
<1>3. k[2] \in Known_ /\ k[1] \in Regressions(k[2])
  BY GroupsOfConjunctions DEF DataInv, Known_
<1>4. k[2] \in SUBSET Facts
  BY <1>3, KnownConjunctions DEF DataInv, Known_
<1>5. k[1] \in Actions
  BY <1>3, <1>4, RegressionFacts
<1>6. ActionCost[k[1]] \in Nat /\ groupCost[r] \in Nat
  BY <1>5, RegressionAssumption DEF RegressionAssumption, CostInv
<1>7. o[1] = k[2] /\ o[2] = groupCost[r] + additional + ActionCost[k[1]]
  BY <1>2
<1> QED
  BY <1>3, <1>6, <1>7

\* The conjunctions improved when another one leaves the queue are not reached at its
\* cost or below, and get a cost that is not below it.
LEMMA TriggerImproves ==
  ASSUME DataInv, CostInv, NEW c \in DOMAIN cost, Reached(c), Trigger(c)
  PROVE  \E improved \in SUBSET DOMAIN cost :
           /\ DOMAIN cost' = DOMAIN cost
           /\ \A d \in DOMAIN cost : IF d \in improved
                THEN cost'[d] \in Nat /\ cost[c] <= cost'[d] /\ (Reached(d) => cost'[d] < cost[d])
                ELSE cost'[d] = cost[d]
           /\ queue' = (queue \ {<<cost[c], c>>}) \cup {<<cost'[d], d>> : d \in improved}
           /\ \A r \in DOMAIN groups : c \in groups[r].waitsFor /\ value[r] = 1 =>
                \A k \in groups[r].group : k[2] \in DOMAIN cost /\ cost'[k[2]] # UNREACHED
<1> DEFINE completed == {r \in WaitingFor(c) : value[r] = 1}
           offers == Offers(completed, cost[c])
           to == {o[1] : o \in offers}
           By(d) == {o \in offers : o[1] = d}
           improved == {d \in to : cost[d] = UNREACHED \/ cost[d] > LowestCost(d, By(d))}
<1>1. /\ DOMAIN cost = Known_ \cup {DummyPrecondition}
      /\ \A d \in DOMAIN cost : cost[d] \in Nat \cup {UNREACHED}
      /\ cost[c] \in Nat
  BY DEF CostInv, Reached
<1>2. completed \in SUBSET DOMAIN groups
  BY DEF WaitingFor
<1> HIDE DEF completed
<1>3. \A o \in offers : o[1] \in Known_ /\ o[2] \in Nat /\ cost[c] <= o[2]
  BY <1>1, <1>2, OffersAreNats
<1>4. /\ cost' = [d \in DOMAIN cost |-> IF d \in improved THEN LowestCost(d, By(d)) ELSE cost[d]]
      /\ queue' = (queue \ {<<cost[c], c>>}) \cup {<<LowestCost(d, By(d)), d>> : d \in improved}
  BY Zenon DEF Trigger, completed
<1>5. \A d \in to : /\ LowestCost(d, By(d)) \in Nat
                    /\ Reached(d) => LowestCost(d, By(d)) <= cost[d]
                    /\ LowestCost(d, By(d)) = cost[d] \/ cost[c] <= LowestCost(d, By(d))
  <2> SUFFICES ASSUME NEW d \in to
               PROVE  /\ LowestCost(d, By(d)) \in Nat
                      /\ Reached(d) => LowestCost(d, By(d)) <= cost[d]
                      /\ LowestCost(d, By(d)) = cost[d] \/ cost[c] <= LowestCost(d, By(d))
    OBVIOUS
  <2>1. By(d) # {} /\ \A o \in By(d) : o[2] \in Nat /\ cost[c] <= o[2]
    BY <1>3
  <2>2. cost[d] \in Nat \cup {UNREACHED}
    BY <1>1, <1>3
  <2> HIDE DEF By
  <2> QED
    BY <2>1, <2>2, LowestCostProperties
<1>6. improved \in SUBSET DOMAIN cost /\ improved \subseteq to
  BY <1>1, <1>3
<1>7. \A r \in DOMAIN groups : c \in groups[r].waitsFor /\ value[r] = 1 =>
                \A k \in groups[r].group : k[2] \in to
  <2> SUFFICES ASSUME NEW r \in DOMAIN groups, c \in groups[r].waitsFor, value[r] = 1,
                      NEW k \in groups[r].group
               PROVE  k[2] \in to
    OBVIOUS
  <2> DEFINE o == <<k[2], groupCost[r] + cost[c] + ActionCost[k[1]], k[1]>>
  <2>1. r \in completed
    BY DEF completed, WaitingFor
  <2>2. o \in offers
    BY <2>1 DEF Offers
  <2>3. o[1] = k[2]
    OBVIOUS
  <2> HIDE DEF o, offers
  <2> QED
    BY <2>2, <2>3
<1>8. \A d \in to : d \in DOMAIN cost
  BY <1>1, <1>3
<1>9. \A d \in improved : cost[d] = UNREACHED \/ cost[d] > LowestCost(d, By(d))
  OBVIOUS
<1>10. \A d \in to : d \notin improved => Reached(d)
  BY DEF Reached
<1> HIDE DEF improved, By, to
<1>11. DOMAIN cost' = DOMAIN cost
  BY <1>4
<1>12. \A d \in improved : cost'[d] = LowestCost(d, By(d))
  BY <1>4, <1>6
<1>13. queue' = (queue \ {<<cost[c], c>>}) \cup {<<cost'[d], d>> : d \in improved}
  <2>1. {<<LowestCost(d, By(d)), d>> : d \in improved} = {<<cost'[d], d>> : d \in improved}
    BY <1>12
  <2> QED
    BY <1>4, <2>1
<1>14. ASSUME NEW d \in DOMAIN cost
       PROVE  IF d \in improved
                THEN cost'[d] \in Nat /\ cost[c] <= cost'[d] /\ (Reached(d) => cost'[d] < cost[d])
                ELSE cost'[d] = cost[d]
  <2>1. CASE d \notin improved
    BY <1>4, <2>1
  <2>2. CASE d \in improved
    <3> DEFINE lowest == LowestCost(d, By(d))
    <3>1. /\ cost'[d] = lowest /\ lowest \in Nat /\ (lowest = cost[d] \/ cost[c] <= lowest)
          /\ (cost[d] = UNREACHED \/ cost[d] > lowest)
      BY <1>5, <1>6, <1>9, <1>12, <2>2
    <3> HIDE DEF lowest
    <3>2. cost[d] \in Nat \cup {UNREACHED}
      BY <1>1
    <3> QED
      BY <1>1, <2>2, <3>1, <3>2 DEF Reached, UNREACHED
  <2> QED
    BY <2>1, <2>2
<1>15. ASSUME NEW d \in to PROVE d \in DOMAIN cost /\ cost'[d] # UNREACHED
  <2>1. CASE d \in improved
    BY <1>8, <1>14, <2>1 DEF UNREACHED
  <2>2. CASE d \notin improved
    BY <1>8, <1>10, <1>14, <2>2 DEF Reached
  <2> QED
    BY <2>1, <2>2
<1> QED
  BY <1>6, <1>7, <1>11, <1>13, <1>14, <1>15

LEMMA GoalsAreFinite ==
  ASSUME DataInv
  PROVE  /\ GoalConjunctions \subseteq Known_ /\ IsFiniteSet(GoalConjunctions)
         /\ \A r \in DOMAIN groups : /\ groups[r].waitsFor \subseteq Known_ \cup {DummyPrecondition}
                                     /\ IsFiniteSet(groups[r].waitsFor) /\ groups[r].waitsFor # {}
<1>1. learned \in SUBSET Learnable /\ groups = CounterGroups(learned)
  BY DEF DataInv
<1>2. IsFiniteSet(Known_)
  BY <1>1, KnownConjunctions DEF Known_
<1>3. GoalConjunctions \subseteq Known_
  BY DEF GoalConjunctions, Known_
<1>4. IsFiniteSet(GoalConjunctions)
  BY <1>2, <1>3, FS_Subset
<1>5. IsFiniteSet(Known_ \cup {DummyPrecondition})
  BY <1>2, FS_AddElement
<1>6. ASSUME NEW r \in DOMAIN groups
      PROVE  /\ groups[r].waitsFor \subseteq Known_ \cup {DummyPrecondition}
             /\ IsFiniteSet(groups[r].waitsFor) /\ groups[r].waitsFor # {}
  <2>1. r \in SUBSET Facts /\ groups[r].waitsFor = Preconditions(r, learned)
    BY <1>1, GroupsOfConjunctions
  <2>2. groups[r].waitsFor \subseteq Known_ \cup {DummyPrecondition} /\ groups[r].waitsFor # {}
    BY <1>1, <2>1, PreconditionsWithin DEF Known_
  <2> QED
    BY <1>5, <2>2, FS_Subset
<1> QED
  BY <1>3, <1>4, <1>6

\* The entry that is popped, and what is done about it.
LEMMA PoppedEntry ==
  ASSUME PopEntry
  PROVE  \E e \in queue :
           /\ \A f \in queue : e[1] <= f[1]
           /\ \/ /\ cost[e[2]] < e[1] /\ queue' = queue \ {e}
                 /\ UNCHANGED <<cost, supporters, value, groupCost, numOpenGoals, h>>
              \/ /\ ~(cost[e[2]] < e[1])
                 /\ h' = IF e[2] \in GoalConjunctions THEN h + cost[e[2]] ELSE h
                 /\ numOpenGoals' = IF e[2] \in GoalConjunctions THEN numOpenGoals - 1 ELSE numOpenGoals
                 /\ \/ numOpenGoals' = 0 /\ UNCHANGED <<cost, supporters, value, groupCost, queue>>
                    \/ numOpenGoals' # 0 /\ Trigger(e[2])
<1> QED
  BY Zenon DEF PopEntry

LEMMA CostPopEntry ==
  ASSUME DataInv, CostInv, CountInv, PopEntry
  PROVE  CostInv'
<1>1. PICK e \in queue :
           /\ \A f \in queue : e[1] <= f[1]
           /\ \/ /\ cost[e[2]] < e[1] /\ queue' = queue \ {e}
                 /\ UNCHANGED <<cost, supporters, value, groupCost, numOpenGoals, h>>
              \/ /\ ~(cost[e[2]] < e[1])
                 /\ h' = IF e[2] \in GoalConjunctions THEN h + cost[e[2]] ELSE h
                 /\ numOpenGoals' = IF e[2] \in GoalConjunctions THEN numOpenGoals - 1 ELSE numOpenGoals
                 /\ \/ numOpenGoals' = 0 /\ UNCHANGED <<cost, supporters, value, groupCost, queue>>
                    \/ numOpenGoals' # 0 /\ Trigger(e[2])
  BY PoppedEntry
<1> DEFINE c == e[2]
<1>2. UNCHANGED <<learned, groups>> /\ pc = "search" /\ numOpenGoals > 0 /\ Additive
  BY DEF PopEntry
<1>3. Known_' = Known_ /\ DOMAIN groups' = DOMAIN groups
  BY <1>2 DEF Known_
<1>4. c \in DOMAIN cost /\ Reached(c) /\ cost[c] \in Nat
  BY <1>2 DEF CostInv, CountInv, Reached
<1>5. CASE UNCHANGED <<cost, groupCost>> /\ queue' \subseteq queue
  <2>1. h' \in Nat
    BY <1>1, <1>4 DEF CostInv
  <2> QED
    BY <1>3, <1>5, <2>1 DEF CostInv
<1>6. CASE Trigger(c)
  <2> HIDE DEF c
  <2>1. PICK improved \in SUBSET DOMAIN cost :
           /\ DOMAIN cost' = DOMAIN cost
           /\ \A d \in DOMAIN cost : IF d \in improved
                THEN cost'[d] \in Nat /\ cost[c] <= cost'[d] /\ (Reached(d) => cost'[d] < cost[d])
                ELSE cost'[d] = cost[d]
           /\ queue' = (queue \ {<<cost[c], c>>}) \cup {<<cost'[d], d>> : d \in improved}
    BY <1>4, <1>6, TriggerImproves
  <2>2. \A d \in DOMAIN cost : cost'[d] \in Nat \cup {UNREACHED}
    BY <2>1 DEF CostInv
  <2>3. cost' = [d \in DOMAIN cost' |-> cost'[d]]
    BY <1>6 DEF Trigger
  <2>4. cost' \in [Known_ \cup {DummyPrecondition} -> Nat \cup {UNREACHED}]
    BY <2>1, <2>2, <2>3 DEF CostInv
  <2>5. groupCost' \in [DOMAIN groups -> Nat]
    BY <1>4, <1>6 DEF Trigger, CostInv
  <2>6. h' \in Nat
    BY <1>1, <1>4 DEF CostInv, c
  <2>7. ASSUME NEW f \in queue'
        PROVE  f = <<f[1], f[2]>> /\ f[1] \in Nat /\ f[2] \in Known_ \cup {DummyPrecondition}
    <3>1. CASE f \in queue
      BY <3>1 DEF CostInv
    <3>2. CASE f \notin queue
      <4>1. PICK d \in improved : f = <<cost'[d], d>>
        BY <2>1, <3>2
      <4>2. cost'[d] \in Nat /\ d \in Known_ \cup {DummyPrecondition}
        BY <2>1 DEF CostInv
      <4> QED
        BY <4>1, <4>2
    <3> QED
      BY <3>1, <3>2
  <2> QED
    BY <1>3, <2>4, <2>5, <2>6, <2>7 DEF CostInv
<1> QED
  BY <1>1, <1>5, <1>6

\* An entry of a conjunction that was reached at a lower cost is left over from before.
LEMMA CountDropEntry ==
  ASSUME DataInv, CostInv, CountInv, PopEntry,
         NEW e \in queue, cost[e[2]] < e[1], queue' = queue \ {e},
         UNCHANGED <<cost, value, numOpenGoals>>
  PROVE  CountInv'
<1>1. UNCHANGED <<learned, groups, option, pc, state>> /\ pc = "search" /\ numOpenGoals > 0 /\ Additive
  BY DEF PopEntry
<1>2. /\ Additive' /\ GoalConjunctions' = GoalConjunctions
      /\ \A c : (InitiallyTrue(c)' <=> InitiallyTrue(c)) /\ (Reached(c)' <=> Reached(c))
  BY <1>1 DEF Additive, GoalConjunctions, InitiallyTrue, Reached
<1>3. cost[e[2]] \in Nat /\ e[1] \in Nat
  BY <1>1 DEF CostInv, CountInv, Reached
<1>4. Processed' = Processed
  <2>1. \A c : <<cost[c], c>> \in queue' <=> <<cost[c], c>> \in queue
    <3> SUFFICES ASSUME NEW c PROVE <<cost[c], c>> # e
      OBVIOUS
    <3> QED
      BY <1>3
  <2> QED
    BY <1>1, <1>2, <2>1 DEF Processed, IsWaiting
<1>5. OpenGoals' = OpenGoals
  BY <1>1, <1>2, <1>4 DEF OpenGoals
<1> QED
  BY <1>1, <1>2, <1>4, <1>5 DEF CountInv

LEMMA CountTrigger ==
  ASSUME DataInv, CostInv, CountInv, PopEntry,
         NEW e \in queue, \A f \in queue : e[1] <= f[1], ~(cost[e[2]] < e[1]),
         numOpenGoals' = IF e[2] \in GoalConjunctions THEN numOpenGoals - 1 ELSE numOpenGoals,
         Trigger(e[2])
  PROVE  CountInv'
<1> DEFINE c == e[2]
<1>1. UNCHANGED <<learned, groups, option, pc, state>> /\ pc = "search" /\ numOpenGoals > 0 /\ Additive
  BY DEF PopEntry
<1>2. /\ numOpenGoals = Cardinality(GoalConjunctions \ Processed)
      /\ \A d \in DOMAIN cost : InitiallyTrue(d) => Reached(d)
      /\ \A f \in queue : Reached(f[2]) /\ cost[f[2]] <= f[1]
      /\ \A d \in Processed : \A f \in queue : cost[d] <= f[1]
      /\ \A r \in DOMAIN groups :
           /\ value[r] = Cardinality(groups[r].waitsFor \ Processed)
           /\ groups[r].waitsFor \subseteq Processed => \A k \in groups[r].group : Reached(k[2])
  BY <1>1, Zenon DEF CountInv, OpenGoals
<1>3. /\ c \in DOMAIN cost /\ Reached(c) /\ cost[c] \in Nat /\ e[1] \in Nat /\ e = <<e[1], c>>
      /\ \A d \in DOMAIN cost : cost[d] \in Nat \cup {UNREACHED}
      /\ \A f \in queue : f[1] \in Nat /\ f[2] \in DOMAIN cost
      /\ DOMAIN cost = Known_ \cup {DummyPrecondition}
  BY <1>2 DEF CostInv, Reached
<1>4. cost[c] = e[1] /\ <<cost[c], c>> = e
  BY <1>2, <1>3
<1>5. numOpenGoals' = IF c \in GoalConjunctions THEN numOpenGoals - 1 ELSE numOpenGoals
  OBVIOUS
<1> HIDE DEF c
<1>6. PICK improved \in SUBSET DOMAIN cost :
           /\ DOMAIN cost' = DOMAIN cost
           /\ \A d \in DOMAIN cost : IF d \in improved
                THEN cost'[d] \in Nat /\ cost[c] <= cost'[d] /\ (Reached(d) => cost'[d] < cost[d])
                ELSE cost'[d] = cost[d]
           /\ queue' = (queue \ {<<cost[c], c>>}) \cup {<<cost'[d], d>> : d \in improved}
           /\ \A r \in DOMAIN groups : c \in groups[r].waitsFor /\ value[r] = 1 =>
                \A k \in groups[r].group : k[2] \in DOMAIN cost /\ cost'[k[2]] # UNREACHED
  BY <1>3, TriggerImproves DEF c
<1>7. \A d \in DOMAIN cost : Reached(d) => cost'[d] # UNREACHED /\ cost'[d] <= cost[d]
  <2> SUFFICES ASSUME NEW d \in DOMAIN cost, Reached(d) PROVE cost'[d] # UNREACHED /\ cost'[d] <= cost[d]
    OBVIOUS
  <2>1. cost[d] \in Nat
    BY <1>3 DEF Reached
  <2> QED
    BY <1>6, <2>1 DEF UNREACHED
<1>8. c \notin improved /\ cost'[c] = cost[c]
  BY <1>3, <1>6
<1>9. \A d \in Processed : /\ d \in DOMAIN cost /\ Reached(d) /\ cost[d] <= cost[c]
                           /\ <<cost[d], d>> \notin queue
  BY <1>1, <1>2, <1>4 DEF Processed, IsWaiting
<1>10. \A d \in Processed : d \notin improved /\ cost'[d] = cost[d]
  <2> SUFFICES ASSUME NEW d \in Processed PROVE d \notin improved
    BY <1>6, <1>9
  <2>1. cost[d] \in Nat /\ cost[d] <= cost[c] /\ Reached(d) /\ d \in DOMAIN cost
    BY <1>3, <1>9 DEF Reached
  <2> QED
    BY <1>3, <1>6, <2>1
<1>11. c \notin Processed
  BY <1>4, <1>9
<1>12. Additive' /\ GoalConjunctions' = GoalConjunctions /\ \A d : InitiallyTrue(d)' <=> InitiallyTrue(d)
  BY <1>1 DEF Additive, GoalConjunctions, InitiallyTrue
<1>13. Processed' = {d \in DOMAIN cost : cost'[d] # UNREACHED /\ <<cost'[d], d>> \notin queue'}
  BY <1>6, <1>12 DEF Processed, IsWaiting, Reached
<1>14. \A f \in queue' : \/ f \in queue /\ f # <<cost[c], c>>
                         \/ f[2] \in improved /\ f[1] = cost'[f[2]]
  <2> SUFFICES ASSUME NEW f \in queue', f = <<cost[c], c>> \/ f \notin queue
               PROVE  f[2] \in improved /\ f[1] = cost'[f[2]]
    OBVIOUS
  <2>1. PICK d \in improved : f = <<cost'[d], d>>
    BY <1>6
  <2> QED
    BY <2>1
<1>15. \A d \in improved : <<cost'[d], d>> \in queue'
  BY <1>6
<1>16. Processed \cup {c} \subseteq Processed'
  <2> SUFFICES ASSUME NEW d \in Processed \cup {c} PROVE d \in Processed'
    OBVIOUS
  <2>1. d \in DOMAIN cost /\ cost'[d] = cost[d] /\ Reached(d) /\ d \notin improved
    BY <1>3, <1>8, <1>9, <1>10
  <2>2. <<cost[d], d>> \notin queue'
    <3>1. <<cost[d], d>> \notin queue \/ d = c
      BY <1>9
    <3> QED
      BY <1>14, <2>1, <3>1
  <2> QED
    BY <1>13, <2>1, <2>2 DEF Reached
<1>17. Processed' \subseteq Processed \cup {c}
  <2> SUFFICES ASSUME NEW d \in Processed', d # c PROVE d \in Processed
    OBVIOUS
  <2>1. d \in DOMAIN cost /\ cost'[d] # UNREACHED /\ <<cost'[d], d>> \notin queue'
    BY <1>13
  <2>2. d \notin improved
    BY <1>15, <2>1
  <2>3. cost'[d] = cost[d]
    BY <1>6, <2>1, <2>2
  <2>4. <<cost[d], d>> \notin queue
    BY <1>6, <2>1, <2>3
  <2> QED
    BY <1>1, <2>1, <2>3, <2>4 DEF Processed, IsWaiting, Reached
<1>18. Processed' = Processed \cup {c}
  BY <1>16, <1>17
<1>19. IsFiniteSet(GoalConjunctions) /\ \A r \in DOMAIN groups : IsFiniteSet(groups[r].waitsFor)
  BY GoalsAreFinite
<1>20. numOpenGoals' = Cardinality(OpenGoals')
  <2>1. OpenGoals' = (GoalConjunctions \ Processed) \ {c}
    BY <1>12, <1>18 DEF OpenGoals
  <2>2. IsFiniteSet(GoalConjunctions \ Processed)
    BY <1>19, FS_Difference
  <2>3. CASE c \in GoalConjunctions
    <3>1. c \in GoalConjunctions \ Processed
      BY <1>11, <2>3
    <3>2. Cardinality((GoalConjunctions \ Processed) \ {c}) = Cardinality(GoalConjunctions \ Processed) - 1
      BY <2>2, <3>1, FS_RemoveElement
    <3> QED
      BY <1>2, <1>5, <2>1, <2>3, <3>2
  <2>4. CASE c \notin GoalConjunctions
    <3>1. (GoalConjunctions \ Processed) \ {c} = GoalConjunctions \ Processed
      BY <2>4
    <3> QED
      BY <1>2, <1>5, <2>1, <2>4, <3>1
  <2> QED
    BY <2>3, <2>4
<1>21. \A d \in DOMAIN cost' : InitiallyTrue(d)' => Reached(d)'
  BY <1>2, <1>6, <1>7, <1>12 DEF Reached
<1>22. ASSUME NEW f \in queue'
       PROVE  /\ f[2] \in DOMAIN cost /\ cost'[f[2]] # UNREACHED /\ cost'[f[2]] <= f[1]
              /\ \A d \in Processed' : cost'[d] <= f[1]
  <2>1. CASE f \in queue
    <3>1. f[2] \in DOMAIN cost /\ Reached(f[2]) /\ cost[f[2]] <= f[1] /\ cost[f[2]] \in Nat /\ f[1] \in Nat
      BY <1>2, <1>3, <2>1 DEF Reached
    <3>2. cost'[f[2]] # UNREACHED /\ cost'[f[2]] <= cost[f[2]] /\ cost'[f[2]] \in Int
      BY <1>6, <1>7, <3>1
    <3>3. \A d \in Processed' : cost'[d] <= f[1]
      BY <1>2, <1>4, <1>8, <1>10, <1>18, <2>1
    <3> QED
      BY <3>1, <3>2, <3>3
  <2>2. CASE f[2] \in improved /\ f[1] = cost'[f[2]]
    <3>1. f[2] \in DOMAIN cost /\ cost'[f[2]] \in Nat /\ cost[c] <= cost'[f[2]]
      BY <1>6, <2>2
    <3>2. \A d \in Processed' : cost'[d] = cost[d] /\ cost[d] <= cost[c] /\ cost[d] \in Nat
      <4> SUFFICES ASSUME NEW d \in Processed \cup {c}
                   PROVE  cost'[d] = cost[d] /\ cost[d] <= cost[c] /\ cost[d] \in Nat
        BY <1>18
      <4>1. CASE d = c
        BY <1>3, <1>8, <4>1
      <4>2. CASE d \in Processed
        BY <1>3, <1>9, <1>10, <4>2 DEF Reached
      <4> QED
        BY <4>1, <4>2
    <3> QED
      BY <1>3, <2>2, <3>1, <3>2 DEF UNREACHED
  <2> QED
    BY <1>14, <2>1, <2>2
<1>23. ASSUME NEW r \in DOMAIN groups
       PROVE  /\ value'[r] = Cardinality(groups[r].waitsFor \ Processed')
              /\ groups[r].waitsFor \subseteq Processed' => \A k \in groups[r].group : cost'[k[2]] # UNREACHED
  <2> DEFINE left == groups[r].waitsFor \ Processed
  <2>1. value[r] = Cardinality(left) /\ IsFiniteSet(left)
    BY <1>2, <1>19, FS_Difference
  <2>2. groups[r].waitsFor \ Processed' = left \ {c}
    BY <1>18
  <2>3. c \in left <=> c \in groups[r].waitsFor
    BY <1>11
  <2>4. value'[r] = IF c \in groups[r].waitsFor THEN value[r] - 1 ELSE value[r]
    BY DEF Trigger, WaitingFor, DataInv, c
  <2>5. \A k \in groups[r].group : k[2] \in DOMAIN cost
    BY <1>3, GroupsOfConjunctions DEF DataInv, Known_
  <2>6. (left = {} <=> groups[r].waitsFor \subseteq Processed)
        /\ (left = {c} => c \in groups[r].waitsFor)
        /\ (groups[r].waitsFor \subseteq Processed' => left = {} \/ left = {c})
    BY <1>18
  <2> HIDE DEF left
  <2>7. value'[r] = Cardinality(left \ {c})
    <3>1. CASE c \in left
      BY <2>1, <2>3, <2>4, <3>1, FS_RemoveElement
    <3>2. CASE c \notin left
      <4>1. left \ {c} = left
        BY <3>2
      <4> QED
        BY <2>1, <2>3, <2>4, <3>2, <4>1
    <3> QED
      BY <3>1, <3>2
  <2>8. left = {c} => value[r] = 1
    BY <2>1, FS_Singleton
  <2>9. groups[r].waitsFor \subseteq Processed' => \A k \in groups[r].group : cost'[k[2]] # UNREACHED
    <3>1. CASE left = {}
      BY <1>2, <1>7, <2>5, <2>6, <3>1
    <3>2. CASE left = {c}
      BY <1>6, <2>6, <2>8, <3>2
    <3> QED
      BY <2>6, <3>1, <3>2
  <2> QED
    BY <2>2, <2>7, <2>9
<1>24. groups' = groups
  BY <1>1
<1> QED
  BY <1>12, <1>20, <1>21, <1>22, <1>23, <1>24 DEF CountInv, Reached

LEMMA CountPopEntry ==
  ASSUME DataInv, CostInv, CountInv, PopEntry
  PROVE  CountInv'
<1>1. PICK e \in queue :
           /\ \A f \in queue : e[1] <= f[1]
           /\ \/ /\ cost[e[2]] < e[1] /\ queue' = queue \ {e}
                 /\ UNCHANGED <<cost, supporters, value, groupCost, numOpenGoals, h>>
              \/ /\ ~(cost[e[2]] < e[1])
                 /\ h' = IF e[2] \in GoalConjunctions THEN h + cost[e[2]] ELSE h
                 /\ numOpenGoals' = IF e[2] \in GoalConjunctions THEN numOpenGoals - 1 ELSE numOpenGoals
                 /\ \/ numOpenGoals' = 0 /\ UNCHANGED <<cost, supporters, value, groupCost, queue>>
                    \/ numOpenGoals' # 0 /\ Trigger(e[2])
  BY PoppedEntry
<1>2. CASE cost[e[2]] < e[1] /\ queue' = queue \ {e} /\ UNCHANGED <<cost, value, numOpenGoals>>
  BY <1>2, CountDropEntry
<1>3. CASE numOpenGoals' = 0
  BY <1>3 DEF CountInv
<1>4. CASE ~(cost[e[2]] < e[1]) /\ Trigger(e[2])
  BY <1>1, <1>4, CountTrigger
<1> QED
  BY <1>1, <1>2, <1>3, <1>4

-----------------------------------------------------------------------------
(* compute_hcmax: what a layer completes is the next layer. *)

\* Where the evaluation starts: nothing is counted down.
LEMMA StartOfEvaluation ==
  ASSUME DataInv, CostInv, NEW s \in EvaluatedStates, Evaluate(s)
  PROVE  CostInv' /\ CountInv'
<1> DEFINE true == {c \in DOMAIN cost : c \subseteq s}
           subgoals == GoalConjunctions \cap true
           last == ~Additive /\ subgoals = GoalConjunctions
<1>1. /\ UNCHANGED <<learned, groups, option>> /\ pc' = "search" /\ state' = s
      /\ queue' = {<<0, c>> : c \in true} /\ h' = 0 /\ groupCost' = Zero(groups)
      /\ value' = [r \in DOMAIN value |-> ResetValue(r)]
      /\ numOpenGoals' = Cardinality(GoalConjunctions \ (IF Additive THEN {} ELSE subgoals))
  BY Zenon DEF Evaluate
<1>2. PICK set \in (IF last THEN {subgoals \cup rest : rest \in SUBSET (true \ subgoals)} ELSE {true}) :
        cost' = [c \in DOMAIN cost |-> IF c \in set THEN InitialCost ELSE UNREACHED]
  BY Zenon DEF Evaluate
<1>3. /\ DOMAIN cost = Known_ \cup {DummyPrecondition} /\ Known_' = Known_
      /\ GoalConjunctions' = GoalConjunctions /\ GoalConjunctions \subseteq DOMAIN cost
      /\ DOMAIN value = DOMAIN groups
  BY <1>1, GoalsAreFinite DEF CostInv, Known_, GoalConjunctions, DataInv
<1>4. (Additive' <=> Additive) /\ (Additive => InitialCost = 0) /\ InitialCost \in Nat
  BY <1>1 DEF Additive, InitialCost, Greedy, HCADD, HCMAX_GREEDY
<1>5. cost' \in [Known_ \cup {DummyPrecondition} -> Nat \cup {UNREACHED}]
  BY <1>2, <1>3, <1>4
<1>6. ASSUME NEW e \in queue'
      PROVE  e = <<0, e[2]>> /\ e[1] = 0 /\ e[2] \in true
  BY <1>1
<1>7. CostInv'
  <2>1. groupCost' \in [DOMAIN groups -> Nat]
    BY <1>1 DEF Zero
  <2>2. ASSUME NEW e \in queue'
        PROVE  e = <<e[1], e[2]>> /\ e[1] \in Nat /\ e[2] \in Known_ \cup {DummyPrecondition}
    BY <1>3, <1>6
  <2> QED
    BY <1>1, <1>3, <1>5, <2>1, <2>2 DEF CostInv
<1>8. SUFFICES ASSUME numOpenGoals' > 0 PROVE CountInv'
  BY <1>7 DEF CountInv
<1>9. ~last
  <2> SUFFICES ASSUME last PROVE FALSE
    OBVIOUS
  <2>1. GoalConjunctions \ subgoals = {}
    OBVIOUS
  <2>2. numOpenGoals' = Cardinality({})
    BY <1>1, <2>1
  <2> QED
    BY <1>8, <2>2, FS_EmptySet
<1>10. \A c \in DOMAIN cost : cost'[c] = IF c \in true THEN InitialCost ELSE UNREACHED
  BY <1>2, <1>9
<1> HIDE DEF last
<1>11. DOMAIN cost' = DOMAIN cost
  BY <1>3, <1>5
<1>12. \A c \in true : <<0, c>> \in queue' /\ <<0, c>>[2] = c
  BY <1>1
<1> HIDE DEF true
<1>13. \A c \in DOMAIN cost : (Reached(c)' <=> c \in true)
  BY <1>4, <1>10 DEF Reached, UNREACHED
<1>14. Processed' = {}
  <2> SUFFICES ASSUME NEW c \in Processed' PROVE FALSE
    OBVIOUS
  <2>1. c \in DOMAIN cost /\ c \in true /\ ~IsWaiting(c)'
    BY <1>11, <1>13 DEF Processed
  <2>2. Additive => cost'[c] = 0
    BY <1>4, <1>10, <2>1
  <2> QED
    BY <1>4, <1>12, <2>1, <2>2 DEF IsWaiting
<1>15. numOpenGoals' = Cardinality(OpenGoals')
  <2>1. OpenGoals' = GoalConjunctions \ (IF Additive THEN {} ELSE subgoals)
    BY <1>3, <1>4, <1>13, <1>14 DEF OpenGoals
  <2> QED
    BY <1>1, <2>1
<1>16. \A c \in DOMAIN cost' : InitiallyTrue(c)' => Reached(c)'
  BY <1>1, <1>11, <1>13 DEF InitiallyTrue, true
<1>17. \A e \in queue' : Reached(e[2])' /\ (Additive => cost'[e[2]] <= e[1])
  <2> SUFFICES ASSUME NEW e \in queue' PROVE Reached(e[2])' /\ (Additive => cost'[e[2]] <= e[1])
    OBVIOUS
  <2>1. e[1] = 0 /\ e[2] \in true /\ e[2] \in DOMAIN cost
    BY <1>6 DEF true
  <2> QED
    BY <1>4, <1>10, <1>13, <2>1
<1>18. ASSUME NEW r \in DOMAIN groups
       PROVE  /\ value'[r] = Cardinality(groups[r].waitsFor \ Processed')
              /\ ~(groups[r].waitsFor \subseteq Processed')
  <2>1. groups[r].waitsFor \ {} = groups[r].waitsFor
    OBVIOUS
  <2> QED
    BY <1>1, <1>3, <1>14, <2>1, GoalsAreFinite DEF ResetValue
<1> QED
  BY <1>1, <1>4, <1>14, <1>15, <1>16, <1>17, <1>18 DEF CountInv

\* One layer, unless it holds the last goals: everything scheduled is processed, and
\* all that this completes is scheduled.
LEMMA LayerStep ==
  ASSUME DataInv, CostInv, CountInv, NextLayer, numOpenGoals' > 0
  PROVE  \E new \in SUBSET Known_ :
           /\ \A c \in new : ~Reached(c)
           /\ DOMAIN cost' = DOMAIN cost
           /\ \A c \in DOMAIN cost : cost'[c] = IF c \in new THEN h + 1 ELSE cost[c]
           /\ queue' = {<<h + 1, c>> : c \in new}
           /\ numOpenGoals' = numOpenGoals - Cardinality(new \cap GoalConjunctions)
           /\ h' = IF new = {} THEN h ELSE h + 1
           /\ \A r \in DOMAIN groups :
                value'[r] = value[r] - Cardinality(groups[r].waitsFor \cap {e[2] : e \in queue})
           /\ \A r \in DOMAIN groups : value'[r] = 0 /\ value[r] > 0 =>
                \A k \in groups[r].group : k[2] \in Known_ /\ (Reached(k[2]) \/ k[2] \in new)
<1> DEFINE scheduled == {e[2] : e \in queue}
           left == [r \in DOMAIN value |-> value[r] - Cardinality(groups[r].waitsFor \cap scheduled)]
           completed == {r \in DOMAIN value : left[r] = 0 /\ value[r] > 0}
           new == {c \in DOMAIN supporters : cost[c] = UNREACHED /\ Ways(c, completed) # {}}
           subgoals == new \cap GoalConjunctions
           last == Cardinality(subgoals) = numOpenGoals
<1>1. /\ value' = left
      /\ \E set \in (IF last THEN {subgoals \cup rest : rest \in SUBSET (new \ subgoals)} ELSE {new}) :
           cost' = [c \in DOMAIN cost |-> IF c \in set THEN h + 1 ELSE cost[c]]
      /\ queue' = {<<h + 1, c>> : c \in new}
      /\ numOpenGoals' = numOpenGoals - Cardinality(subgoals)
      /\ h' = IF new = {} THEN h ELSE h + 1
  BY Zenon DEF NextLayer
<1>2. DOMAIN value = DOMAIN groups /\ DOMAIN supporters = Known_
  BY DEF DataInv
<1>3. \A r \in DOMAIN groups : value'[r] = value[r] - Cardinality(groups[r].waitsFor \cap scheduled)
  BY <1>1, <1>2
<1>4. \A r \in DOMAIN groups : value'[r] = 0 /\ value[r] > 0 => r \in completed
  BY <1>1, <1>2
<1>5. completed \in SUBSET DOMAIN groups
  BY <1>2
<1> HIDE DEF completed, left
<1>6. new \in SUBSET Known_ /\ \A c \in new : ~Reached(c)
  BY <1>2 DEF Reached
<1>7. ASSUME NEW r \in completed, NEW k \in groups[r].group
      PROVE  k[2] \in Known_ /\ (Reached(k[2]) \/ k[2] \in new)
  <2>1. k = <<k[1], k[2]>> /\ k[2] \in Known_ /\ k[1] \in Regressions(k[2])
    BY <1>5, GroupsOfConjunctions DEF DataInv, Known_
  <2>2. k[2] \in SUBSET Facts
    BY <2>1, KnownConjunctions DEF DataInv, Known_
  <2>3. k[1] \in Actions
    BY <2>1, <2>2, RegressionFacts
  <2>4. k[1] \in Ways(k[2], completed)
    BY <2>1, <2>3 DEF Ways
  <2> QED
    BY <1>2, <2>1, <2>4 DEF Reached
<1> HIDE DEF new
<1>8. ~last
  <2>1. numOpenGoals \in Nat
    <3>1. pc = "search" /\ numOpenGoals > 0 /\ ~Additive
      BY DEF NextLayer
    <3>2. OpenGoals \subseteq GoalConjunctions /\ numOpenGoals = Cardinality(OpenGoals)
      BY <3>1 DEF CountInv, OpenGoals
    <3> QED
      BY <3>2, GoalsAreFinite, FS_Subset, FS_CardinalityType
  <2> QED
    BY <1>1, <2>1
<1>9. cost' = [c \in DOMAIN cost |-> IF c \in new THEN h + 1 ELSE cost[c]]
  BY <1>1, <1>8
<1>10. DOMAIN cost' = DOMAIN cost /\ \A c \in DOMAIN cost : cost'[c] = IF c \in new THEN h + 1 ELSE cost[c]
  BY <1>9
<1> QED
  BY <1>1, <1>3, <1>4, <1>6, <1>7, <1>10

LEMMA CostNextLayer ==
  ASSUME DataInv, CostInv, NextLayer
  PROVE  CostInv'
<1> DEFINE scheduled == {e[2] : e \in queue}
           left == [r \in DOMAIN value |-> value[r] - Cardinality(groups[r].waitsFor \cap scheduled)]
           completed == {r \in DOMAIN value : left[r] = 0 /\ value[r] > 0}
           new == {c \in DOMAIN supporters : cost[c] = UNREACHED /\ Ways(c, completed) # {}}
<1>1. /\ \E set : cost' = [c \in DOMAIN cost |-> IF c \in set THEN h + 1 ELSE cost[c]]
      /\ queue' = {<<h + 1, c>> : c \in new}
      /\ h' = IF new = {} THEN h ELSE h + 1
      /\ UNCHANGED <<learned, groups, groupCost>>
  BY Zenon DEF NextLayer
<1>2. new \subseteq Known_ /\ h + 1 \in Nat /\ Known_' = Known_
  BY <1>1 DEF DataInv, CostInv, Known_
<1> HIDE DEF new
<1>3. cost' \in [Known_ \cup {DummyPrecondition} -> Nat \cup {UNREACHED}]
  BY <1>1, <1>2 DEF CostInv
<1>4. ASSUME NEW e \in queue'
      PROVE  e = <<e[1], e[2]>> /\ e[1] \in Nat /\ e[2] \in Known_ \cup {DummyPrecondition}
  BY <1>1, <1>2
<1>5. h' \in Nat
  BY <1>1, <1>2 DEF CostInv
<1> QED
  BY <1>1, <1>2, <1>3, <1>4, <1>5 DEF CostInv

LEMMA CountNextLayer ==
  ASSUME DataInv, CostInv, CountInv, NextLayer
  PROVE  CountInv'
<1>1. SUFFICES ASSUME numOpenGoals' > 0 PROVE CountInv'
  BY DEF CountInv
<1>2. PICK new \in SUBSET Known_ :
           /\ \A c \in new : ~Reached(c)
           /\ DOMAIN cost' = DOMAIN cost
           /\ \A c \in DOMAIN cost : cost'[c] = IF c \in new THEN h + 1 ELSE cost[c]
           /\ queue' = {<<h + 1, c>> : c \in new}
           /\ numOpenGoals' = numOpenGoals - Cardinality(new \cap GoalConjunctions)
           /\ \A r \in DOMAIN groups :
                value'[r] = value[r] - Cardinality(groups[r].waitsFor \cap {e[2] : e \in queue})
           /\ \A r \in DOMAIN groups : value'[r] = 0 /\ value[r] > 0 =>
                \A k \in groups[r].group : k[2] \in Known_ /\ (Reached(k[2]) \/ k[2] \in new)
  BY <1>1, LayerStep
<1> DEFINE scheduled == {e[2] : e \in queue}
<1>3. UNCHANGED <<learned, groups, option, pc, state>> /\ pc = "search" /\ numOpenGoals > 0 /\ ~Additive
  BY DEF NextLayer
<1>4. ~Additive' /\ GoalConjunctions' = GoalConjunctions /\ \A d : InitiallyTrue(d)' <=> InitiallyTrue(d)
  BY <1>3 DEF Additive, GoalConjunctions, InitiallyTrue
<1>5. /\ numOpenGoals = Cardinality(OpenGoals)
      /\ \A c \in DOMAIN cost : InitiallyTrue(c) => Reached(c)
      /\ \A e \in queue : Reached(e[2])
      /\ \A r \in DOMAIN groups :
           /\ value[r] = Cardinality(groups[r].waitsFor \ Processed)
           /\ groups[r].waitsFor \subseteq Processed => \A k \in groups[r].group : Reached(k[2])
  BY <1>3 DEF CountInv
<1>6. DOMAIN cost = Known_ \cup {DummyPrecondition} /\ h + 1 # UNREACHED /\ scheduled \subseteq DOMAIN cost
  BY DEF CostInv, UNREACHED
<1>7. \A c \in scheduled : Reached(c)
  BY <1>5
<1>8. \A c \in DOMAIN cost : Reached(c)' <=> Reached(c) \/ c \in new
  BY <1>2, <1>6 DEF Reached
<1>9. \A c : IsWaiting(c)' <=> c \in new
  <2> SUFFICES ASSUME NEW c PROVE (\E e \in queue' : e[2] = c) <=> c \in new
    BY <1>4 DEF IsWaiting
  <2>1. ASSUME c \in new PROVE \E e \in queue' : e[2] = c
    <3>1. <<h + 1, c>> \in queue' /\ <<h + 1, c>>[2] = c
      BY <1>2, <2>1
    <3> QED
      BY <3>1
  <2> QED
    BY <1>2, <2>1
<1>10. Processed = {c \in DOMAIN cost : Reached(c) /\ c \notin scheduled}
  <2>1. \A c : IsWaiting(c) <=> c \in scheduled
    BY <1>3 DEF IsWaiting
  <2> QED
    BY <2>1 DEF Processed
<1>11. Processed' = Processed \cup scheduled /\ Processed' = {c \in DOMAIN cost : Reached(c)}
  <2>1. Processed' = {c \in DOMAIN cost : Reached(c)' /\ c \notin new}
    BY <1>2, <1>9 DEF Processed
  <2>2. Processed' = {c \in DOMAIN cost : Reached(c)}
    BY <1>2, <1>8, <2>1
  <2> QED
    BY <1>6, <1>7, <1>10, <2>2
<1> HIDE DEF scheduled
<1>12. numOpenGoals' = Cardinality(OpenGoals')
  <2> DEFINE subgoals == new \cap GoalConjunctions
  <2>1. OpenGoals = {c \in GoalConjunctions : ~Reached(c)} /\ GoalConjunctions \subseteq DOMAIN cost
    BY <1>3, <1>6, GoalsAreFinite DEF OpenGoals
  <2>2. OpenGoals' = OpenGoals \ subgoals
    BY <1>4, <1>8, <2>1 DEF OpenGoals
  <2>3. subgoals \subseteq OpenGoals /\ IsFiniteSet(OpenGoals)
    BY <1>2, <2>1, GoalsAreFinite, FS_Subset
  <2> HIDE DEF subgoals
  <2>4. IsFiniteSet(subgoals) /\ OpenGoals \cap subgoals = subgoals
    BY <2>3, FS_Subset
  <2>5. Cardinality(OpenGoals \ subgoals) = Cardinality(OpenGoals) - Cardinality(subgoals)
    BY <2>3, <2>4, FS_Difference
  <2> QED
    BY <1>2, <1>5, <2>2, <2>5 DEF subgoals
<1>13. \A c \in DOMAIN cost' : InitiallyTrue(c)' => Reached(c)'
  BY <1>2, <1>4, <1>5, <1>8
<1>14. \A e \in queue' : Reached(e[2])'
  BY <1>2, <1>6, <1>8
<1>15. ASSUME NEW r \in DOMAIN groups
       PROVE  /\ value'[r] = Cardinality(groups[r].waitsFor \ Processed')
              /\ groups[r].waitsFor \subseteq Processed' => \A k \in groups[r].group : Reached(k[2])'
  <2> DEFINE waits == groups[r].waitsFor
             open == waits \ Processed
  <2>1. waits \cap scheduled = open \cap scheduled
    BY <1>10
  <2>2. waits \ Processed' = open \ scheduled
    BY <1>11
  <2>3. IsFiniteSet(open) /\ value[r] = Cardinality(open)
    BY <1>5, GoalsAreFinite, FS_Difference
  <2>4. value'[r] = value[r] - Cardinality(waits \cap scheduled)
    BY <1>2 DEF scheduled
  <2>5. (waits \subseteq Processed <=> open = {}) /\ (waits \subseteq Processed' <=> waits \ Processed' = {})
    OBVIOUS
  <2> HIDE DEF open, waits
  <2>6. value'[r] = Cardinality(open \ scheduled) /\ IsFiniteSet(open \ scheduled)
    <3>1. Cardinality(open \ scheduled) = Cardinality(open) - Cardinality(open \cap scheduled)
          /\ IsFiniteSet(open \ scheduled)
      BY <2>3, FS_Difference
    <3> QED
      BY <2>1, <2>3, <2>4, <3>1
  <2>7. ASSUME waits \subseteq Processed', NEW k \in groups[r].group PROVE Reached(k[2])'
    <3>1. k[2] \in DOMAIN cost
      BY <1>6, GroupsOfConjunctions DEF DataInv, Known_
    <3>2. CASE open = {}
      BY <1>5, <1>8, <2>5, <3>1, <3>2 DEF waits
    <3>3. CASE open # {}
      <4>1. value'[r] = 0
        BY <2>2, <2>5, <2>6, <2>7, FS_EmptySet
      <4>2. value[r] > 0
        BY <2>3, <3>3, FS_EmptySet, FS_CardinalityType
      <4> QED
        BY <1>2, <1>8, <3>1, <4>1, <4>2
    <3> QED
      BY <3>2, <3>3
  <2> QED
    BY <2>2, <2>6, <2>7 DEF waits
<1>16. groups' = groups
  BY <1>3
<1> QED
  BY <1>4, <1>12, <1>13, <1>14, <1>15, <1>16 DEF CountInv

-----------------------------------------------------------------------------
(* The inductive invariant of the best supporter functions. *)

LEMMA CountInit == Init => CostInv /\ CountInv
<1> SUFFICES ASSUME Init PROVE CostInv /\ CountInv
  OBVIOUS
<1>1. Known_ = Known({}) /\ pc = "idle" /\ queue = {} /\ h = 0
      /\ cost = InitialCosts({}) /\ groupCost = Zero(groups)
  BY DEF Init, Known_
<1>2. cost \in [Known_ \cup {DummyPrecondition} -> Nat \cup {UNREACHED}]
  BY <1>1 DEF InitialCosts
<1>3. groupCost \in [DOMAIN groups -> Nat]
  BY <1>1 DEF Zero
<1> QED
  BY <1>1, <1>2, <1>3 DEF CostInv, CountInv

LEMMA CountNext == DataInv /\ CostInv /\ CountInv /\ [Next]_vars => CostInv' /\ CountInv'
<1> SUFFICES ASSUME DataInv, CostInv, CountInv, [Next]_vars PROVE CostInv' /\ CountInv'
  OBVIOUS
<1>1. CASE UNCHANGED vars
  <2>1. UNCHANGED <<learned, groups, option, pc, state, cost, groupCost, value, queue, numOpenGoals, h>>
    BY <1>1 DEF vars, searchVars
  <2> QED
    BY <2>1 DEF CostInv, CountInv, Known_, Additive, InitiallyTrue, Reached, Processed, IsWaiting,
                OpenGoals, GoalConjunctions
<1>2. CASE Relearn
  <2>1. /\ pc' = "idle" /\ queue' = {} /\ h' = 0
        /\ cost' = InitialCosts(learned') /\ groupCost' = Zero(groups')
    BY <1>2 DEF Relearn
  <2>2. Known_' = Known(learned')
    BY DEF Known_
  <2>3. cost' \in [Known_' \cup {DummyPrecondition} -> Nat \cup {UNREACHED}]
    BY <2>1, <2>2 DEF InitialCosts
  <2>4. groupCost' \in [DOMAIN groups' -> Nat]
    BY <2>1 DEF Zero
  <2> QED
    BY <2>1, <2>3, <2>4 DEF CostInv, CountInv
<1>3. ASSUME NEW s \in EvaluatedStates, Evaluate(s) PROVE CostInv' /\ CountInv'
  BY <1>3, StartOfEvaluation
<1>4. CASE Finish
  <2>1. PICK v : Return(v)
    BY <1>4 DEF Finish
  <2>2. UNCHANGED <<learned, groups, cost, groupCost, h>> /\ queue' = {} /\ pc' # "search"
    BY <2>1 DEF Return, StartExtraction
  <2> QED
    BY <2>2 DEF CostInv, CountInv, Known_
<1>5. CASE PopEntry
  BY <1>5, CostPopEntry, CountPopEntry
<1>6. CASE NextLayer
  BY <1>6, CostNextLayer, CountNextLayer
<1>7. CASE AddNode
  <2>1. UNCHANGED <<learned, groups, cost, groupCost, queue, h>> /\ pc' # "search"
    BY <1>7 DEF AddNode, searchVars
  <2> QED
    BY <2>1 DEF CostInv, CountInv, Known_
<1> QED
  BY <1>1, <1>2, <1>3, <1>4, <1>5, <1>6, <1>7 DEF Next, Search

LEMMA CountAlways == Spec => [](CostInv /\ CountInv)
<1> QED
  BY CountInit, CountNext, DataAlways, PTL DEF Spec

\* With nothing left to trigger, what is reached is closed under the actions.
LEMMA ExhaustedIsClosed ==
  ASSUME DataInv, CostInv, CountInv, pc = "search", numOpenGoals > 0, queue = {}
  PROVE  Closed /\ \E g \in GoalConjunctions : ~Reached(g)
<1>1. /\ numOpenGoals = Cardinality(OpenGoals)
      /\ \A c \in DOMAIN cost : InitiallyTrue(c) => Reached(c)
      /\ \A r \in DOMAIN groups :
           groups[r].waitsFor \subseteq Processed => \A k \in groups[r].group : Reached(k[2])
  BY DEF CountInv
<1>2. DOMAIN cost = Known_ \cup {DummyPrecondition} /\ GoalConjunctions \subseteq DOMAIN cost
  BY GoalsAreFinite DEF CostInv
<1>3. Processed = {c \in DOMAIN cost : Reached(c)}
  BY DEF Processed, IsWaiting
<1>4. OpenGoals # {}
  BY <1>1, FS_EmptySet
<1>5. \E g \in GoalConjunctions : ~Reached(g)
  BY <1>2, <1>3, <1>4 DEF OpenGoals
<1>6. \A r \in DOMAIN groups : groups[r].waitsFor \subseteq DOMAIN cost
  BY <1>2, GoalsAreFinite
<1> QED
  BY <1>1, <1>3, <1>5, <1>6 DEF Closed

-----------------------------------------------------------------------------
(* What the layers reach is what as many actions can reach. *)

\* What a layer adds covers the successors of the states that were covered.
LEMMA LayerCovers ==
  ASSUME DataInv, CostInv, CountInv, StatesAreConsistent, NextLayer, numOpenGoals' > 0,
         NEW s \in EvaluatedStates, Covered(s),
         NEW a \in Actions, Pre[a] \subseteq s, Successor(s, a) \in EvaluatedStates
  PROVE  Covered(s)' /\ Covered(Successor(s, a))'
<1>1. PICK new \in SUBSET Known_ :
           /\ \A c \in new : ~Reached(c)
           /\ DOMAIN cost' = DOMAIN cost
           /\ \A c \in DOMAIN cost : cost'[c] = IF c \in new THEN h + 1 ELSE cost[c]
           /\ queue' = {<<h + 1, c>> : c \in new}
  BY LayerStep
<1>2. UNCHANGED <<learned, groups, option, pc, state>> /\ pc = "search" /\ numOpenGoals > 0 /\ ~Additive
  BY DEF NextLayer
<1>3. DOMAIN cost = Known_ \cup {DummyPrecondition} /\ h + 1 # UNREACHED
  BY DEF CostInv, UNREACHED
<1>4. \A c \in DOMAIN cost : Reached(c)' <=> Reached(c) \/ c \in new
  BY <1>1, <1>3 DEF Reached
<1>5. \A c \in DOMAIN cost : Reached(c) => c \in Processed'
  <2> SUFFICES ASSUME NEW c \in DOMAIN cost, Reached(c) PROVE c \in Processed'
    OBVIOUS
  <2>1. c \notin new
    BY <1>1
  <2>2. ~(\E e \in queue' : e[2] = c)
    BY <1>1, <2>1
  <2>3. ~Additive'
    BY <1>2 DEF Additive
  <2> QED
    BY <1>1, <1>4, <2>2, <2>3 DEF Processed, IsWaiting
<1>6. CountInv' /\ pc' = "search" /\ groups' = groups
  BY <1>2, CountNextLayer
<1>7. \A r \in DOMAIN groups :
        groups[r].waitsFor \subseteq Processed' => \A k \in groups[r].group : Reached(k[2])'
  BY <1>6 DEF CountInv
<1>8. Reached(DummyPrecondition)
  BY <1>2, <1>3 DEF CountInv, InitiallyTrue, DummyPrecondition
<1>9. Known_' = Known_
  BY <1>2 DEF Known_
<1>10. Covered(s)'
  BY <1>3, <1>4, <1>9 DEF Covered
<1>11. ASSUME NEW c \in Known_, c \subseteq Successor(s, a) PROVE Reached(c)'
  <2>1. CASE c \subseteq s
    BY <1>3, <1>4, <2>1 DEF Covered
  <2>2. CASE ~(c \subseteq s)
    <3>1. PICK r \in DOMAIN groups :
            /\ \E k \in groups[r].group : k[2] = c
            /\ \A d \in groups[r].waitsFor : d \in Known_ \cup {DummyPrecondition} /\ d \subseteq s
      BY <1>11, <2>2, SuccessorNeeds
    <3>2. \A d \in groups[r].waitsFor : d \in DOMAIN cost /\ Reached(d)
      BY <1>3, <1>8, <3>1 DEF Covered
    <3> QED
      BY <1>5, <1>7, <3>1, <3>2
  <2> QED
    BY <2>1, <2>2
<1>12. Covered(Successor(s, a))'
  BY <1>9, <1>11 DEF Covered, Successor
<1> QED
  BY <1>10, <1>12

\* While a goal is unreached, no plan is as short as the number of layers.
LEMMA NoPlanYet ==
  ASSUME DataInv, CostInv, CountInv, LayerInv, pc = "search", ~Additive, numOpenGoals > 0
  PROVE  state \notin SolvedWithin[h]
<1> SUFFICES ASSUME state \in SolvedWithin[h] PROVE FALSE
  OBVIOUS
<1>1. h \in Nat /\ state \in EvaluatedStates
  BY DEF CostInv, DataInv
<1>2. PICK t \in Within[h][state] : GoalFacts \subseteq t
  BY <1>1, SolvedHasGoalWithin
<1>3. Covered(t)
  BY <1>2 DEF LayerInv
<1>4. PICK g \in GoalConjunctions : ~Reached(g)
  <2>1. numOpenGoals = Cardinality(OpenGoals)
    BY DEF CountInv
  <2>2. OpenGoals # {}
    BY <2>1, FS_EmptySet
  <2> QED
    BY <2>2 DEF OpenGoals
<1>5. g \in Known_ /\ g \subseteq GoalFacts
  BY DEF GoalConjunctions, Known_
<1> QED
  BY <1>2, <1>3, <1>4, <1>5 DEF Covered

LEMMA LayerNextLayer ==
  ASSUME DataInv, CostInv, CountInv, LayerInv, StatesAreConsistent, NextLayer
  PROVE  LayerInv'
<1>1. /\ UNCHANGED <<learned, groups, option, pc, state>> /\ pc = "search" /\ numOpenGoals > 0
      /\ ~Additive /\ ~Additive' /\ h \in Nat /\ state \in EvaluatedStates
  BY DEF NextLayer, Additive, CostInv, DataInv
<1>2. h' = h \/ h' = h + 1
  BY Zenon DEF NextLayer
<1>3. \A n \in 0 .. h' - 1 : state \notin SolvedWithin[n]
  <2>1. \A n \in 0 .. h - 1 : state \notin SolvedWithin[n]
    BY <1>1 DEF LayerInv
  <2>2. state \notin SolvedWithin[h]
    BY <1>1, NoPlanYet
  <2>3. \A n \in 0 .. h' - 1 : n \in 0 .. h - 1 \/ n = h
    BY <1>1, <1>2
  <2> QED
    BY <2>1, <2>2, <2>3
<1>4. ASSUME numOpenGoals' > 0 PROVE \A s \in Within[h'][state] : Covered(s)'
  <2>1. \A s \in Within[h][state] : s \in EvaluatedStates /\ Covered(s)
    BY <1>1, WithinSteps DEF LayerInv
  <2>2. \A s \in EvaluatedStates, a \in Actions :
          Covered(s) /\ Pre[a] \subseteq s /\ Successor(s, a) \in EvaluatedStates =>
            Covered(s)' /\ Covered(Successor(s, a))'
    BY <1>4, LayerCovers
  <2>3. \A s \in EvaluatedStates : Covered(s) => Covered(s)'
    <3>1. PICK new \in SUBSET Known_ :
             \A c \in DOMAIN cost : cost'[c] = IF c \in new THEN h + 1 ELSE cost[c]
      BY <1>4, LayerStep
    <3>2. DOMAIN cost = Known_ \cup {DummyPrecondition} /\ h + 1 # UNREACHED /\ Known_' = Known_
      BY <1>1 DEF CostInv, UNREACHED, Known_
    <3>3. \A c \in Known_ : Reached(c) => Reached(c)'
      BY <3>1, <3>2 DEF Reached
    <3> QED
      BY <3>2, <3>3 DEF Covered
  <2>4. SUFFICES ASSUME NEW t \in Within[h + 1][state] PROVE Covered(t)'
    BY <1>1, <1>2, <2>1, <2>3
  <2>5. CASE t \in Within[h][state]
    BY <2>1, <2>3, <2>5
  <2>6. CASE t \notin Within[h][state]
    <3>1. t \in EvaluatedStates /\ \E p \in Within[h][state], a \in Actions :
             Pre[a] \subseteq p /\ t = Successor(p, a)
      <4>1. Within[h + 1][state] = Within[h][state] \cup {u \in EvaluatedStates :
              \E p \in Within[h][state], a \in Actions : Pre[a] \subseteq p /\ u = Successor(p, a)}
        BY <1>1, WithinSteps
      <4> QED
        BY <2>4, <2>6, <4>1
    <3> QED
      BY <2>1, <2>2, <3>1
  <2> QED
    BY <2>5, <2>6
<1> QED
  BY <1>1, <1>3, <1>4 DEF LayerInv

LEMMA LayerNext ==
  ASSUME StatesAreConsistent
  PROVE  DataInv /\ CostInv /\ CountInv /\ LayerInv /\ [Next]_vars => LayerInv'
<1> SUFFICES ASSUME DataInv, CostInv, CountInv, LayerInv, [Next]_vars PROVE LayerInv'
  OBVIOUS
<1>1. CASE UNCHANGED vars
  <2>1. UNCHANGED <<learned, option, pc, state, cost, numOpenGoals, h, best>>
    BY <1>1 DEF vars, searchVars
  <2> QED
    BY <2>1 DEF LayerInv, Additive, Covered, Known_, Reached
<1>2. CASE Relearn
  BY <1>2 DEF Relearn, LayerInv
<1>3. ASSUME NEW s \in EvaluatedStates, Evaluate(s) PROVE LayerInv'
  <2>1. pc' = "search" /\ state' = s /\ h' = 0 /\ UNCHANGED <<learned, option>>
    BY <1>3 DEF Evaluate
  <2>2. CostInv' /\ CountInv'
    BY <1>3, StartOfEvaluation
  <2>3. Within[h'][state'] = {s}
    BY <2>1, WithinSteps
  <2>4. numOpenGoals' > 0 => Covered(s)'
    <3> SUFFICES ASSUME numOpenGoals' > 0, NEW c \in Known_', c \subseteq s PROVE Reached(c)'
      BY DEF Covered
    <3>1. c \in DOMAIN cost'
      BY <2>2 DEF CostInv
    <3> QED
      BY <2>1, <2>2, <3>1 DEF CountInv, InitiallyTrue
  <2> QED
    BY <2>1, <2>3, <2>4 DEF LayerInv
<1>4. CASE Finish
  <2>1. pc' # "search" /\ UNCHANGED <<option, state>> /\ pc = "search"
    BY <1>4 DEF Finish, Return, StartExtraction
  <2>2. best' = h \/ best' = DEAD_END
    BY <1>4 DEF Finish, Return
  <2>3. ~Additive => \A n \in 0 .. best' - 1 : state \notin SolvedWithin[n]
    BY <2>1, <2>2 DEF LayerInv, DEAD_END
  <2> QED
    BY <2>1, <2>3 DEF LayerInv, Additive
<1>5. CASE PopEntry
  <2>1. Additive' /\ pc' = "search"
    BY <1>5 DEF PopEntry, Additive
  <2> QED
    BY <2>1 DEF LayerInv
<1>6. CASE NextLayer
  BY <1>6, LayerNextLayer
<1>7. CASE AddNode
  <2>1. pc = "extract" /\ pc' # "search" /\ UNCHANGED <<option, state, best>>
    BY <1>7 DEF AddNode
  <2> QED
    BY <2>1 DEF LayerInv, Additive
<1> QED
  BY <1>1, <1>2, <1>3, <1>4, <1>5, <1>6, <1>7 DEF Next, Search

LEMMA LayerAlways ==
  ASSUME StatesAreConsistent
  PROVE  Spec => []LayerInv
<1>1. Init => LayerInv
  BY DEF Init, LayerInv
<1>2. DataInv /\ CostInv /\ CountInv /\ LayerInv /\ [Next]_vars => LayerInv'
  BY LayerNext
<1> QED
  BY <1>1, <1>2, DataAlways, CountAlways, PTL DEF Spec

-----------------------------------------------------------------------------
(* What an evaluation returns. *)

\* The recursive function of RealCost.
SummedBy(f, nodes) ==
  f = [i \in 1 .. Len(nodes) |-> IF i = 1 THEN 0 ELSE f[i - 1] + ActionCost[nodes[i].action]]

LEMMA RealCostIsNat ==
  ASSUME NEW X, NEW nodes \in Seq(X), nodes # <<>>, \A i \in DOMAIN nodes \ {1} : nodes[i].action \in Actions
  PROVE  RealCost(nodes) \in Nat
<1> DEFINE k == Len(nodes)
           Sums(n, f) == f = [i \in 1 .. n |-> IF i = 1 THEN 0 ELSE f[i - 1] + ActionCost[nodes[i].action]]
           S == {n \in Nat : \E f : Sums(n, f)}
           g == CHOOSE f : SummedBy(f, nodes)
<1>1. k \in Nat /\ k >= 1 /\ \A i \in 2 .. k : ActionCost[nodes[i].action] \in Nat
  <2>1. k \in Nat /\ DOMAIN nodes = 1 .. k /\ k # 0
    BY EmptySeq, LenProperties
  <2>2. \A a \in Actions : ActionCost[a] \in Nat
    BY RegressionAssumption DEF RegressionAssumption
  <2>3. \A i \in 2 .. k : i \in DOMAIN nodes \ {1}
    BY <2>1
  <2> HIDE DEF k
  <2>4. k >= 1
    BY <2>1
  <2> QED
    BY <2>1, <2>2, <2>3, <2>4
<1>2. 0 \in S
  <2> DEFINE f == [i \in 1 .. 0 |-> 0]
  <2>1. f = [i \in 1 .. 0 |-> IF i = 1 THEN 0 ELSE f[i - 1] + ActionCost[nodes[i].action]]
    OBVIOUS
  <2> QED
    BY <2>1
<1>3. ASSUME NEW n \in S PROVE n + 1 \in S
  <2>1. PICK f : Sums(n, f)
    OBVIOUS
  <2> DEFINE e == [i \in 1 .. n + 1 |-> IF i = 1 THEN 0
                                        ELSE IF i = n + 1 THEN f[n] + ActionCost[nodes[i].action] ELSE f[i]]
  <2>2. \A i \in 1 .. n : f[i] = IF i = 1 THEN 0 ELSE f[i - 1] + ActionCost[nodes[i].action]
    BY <2>1, Zenon
  <2>3. n \in Nat /\ \A i \in 1 .. n + 1 : e[i] = IF i = 1 THEN 0
                       ELSE IF i = n + 1 THEN f[n] + ActionCost[nodes[i].action] ELSE f[i]
    OBVIOUS
  <2> HIDE DEF e
  <2>4. \A i \in 1 .. n : e[i] = f[i]
    BY <2>2, <2>3
  <2>5. \A i \in 1 .. n + 1 : e[i] = IF i = 1 THEN 0 ELSE e[i - 1] + ActionCost[nodes[i].action]
    <3> SUFFICES ASSUME NEW i \in 1 .. n + 1, i # 1 PROVE e[i] = e[i - 1] + ActionCost[nodes[i].action]
      BY <2>3
    <3>1. i - 1 \in 1 .. n /\ e[i - 1] = f[i - 1]
      BY <2>3, <2>4
    <3>2. CASE i = n + 1
      BY <2>3, <3>1, <3>2
    <3>3. CASE i # n + 1
      <4>1. i \in 1 .. n
        BY <2>3, <3>3
      <4> QED
        BY <2>2, <2>4, <3>1, <4>1
    <3> QED
      BY <3>2, <3>3
  <2>6. e = [i \in 1 .. n + 1 |-> IF i = 1 THEN 0 ELSE e[i - 1] + ActionCost[nodes[i].action]]
    BY <2>5 DEF e
  <2>7. Sums(n + 1, e)
    BY <2>6
  <2> HIDE DEF Sums
  <2>8. \E e_ : Sums(n + 1, e_)
    BY <2>7
  <2> QED
    BY <2>3, <2>8
<1>4. k \in S
  <2>1. S \in SUBSET Nat
    OBVIOUS
  <2> HIDE DEF S, k
  <2> QED
    BY <1>1, <1>2, <1>3, <2>1, NatInductive
<1>5. \E f : SummedBy(f, nodes)
  BY <1>4 DEF SummedBy
<1>6. SummedBy(g, nodes)
  BY <1>5
<1>7. RealCost(nodes) = g[k]
  BY Zenon DEF RealCost, SummedBy
<1> HIDE DEF g
<1>8. \A i \in 1 .. k : g[i] = IF i = 1 THEN 0 ELSE g[i - 1] + ActionCost[nodes[i].action]
  BY <1>6, Zenon DEF SummedBy
<1> DEFINE T == {n \in Nat : n + 1 <= k => g[n + 1] \in Nat}
<1>9. T = Nat
  <2> HIDE DEF k
  <2>1. T \in SUBSET Nat /\ 0 \in T
    BY <1>1, <1>8
  <2>2. ASSUME NEW n \in T PROVE n + 1 \in T
    <3>1. SUFFICES ASSUME (n + 1) + 1 <= k PROVE g[(n + 1) + 1] \in Nat
      OBVIOUS
    <3> DEFINE i == (n + 1) + 1
    <3>2. i \in 2 .. k /\ i \in 1 .. k /\ i # 1 /\ i - 1 = n + 1 /\ g[n + 1] \in Nat
      BY <1>1, <3>1
    <3> HIDE DEF i
    <3>3. g[i] = g[n + 1] + ActionCost[nodes[i].action] /\ ActionCost[nodes[i].action] \in Nat
      BY <1>1, <1>8, <3>2
    <3> QED
      BY <3>2, <3>3 DEF i
  <2> HIDE DEF T
  <2> QED
    BY <2>1, <2>2, NatInductive
<1>10. k - 1 \in Nat /\ (k - 1) + 1 = k
  BY <1>1
<1>11. g[k] \in Nat
  <2> HIDE DEF k
  <2> QED
    BY <1>9, <1>10
<1> QED
  BY <1>7, <1>11

LEMMA ResultNext ==
  DataInv /\ CostInv /\ CountInv /\ PlanInv /\ ResultInv /\ [Next]_vars => ResultInv'
<1> SUFFICES ASSUME DataInv, CostInv, CountInv, PlanInv, ResultInv, [Next]_vars PROVE ResultInv'
  OBVIOUS
<1>1. CASE UNCHANGED <<state, best, result>> /\ (pc' = "extract" => pc = "extract")
  BY <1>1 DEF ResultInv
<1>2. CASE best' = NONE /\ result' = NONE /\ pc' # "extract"
  BY <1>2 DEF ResultInv, NONE, DEAD_END
<1>3. CASE Finish
  <2>1. UNCHANGED state /\ h \in Nat /\ pc = "search"
    BY <1>3 DEF Finish, Return, CostInv
  <2>2. CASE Return(h)
    <3>1. best' = h /\ result' \in {h, 0, result}
      BY <2>2 DEF Return, StartExtraction
    <3>2. best' \in Nat \cup {DEAD_END, NONE} /\ best' # NONE
      BY <2>1, <3>1 DEF NONE
    <3>3. result' = DEAD_END => result = DEAD_END
      BY <2>1, <3>1 DEF DEAD_END
    <3> QED
      BY <2>1, <3>2, <3>3 DEF ResultInv
  <2>3. CASE numOpenGoals > 0 /\ queue = {} /\ Return(DEAD_END)
    <3>1. StatesAreConsistent => state \notin Solvable
      <4>1. Closed /\ \E g \in GoalConjunctions : ~Reached(g)
        BY <2>1, <2>3, ExhaustedIsClosed
      <4> QED
        BY <4>1, ClosedMeansDeadEnd
    <3>2. best' = DEAD_END /\ DEAD_END # NONE
      BY <2>3 DEF Return, DEAD_END, NONE
    <3> QED
      BY <2>1, <3>1, <3>2 DEF ResultInv
  <2> QED
    BY <1>3, <2>2, <2>3 DEF Finish
<1>4. CASE AddNode
  <2>1. pc = "extract" /\ UNCHANGED <<state, best>> /\ (result' = RealCost(bsg') \/ UNCHANGED result)
    BY <1>4 DEF AddNode
  <2>2. GraphInv'
    BY <1>4, <2>1, GraphAddNode DEF PlanInv
  <2>3. RealCost(bsg') \in Nat
    <3>1. /\ bsg' \in Seq(BsgNode') /\ bsg' # <<>>
          /\ \A i \in DOMAIN bsg' \ {1} : bsg'[i].action \in Actions
      BY <2>2 DEF GraphInv, IsApplication
    <3> QED
      BY <3>1, RealCostIsNat
  <2> QED
    BY <2>1, <2>3 DEF ResultInv, DEAD_END
<1> QED
  BY <1>1, <1>2, <1>3, <1>4
     DEF Next, Search, vars, searchVars, Relearn, Evaluate, PopEntry, NextLayer

LEMMA ResultAlways == Spec => []ResultInv
<1>1. Init => ResultInv
  BY DEF Init, ResultInv, NONE, DEAD_END
<1> QED
  BY <1>1, ResultNext, DataAlways, CountAlways, PlanAlways, PTL DEF Spec

\* Property DeadEndsAreSafe: when nothing is left to trigger and a goal is not reached,
\* the reached conjunctions are closed, and no plan leads out of a closed set.
THEOREM DeadEndsAreAlwaysSafe ==
  ASSUME StatesAreConsistent
  PROVE  Spec => []DeadEndsAreSafe
<1>1. ResultInv => DeadEndsAreSafe
  BY DEF ResultInv, DeadEndsAreSafe
<1> QED
  BY <1>1, ResultAlways, PTL

\* Property CmaxIsAdmissible: n layers reach all that n actions can reach, so a plan has
\* an action for every layer.
THEOREM CmaxIsAlwaysAdmissible ==
  ASSUME StatesAreConsistent
  PROVE  Spec => []CmaxIsAdmissible
<1>1. DataInv /\ LayerInv /\ ResultInv => CmaxIsAdmissible
  <2> SUFFICES ASSUME LayerInv, ResultInv, Evaluated, ~Additive,
                      NEW n \in 0 .. Cardinality(EvaluatedStates), state \in SolvedWithin[n]
               PROVE  best <= n
    BY DEF CmaxIsAdmissible
  <2>1. best \in Int /\ best # NONE /\ pc # "search"
    BY DEF Evaluated, ResultInv, DEAD_END, NONE
  <2>2. n \notin 0 .. best - 1
    BY <2>1 DEF LayerInv
  <2>3. n \in Int /\ n >= 0
    BY EvaluatedStatesAreFinite
  <2> QED
    BY <2>1, <2>2, <2>3
<1> QED
  BY <1>1, DataAlways, LayerAlways, ResultAlways, PTL

-----------------------------------------------------------------------------
(* Sums of costs. *)

\* The recursive function of SumFunctionOnSet.
SumsUp(it, f, S) ==
  it = [s \in SUBSET S |-> IF s = {} THEN 0
                           ELSE LET x == CHOOSE x \in s : TRUE IN f[x] + it[s \ {x}]]

SumsFrom(it, f, S) ==
  \A s \in SUBSET S : it[s] = IF s = {} THEN 0
                              ELSE f[CHOOSE x \in s : TRUE] + it[s \ {CHOOSE x \in s : TRUE}]

LEMMA SumIsOne ==
  ASSUME NEW f, NEW S
  PROVE  SumFunctionOnSet(f, S) = (CHOOSE it : SumsUp(it, f, S))[S]
  BY Zenon DEF SumFunctionOnSet, FoldFunctionOnSet, MapThenFoldSet, SumsUp

\* Sums of the subsets up to a size, and so of all.
LEMMA SumsExist ==
  ASSUME NEW f, NEW S, IsFiniteSet(S)
  PROVE  \E it : SumsUp(it, f, S)
<1> DEFINE Small(n) == {s \in SUBSET S : Cardinality(s) <= n}
           IsIt(it, n) == \A s \in Small(n) :
             it[s] = IF s = {} THEN 0 ELSE f[CHOOSE x \in s : TRUE] + it[s \ {CHOOSE x \in s : TRUE}]
           K == {n \in Nat : \E it : IsIt(it, n)}
<1>1. \A s \in SUBSET S : IsFiniteSet(s) /\ Cardinality(s) \in Nat /\ (Cardinality(s) = 0 <=> s = {})
  BY FS_Subset, FS_CardinalityType, FS_EmptySet
<1>2. \A s \in SUBSET S : s # {} =>
        /\ s \ {CHOOSE x \in s : TRUE} \in SUBSET S
        /\ Cardinality(s \ {CHOOSE x \in s : TRUE}) = Cardinality(s) - 1
  <2> SUFFICES ASSUME NEW s \in SUBSET S, s # {}
               PROVE  Cardinality(s \ {CHOOSE x \in s : TRUE}) = Cardinality(s) - 1
    OBVIOUS
  <2> DEFINE y == CHOOSE x \in s : TRUE
  <2>1. y \in s
    OBVIOUS
  <2> HIDE DEF y
  <2>2. Cardinality(s \ {y}) = Cardinality(s) - 1
    BY <1>1, <2>1, FS_RemoveElement
  <2> QED
    BY <2>2 DEF y
<1>3. 0 \in K
  <2>1. IsIt([s \in SUBSET S |-> 0], 0)
    BY <1>1
  <2> HIDE DEF IsIt
  <2> QED
    BY <2>1
<1>4. ASSUME NEW n \in K PROVE n + 1 \in K
  <2>1. PICK it : IsIt(it, n)
    OBVIOUS
  <2> DEFINE nt == [s \in SUBSET S |->
                      IF Cardinality(s) <= n THEN it[s]
                      ELSE f[CHOOSE x \in s : TRUE] + it[s \ {CHOOSE x \in s : TRUE}]]
  <2>2. \A s \in SUBSET S : nt[s] = IF Cardinality(s) <= n THEN it[s]
                      ELSE f[CHOOSE x \in s : TRUE] + it[s \ {CHOOSE x \in s : TRUE}]
    OBVIOUS
  <2> HIDE DEF nt
  <2>3. ASSUME NEW s \in Small(n + 1)
        PROVE  nt[s] = IF s = {} THEN 0 ELSE f[CHOOSE x \in s : TRUE] + nt[s \ {CHOOSE x \in s : TRUE}]
    <3>1. CASE s = {}
      <4>1. Cardinality(s) <= n
        BY <1>1, <3>1
      <4>2. it[s] = 0
        BY <2>1, <3>1, <4>1
      <4> QED
        BY <2>2, <3>1, <4>1, <4>2
    <3>2. CASE s # {}
      <4> DEFINE y == CHOOSE x \in s : TRUE
                 t == s \ {y}
      <4>1. t \in SUBSET S /\ Cardinality(t) <= n /\ Cardinality(s) \in Nat
        BY <1>1, <1>2, <3>2
      <4>2. nt[t] = it[t]
        BY <2>2, <4>1
      <4>3. Cardinality(s) <= n => it[s] = f[y] + it[t]
        BY <2>1, <3>2
      <4>4. nt[s] = IF Cardinality(s) <= n THEN it[s] ELSE f[y] + it[t]
        BY <2>2
      <4> HIDE DEF y, t
      <4>5. nt[s] = f[y] + nt[t]
        BY <4>2, <4>3, <4>4
      <4> QED
        BY <3>2, <4>5 DEF y, t
    <3> QED
      BY <3>1, <3>2
  <2>4. n + 1 \in Nat
    OBVIOUS
  <2>5. IsIt(nt, n + 1)
    BY ONLY <2>3, Zenon
  <2> HIDE DEF IsIt
  <2> QED
    BY <2>4, <2>5
<1>5. Cardinality(S) \in K
  <2>1. K \in SUBSET Nat /\ Cardinality(S) \in Nat
    BY FS_CardinalityType
  <2> HIDE DEF K
  <2> QED
    BY <1>3, <1>4, <2>1, NatInductive
<1>6. PICK it : IsIt(it, Cardinality(S))
  BY <1>5
<1>7. \A s \in SUBSET S : s \in Small(Cardinality(S))
  BY FS_Subset
<1> DEFINE jt == [s \in SUBSET S |-> it[s]]
<1>8. \A s \in SUBSET S : jt[s] = IF s = {} THEN 0 ELSE f[CHOOSE x \in s : TRUE] + jt[s \ {CHOOSE x \in s : TRUE}]
  <2>1. \A s \in SUBSET S : it[s] = IF s = {} THEN 0 ELSE f[CHOOSE x \in s : TRUE] + it[s \ {CHOOSE x \in s : TRUE}]
    BY <1>6, <1>7
  <2>2. \A s \in SUBSET S : jt[s] = it[s] /\ s \ {CHOOSE x \in s : TRUE} \in SUBSET S
    OBVIOUS
  <2> HIDE DEF jt
  <2> QED
    BY <2>1, <2>2
<1>9. SumsUp(jt, f, S)
  <2>1. jt = [s \in SUBSET S |-> jt[s]]
    OBVIOUS
  <2> HIDE DEF jt
  <2> QED
    BY <1>8, <2>1 DEF SumsUp
<1> QED
  BY <1>9

LEMMA SumsAgree ==
  ASSUME NEW f, NEW S, IsFiniteSet(S), NEW T \in SUBSET S,
         NEW a, NEW b, SumsUp(a, f, S), SumsUp(b, f, T)
  PROVE  a[T] = b[T]
<1> DEFINE K == {n \in Nat : \A s \in SUBSET T : Cardinality(s) = n => a[s] = b[s]}
<1>1. \A s \in SUBSET S : a[s] = IF s = {} THEN 0
        ELSE f[CHOOSE x \in s : TRUE] + a[s \ {CHOOSE x \in s : TRUE}]
  BY Zenon DEF SumsUp
<1>2. \A s \in SUBSET T : b[s] = IF s = {} THEN 0
        ELSE f[CHOOSE x \in s : TRUE] + b[s \ {CHOOSE x \in s : TRUE}]
  BY Zenon DEF SumsUp
<1>3. \A s \in SUBSET T : IsFiniteSet(s) /\ Cardinality(s) \in Nat /\ (Cardinality(s) = 0 <=> s = {})
  BY FS_Subset, FS_CardinalityType, FS_EmptySet
<1>4. 0 \in K
  BY <1>1, <1>2, <1>3
<1>5. ASSUME NEW n \in K PROVE n + 1 \in K
  <2> SUFFICES ASSUME NEW s \in SUBSET T, Cardinality(s) = n + 1 PROVE a[s] = b[s]
    OBVIOUS
  <2> DEFINE y == CHOOSE x \in s : TRUE
             t == s \ {y}
  <2>1. s # {} /\ y \in s
    BY <1>3
  <2>2. a[s] = f[y] + a[t] /\ b[s] = f[y] + b[t]
    BY <1>1, <1>2, <2>1
  <2> HIDE DEF y
  <2>3. t \in SUBSET T /\ Cardinality(t) = n
    <3>1. Cardinality(t) = Cardinality(s) - 1 /\ n \in Nat
      BY <1>3, <2>1, FS_RemoveElement
    <3> QED
      BY <3>1
  <2> HIDE DEF t
  <2> QED
    BY <2>2, <2>3
<1>6. Cardinality(T) \in K
  <2>1. K \in SUBSET Nat /\ Cardinality(T) \in Nat
    BY <1>3
  <2> HIDE DEF K
  <2> QED
    BY <1>4, <1>5, <2>1, NatInductive
<1> QED
  BY <1>6

LEMMA SumSteps ==
  ASSUME NEW f, NEW S, IsFiniteSet(S)
  PROVE  SumFunctionOnSet(f, S) = IF S = {} THEN 0
           ELSE f[CHOOSE x \in S : TRUE] + SumFunctionOnSet(f, S \ {CHOOSE x \in S : TRUE})
<1> DEFINE it == CHOOSE g : SumsUp(g, f, S)
           y == CHOOSE x \in S : TRUE
           T == S \ {y}
           jt == CHOOSE g : SumsUp(g, f, T)
<1>1. SumsUp(it, f, S)
  BY SumsExist
<1>2. T \in SUBSET S /\ IsFiniteSet(T)
  BY FS_Subset
<1>3. SumsUp(jt, f, T)
  BY <1>2, SumsExist
<1>4. SumFunctionOnSet(f, S) = it[S] /\ SumFunctionOnSet(f, T) = jt[T]
  BY SumIsOne
<1> HIDE DEF it, jt
<1>5. it[T] = jt[T]
  BY <1>1, <1>2, <1>3, SumsAgree
<1>6. it[S] = IF S = {} THEN 0 ELSE f[CHOOSE x \in S : TRUE] + it[S \ {CHOOSE x \in S : TRUE}]
  <2>1. \A s \in SUBSET S : it[s] = IF s = {} THEN 0
        ELSE f[CHOOSE x \in s : TRUE] + it[s \ {CHOOSE x \in s : TRUE}]
    BY <1>1, Zenon DEF SumsUp
  <2> QED
    BY <2>1
<1> QED
  BY <1>4, <1>5, <1>6

\* Sums of naturals do not depend on the order, and grow with what is summed up.
LEMMA SumProperties ==
  ASSUME NEW f, NEW S, IsFiniteSet(S), \A x \in S : f[x] \in Nat
  PROVE  /\ S = {} => SumFunctionOnSet(f, S) = 0
         /\ SumFunctionOnSet(f, S) \in Nat
         /\ \A x \in S : SumFunctionOnSet(f, S) = f[x] + SumFunctionOnSet(f, S \ {x})
<1> DEFINE Sum(T) == SumFunctionOnSet(f, T)
           Adds(T) == Sum(T) \in Nat /\ \A x \in T : Sum(T) = f[x] + Sum(T \ {x})
           K == {n \in Nat : \A T \in SUBSET S : Cardinality(T) <= n => Adds(T)}
<1>1. \A T \in SUBSET S : IsFiniteSet(T) /\ Cardinality(T) \in Nat /\ (Cardinality(T) = 0 <=> T = {})
  BY FS_Subset, FS_CardinalityType, FS_EmptySet
<1>2. Sum({}) = 0
  BY SumSteps, FS_EmptySet
<1>3. \A T \in SUBSET S : T # {} => \E y \in T : Sum(T) = f[y] + Sum(T \ {y})
  <2> SUFFICES ASSUME NEW T \in SUBSET S, T # {} PROVE \E y \in T : Sum(T) = f[y] + Sum(T \ {y})
    OBVIOUS
  <2>1. Sum(T) = f[CHOOSE x \in T : TRUE] + Sum(T \ {CHOOSE x \in T : TRUE}) /\ (CHOOSE x \in T : TRUE) \in T
    BY <1>1, SumSteps
  <2> QED
    BY <2>1
<1> HIDE DEF Sum
<1>4. 0 \in K
  <2> SUFFICES ASSUME NEW T \in SUBSET S, Cardinality(T) <= 0 PROVE Adds(T)
    OBVIOUS
  <2>1. T = {}
    BY <1>1
  <2> QED
    BY <1>2, <2>1
<1>5. ASSUME NEW n \in K PROVE n + 1 \in K
  <2> SUFFICES ASSUME NEW T \in SUBSET S, Cardinality(T) <= n + 1 PROVE Adds(T)
    OBVIOUS
  <2>1. CASE T = {}
    BY <1>2, <2>1
  <2>2. CASE T # {}
    <3>1. PICK y \in T : Sum(T) = f[y] + Sum(T \ {y})
      BY <1>3, <2>2
    <3>2. \A x \in T : T \ {x} \in SUBSET S /\ Cardinality(T \ {x}) <= n
      BY <1>1, FS_RemoveElement
    <3>3. \A x \in T : Adds(T \ {x})
      BY <3>2
    <3>4. ASSUME NEW x \in T PROVE Sum(T) = f[x] + Sum(T \ {x})
      <4>1. CASE x = y
        BY <3>1, <4>1
      <4>2. CASE x # y
        <5> DEFINE U == (T \ {x}) \ {y}
        <5>1. U = (T \ {y}) \ {x} /\ x \in T \ {y} /\ y \in T \ {x}
          BY <4>2
        <5>2. Sum(T \ {x}) = f[y] + Sum(U) /\ Sum(T \ {y}) = f[x] + Sum(U)
          <6>1. Adds(T \ {x}) /\ Adds(T \ {y})
            BY <3>3
          <6>2. Sum(T \ {x}) = f[y] + Sum((T \ {x}) \ {y})
            BY <5>1, <6>1, Zenon
          <6>3. Sum(T \ {y}) = f[x] + Sum((T \ {y}) \ {x})
            BY <5>1, <6>1, Zenon
          <6> QED
            BY <5>1, <6>2, <6>3, Zenon
        <5>3. Sum(U) \in Nat
          <6>1. U \in SUBSET S /\ Cardinality(U) <= n
            <7>1. U \subseteq T \ {x} /\ T \ {x} \in SUBSET S
              OBVIOUS
            <7>2. Cardinality(U) <= Cardinality(T \ {x})
              BY <1>1, <7>1, FS_Subset
            <7> HIDE DEF U
            <7> QED
              BY <1>1, <3>2, <7>1, <7>2
          <6> QED
            BY <6>1
        <5> HIDE DEF U
        <5>4. f[x] \in Nat /\ f[y] \in Nat
          OBVIOUS
        <5> QED
          BY <3>1, <5>2, <5>3, <5>4
      <4> QED
        BY <4>1, <4>2
    <3>5. Sum(T) \in Nat
      <4>1. f[y] \in Nat /\ Sum(T \ {y}) \in Nat
        BY <3>3
      <4> QED
        BY <3>1, <4>1
    <3> QED
      BY <3>4, <3>5
  <2> QED
    BY <2>1, <2>2
<1>6. Cardinality(S) \in K
  <2>1. K \in SUBSET Nat /\ Cardinality(S) \in Nat
    BY <1>1
  <2> HIDE DEF K
  <2> QED
    BY <1>4, <1>5, <2>1, NatInductive
<1>7. Adds(S)
  BY <1>1, <1>6
<1> QED
  BY <1>2, <1>7 DEF Sum

-----------------------------------------------------------------------------
(* h^Cmax by its definition. *)

\* A regression over a conjunction lies within S as far as the conjunctions know.
Follows(C, c, S) == \E w \in AllWays(c) : {d \in Known(C) : d \subseteq w} \subseteq S

\* What needs, in ReachedWithin.
NeedsOf(C) ==
  {<<w[1], {d \in Known(C) : d \subseteq w[2]}>> : w \in UNION {{c} \X AllWays(c) : c \in Known(C)}}

\* The recursive function of ReachedWithin.
ReachesUpto(f, C, s) ==
  f = [n \in 0 .. Cardinality(Known(C)) |->
         IF n = 0 THEN {c \in Known(C) : c \subseteq s}
         ELSE f[n - 1] \cup {m[1] : m \in {k \in NeedsOf(C) : k[2] \subseteq f[n - 1]}}]

LEMMA NeedsFollow ==
  ASSUME NEW C \in SUBSET Learnable, NEW S
  PROVE  \A c : c \in {m[1] : m \in {k \in NeedsOf(C) : k[2] \subseteq S}}
                  <=> c \in Known(C) /\ Follows(C, c, S)
<1> DEFINE In(w) == {d \in Known(C) : d \subseteq w}
           pairs == UNION {{c} \X AllWays(c) : c \in Known(C)}
<1>1. \A p : p \in pairs <=> \E c \in Known(C) : \E w \in AllWays(c) : p = <<c, w>>
  OBVIOUS
<1>2. NeedsOf(C) = {<<p[1], In(p[2])>> : p \in pairs}
  BY DEF NeedsOf
<1> HIDE DEF pairs, In
<1>3. \A k : k \in NeedsOf(C) <=> \E c \in Known(C) : \E w \in AllWays(c) : k = <<c, In(w)>>
  <2> SUFFICES ASSUME NEW k
               PROVE  k \in NeedsOf(C) <=> \E c \in Known(C) : \E w \in AllWays(c) : k = <<c, In(w)>>
    OBVIOUS
  <2>1. \A c, w : <<c, w>>[1] = c /\ <<c, w>>[2] = w
    OBVIOUS
  <2>2. k \in NeedsOf(C) <=> \E p \in pairs : k = <<p[1], In(p[2])>>
    BY <1>2, Zenon
  <2>3. ASSUME NEW p \in pairs, k = <<p[1], In(p[2])>>
        PROVE  \E c \in Known(C) : \E w \in AllWays(c) : k = <<c, In(w)>>
    <3>1. PICK c \in Known(C) : \E w \in AllWays(c) : p = <<c, w>>
      BY <1>1
    <3>2. PICK w \in AllWays(c) : p = <<c, w>>
      BY <3>1
    <3>3. k = <<c, In(w)>>
      BY <2>1, <2>3, <3>2
    <3> QED
      BY <3>3
  <2>4. ASSUME NEW c \in Known(C), NEW w \in AllWays(c), k = <<c, In(w)>>
        PROVE  \E p \in pairs : k = <<p[1], In(p[2])>>
    <3>1. <<c, w>> \in pairs
      BY <1>1
    <3>2. k = <<(<<c, w>>)[1], In((<<c, w>>)[2])>>
      BY <2>1, <2>4
    <3> QED
      BY <3>1, <3>2
  <2> QED
    BY <2>2, <2>3, <2>4
<1> SUFFICES ASSUME NEW c
             PROVE  c \in {m[1] : m \in {k \in NeedsOf(C) : k[2] \subseteq S}}
                      <=> c \in Known(C) /\ Follows(C, c, S)
  OBVIOUS
<1>4. ASSUME NEW m \in NeedsOf(C), m[2] \subseteq S, c = m[1]
      PROVE  c \in Known(C) /\ Follows(C, c, S)
  <2>1. PICK d \in Known(C) : \E w \in AllWays(d) : m = <<d, In(w)>>
    BY <1>3
  <2>2. PICK w \in AllWays(d) : m = <<d, In(w)>>
    BY <2>1
  <2>3. m[1] = d /\ m[2] = In(w)
    BY <2>2
  <2> QED
    BY <1>4, <2>2, <2>3 DEF Follows, In
<1>5. ASSUME c \in Known(C), NEW w \in AllWays(c), In(w) \subseteq S
      PROVE  \E m \in NeedsOf(C) : m[2] \subseteq S /\ c = m[1]
  <2>1. <<c, In(w)>> \in NeedsOf(C) /\ <<c, In(w)>>[1] = c /\ <<c, In(w)>>[2] = In(w)
    BY <1>3, <1>5
  <2> QED
    BY <1>5, <2>1
<1>6. Follows(C, c, S) <=> \E w \in AllWays(c) : In(w) \subseteq S
  BY DEF Follows, In
<1> QED
  BY <1>4, <1>5, <1>6

LEMMA ReachedSteps ==
  ASSUME NEW C \in SUBSET Learnable, NEW s
  PROVE  LET R == ReachedWithin(C, s)
             k == Cardinality(Known(C)) IN
         /\ k \in Nat /\ DOMAIN R = 0 .. k
         /\ \A n \in 0 .. k : R[n] \in SUBSET Known(C)
         /\ R[0] = {c \in Known(C) : c \subseteq s}
         /\ \A n \in 0 .. k : n < k =>
              \A c : c \in R[n + 1] <=> c \in R[n] \/ (c \in Known(C) /\ Follows(C, c, R[n]))
<1> DEFINE k == Cardinality(Known(C))
           X == SUBSET Known(C)
           a == {c \in Known(C) : c \subseteq s}
           New(B) == {m[1] : m \in {p \in NeedsOf(C) : p[2] \subseteq B}}
           G == [i \in 1 .. k |-> [B \in X |-> B \cup New(B)]]
           R == CHOOSE f : ReachesUpto(f, C, s)
<1>1. k \in Nat
  BY KnownConjunctions, FS_CardinalityType
<1>2. \A B, c : c \in New(B) <=> c \in Known(C) /\ Follows(C, c, B)
  BY NeedsFollow
<1> HIDE DEF New
<1>3. \A B \in X : B \cup New(B) \in X
  BY <1>2
<1>4. a \in X /\ G \in [1 .. k -> [X -> X]]
  BY <1>3
<1>5. \A i \in 1 .. k : \A B \in X : G[i][B] = B \cup New(B)
  OBVIOUS
<1>6. \A f : ReachesUpto(f, C, s) <=> f = [n \in 0 .. k |-> IF n = 0 THEN a ELSE f[n - 1] \cup New(f[n - 1])]
  BY Zenon DEF ReachesUpto, New
<1> HIDE DEF G, X, a, k
<1>7. PICK f \in [0 .. k -> X] : IteratesUpto(f, k, a, G)
  BY <1>1, <1>4, RecursionUpto
<1>8. \A n \in 0 .. k : f[n] = IF n = 0 THEN a ELSE G[n][f[n - 1]]
  BY <1>7, Zenon DEF IteratesUpto
<1>9. \A n \in 0 .. k : n # 0 => G[n][f[n - 1]] = f[n - 1] \cup New(f[n - 1])
  BY <1>1, <1>5, <1>7
<1>10. ReachesUpto(f, C, s)
  <2>1. f = [n \in 0 .. k |-> IF n = 0 THEN a ELSE f[n - 1] \cup New(f[n - 1])]
    BY <1>7, <1>8, <1>9
  <2> QED
    BY <1>6, <2>1
<1>11. ReachesUpto(R, C, s)
  BY <1>10
<1>12. ReachedWithin(C, s) = R
  BY Zenon DEF ReachedWithin, ReachesUpto, NeedsOf
<1> HIDE DEF R
<1>13. /\ DOMAIN R = 0 .. k
       /\ \A n \in 0 .. k : R[n] = IF n = 0 THEN a ELSE R[n - 1] \cup New(R[n - 1])
  <2>1. R = [n \in 0 .. k |-> IF n = 0 THEN a ELSE R[n - 1] \cup New(R[n - 1])]
    BY <1>6, <1>11
  <2> QED
    BY <2>1, Zenon
<1>14. R[0] = a
  BY <1>1, <1>13
<1>15. \A n \in 0 .. k : n < k => R[n + 1] = R[n] \cup New(R[n])
  <2> SUFFICES ASSUME NEW n \in 0 .. k, n < k PROVE R[n + 1] = R[n] \cup New(R[n])
    OBVIOUS
  <2>1. n + 1 \in 0 .. k /\ n + 1 # 0 /\ (n + 1) - 1 = n
    BY <1>1
  <2> QED
    BY <1>13, <2>1
<1>16. \A n \in 0 .. k : R[n] \in X
  <2> DEFINE K == {n \in Nat : n \in 0 .. k => R[n] \in X}
  <2>1. 0 \in K
    BY <1>4, <1>14
  <2>2. ASSUME NEW n \in K PROVE n + 1 \in K
    <3> SUFFICES ASSUME n + 1 \in 0 .. k PROVE R[n + 1] \in X
      OBVIOUS
    <3>1. n \in 0 .. k /\ n < k
      BY <1>1
    <3> QED
      BY <1>3, <1>15, <3>1
  <2>3. K \in SUBSET Nat
    OBVIOUS
  <2> HIDE DEF K
  <2>4. K = Nat
    BY <2>1, <2>2, <2>3, NatInductive
  <2> QED
    BY <2>4 DEF K
<1>17. \A n \in 0 .. k : n < k =>
         \A c : c \in R[n + 1] <=> c \in R[n] \/ (c \in Known(C) /\ Follows(C, c, R[n]))
  BY <1>2, <1>15
<1> QED
  BY <1>1, <1>12, <1>13, <1>14, <1>16, <1>17 DEF k, a, X

\* What is reached within fewer layers is reached.
LEMMA ReachedGrows ==
  ASSUME NEW C \in SUBSET Learnable, NEW s, NEW n \in 0 .. Cardinality(Known(C)), NEW m \in 0 .. n
  PROVE  ReachedWithin(C, s)[m] \subseteq ReachedWithin(C, s)[n]
<1> DEFINE R == ReachedWithin(C, s)
           k == Cardinality(Known(C))
           K == {i \in Nat : m + i \in 0 .. k => R[m] \subseteq R[m + i]}
<1>1. /\ k \in Nat
      /\ \A i \in 0 .. k : i < k => R[i] \subseteq R[i + 1]
  BY ReachedSteps
<1> HIDE DEF R, k
<1>2. 0 \in K
  OBVIOUS
<1>3. ASSUME NEW i \in K PROVE i + 1 \in K
  <2> SUFFICES ASSUME m + (i + 1) \in 0 .. k PROVE R[m] \subseteq R[m + (i + 1)]
    OBVIOUS
  <2>1. m + i \in 0 .. k /\ m + i < k /\ (m + i) + 1 = m + (i + 1)
    BY <1>1
  <2> QED
    BY <1>1, <2>1
<1>4. K = Nat
  <2>1. K \in SUBSET Nat
    OBVIOUS
  <2> HIDE DEF K
  <2> QED
    BY <1>2, <1>3, <2>1, NatInductive
<1>5. n \in 0 .. k
  BY DEF k
<1>6. n - m \in Nat /\ m + (n - m) = n
  BY <1>1, <1>5
<1>7. n - m \in K
  BY <1>4, <1>6
<1> QED
  BY <1>5, <1>6, <1>7 DEF R

\* The parts of what is reached are reached with it: an action that achieves a
\* conjunction has achieved each part of it, or it needs that part.
LEMMA ReachedParts ==
  ASSUME NEW C \in SUBSET Learnable, NEW s, NEW n \in 0 .. Cardinality(Known(C)),
         NEW c \in ReachedWithin(C, s)[n], NEW d \in Known(C), d \subseteq c
  PROVE  d \in ReachedWithin(C, s)[n]
<1> DEFINE R == ReachedWithin(C, s)
           k == Cardinality(Known(C))
           Whole(S) == \A x \in S : \A y \in Known(C) : y \subseteq x => y \in S
           K == {i \in Nat : i \in 0 .. k => Whole(R[i])}
<1>1. /\ k \in Nat
      /\ \A i \in 0 .. k : R[i] \in SUBSET Known(C)
      /\ R[0] = {x \in Known(C) : x \subseteq s}
      /\ \A i \in 0 .. k : i < k =>
           \A x : x \in R[i + 1] <=> x \in R[i] \/ (x \in Known(C) /\ Follows(C, x, R[i]))
  BY ReachedSteps
<1> HIDE DEF R, k
<1>2. 0 \in K
  BY <1>1
<1>3. ASSUME NEW i \in K PROVE i + 1 \in K
  <2> SUFFICES ASSUME i + 1 \in 0 .. k, NEW x \in R[i + 1], NEW y \in Known(C), y \subseteq x
               PROVE  y \in R[i + 1]
    OBVIOUS
  <2>1. i \in 0 .. k /\ i < k /\ Whole(R[i])
    BY <1>1
  <2>2. CASE x \in R[i]
    BY <1>1, <2>1, <2>2
  <2>3. CASE x \notin R[i]
    <3>1. x \in Known(C) /\ Follows(C, x, R[i])
      BY <1>1, <2>1, <2>3
    <3>2. PICK w \in AllWays(x) : {e \in Known(C) : e \subseteq w} \subseteq R[i]
      BY <3>1 DEF Follows
    <3>3. PICK a \in SupportingActions(x) : w = Regression(a, x) /\ ~ContainsMutex(x)
      BY <3>2 DEF AllWays
    <3>4. CASE Eff[a] \cap y = {}
      <4>1. y \subseteq w
        BY <3>3, <3>4 DEF Regression
      <4> QED
        BY <1>1, <2>1, <3>2, <4>1
    <3>5. CASE Eff[a] \cap y # {}
      <4>1. ~ContainsMutex(y)
        BY <3>3 DEF ContainsMutex
      <4>2. a \in SupportingActions(y)
        BY <3>3, <3>5 DEF SupportingActions, IsRegressableAndMutexFree, IsRegressable
      <4>3. Regression(a, y) \in AllWays(y) /\ Regression(a, y) \subseteq w
        BY <3>3, <4>1, <4>2 DEF AllWays, Regression
      <4>4. Follows(C, y, R[i])
        BY <3>2, <4>3 DEF Follows
      <4> QED
        BY <1>1, <2>1, <4>4
    <3> QED
      BY <3>4, <3>5
  <2> QED
    BY <2>2, <2>3
<1>4. K = Nat
  <2>1. K \in SUBSET Nat
    OBVIOUS
  <2> HIDE DEF K
  <2> QED
    BY <1>2, <1>3, <2>1, NatInductive
<1>5. n \in 0 .. k /\ n \in K
  BY <1>1, <1>4 DEF k
<1>6. Whole(R[n])
  BY <1>5
<1> QED
  BY <1>6 DEF R

\* The counters say the same: regressions that another one is simpler than and conjunctions
\* that another one dominates would change nothing.
LEMMA CountersFollow ==
  ASSUME NEW C \in SUBSET Learnable, NEW c \in Known(C), NEW S \in SUBSET Known(C)
  PROVE  LET G == CounterGroups(C)
             counted == \E r \in DOMAIN G : /\ G[r].waitsFor \subseteq S \cup {DummyPrecondition}
                                            /\ \E k \in G[r].group : k[2] = c IN
         /\ Follows(C, c, S) => counted
         /\ counted /\ (\A x \in S : \A y \in Known(C) : y \subseteq x => y \in S) => Follows(C, c, S)
<1> DEFINE G == CounterGroups(C)
<1>1. c \in SUBSET Facts /\ Known(C) \in SUBSET SUBSET Facts /\ DummyPrecondition \notin Known(C)
  BY KnownConjunctions
<1>2. /\ \A r \in DOMAIN G :
           /\ r \in SUBSET Facts /\ G[r].waitsFor = Preconditions(r, C)
           /\ \A k \in G[r].group : /\ k[1] \in Regressions(k[2]) /\ Regression(k[1], k[2]) = r
      /\ \A a \in Regressions(c) :
           /\ Regression(a, c) \in DOMAIN G
           /\ <<a, c>> \in G[Regression(a, c)].group
  BY GroupsOfConjunctions
<1> HIDE DEF G
<1>3. ASSUME Follows(C, c, S)
      PROVE  \E r \in DOMAIN G : /\ G[r].waitsFor \subseteq S \cup {DummyPrecondition}
                                 /\ \E k \in G[r].group : k[2] = c
  <2>1. PICK w \in AllWays(c) : {d \in Known(C) : d \subseteq w} \subseteq S
    BY <1>3 DEF Follows
  <2>2. PICK b \in SupportingActions(c) : w = Regression(b, c) /\ ~ContainsMutex(c)
    BY <2>1 DEF AllWays
  <2>3. PICK a \in ComputeRegressions(c) : IsSimpler(a, b, c)
    BY <1>1, <2>2, KeptRegressions
  <2> DEFINE r == Regression(a, c)
  <2>4. a \in Regressions(c) /\ r \subseteq w
    BY <2>2, <2>3 DEF Regressions, IsSimpler
  <2>5. r \in DOMAIN G /\ <<a, c>> \in G[r].group /\ G[r].waitsFor = Preconditions(r, C) /\ r \in SUBSET Facts
    BY <1>2, <2>4
  <2> HIDE DEF r
  <2>6. G[r].waitsFor \subseteq S \cup {DummyPrecondition}
    BY <2>1, <2>4, <2>5, PreconditionsWithin
  <2>7. <<a, c>>[2] = c
    OBVIOUS
  <2> QED
    BY <2>5, <2>6, <2>7
<1>4. ASSUME NEW r \in DOMAIN G, G[r].waitsFor \subseteq S \cup {DummyPrecondition},
             NEW k \in G[r].group, k[2] = c,
             \A x \in S : \A y \in Known(C) : y \subseteq x => y \in S
      PROVE  Follows(C, c, S)
  <2> DEFINE a == k[1]
  <2>1. a \in Regressions(c) /\ Regression(a, c) = r /\ r \in SUBSET Facts /\ G[r].waitsFor = Preconditions(r, C)
    BY <1>2, <1>4
  <2> HIDE DEF a
  <2>2. a \in SupportingActions(c) /\ ~ContainsMutex(c)
    BY <1>1, <2>1, RegressionFacts
  <2>3. r \in AllWays(c)
    BY <2>1, <2>2 DEF AllWays
  <2>4. ASSUME NEW d \in Known(C), d \subseteq r PROVE d \in S
    <3>1. d # {} /\ r # {}
      BY <1>1, <2>4 DEF DummyPrecondition
    <3>2. G[r].waitsFor = NonDominatedWithin(r, Known(C))
      BY <2>1, <3>1 DEF Preconditions
    <3>3. PICK e \in NonDominatedWithin(r, Known(C)) : d \subseteq e
      BY <1>1, <2>4, NonDominatedAbove
    <3>4. e \in Known(C) /\ e \in S
      BY <1>1, <1>4, <3>2, <3>3 DEF NonDominatedWithin, NonDominated
    <3> QED
      BY <1>4, <3>3, <3>4
  <2> QED
    BY <2>3, <2>4 DEF Follows
<1> QED
  BY <1>3, <1>4 DEF G

-----------------------------------------------------------------------------
(* h^Cmax: the layers are the rounds of its definition. *)

\* A layer adds the unreached conjunctions that follow from what is reached.
LEMMA LayerIsFollowed ==
  ASSUME DataInv, CostInv, CountInv, pc = "search", numOpenGoals > 0, ~Additive,
         NEW completed,
         completed = {r \in DOMAIN value :
                        /\ value[r] - Cardinality(groups[r].waitsFor \cap {e[2] : e \in queue}) = 0
                        /\ value[r] > 0},
         NEW S, S = {d \in Known_ : Reached(d)},
         \A x \in S : \A y \in Known_ : y \subseteq x => y \in S,
         NEW c \in Known_, ~Reached(c)
  PROVE  Ways(c, completed) # {} <=> Follows(learned, c, S)
<1> DEFINE scheduled == {e[2] : e \in queue}
<1>1. /\ \A d \in DOMAIN cost : InitiallyTrue(d) => Reached(d)
      /\ \A e \in queue : Reached(e[2])
      /\ \A r \in DOMAIN groups :
           /\ value[r] = Cardinality(groups[r].waitsFor \ Processed)
           /\ groups[r].waitsFor \subseteq Processed => \A k \in groups[r].group : Reached(k[2])
  BY DEF CountInv
<1>2. /\ DOMAIN cost = Known_ \cup {DummyPrecondition} /\ scheduled \subseteq DOMAIN cost
      /\ DOMAIN value = DOMAIN groups /\ groups = CounterGroups(learned) /\ learned \in SUBSET Learnable
  BY DEF CostInv, DataInv
<1>3. Reached(DummyPrecondition)
  BY <1>1, <1>2 DEF InitiallyTrue, DummyPrecondition
<1>4. \A d \in scheduled : Reached(d)
  BY <1>1
<1>5. Processed = {d \in DOMAIN cost : Reached(d) /\ d \notin scheduled}
  <2>1. \A d : IsWaiting(d) <=> d \in scheduled
    BY DEF IsWaiting
  <2> QED
    BY <2>1 DEF Processed
<1>6. \A r \in DOMAIN groups :
        r \in completed <=> value[r] - Cardinality(groups[r].waitsFor \cap scheduled) = 0 /\ value[r] > 0
  BY <1>2
<1>7. \A r \in DOMAIN groups :
        groups[r].waitsFor \subseteq Known_ \cup {DummyPrecondition} /\ IsFiniteSet(groups[r].waitsFor)
  BY GoalsAreFinite
<1> HIDE DEF scheduled
<1>8. ASSUME NEW r \in DOMAIN groups, \E k \in groups[r].group : k[2] = c
      PROVE  r \in completed <=> groups[r].waitsFor \subseteq S \cup {DummyPrecondition}
  <2> DEFINE waits == groups[r].waitsFor
             open == waits \ Processed
  <2>1. waits \cap scheduled = open \cap scheduled
    BY <1>5
  <2>2. IsFiniteSet(open) /\ value[r] = Cardinality(open)
    BY <1>1, <1>7, FS_Difference
  <2>3. waits \subseteq S \cup {DummyPrecondition} <=> open \subseteq scheduled
    <3>1. \A d \in waits : d \in DOMAIN cost
      BY <1>2, <1>7
    <3>2. \A d \in waits : Reached(d) <=> d \in S \cup {DummyPrecondition}
      BY <1>2, <1>3, <3>1
    <3> QED
      BY <1>4, <1>5, <3>1, <3>2
  <2>4. open # {}
    BY <1>1, <1>8
  <2> HIDE DEF open
  <2>5. /\ IsFiniteSet(open \cap scheduled) /\ Cardinality(open) \in Nat /\ Cardinality(open) > 0
        /\ Cardinality(open \cap scheduled) \in Nat
    <3>1. open \cap scheduled \subseteq open
      OBVIOUS
    <3>2. IsFiniteSet(open \cap scheduled)
      BY <2>2, <3>1, FS_Subset
    <3> QED
      BY <2>2, <2>4, <3>2, FS_CardinalityType, FS_EmptySet
  <2>6. r \in completed <=> Cardinality(open) = Cardinality(open \cap scheduled)
    <3> DEFINE v == value[r]
               n == Cardinality(open \cap scheduled)
    <3>1. r \in completed <=> v - n = 0 /\ v > 0
      BY <1>6, <2>1, Zenon
    <3> HIDE DEF v, n
    <3>2. v = Cardinality(open) /\ v \in Nat /\ v > 0 /\ n \in Nat
      BY <2>2, <2>5 DEF v, n
    <3>3. r \in completed <=> v = n
      BY <3>1, <3>2
    <3> QED
      BY <3>2, <3>3 DEF n
  <2>7. Cardinality(open) = Cardinality(open \cap scheduled) <=> open \subseteq scheduled
    <3>1. ASSUME Cardinality(open) = Cardinality(open \cap scheduled) PROVE open \cap scheduled = open
      <4>1. open \cap scheduled \subseteq open
        OBVIOUS
      <4> QED
        BY <2>2, <3>1, <4>1, FS_Subset
    <3>2. ASSUME open \subseteq scheduled PROVE open \cap scheduled = open
      BY <3>2
    <3> QED
      BY <3>1, <3>2
  <2> QED
    BY <2>3, <2>6, <2>7
<1>9. Ways(c, completed) # {} <=> \E r \in completed : \E k \in groups[r].group : k[2] = c
  <2>1. completed \subseteq DOMAIN groups
    BY <1>2
  <2>2. \A r \in DOMAIN groups : \A k \in groups[r].group : k = <<k[1], k[2]>> /\ (k[2] = c => k[1] \in Actions)
    <3>1. \A a \in Regressions(c) : a \in Actions
      BY <1>2, KnownConjunctions, RegressionFacts DEF Known_
    <3> QED
      BY <1>2, <3>1, GroupsOfConjunctions
  <2>3. \A a : <<a, c>>[2] = c
    OBVIOUS
  <2> HIDE DEF scheduled
  <2>4. ASSUME NEW a \in Ways(c, completed) PROVE \E r \in completed : \E k \in groups[r].group : k[2] = c
    BY <2>3 DEF Ways
  <2>5. ASSUME NEW r \in completed, NEW k \in groups[r].group, k[2] = c PROVE Ways(c, completed) # {}
    <3>1. k = <<k[1], c>> /\ k[1] \in Actions
      BY <2>1, <2>2, <2>5
    <3>2. k[1] \in Ways(c, completed)
      BY <2>5, <3>1 DEF Ways
    <3> QED
      BY <3>2
  <2> QED
    BY <2>4, <2>5
<1>10. Ways(c, completed) # {} <=>
         \E r \in DOMAIN groups : /\ groups[r].waitsFor \subseteq S \cup {DummyPrecondition}
                                  /\ \E k \in groups[r].group : k[2] = c
  <2>1. completed \subseteq DOMAIN groups
    BY <1>2
  <2> QED
    BY <1>8, <1>9, <2>1
<1>11. S \in SUBSET Known(learned) /\ c \in Known(learned)
       /\ \A x \in S : \A y \in Known(learned) : y \subseteq x => y \in S
  BY DEF Known_
<1> HIDE DEF scheduled
<1> DEFINE G == CounterGroups(learned)
           counted == \E r \in DOMAIN G : /\ G[r].waitsFor \subseteq S \cup {DummyPrecondition}
                                          /\ \E k \in G[r].group : k[2] = c
<1>12. /\ Follows(learned, c, S) => counted
       /\ counted /\ (\A x \in S : \A y \in Known(learned) : y \subseteq x => y \in S)
            => Follows(learned, c, S)
  <2> DEFINE Parts(T) == \A x \in T : \A y \in Known(learned) : y \subseteq x => y \in T
  <2>1. \A d \in Known(learned) : \A T \in SUBSET Known(learned) :
          LET wanted == \E r \in DOMAIN G : /\ G[r].waitsFor \subseteq T \cup {DummyPrecondition}
                                             /\ \E k \in G[r].group : k[2] = d IN
          /\ Follows(learned, d, T) => wanted
          /\ wanted /\ Parts(T) => Follows(learned, d, T)
    BY <1>2, CountersFollow
  <2> QED
    BY <1>11, <2>1, Zenon
<1>13. Ways(c, completed) # {} <=> counted
  BY <1>2, <1>10
<1> HIDE DEF counted
<1> QED
  BY <1>11, <1>12, <1>13

\* The first layer that holds the goals, and none that does.
LEMMA CmaxValue ==
  ASSUME NEW C \in SUBSET Learnable, NEW s
  PROVE  /\ \A n \in 0 .. Cardinality(Known(C)) :
              /\ GoalsOf(C) \subseteq ReachedWithin(C, s)[n]
              /\ n = 0 \/ ~(GoalsOf(C) \subseteq ReachedWithin(C, s)[n - 1])
              => CmaxOf(C, s) = n
         /\ (\A n \in 0 .. Cardinality(Known(C)) : ~(GoalsOf(C) \subseteq ReachedWithin(C, s)[n]))
              => CmaxOf(C, s) = DEAD_END
<1> DEFINE R == ReachedWithin(C, s)
           k == Cardinality(Known(C))
           enough == {i \in DOMAIN R : GoalsOf(C) \subseteq R[i]}
<1>1. CmaxOf(C, s) = IF enough = {} THEN DEAD_END ELSE Min(enough)
  BY DEF CmaxOf
<1>2. DOMAIN R = 0 .. k /\ k \in Nat
  BY ReachedSteps
<1>3. \A n \in 0 .. k : \A m \in 0 .. n : R[m] \subseteq R[n]
  BY ReachedGrows
<1> HIDE DEF R, k
<1>4. ASSUME NEW n \in 0 .. k, GoalsOf(C) \subseteq R[n], n = 0 \/ ~(GoalsOf(C) \subseteq R[n - 1])
      PROVE  CmaxOf(C, s) = n
  <2>1. n \in enough /\ enough \in SUBSET Nat
    BY <1>2, <1>4
  <2> DEFINE m == Min(enough)
  <2>2. m \in enough /\ \A i \in enough : m <= i
    BY <2>1, MinOfNats
  <2> HIDE DEF m
  <2>3. m \in 0 .. k /\ m <= n /\ GoalsOf(C) \subseteq R[m]
    BY <1>2, <2>1, <2>2
  <2>4. m = n
    <3> SUFFICES ASSUME m # n PROVE FALSE
      OBVIOUS
    <3>1. n # 0 /\ n - 1 \in 0 .. k /\ m \in 0 .. n - 1
      BY <1>2, <2>3
    <3>2. R[m] \subseteq R[n - 1]
      BY <1>3, <3>1
    <3> QED
      BY <1>4, <2>3, <3>1, <3>2
  <2> QED
    BY <1>1, <2>1, <2>4 DEF m
<1>5. ASSUME \A n \in 0 .. k : ~(GoalsOf(C) \subseteq R[n])
      PROVE  CmaxOf(C, s) = DEAD_END
  BY <1>1, <1>2, <1>5
<1> QED
  BY <1>4, <1>5 DEF R, k

\* A layer reaches what the next round of the definition does.
LEMMA LayerAsDefined ==
  ASSUME DataInv, CostInv, CountInv, CmaxInv, NextLayer
  PROVE  LET R == ReachedWithin(learned, state)
             S == {c \in Known_ : Reached(c)} IN
         /\ S = R[h] /\ h \in DOMAIN R /\ h <= Cardinality(S)
         /\ ~(GoalConjunctions \subseteq S)
         /\ \E new \in SUBSET Known_ :
              /\ new \cap S = {}
              /\ new = {} \/ (h + 1 \in DOMAIN R /\ h + 1 <= Cardinality(S \cup new) /\ R[h + 1] = S \cup new)
              /\ h' = IF new = {} THEN h ELSE h + 1
              /\ numOpenGoals' = 0 <=> GoalConjunctions \subseteq S \cup new
              /\ numOpenGoals' > 0 => \A c \in Known_ : Reached(c)' <=> c \in S \cup new
<1> DEFINE R == ReachedWithin(learned, state)
           k == Cardinality(Known_)
           S == {c \in Known_ : Reached(c)}
           scheduled == {e[2] : e \in queue}
           left == [r \in DOMAIN value |-> value[r] - Cardinality(groups[r].waitsFor \cap scheduled)]
           completed == {r \in DOMAIN value : left[r] = 0 /\ value[r] > 0}
           new == {c \in DOMAIN supporters : cost[c] = UNREACHED /\ Ways(c, completed) # {}}
           subgoals == new \cap GoalConjunctions
           last == Cardinality(subgoals) = numOpenGoals
<1>1. /\ \E set \in (IF last THEN {subgoals \cup rest : rest \in SUBSET (new \ subgoals)} ELSE {new}) :
           cost' = [c \in DOMAIN cost |-> IF c \in set THEN h + 1 ELSE cost[c]]
      /\ numOpenGoals' = numOpenGoals - Cardinality(subgoals)
      /\ h' = IF new = {} THEN h ELSE h + 1
  BY Zenon DEF NextLayer
<1>2. pc = "search" /\ numOpenGoals > 0 /\ ~Additive /\ UNCHANGED learned
  BY DEF NextLayer
<1>3. DOMAIN value = DOMAIN groups /\ DOMAIN supporters = Known_ /\ learned \in SUBSET Learnable
  BY DEF DataInv
<1>4. /\ h \in Nat /\ h <= Cardinality(S) /\ DOMAIN cost = Known_ \cup {DummyPrecondition}
      /\ h + 1 # UNREACHED
  BY <1>2 DEF CmaxInv, CostInv, UNREACHED
<1>5. /\ k \in Nat /\ DOMAIN R = 0 .. k /\ IsFiniteSet(Known_)
      /\ \A n \in 0 .. k : R[n] \in SUBSET Known_
      /\ \A n \in 0 .. k : n < k => \A c : c \in R[n + 1] <=> c \in R[n] \/ (c \in Known_ /\ Follows(learned, c, R[n]))
  BY <1>3, ReachedSteps, KnownConjunctions DEF Known_
<1>6. \A T \in SUBSET Known_ : IsFiniteSet(T) /\ Cardinality(T) \in Nat /\ Cardinality(T) <= k
  BY <1>5, FS_Subset, FS_CardinalityType
<1>7. h \in 0 .. k
  BY <1>4, <1>5, <1>6
<1>8. S = R[h]
  <2>1. \A c \in Known_ : Reached(c) <=> c \in R[h]
    BY <1>2 DEF CmaxInv
  <2> QED
    BY <1>5, <1>7, <2>1
<1>9. \A x \in S : \A y \in Known_ : y \subseteq x => y \in S
  BY <1>3, <1>7, <1>8, ReachedParts DEF Known_
<1>10. completed = {r \in DOMAIN value : value[r] - Cardinality(groups[r].waitsFor \cap scheduled) = 0 /\ value[r] > 0}
  OBVIOUS
<1>11. \A c \in Known_ : ~Reached(c) => (Ways(c, completed) # {} <=> Follows(learned, c, S))
  BY <1>2, <1>9, <1>10, LayerIsFollowed
<1> HIDE DEF completed, left, scheduled
<1>12. \A c : c \in new <=> c \in Known_ /\ ~Reached(c) /\ Follows(learned, c, S)
  BY <1>3, <1>11 DEF Reached
<1> HIDE DEF new
<1>13. new \in SUBSET Known_ /\ new \cap S = {}
  BY <1>12
<1>14. ASSUME new # {}
       PROVE  h + 1 \in 0 .. k /\ h + 1 <= Cardinality(S \cup new) /\ R[h + 1] = S \cup new
  <2>1. PICK c \in new : TRUE
    BY <1>14
  <2>2. Cardinality(S \cup {c}) = Cardinality(S) + 1 /\ S \cup {c} \subseteq S \cup new /\ S \cup new \in SUBSET Known_
    BY <1>6, <1>13, <2>1, FS_AddElement
  <2>3. Cardinality(S \cup {c}) <= Cardinality(S \cup new) /\ Cardinality(S \cup new) <= k
        /\ Cardinality(S \cup new) \in Nat /\ Cardinality(S) \in Nat
    BY <1>6, <2>2, FS_Subset
  <2> HIDE DEF S
  <2>4. h + 1 <= Cardinality(S \cup new) /\ h + 1 \in 0 .. k /\ h < k
    BY <1>4, <1>5, <2>2, <2>3
  <2>5. \A d : d \in R[h + 1] <=> d \in S \/ (d \in Known_ /\ Follows(learned, d, S))
    BY <1>5, <1>7, <1>8, <2>4
  <2>6. \A d : d \in R[h + 1] <=> d \in S \cup new
    BY <1>12, <2>5 DEF S
  <2> QED
    BY <2>4, <2>6
<1>15. /\ numOpenGoals = Cardinality(OpenGoals) /\ OpenGoals = GoalConjunctions \ S
       /\ GoalConjunctions \subseteq Known_
  <2>1. GoalConjunctions \subseteq Known_
    BY GoalsAreFinite
  <2> QED
    BY <1>2, <2>1 DEF CountInv, OpenGoals
<1>16. IsFiniteSet(OpenGoals) /\ Cardinality(OpenGoals) \in Nat /\ OpenGoals # {} /\ subgoals \subseteq OpenGoals
  <2>1. IsFiniteSet(OpenGoals)
    BY <1>6, <1>15
  <2>2. OpenGoals # {}
    BY <1>2, <1>15, FS_EmptySet
  <2> QED
    BY <1>13, <1>15, <2>1, <2>2, FS_CardinalityType
<1>17. numOpenGoals' = 0 <=> last
  <2>1. Cardinality(subgoals) \in Nat
    BY <1>16, FS_Subset, FS_CardinalityType
  <2> QED
    BY <1>1, <1>15, <1>16, <2>1
<1>18. last <=> GoalConjunctions \subseteq S \cup new
  <2>1. last => subgoals = OpenGoals
    BY <1>15, <1>16, FS_Subset
  <2>2. GoalConjunctions \subseteq S \cup new => subgoals = OpenGoals
    BY <1>13, <1>15
  <2>3. subgoals = OpenGoals => GoalConjunctions \subseteq S \cup new
    BY <1>15
  <2> QED
    BY <1>15, <2>1, <2>2, <2>3
<1>19. ~last => \A c \in Known_ : Reached(c)' <=> c \in S \cup new
  <2> SUFFICES ASSUME ~last PROVE \A c \in Known_ : Reached(c)' <=> c \in S \cup new
    OBVIOUS
  <2>1. cost' = [c \in DOMAIN cost |-> IF c \in new THEN h + 1 ELSE cost[c]]
    BY <1>1
  <2>2. \A c \in Known_ : cost'[c] = IF c \in new THEN h + 1 ELSE cost[c]
    BY <1>4, <2>1
  <2> QED
    BY <1>4, <1>13, <2>2 DEF Reached
<1>20. ~(GoalConjunctions \subseteq S)
  BY <1>15, <1>16
<1> HIDE DEF last, subgoals
<1>21. numOpenGoals' > 0 => ~last
  BY <1>17
<1> QED
  BY <1>1, <1>4, <1>5, <1>7, <1>8, <1>13, <1>14, <1>17, <1>18, <1>19, <1>20, <1>21

LEMMA CmaxNextLayer ==
  ASSUME DataInv, CostInv, CountInv, CmaxInv, NextLayer
  PROVE  CmaxInv' /\ (numOpenGoals' = 0 => h' = CmaxOf(learned, state))
<1> DEFINE R == ReachedWithin(learned, state)
           S == {c \in Known_ : Reached(c)}
<1>1. /\ S = R[h] /\ h \in DOMAIN R /\ h <= Cardinality(S) /\ ~(GoalConjunctions \subseteq S)
      /\ \E new \in SUBSET Known_ :
           /\ new \cap S = {}
           /\ new = {} \/ (h + 1 \in DOMAIN R /\ h + 1 <= Cardinality(S \cup new) /\ R[h + 1] = S \cup new)
           /\ h' = IF new = {} THEN h ELSE h + 1
           /\ numOpenGoals' = 0 <=> GoalConjunctions \subseteq S \cup new
           /\ numOpenGoals' > 0 => \A c \in Known_ : Reached(c)' <=> c \in S \cup new
  BY LayerAsDefined
<1>2. PICK new \in SUBSET Known_ :
           /\ new \cap S = {}
           /\ new = {} \/ (h + 1 \in DOMAIN R /\ h + 1 <= Cardinality(S \cup new) /\ R[h + 1] = S \cup new)
           /\ h' = IF new = {} THEN h ELSE h + 1
           /\ numOpenGoals' = 0 <=> GoalConjunctions \subseteq S \cup new
           /\ numOpenGoals' > 0 => \A c \in Known_ : Reached(c)' <=> c \in S \cup new
  BY <1>1
<1>3. UNCHANGED <<learned, state>> /\ Known_' = Known_ /\ learned \in SUBSET Learnable
  BY DEF NextLayer, Known_, DataInv
<1>4. DOMAIN R = 0 .. Cardinality(Known(learned))
  BY <1>3, ReachedSteps
<1>5. ReachedWithin(learned, state)' = R
  BY <1>3
<1>6. S \cup new = R[h'] /\ h' <= Cardinality(S \cup new)
  BY <1>1, <1>2
<1>7. ASSUME numOpenGoals' > 0 PROVE CmaxInv'
  <2>1. {c \in Known_ : Reached(c)'} = S \cup new
    BY <1>2, <1>7
  <2>2. h' <= Cardinality({c \in Known_ : Reached(c)'})
    BY <1>6, <2>1
  <2>3. \A c \in Known_ : Reached(c)' <=> c \in R[h']
    BY <1>2, <1>6, <1>7
  <2> HIDE DEF R
  <2>4. \A c \in Known_' : Reached(c)' <=> c \in (ReachedWithin(learned, state)')[h']
    BY <1>3, <1>5, <2>3
  <2>5. h' <= Cardinality({c \in Known_' : Reached(c)'})
    BY <1>3, <2>2
  <2> QED
    BY <2>4, <2>5 DEF CmaxInv
<1>8. ASSUME numOpenGoals' = 0 PROVE h' = CmaxOf(learned, state)
  <2>1. new # {} /\ GoalConjunctions \subseteq R[h + 1] /\ h + 1 \in DOMAIN R /\ ~(GoalConjunctions \subseteq R[h])
    BY <1>1, <1>2, <1>8
  <2>2. h + 1 \in 0 .. Cardinality(Known(learned)) /\ h \in Nat /\ (h + 1) - 1 = h
    BY <1>4, <2>1 DEF CostInv
  <2>3. GoalsOf(learned) = GoalConjunctions
    BY DEF GoalsOf, GoalConjunctions
  <2> DEFINE n == h + 1
  <2>4. GoalsOf(learned) \subseteq R[n] /\ ~(GoalsOf(learned) \subseteq R[n - 1]) /\ n \in 0 .. Cardinality(Known(learned))
    BY <2>1, <2>2, <2>3
  <2> HIDE DEF n
  <2>5. CmaxOf(learned, state) = n
    BY <1>3, <2>4, CmaxValue
  <2> QED
    BY <1>2, <2>1, <2>5 DEF n
<1> QED
  BY <1>7, <1>8 DEF CmaxInv

LEMMA CmaxEvaluate ==
  ASSUME DataInv, CostInv, NEW s \in EvaluatedStates, Evaluate(s)
  PROVE  /\ CmaxInv'
         /\ ~Additive /\ numOpenGoals' = 0 => h' = CmaxOf(learned, s)
<1> DEFINE true == {c \in DOMAIN cost : c \subseteq s}
           subgoals == GoalConjunctions \cap true
           last == ~Additive /\ subgoals = GoalConjunctions
           R == ReachedWithin(learned, s)
<1>1. /\ UNCHANGED <<learned, groups, option>> /\ state' = s /\ h' = 0
      /\ numOpenGoals' = Cardinality(GoalConjunctions \ (IF Additive THEN {} ELSE subgoals))
  BY Zenon DEF Evaluate
<1>2. PICK set \in (IF last THEN {subgoals \cup rest : rest \in SUBSET (true \ subgoals)} ELSE {true}) :
        cost' = [c \in DOMAIN cost |-> IF c \in set THEN InitialCost ELSE UNREACHED]
  BY Zenon DEF Evaluate
<1>3. /\ DOMAIN cost = Known_ \cup {DummyPrecondition} /\ Known_' = Known_ /\ learned \in SUBSET Learnable
      /\ GoalConjunctions \subseteq Known_ /\ IsFiniteSet(GoalConjunctions)
  BY <1>1, GoalsAreFinite DEF CostInv, Known_, DataInv
<1>4. (Additive' <=> Additive) /\ InitialCost \in Nat
  BY <1>1 DEF Additive, InitialCost
<1>5. R[0] = {c \in Known_ : c \subseteq s} /\ 0 \in 0 .. Cardinality(Known(learned))
      /\ DOMAIN R = 0 .. Cardinality(Known(learned))
  BY <1>3, ReachedSteps DEF Known_
<1>6. ASSUME ~Additive, numOpenGoals' = 0 PROVE h' = CmaxOf(learned, s)
  <2>1. GoalConjunctions \ subgoals = {}
    <3>1. IsFiniteSet(GoalConjunctions \ subgoals)
      BY <1>3, FS_Difference
    <3> QED
      BY <1>1, <1>6, <3>1, FS_EmptySet
  <2>2. GoalsOf(learned) \subseteq R[0]
    BY <1>3, <1>5, <2>1 DEF GoalsOf, GoalConjunctions, Known_
  <2> HIDE DEF R
  <2>3. CmaxOf(learned, s) = 0
    BY <1>3, <1>5, <2>2, CmaxValue DEF R
  <2> QED
    BY <1>1, <2>3
<1>7. ASSUME ~Additive, numOpenGoals' > 0 PROVE CmaxInv'
  <2>1. ~last
    <3>1. last => GoalConjunctions \ subgoals = {}
      OBVIOUS
    <3>2. ~last \/ numOpenGoals' = Cardinality({})
      BY <1>1, <1>7, <3>1
    <3> QED
      BY <1>7, <3>2, FS_EmptySet
  <2>2. cost' = [c \in DOMAIN cost |-> IF c \in true THEN InitialCost ELSE UNREACHED]
    BY <1>2, <2>1
  <2>3. \A c \in Known_ : Reached(c)' <=> c \in R[0]
    BY <1>3, <1>4, <1>5, <2>2 DEF Reached, UNREACHED
  <2>4. ReachedWithin(learned, state)' = R
    BY <1>1
  <2> DEFINE S == {c \in Known_ : Reached(c)'}
  <2>5. IsFiniteSet(S)
    BY <1>3, KnownConjunctions, FS_Subset DEF Known_
  <2>6. 0 <= Cardinality(S)
    BY <2>5, FS_CardinalityType
  <2> HIDE DEF R
  <2> QED
    BY <1>1, <1>3, <2>3, <2>4, <2>6 DEF CmaxInv
<1> QED
  BY <1>4, <1>6, <1>7 DEF CmaxInv

\* With nothing left to trigger, no round of the definition reaches more than is reached.
LEMMA CmaxExhausted ==
  ASSUME DataInv, CostInv, CountInv, pc = "search", numOpenGoals > 0, queue = {}
  PROVE  CmaxOf(learned, state) = DEAD_END
<1> DEFINE R == ReachedWithin(learned, state)
           k == Cardinality(Known(learned))
           S == {c \in Known_ : Reached(c)}
           K == {n \in Nat : n \in 0 .. k => R[n] \subseteq S}
<1>1. Closed /\ \E g \in GoalConjunctions : ~Reached(g)
  BY ExhaustedIsClosed
<1>2. learned \in SUBSET Learnable /\ groups = CounterGroups(learned)
      /\ DOMAIN cost = Known_ \cup {DummyPrecondition}
  BY DEF DataInv, CostInv
<1>3. /\ k \in Nat /\ DOMAIN R = 0 .. k
      /\ \A n \in 0 .. k : R[n] \in SUBSET Known_
      /\ R[0] = {c \in Known_ : c \subseteq state}
      /\ \A n \in 0 .. k : n < k => \A c : c \in R[n + 1] <=> c \in R[n] \/ (c \in Known_ /\ Follows(learned, c, R[n]))
  BY <1>2, ReachedSteps DEF Known_
<1>4. Reached(DummyPrecondition)
  BY <1>1, <1>2 DEF Closed, InitiallyTrue, DummyPrecondition
<1> HIDE DEF R, k
<1>5. 0 \in K
  BY <1>1, <1>2, <1>3 DEF Closed, InitiallyTrue
<1>6. ASSUME NEW n \in K PROVE n + 1 \in K
  <2> SUFFICES ASSUME n + 1 \in 0 .. k, NEW c \in R[n + 1] PROVE c \in S
    OBVIOUS
  <2>1. n \in 0 .. k /\ n < k /\ R[n] \subseteq S /\ R[n] \in SUBSET Known(learned)
    BY <1>3 DEF Known_
  <2>2. c \in Known_ /\ (c \in R[n] \/ Follows(learned, c, R[n]))
    BY <1>3, <2>1
  <2>3. ASSUME Follows(learned, c, R[n]) PROVE c \in S
    <3>1. PICK r \in DOMAIN groups : /\ groups[r].waitsFor \subseteq R[n] \cup {DummyPrecondition}
                                     /\ \E q \in groups[r].group : q[2] = c
      <4> DEFINE G == CounterGroups(learned)
      <4>1. \E r \in DOMAIN G : /\ G[r].waitsFor \subseteq R[n] \cup {DummyPrecondition}
                                /\ \E q \in G[r].group : q[2] = c
        BY <1>2, <2>1, <2>2, <2>3, CountersFollow DEF Known_
      <4> QED
        BY <1>2, <4>1
    <3>2. \A d \in groups[r].waitsFor : Reached(d)
      BY <1>4, <2>1, <3>1
    <3>3. Reached(c)
      BY <1>1, <3>1, <3>2 DEF Closed
    <3> QED
      BY <2>2, <3>3
  <2> QED
    BY <2>1, <2>2, <2>3
<1>7. K = Nat
  <2>1. K \in SUBSET Nat
    OBVIOUS
  <2> HIDE DEF K
  <2> QED
    BY <1>5, <1>6, <2>1, NatInductive
<1>8. \A n \in 0 .. k : R[n] \subseteq S
  BY <1>7
<1>9. \A n \in 0 .. k : ~(GoalsOf(learned) \subseteq R[n])
  BY <1>1, <1>8 DEF GoalsOf, GoalConjunctions
<1> QED
  BY <1>2, <1>9, CmaxValue DEF R, k

-----------------------------------------------------------------------------
(* The rounds of h^Cadd. *)

\* Cheaper parts make a cheaper sum, and a part costs no more than the sum.
LEMMA SumGrows ==
  ASSUME NEW f, NEW g, NEW S, IsFiniteSet(S), \A x \in S : f[x] \in Nat /\ g[x] \in Nat /\ f[x] <= g[x]
  PROVE  /\ SumFunctionOnSet(f, S) <= SumFunctionOnSet(g, S)
         /\ \A x \in S : f[x] <= SumFunctionOnSet(f, S)
<1> DEFINE F(T) == SumFunctionOnSet(f, T)
           G(T) == SumFunctionOnSet(g, T)
           K == {n \in Nat : \A T \in SUBSET S : Cardinality(T) = n => F(T) <= G(T)}
<1>1. \A T \in SUBSET S : IsFiniteSet(T) /\ Cardinality(T) \in Nat /\ (Cardinality(T) = 0 <=> T = {})
  BY FS_Subset, FS_CardinalityType, FS_EmptySet
<1>2. \A T \in SUBSET S : /\ F(T) \in Nat /\ G(T) \in Nat
                          /\ T = {} => F(T) = 0 /\ G(T) = 0
                          /\ \A x \in T : F(T) = f[x] + F(T \ {x}) /\ G(T) = g[x] + G(T \ {x})
  <2> SUFFICES ASSUME NEW T \in SUBSET S
               PROVE  /\ F(T) \in Nat /\ G(T) \in Nat
                      /\ T = {} => F(T) = 0 /\ G(T) = 0
                      /\ \A x \in T : F(T) = f[x] + F(T \ {x}) /\ G(T) = g[x] + G(T \ {x})
    OBVIOUS
  <2>1. IsFiniteSet(T) /\ (\A x \in T : f[x] \in Nat) /\ (\A x \in T : g[x] \in Nat)
    BY <1>1
  <2> QED
    BY <2>1, SumProperties
<1> HIDE DEF F, G
<1>3. 0 \in K
  BY <1>1, <1>2
<1>4. ASSUME NEW n \in K PROVE n + 1 \in K
  <2> SUFFICES ASSUME NEW T \in SUBSET S, Cardinality(T) = n + 1 PROVE F(T) <= G(T)
    OBVIOUS
  <2>1. PICK x \in T : TRUE
    BY <1>1
  <2>2. T \ {x} \in SUBSET S /\ Cardinality(T \ {x}) = n
    BY <1>1, <2>1, FS_RemoveElement
  <2>3. F(T \ {x}) <= G(T \ {x}) /\ F(T \ {x}) \in Nat /\ G(T \ {x}) \in Nat
    BY <1>2, <2>2
  <2>4. F(T) = f[x] + F(T \ {x}) /\ G(T) = g[x] + G(T \ {x}) /\ f[x] <= g[x] /\ f[x] \in Nat /\ g[x] \in Nat
    BY <1>2, <2>1
  <2> QED
    BY <2>3, <2>4
<1>5. F(S) <= G(S)
  <2>1. K \in SUBSET Nat /\ Cardinality(S) \in Nat
    BY <1>1
  <2>2. Cardinality(S) \in K
    <3> HIDE DEF K
    <3> QED
      BY <1>3, <1>4, <2>1, NatInductive
  <2> QED
    BY <2>2
<1>6. \A x \in S : f[x] <= F(S)
  <2> SUFFICES ASSUME NEW x \in S PROVE f[x] <= F(S)
    OBVIOUS
  <2>1. F(S) = f[x] + F(S \ {x}) /\ F(S \ {x}) \in Nat /\ f[x] \in Nat
    BY <1>2
  <2> QED
    BY <2>1
<1> QED
  BY <1>5, <1>6 DEF F, G

LEMMA SumsAreEqual ==
  ASSUME NEW f, NEW g, NEW S, IsFiniteSet(S), \A x \in S : f[x] \in Nat /\ g[x] = f[x]
  PROVE  SumFunctionOnSet(f, S) = SumFunctionOnSet(g, S)
<1>1. SumFunctionOnSet(f, S) <= SumFunctionOnSet(g, S) /\ SumFunctionOnSet(g, S) <= SumFunctionOnSet(f, S)
  BY SumGrows
<1>2. SumFunctionOnSet(f, S) \in Nat /\ SumFunctionOnSet(g, S) \in Nat
  BY SumProperties
<1> QED
  BY <1>1, <1>2

LEMMA SumAdds ==
  ASSUME NEW f, NEW S, IsFiniteSet(S), NEW x, x \notin S, \A y \in S \cup {x} : f[y] \in Nat
  PROVE  SumFunctionOnSet(f, S \cup {x}) = SumFunctionOnSet(f, S) + f[x]
<1> DEFINE T == S \cup {x}
<1>1. IsFiniteSet(T) /\ x \in T /\ T \ {x} = S
  BY FS_AddElement
<1> HIDE DEF T
<1>2. SumFunctionOnSet(f, T) = f[x] + SumFunctionOnSet(f, T \ {x}) /\ f[x] \in Nat
  <2>1. \A y \in T : f[y] \in Nat
    BY DEF T
  <2> QED
    BY <1>1, <2>1, SumProperties
<1>3. SumFunctionOnSet(f, S) \in Nat
  BY SumProperties
<1> QED
  BY <1>1, <1>2, <1>3 DEF T

-----------------------------------------------------------------------------
(* h^Cadd by its definition. *)

Priced == Known_ \cup {DummyPrecondition}

LEMMA CaddRoundOffers ==
  ASSUME DataInv, NEW A \in SUBSET Priced, NEW costs \in [A -> Nat]
  PROVE  LET after == CaddRound(costs)
             Sum(r) == SumFunctionOnSet(costs, groups[r].waitsFor) IN
         /\ DOMAIN after \in SUBSET Priced /\ A \subseteq DOMAIN after
         /\ after \in [DOMAIN after -> Nat]
         /\ \A c \in A : after[c] <= costs[c]
         /\ \A r \in DOMAIN groups : groups[r].waitsFor \subseteq A =>
              \A k \in groups[r].group : k[2] \in DOMAIN after /\ after[k[2]] <= ActionCost[k[1]] + Sum(r)
         /\ \A c \in DOMAIN after :
              \/ c \in A /\ after[c] = costs[c]
              \/ \E r \in DOMAIN groups :
                   /\ groups[r].waitsFor \subseteq A
                   /\ \E k \in groups[r].group : k[2] = c /\ after[c] = ActionCost[k[1]] + Sum(r)
<1> DEFINE Sum(r) == SumFunctionOnSet(costs, groups[r].waitsFor)
           offers == UNION {{<<k[2], ActionCost[k[1]] + Sum(r)>> : k \in groups[r].group} :
                              r \in {q \in DOMAIN groups : groups[q].waitsFor \subseteq DOMAIN costs}}
           At(c) == {o[2] : o \in {p \in offers : p[1] = c}} \cup {costs[d] : d \in {c} \cap DOMAIN costs}
           B == {o[1] : o \in offers} \cup DOMAIN costs
           after == [c \in B |-> Min(At(c))]
<1>1. CaddRound(costs) = after
  BY DEF CaddRound
<1>2. DOMAIN costs = A /\ \A c \in A : costs[c] \in Nat
  OBVIOUS
<1>3. \A r \in DOMAIN groups : \A k \in groups[r].group : k[2] \in Known_ /\ ActionCost[k[1]] \in Nat
  <2> SUFFICES ASSUME NEW r \in DOMAIN groups, NEW k \in groups[r].group
               PROVE  k[2] \in Known_ /\ ActionCost[k[1]] \in Nat
    OBVIOUS
  <2>1. k[2] \in Known_ /\ k[1] \in Regressions(k[2])
    BY GroupsOfConjunctions DEF DataInv, Known_
  <2>2. k[1] \in Actions
    BY <2>1, KnownConjunctions, RegressionFacts DEF DataInv, Known_
  <2> QED
    BY <2>1, <2>2, RegressionAssumption DEF RegressionAssumption
<1>4. \A r \in DOMAIN groups : groups[r].waitsFor \subseteq A => Sum(r) \in Nat
  <2> SUFFICES ASSUME NEW r \in DOMAIN groups, groups[r].waitsFor \subseteq A PROVE Sum(r) \in Nat
    OBVIOUS
  <2>1. IsFiniteSet(groups[r].waitsFor) /\ \A d \in groups[r].waitsFor : costs[d] \in Nat
    BY <1>2, GoalsAreFinite
  <2> QED
    BY <2>1, SumProperties
<1> HIDE DEF Sum
<1>5. \A o : o \in offers <=> \E r \in DOMAIN groups : /\ groups[r].waitsFor \subseteq A
                                                       /\ \E k \in groups[r].group : o = <<k[2], ActionCost[k[1]] + Sum(r)>>
  BY <1>2
<1> HIDE DEF offers
<1>6. \A o \in offers : o[1] \in Known_ /\ o[2] \in Nat
  <2> SUFFICES ASSUME NEW o \in offers PROVE o[1] \in Known_ /\ o[2] \in Nat
    OBVIOUS
  <2>1. PICK r \in DOMAIN groups : /\ groups[r].waitsFor \subseteq A
                                   /\ \E k \in groups[r].group : o = <<k[2], ActionCost[k[1]] + Sum(r)>>
    BY <1>5
  <2>2. PICK k \in groups[r].group : o = <<k[2], ActionCost[k[1]] + Sum(r)>>
    BY <2>1
  <2>3. o[1] = k[2] /\ o[2] = ActionCost[k[1]] + Sum(r)
    BY <2>2
  <2> QED
    BY <1>3, <1>4, <2>1, <2>3
<1>7. \A c \in B : At(c) \in SUBSET Nat /\ At(c) # {}
  <2> SUFFICES ASSUME NEW c \in B PROVE At(c) \in SUBSET Nat /\ At(c) # {}
    OBVIOUS
  <2>1. At(c) \in SUBSET Nat
    BY <1>2, <1>6
  <2>2. CASE c \in A
    <3>1. costs[c] \in At(c)
      BY <1>2, <2>2
    <3> QED
      BY <2>1, <3>1
  <2>3. CASE c \notin A
    <3>1. PICK o \in offers : c = o[1]
      BY <1>2, <2>3
    <3>2. o[2] \in At(c)
      BY <3>1
    <3> QED
      BY <2>1, <3>2
  <2> QED
    BY <2>2, <2>3
<1>8. \A c, x : x \in At(c) <=> (\E o \in offers : o[1] = c /\ x = o[2]) \/ (c \in A /\ x = costs[c])
  BY <1>2
<1> HIDE DEF At
<1>9. \A c \in B : after[c] \in At(c) /\ \A x \in At(c) : after[c] <= x
  <2> SUFFICES ASSUME NEW c \in B PROVE after[c] \in At(c) /\ \A x \in At(c) : after[c] <= x
    OBVIOUS
  <2>1. after[c] = Min(At(c))
    OBVIOUS
  <2> HIDE DEF after
  <2> QED
    BY <1>7, <2>1, MinOfNats
<1>10. DOMAIN after = B /\ B \in SUBSET Priced /\ A \subseteq B /\ \A o \in offers : o[1] \in B
  BY <1>2, <1>6 DEF Priced
<1>11. after = [c \in B |-> after[c]]
  OBVIOUS
<1> HIDE DEF after, B
<1>12. after \in [B -> Nat]
  BY <1>7, <1>9, <1>11
<1>13. \A c \in A : after[c] <= costs[c]
  BY <1>8, <1>9, <1>10
<1>14. ASSUME NEW r \in DOMAIN groups, groups[r].waitsFor \subseteq A, NEW k \in groups[r].group
       PROVE  k[2] \in B /\ after[k[2]] <= ActionCost[k[1]] + Sum(r)
  <2> DEFINE o == <<k[2], ActionCost[k[1]] + Sum(r)>>
  <2>1. o \in offers /\ o[1] = k[2] /\ o[2] = ActionCost[k[1]] + Sum(r)
    BY <1>5, <1>14
  <2> HIDE DEF o
  <2>2. k[2] \in B /\ o[2] \in At(k[2])
    BY <1>8, <1>10, <2>1
  <2> QED
    BY <1>9, <2>1, <2>2
<1>15. ASSUME NEW c \in B
       PROVE  \/ c \in A /\ after[c] = costs[c]
              \/ \E r \in DOMAIN groups :
                   /\ groups[r].waitsFor \subseteq A
                   /\ \E k \in groups[r].group : k[2] = c /\ after[c] = ActionCost[k[1]] + Sum(r)
  <2>1. (\E o \in offers : o[1] = c /\ after[c] = o[2]) \/ (c \in A /\ after[c] = costs[c])
    BY <1>8, <1>9
  <2>2. ASSUME NEW o \in offers, o[1] = c, after[c] = o[2]
        PROVE  \E r \in DOMAIN groups :
                   /\ groups[r].waitsFor \subseteq A
                   /\ \E k \in groups[r].group : k[2] = c /\ after[c] = ActionCost[k[1]] + Sum(r)
    <3>1. PICK r \in DOMAIN groups : /\ groups[r].waitsFor \subseteq A
                                     /\ \E k \in groups[r].group : o = <<k[2], ActionCost[k[1]] + Sum(r)>>
      BY <1>5
    <3>2. PICK k \in groups[r].group : o = <<k[2], ActionCost[k[1]] + Sum(r)>>
      BY <3>1
    <3>3. o[1] = k[2] /\ o[2] = ActionCost[k[1]] + Sum(r)
      BY <3>2
    <3> QED
      BY <2>2, <3>1, <3>3
  <2> QED
    BY <2>1, <2>2
<1> QED
  BY <1>1, <1>10, <1>12, <1>13, <1>14, <1>15 DEF Sum

\* The recursive function of CaddWithin.
PricedUpto(f, C, s) ==
  f = [n \in 0 .. Cardinality(Known(C)) |->
         IF n = 0 THEN [c \in {d \in Known(C) \cup {DummyPrecondition} : d \subseteq s} |-> 0]
         ELSE CaddRound(f[n - 1])]

LEMMA CaddSteps ==
  ASSUME DataInv, NEW s
  PROVE  LET V == CaddWithin(learned, s)
             k == Cardinality(Known_) IN
         /\ k \in Nat /\ DOMAIN V = 0 .. k
         /\ V[0] = [c \in {d \in Priced : d \subseteq s} |-> 0]
         /\ \A n \in 0 .. k : DOMAIN V[n] \in SUBSET Priced /\ V[n] \in [DOMAIN V[n] -> Nat]
         /\ \A n \in 0 .. k : n < k => V[n + 1] = CaddRound(V[n])
<1> DEFINE k == Cardinality(Known_)
           X == UNION {[A -> Nat] : A \in SUBSET Priced}
           a == [c \in {d \in Priced : d \subseteq s} |-> 0]
           G == [i \in 1 .. k |-> [x \in X |-> CaddRound(x)]]
           V == CHOOSE f : PricedUpto(f, learned, s)
<1>1. k \in Nat
  BY KnownConjunctions, FS_CardinalityType DEF DataInv, Known_
<1>2. \A x : x \in X <=> DOMAIN x \in SUBSET Priced /\ x \in [DOMAIN x -> Nat]
  <2>1. ASSUME NEW A \in SUBSET Priced, NEW x \in [A -> Nat] PROVE DOMAIN x = A
    OBVIOUS
  <2>2. \A x : x \in X <=> \E A \in SUBSET Priced : x \in [A -> Nat]
    OBVIOUS
  <2> HIDE DEF X
  <2> QED
    BY <2>1, <2>2
<1>3. \A x \in X : CaddRound(x) \in X
  <2> SUFFICES ASSUME NEW x \in X PROVE CaddRound(x) \in X
    OBVIOUS
  <2>1. DOMAIN x \in SUBSET Priced /\ x \in [DOMAIN x -> Nat]
    BY <1>2
  <2> DEFINE after == CaddRound(x)
  <2>2. DOMAIN after \in SUBSET Priced /\ after \in [DOMAIN after -> Nat]
    BY <2>1, CaddRoundOffers
  <2> HIDE DEF after, X
  <2>3. after \in X
    BY <1>2, <2>2
  <2> QED
    BY <2>3 DEF after
<1>4. a \in X
  <2>1. DOMAIN a \in SUBSET Priced /\ a \in [DOMAIN a -> Nat]
    OBVIOUS
  <2> HIDE DEF a, X
  <2> QED
    BY <1>2, <2>1
<1> HIDE DEF X
<1>5. G \in [1 .. k -> [X -> X]]
  BY <1>3
<1>6. \A i \in 1 .. k : \A x \in X : G[i][x] = CaddRound(x)
  OBVIOUS
<1>7. \A f : PricedUpto(f, learned, s) <=> f = [n \in 0 .. k |-> IF n = 0 THEN a ELSE CaddRound(f[n - 1])]
  BY Zenon DEF PricedUpto, Known_, Priced
<1> HIDE DEF G, a, k
<1>8. PICK f \in [0 .. k -> X] : IteratesUpto(f, k, a, G)
  BY <1>1, <1>4, <1>5, RecursionUpto
<1>9. \A n \in 0 .. k : f[n] = IF n = 0 THEN a ELSE G[n][f[n - 1]]
  BY <1>8, Zenon DEF IteratesUpto
<1>10. \A n \in 0 .. k : n # 0 => G[n][f[n - 1]] = CaddRound(f[n - 1])
  BY <1>1, <1>6, <1>8
<1>11. PricedUpto(f, learned, s)
  <2>1. f = [n \in 0 .. k |-> IF n = 0 THEN a ELSE CaddRound(f[n - 1])]
    BY <1>8, <1>9, <1>10
  <2> QED
    BY <1>7, <2>1
<1>12. PricedUpto(V, learned, s)
  BY <1>11
<1>13. CaddWithin(learned, s) = V
  BY Zenon DEF CaddWithin, PricedUpto
<1> HIDE DEF V
<1>14. /\ DOMAIN V = 0 .. k
       /\ \A n \in 0 .. k : V[n] = IF n = 0 THEN a ELSE CaddRound(V[n - 1])
  <2>1. V = [n \in 0 .. k |-> IF n = 0 THEN a ELSE CaddRound(V[n - 1])]
    BY <1>7, <1>12
  <2> QED
    BY <2>1, Zenon
<1>15. V[0] = a
  BY <1>1, <1>14
<1>16. \A n \in 0 .. k : n < k => V[n + 1] = CaddRound(V[n])
  <2> SUFFICES ASSUME NEW n \in 0 .. k, n < k PROVE V[n + 1] = CaddRound(V[n])
    OBVIOUS
  <2>1. n + 1 \in 0 .. k /\ n + 1 # 0 /\ (n + 1) - 1 = n
    BY <1>1
  <2> QED
    BY <1>14, <2>1
<1>17. \A n \in 0 .. k : V[n] \in X
  <2> DEFINE K == {n \in Nat : n \in 0 .. k => V[n] \in X}
  <2>1. 0 \in K
    BY <1>4, <1>15
  <2>2. ASSUME NEW n \in K PROVE n + 1 \in K
    <3> SUFFICES ASSUME n + 1 \in 0 .. k PROVE V[n + 1] \in X
      OBVIOUS
    <3>1. n \in 0 .. k /\ n < k
      BY <1>1
    <3> QED
      BY <1>3, <1>16, <3>1
  <2>3. K \in SUBSET Nat
    OBVIOUS
  <2> HIDE DEF K
  <2>4. K = Nat
    BY <2>1, <2>2, <2>3, NatInductive
  <2> QED
    BY <2>4 DEF K
<1>18. \A n \in 0 .. k : DOMAIN V[n] \in SUBSET Priced /\ V[n] \in [DOMAIN V[n] -> Nat]
  BY <1>2, <1>17
<1> QED
  BY <1>1, <1>13, <1>14, <1>15, <1>16, <1>18 DEF k, a

\* Where the costs of a round come from, and what they are at most.
LEMMA CaddFollows ==
  ASSUME DataInv, NEW s, NEW n \in 0 .. Cardinality(Known_), n < Cardinality(Known_)
  PROVE  LET old == CaddWithin(learned, s)[n]
             new == CaddWithin(learned, s)[n + 1]
             Sum(r) == SumFunctionOnSet(old, groups[r].waitsFor) IN
         /\ DOMAIN old \in SUBSET Priced /\ DOMAIN new \in SUBSET Priced /\ DOMAIN old \subseteq DOMAIN new
         /\ \A c \in DOMAIN old : old[c] \in Nat /\ new[c] <= old[c]
         /\ \A c \in DOMAIN new : new[c] \in Nat
         /\ \A r \in DOMAIN groups : groups[r].waitsFor \subseteq DOMAIN old =>
              \A k \in groups[r].group : k[2] \in DOMAIN new /\ new[k[2]] <= ActionCost[k[1]] + Sum(r)
         /\ \A c \in DOMAIN new :
              \/ c \in DOMAIN old /\ new[c] = old[c]
              \/ \E r \in DOMAIN groups :
                   /\ groups[r].waitsFor \subseteq DOMAIN old
                   /\ \E k \in groups[r].group : k[2] = c /\ new[c] = ActionCost[k[1]] + Sum(r)
<1> DEFINE V == CaddWithin(learned, s)
           old == V[n]
           new == V[n + 1]
           A == DOMAIN old
           Sum(r) == SumFunctionOnSet(old, groups[r].waitsFor)
<1>1. A \in SUBSET Priced /\ old \in [A -> Nat] /\ new = CaddRound(old)
  BY CaddSteps
<1> HIDE DEF V, old, new, A
<1>2. /\ DOMAIN new \in SUBSET Priced /\ A \subseteq DOMAIN new
      /\ new \in [DOMAIN new -> Nat]
      /\ \A c \in A : new[c] <= old[c]
      /\ \A r \in DOMAIN groups : groups[r].waitsFor \subseteq A =>
           \A k \in groups[r].group : k[2] \in DOMAIN new /\ new[k[2]] <= ActionCost[k[1]] + Sum(r)
      /\ \A c \in DOMAIN new :
           \/ c \in A /\ new[c] = old[c]
           \/ \E r \in DOMAIN groups :
                /\ groups[r].waitsFor \subseteq A
                /\ \E k \in groups[r].group : k[2] = c /\ new[c] = ActionCost[k[1]] + Sum(r)
  <2> DEFINE Made(B, costs, after) ==
         LET Sums(r) == SumFunctionOnSet(costs, groups[r].waitsFor) IN
         /\ DOMAIN after \in SUBSET Priced /\ B \subseteq DOMAIN after
         /\ after \in [DOMAIN after -> Nat]
         /\ \A c \in B : after[c] <= costs[c]
         /\ \A r \in DOMAIN groups : groups[r].waitsFor \subseteq B =>
              \A k \in groups[r].group : k[2] \in DOMAIN after /\ after[k[2]] <= ActionCost[k[1]] + Sums(r)
         /\ \A c \in DOMAIN after :
              \/ c \in B /\ after[c] = costs[c]
              \/ \E r \in DOMAIN groups :
                   /\ groups[r].waitsFor \subseteq B
                   /\ \E k \in groups[r].group : k[2] = c /\ after[c] = ActionCost[k[1]] + Sums(r)
  <2>1. \A B \in SUBSET Priced : \A costs \in [B -> Nat] : Made(B, costs, CaddRound(costs))
    BY CaddRoundOffers
  <2> HIDE DEF Made
  <2>2. Made(A, old, new)
    BY <1>1, <2>1
  <2> QED
    BY <2>2, Zenon DEF Made
<1>3. \A c \in A : old[c] \in Nat
  BY <1>1
<1>4. \A c \in DOMAIN new : new[c] \in Nat
  BY <1>2
<1> QED
  BY <1>1, <1>2, <1>3, <1>4, Zenon DEF A, old, new, V

\* What is priced in a round is priced, no dearer, in the later ones.
LEMMA CaddFalls ==
  ASSUME DataInv, NEW s, NEW n \in 0 .. Cardinality(Known_), NEW m \in 0 .. n
  PROVE  LET V == CaddWithin(learned, s) IN
         DOMAIN V[m] \subseteq DOMAIN V[n] /\ \A c \in DOMAIN V[m] : V[n][c] \in Nat /\ V[n][c] <= V[m][c]
<1> DEFINE V == CaddWithin(learned, s)
           k == Cardinality(Known_)
           Falls(i) == DOMAIN V[m] \subseteq DOMAIN V[i]
                         /\ \A c \in DOMAIN V[m] : V[i][c] \in Nat /\ V[i][c] <= V[m][c]
           K == {i \in Nat : m + i \in 0 .. k => Falls(m + i)}
<1>1. /\ k \in Nat
      /\ \A i \in 0 .. k : \A c \in DOMAIN V[i] : V[i][c] \in Nat
  <2>1. k \in Nat /\ \A i \in 0 .. k : V[i] \in [DOMAIN V[i] -> Nat]
    BY CaddSteps
  <2> HIDE DEF V, k
  <2> QED
    BY <2>1
<1>2. \A i \in 0 .. k : i < k =>
        DOMAIN V[i] \subseteq DOMAIN V[i + 1] /\ \A c \in DOMAIN V[i] : V[i + 1][c] <= V[i][c]
  BY CaddFollows
<1> HIDE DEF V, k
<1>3. 0 \in K
  BY <1>1
<1>4. ASSUME NEW i \in K PROVE i + 1 \in K
  <2> SUFFICES ASSUME m + (i + 1) \in 0 .. k PROVE Falls(m + (i + 1))
    OBVIOUS
  <2> DEFINE j == m + i
  <2>1. j \in 0 .. k /\ j < k /\ j + 1 = m + (i + 1) /\ j + 1 \in 0 .. k
    BY <1>1
  <2>2. Falls(j)
    BY <2>1
  <2> HIDE DEF j
  <2>3. Falls(j + 1)
    <3>1. DOMAIN V[j] \subseteq DOMAIN V[j + 1] /\ \A c \in DOMAIN V[j] : V[j + 1][c] <= V[j][c]
      BY <1>2, <2>1
    <3> SUFFICES ASSUME NEW c \in DOMAIN V[m]
                 PROVE  c \in DOMAIN V[j + 1] /\ V[j + 1][c] \in Nat /\ V[j + 1][c] <= V[m][c]
      OBVIOUS
    <3>2. c \in DOMAIN V[j] /\ V[j][c] \in Nat /\ V[j][c] <= V[m][c]
      BY <2>2
    <3>3. c \in DOMAIN V[j + 1] /\ V[j + 1][c] <= V[j][c]
      BY <3>1, <3>2
    <3>4. V[j + 1][c] \in Nat /\ V[m][c] \in Nat
      <4>1. m \in 0 .. k
        BY <1>1 DEF k
      <4> QED
        BY <1>1, <2>1, <3>3, <4>1
    <3> DEFINE x == V[j + 1][c]
               y == V[j][c]
               z == V[m][c]
    <3> HIDE DEF x, y, z
    <3>5. x \in Nat /\ y \in Nat /\ z \in Nat /\ x <= y /\ y <= z
      BY <3>2, <3>3, <3>4 DEF x, y, z
    <3>6. x <= z
      BY <3>5
    <3> QED
      BY <3>3, <3>4, <3>6 DEF x, z
  <2> QED
    BY <2>1, <2>3
<1>5. K = Nat
  <2>1. K \in SUBSET Nat
    OBVIOUS
  <2> HIDE DEF K
  <2> QED
    BY <1>3, <1>4, <2>1, NatInductive
<1>6. n \in 0 .. k
  BY DEF k
<1>7. n - m \in Nat /\ m + (n - m) = n
  BY <1>1, <1>6
<1>8. n - m \in K
  BY <1>5, <1>7
<1>9. Falls(n)
  BY <1>6, <1>7, <1>8
<1> QED
  BY <1>9 DEF V

-----------------------------------------------------------------------------
(* One conjunction leaves the queue. *)

\* The conjunction that is popped is processed, at its cost, and nothing else is.
LEMMA TriggerProcesses ==
  ASSUME DataInv, CostInv, CountInv, PopEntry,
         NEW e \in queue, \A f \in queue : e[1] <= f[1], ~(cost[e[2]] < e[1]),
         Trigger(e[2])
  PROVE  LET c == e[2] IN
         /\ c \in DOMAIN cost /\ Reached(c) /\ c \notin Processed /\ cost[c] = e[1]
         /\ DOMAIN cost' = DOMAIN cost
         /\ \A d \in DOMAIN cost : Reached(d) => cost'[d] # UNREACHED /\ cost'[d] <= cost[d]
         /\ \A d \in Processed \cup {c} : cost'[d] = cost[d]
         /\ Processed' = Processed \cup {c}
<1> DEFINE c == e[2]
<1>1. UNCHANGED <<learned, groups, option, pc, state>> /\ pc = "search" /\ numOpenGoals > 0 /\ Additive
  BY DEF PopEntry
<1>2. /\ numOpenGoals = Cardinality(GoalConjunctions \ Processed)
      /\ \A d \in DOMAIN cost : InitiallyTrue(d) => Reached(d)
      /\ \A f \in queue : Reached(f[2]) /\ cost[f[2]] <= f[1]
      /\ \A d \in Processed : \A f \in queue : cost[d] <= f[1]
      /\ \A r \in DOMAIN groups :
           /\ value[r] = Cardinality(groups[r].waitsFor \ Processed)
           /\ groups[r].waitsFor \subseteq Processed => \A k \in groups[r].group : Reached(k[2])
  BY <1>1, Zenon DEF CountInv, OpenGoals
<1>3. /\ c \in DOMAIN cost /\ Reached(c) /\ cost[c] \in Nat /\ e[1] \in Nat /\ e = <<e[1], c>>
      /\ \A d \in DOMAIN cost : cost[d] \in Nat \cup {UNREACHED}
      /\ \A f \in queue : f[1] \in Nat /\ f[2] \in DOMAIN cost
      /\ DOMAIN cost = Known_ \cup {DummyPrecondition}
  BY <1>2 DEF CostInv, Reached
<1>4. cost[c] = e[1] /\ <<cost[c], c>> = e
  BY <1>2, <1>3
<1> HIDE DEF c
<1>5. PICK improved \in SUBSET DOMAIN cost :
           /\ DOMAIN cost' = DOMAIN cost
           /\ \A d \in DOMAIN cost : IF d \in improved
                THEN cost'[d] \in Nat /\ cost[c] <= cost'[d] /\ (Reached(d) => cost'[d] < cost[d])
                ELSE cost'[d] = cost[d]
           /\ queue' = (queue \ {<<cost[c], c>>}) \cup {<<cost'[d], d>> : d \in improved}
           /\ \A r \in DOMAIN groups : c \in groups[r].waitsFor /\ value[r] = 1 =>
                \A k \in groups[r].group : k[2] \in DOMAIN cost /\ cost'[k[2]] # UNREACHED
  BY <1>3, TriggerImproves DEF c
<1>6. \A d \in DOMAIN cost : Reached(d) => cost'[d] # UNREACHED /\ cost'[d] <= cost[d]
  <2> SUFFICES ASSUME NEW d \in DOMAIN cost, Reached(d) PROVE cost'[d] # UNREACHED /\ cost'[d] <= cost[d]
    OBVIOUS
  <2>1. cost[d] \in Nat
    BY <1>3 DEF Reached
  <2> QED
    BY <1>5, <2>1 DEF UNREACHED
<1>7. c \notin improved /\ cost'[c] = cost[c]
  BY <1>3, <1>5
<1>8. \A d \in Processed : /\ d \in DOMAIN cost /\ Reached(d) /\ cost[d] <= cost[c]
                           /\ <<cost[d], d>> \notin queue
  BY <1>1, <1>2, <1>4 DEF Processed, IsWaiting
<1>9. \A d \in Processed : d \notin improved /\ cost'[d] = cost[d]
  <2> SUFFICES ASSUME NEW d \in Processed PROVE d \notin improved
    BY <1>5, <1>8
  <2>1. cost[d] \in Nat /\ cost[d] <= cost[c] /\ Reached(d) /\ d \in DOMAIN cost
    BY <1>3, <1>8 DEF Reached
  <2> QED
    BY <1>3, <1>5, <2>1
<1>10. c \notin Processed
  BY <1>4, <1>8
<1>11. Additive' /\ GoalConjunctions' = GoalConjunctions /\ \A d : InitiallyTrue(d)' <=> InitiallyTrue(d)
  BY <1>1 DEF Additive, GoalConjunctions, InitiallyTrue
<1>12. Processed' = {d \in DOMAIN cost : cost'[d] # UNREACHED /\ <<cost'[d], d>> \notin queue'}
  BY <1>5, <1>11 DEF Processed, IsWaiting, Reached
<1>13. \A f \in queue' : \/ f \in queue /\ f # <<cost[c], c>>
                         \/ f[2] \in improved /\ f[1] = cost'[f[2]]
  <2> SUFFICES ASSUME NEW f \in queue', f = <<cost[c], c>> \/ f \notin queue
               PROVE  f[2] \in improved /\ f[1] = cost'[f[2]]
    OBVIOUS
  <2>1. PICK d \in improved : f = <<cost'[d], d>>
    BY <1>5
  <2> QED
    BY <2>1
<1>14. \A d \in improved : <<cost'[d], d>> \in queue'
  BY <1>5
<1>15. Processed \cup {c} \subseteq Processed'
  <2> SUFFICES ASSUME NEW d \in Processed \cup {c} PROVE d \in Processed'
    OBVIOUS
  <2>1. d \in DOMAIN cost /\ cost'[d] = cost[d] /\ Reached(d) /\ d \notin improved
    BY <1>3, <1>7, <1>8, <1>9
  <2>2. <<cost[d], d>> \notin queue'
    <3>1. <<cost[d], d>> \notin queue \/ d = c
      BY <1>8
    <3> QED
      BY <1>13, <2>1, <3>1
  <2> QED
    BY <1>12, <2>1, <2>2 DEF Reached
<1>16. Processed' \subseteq Processed \cup {c}
  <2> SUFFICES ASSUME NEW d \in Processed', d # c PROVE d \in Processed
    OBVIOUS
  <2>1. d \in DOMAIN cost /\ cost'[d] # UNREACHED /\ <<cost'[d], d>> \notin queue'
    BY <1>12
  <2>2. d \notin improved
    BY <1>14, <2>1
  <2>3. cost'[d] = cost[d]
    BY <1>5, <2>1, <2>2
  <2>4. <<cost[d], d>> \notin queue
    BY <1>5, <2>1, <2>3
  <2> QED
    BY <1>1, <2>1, <2>3, <2>4 DEF Processed, IsWaiting, Reached
<1>17. Processed' = Processed \cup {c}
  BY <1>15, <1>16
<1> QED
  BY <1>3, <1>4, <1>5, <1>6, <1>7, <1>9, <1>10, <1>17 DEF c

\* What the groups it completes offer is what costs are lowered to.
LEMMA TriggerOffers ==
  ASSUME DataInv, CostInv, NEW c \in DOMAIN cost, Reached(c), Trigger(c)
  PROVE  LET Offer(r, k) == groupCost[r] + cost[c] + ActionCost[k[1]] IN
         /\ \A r \in DOMAIN groups : \A k \in groups[r].group :
              c \in groups[r].waitsFor /\ value[r] = 1 =>
                k[2] \in DOMAIN cost /\ cost'[k[2]] \in Nat /\ cost'[k[2]] <= Offer(r, k)
         /\ \A d \in DOMAIN cost :
              \/ cost'[d] = cost[d]
              \/ \E r \in DOMAIN groups : /\ c \in groups[r].waitsFor /\ value[r] = 1
                                          /\ \E k \in groups[r].group : k[2] = d /\ cost'[d] = Offer(r, k)
<1> DEFINE Offer(r, k) == groupCost[r] + cost[c] + ActionCost[k[1]]
           completed == {r \in WaitingFor(c) : value[r] = 1}
           offers == Offers(completed, cost[c])
           to == {o[1] : o \in offers}
           By(d) == {o \in offers : o[1] = d}
           improved == {d \in to : cost[d] = UNREACHED \/ cost[d] > LowestCost(d, By(d))}
<1>1. /\ DOMAIN cost = Known_ \cup {DummyPrecondition}
      /\ \A d \in DOMAIN cost : cost[d] \in Nat \cup {UNREACHED}
      /\ cost[c] \in Nat
  BY DEF CostInv, Reached
<1>2. completed \in SUBSET DOMAIN groups
      /\ \A r \in DOMAIN groups : r \in completed <=> c \in groups[r].waitsFor /\ value[r] = 1
  BY DEF WaitingFor
<1> HIDE DEF completed
<1>3. \A o \in offers : o[1] \in Known_ /\ o[2] \in Nat
  BY <1>1, <1>2, OffersAreNats
<1>4. cost' = [d \in DOMAIN cost |-> IF d \in improved THEN LowestCost(d, By(d)) ELSE cost[d]]
  BY Zenon DEF Trigger, completed
<1>5. \A o : o \in offers <=> \E r \in completed : \E k \in groups[r].group : o = <<k[2], Offer(r, k), k[1]>>
  BY DEF Offers
<1> HIDE DEF offers
<1>6. ASSUME NEW d \in to
      PROVE  /\ LowestCost(d, By(d)) \in Nat
             /\ cost[d] \in Nat \cup {UNREACHED} /\ d \in DOMAIN cost
             /\ Reached(d) => LowestCost(d, By(d)) <= cost[d]
             /\ LowestCost(d, By(d)) = cost[d] \/ \E o \in By(d) : LowestCost(d, By(d)) = o[2]
             /\ \A o \in By(d) : LowestCost(d, By(d)) <= o[2]
  <2>1. By(d) # {} /\ \A o \in By(d) : o[2] \in Nat
    BY <1>3
  <2>2. cost[d] \in Nat \cup {UNREACHED} /\ d \in DOMAIN cost
    BY <1>1, <1>3
  <2> HIDE DEF By
  <2> DEFINE S == {o[2] : o \in By(d)} \cup (IF cost[d] = UNREACHED THEN {} ELSE {cost[d]})
  <2>3. S \in SUBSET Nat /\ S # {} /\ (\A o \in By(d) : o[2] \in S) /\ LowestCost(d, By(d)) = Min(S)
    BY <2>1, <2>2 DEF LowestCost
  <2> HIDE DEF S
  <2>4. \A n \in S : LowestCost(d, By(d)) <= n
    BY <2>3, MinOfNats
  <2> QED
    BY <2>1, <2>2, <2>3, <2>4, LowestCostProperties
<1>7. \A d \in improved : d \in to
  OBVIOUS
<1>8. \A d \in to : d \notin improved => cost[d] # UNREACHED /\ ~(cost[d] > LowestCost(d, By(d)))
  OBVIOUS
<1> HIDE DEF improved
<1>9. \A d \in DOMAIN cost : cost'[d] = IF d \in improved THEN LowestCost(d, By(d)) ELSE cost[d]
  BY <1>4
<1>10. ASSUME NEW d \in to
       PROVE  d \in DOMAIN cost /\ cost'[d] \in Nat /\ \A o \in By(d) : cost'[d] <= o[2]
  <2> DEFINE lowest == LowestCost(d, By(d))
  <2>1. /\ lowest \in Nat /\ cost[d] \in Nat \cup {UNREACHED} /\ d \in DOMAIN cost
        /\ cost[d] # UNREACHED => lowest <= cost[d]
        /\ \A o \in By(d) : lowest <= o[2]
    BY <1>6 DEF Reached
  <2>2. cost'[d] = lowest
    <3>1. CASE d \in improved
      BY <1>9, <2>1, <3>1
    <3>2. CASE d \notin improved
      <4>1. cost[d] # UNREACHED /\ ~(cost[d] > lowest)
        BY <1>8, <3>2
      <4> HIDE DEF lowest
      <4>2. cost[d] = lowest
        BY <2>1, <4>1
      <4> QED
        BY <1>9, <2>1, <3>2, <4>2
    <3> QED
      BY <3>1, <3>2
  <2> HIDE DEF lowest
  <2> QED
    BY <2>1, <2>2
<1>11. ASSUME NEW r \in DOMAIN groups, NEW k \in groups[r].group, c \in groups[r].waitsFor, value[r] = 1
       PROVE  k[2] \in DOMAIN cost /\ cost'[k[2]] \in Nat /\ cost'[k[2]] <= Offer(r, k)
  <2> DEFINE o == <<k[2], Offer(r, k), k[1]>>
  <2>1. o \in offers
    BY <1>2, <1>5, <1>11
  <2>2. o[1] = k[2] /\ o[2] = Offer(r, k)
    OBVIOUS
  <2> HIDE DEF o, Offer
  <2>3. k[2] \in to /\ o \in By(k[2])
    BY <2>1, <2>2
  <2> HIDE DEF to, By
  <2> QED
    BY <1>10, <2>2, <2>3
<1>12. ASSUME NEW d \in DOMAIN cost, cost'[d] # cost[d]
       PROVE  \E r \in DOMAIN groups : /\ c \in groups[r].waitsFor /\ value[r] = 1
                                       /\ \E k \in groups[r].group : k[2] = d /\ cost'[d] = Offer(r, k)
  <2>1. d \in to /\ cost'[d] = LowestCost(d, By(d))
    BY <1>7, <1>9, <1>12
  <2>2. PICK o \in By(d) : cost'[d] = o[2]
    BY <1>6, <1>12, <2>1
  <2>3. o \in offers /\ o[1] = d
    OBVIOUS
  <2>4. PICK r \in completed : \E k \in groups[r].group : o = <<k[2], Offer(r, k), k[1]>>
    BY <1>5, <2>3
  <2>5. PICK k \in groups[r].group : o = <<k[2], Offer(r, k), k[1]>>
    BY <2>4
  <2>6. o[1] = k[2] /\ o[2] = Offer(r, k)
    BY <2>5
  <2>7. r \in DOMAIN groups /\ c \in groups[r].waitsFor /\ value[r] = 1
    BY <1>2
  <2> HIDE DEF Offer
  <2> QED
    BY <2>2, <2>3, <2>6, <2>7
<1> QED
  BY <1>11, <1>12

LEMMA DropProcesses ==
  ASSUME DataInv, CostInv, CountInv, PopEntry,
         NEW e \in queue, cost[e[2]] < e[1], queue' = queue \ {e}, UNCHANGED cost
  PROVE  Processed' = Processed
<1>1. UNCHANGED option /\ pc = "search" /\ numOpenGoals > 0 /\ Additive /\ Additive'
  BY DEF PopEntry, Additive
<1>2. cost[e[2]] \in Nat /\ e[1] \in Nat
  BY <1>1 DEF CostInv, CountInv, Reached
<1>3. \A c : <<cost[c], c>> \in queue' <=> <<cost[c], c>> \in queue
  <2> SUFFICES ASSUME NEW c PROVE <<cost[c], c>> # e
    OBVIOUS
  <2> QED
    BY <1>2
<1> QED
  BY <1>1, <1>3 DEF Processed, IsWaiting, Reached

\* What has been added up when an entry is popped, unless it is the last goal.
LEMMA SumPopEntry ==
  ASSUME DataInv, CostInv, CountInv, SumInv, PopEntry
  PROVE  SumInv'
<1>1. UNCHANGED <<learned, groups, option, pc, state>> /\ pc = "search" /\ numOpenGoals > 0 /\ Additive /\ Additive'
  BY DEF PopEntry, Additive
<1>2. /\ GoalConjunctions' = GoalConjunctions /\ \A d : InitiallyTrue(d)' <=> InitiallyTrue(d)
  BY <1>1 DEF GoalConjunctions, InitiallyTrue
<1>3. PICK e \in queue :
           /\ \A f \in queue : e[1] <= f[1]
           /\ \/ /\ cost[e[2]] < e[1] /\ queue' = queue \ {e}
                 /\ UNCHANGED <<cost, supporters, value, groupCost, numOpenGoals, h>>
              \/ /\ ~(cost[e[2]] < e[1])
                 /\ h' = IF e[2] \in GoalConjunctions THEN h + cost[e[2]] ELSE h
                 /\ numOpenGoals' = IF e[2] \in GoalConjunctions THEN numOpenGoals - 1 ELSE numOpenGoals
                 /\ \/ numOpenGoals' = 0 /\ UNCHANGED <<cost, supporters, value, groupCost, queue>>
                    \/ numOpenGoals' # 0 /\ Trigger(e[2])
  BY PoppedEntry
<1>4. CASE cost[e[2]] < e[1] /\ queue' = queue \ {e} /\ UNCHANGED <<cost, groupCost, h>>
  <2>1. Processed' = Processed
    BY <1>4, DropProcesses
  <2> QED
    BY <1>1, <1>2, <1>4, <2>1 DEF SumInv
<1>5. CASE numOpenGoals' = 0
  BY <1>5 DEF SumInv
<1>6. CASE /\ ~(cost[e[2]] < e[1]) /\ Trigger(e[2])
           /\ h' = IF e[2] \in GoalConjunctions THEN h + cost[e[2]] ELSE h
  <2> DEFINE c == e[2]
             goals == GoalConjunctions \cap Processed
  <2>1. /\ c \in DOMAIN cost /\ Reached(c) /\ c \notin Processed
        /\ DOMAIN cost' = DOMAIN cost
        /\ \A d \in DOMAIN cost : Reached(d) => cost'[d] # UNREACHED /\ cost'[d] <= cost[d]
        /\ \A d \in Processed \cup {c} : cost'[d] = cost[d]
        /\ Processed' = Processed \cup {c}
    BY <1>3, <1>6, TriggerProcesses
  <2>2. h' = IF c \in GoalConjunctions THEN h + cost[c] ELSE h
    BY <1>6
  <2>3. /\ \A r \in DOMAIN groups :
             groupCost'[r] = IF c \in groups[r].waitsFor THEN groupCost[r] + cost[c] ELSE groupCost[r]
        /\ Trigger(c)
    BY <1>6 DEF Trigger, WaitingFor, CostInv
  <2> HIDE DEF c
  <2>4. \A d \in Processed \cup {c} : d \in DOMAIN cost /\ cost[d] \in Nat
    BY <2>1 DEF CostInv, Processed, Reached
  <2>5. /\ h = SumFunctionOnSet(cost, goals)
        /\ \A d \in DOMAIN cost : InitiallyTrue(d) => cost[d] = 0 /\ Reached(d)
        /\ \A r \in DOMAIN groups :
             /\ groupCost[r] = SumFunctionOnSet(cost, groups[r].waitsFor \cap Processed)
             /\ groups[r].waitsFor \subseteq Processed =>
                  \A k \in groups[r].group : cost[k[2]] <= groupCost[r] + ActionCost[k[1]] /\ Reached(k[2])
             /\ value[r] = Cardinality(groups[r].waitsFor \ Processed)
    BY <1>1 DEF SumInv, CountInv
  <2>6. ASSUME NEW S, IsFiniteSet(S)
        PROVE  SumFunctionOnSet(cost', S \cap Processed') =
                 IF c \in S THEN SumFunctionOnSet(cost, S \cap Processed) + cost[c]
                 ELSE SumFunctionOnSet(cost, S \cap Processed)
    <3> DEFINE T == S \cap Processed
    <3>1. IsFiniteSet(T) /\ c \notin T /\ \A d \in T : cost[d] \in Nat /\ cost'[d] = cost[d]
      <4>1. T \subseteq S
        OBVIOUS
      <4> QED
        BY <2>1, <2>4, <2>6, <4>1, FS_Subset
    <3>2. SumFunctionOnSet(cost', T) = SumFunctionOnSet(cost, T)
      <4> HIDE DEF T
      <4> QED
        BY <3>1, SumsAreEqual
    <3>3. CASE c \in S
      <4>1. S \cap Processed' = T \cup {c} /\ cost'[c] = cost[c] /\ cost[c] \in Nat
        BY <2>1, <2>4, <3>3
      <4> HIDE DEF T
      <4>2. \A y \in T \cup {c} : cost'[y] \in Nat
        BY <3>1, <4>1
      <4>3. SumFunctionOnSet(cost', T \cup {c}) = SumFunctionOnSet(cost', T) + cost'[c]
        BY <3>1, <4>2, SumAdds
      <4> QED
        BY <3>2, <3>3, <4>1, <4>3 DEF T
    <3>4. CASE c \notin S
      <4>1. S \cap Processed' = T
        BY <2>1, <3>4
      <4> QED
        BY <3>2, <3>4, <4>1
    <3> QED
      BY <3>3, <3>4
  <2>7. h' = SumFunctionOnSet(cost', GoalConjunctions' \cap Processed')
    <3>1. IsFiniteSet(GoalConjunctions)
      BY GoalsAreFinite
    <3> QED
      BY <1>2, <2>2, <2>5, <2>6, <3>1
  <2>8. ASSUME NEW d \in DOMAIN cost', InitiallyTrue(d)' PROVE cost'[d] = 0
    <3>1. d \in DOMAIN cost /\ cost[d] = 0 /\ Reached(d)
      BY <1>2, <2>1, <2>5, <2>8
    <3>2. cost'[d] # UNREACHED /\ cost'[d] <= 0 /\ cost'[d] \in Nat \cup {UNREACHED}
      <4>1. CostInv'
        BY CostPopEntry
      <4> QED
        BY <2>1, <2>8, <3>1, <4>1 DEF CostInv
    <3> QED
      BY <3>2
  <2>9. ASSUME NEW r \in DOMAIN groups
        PROVE  /\ groupCost'[r] = SumFunctionOnSet(cost', groups[r].waitsFor \cap Processed')
               /\ groups[r].waitsFor \subseteq Processed' =>
                    \A k \in groups[r].group : cost'[k[2]] <= groupCost'[r] + ActionCost[k[1]]
    <3>1. IsFiniteSet(groups[r].waitsFor)
      BY GoalsAreFinite
    <3>2. groupCost'[r] = SumFunctionOnSet(cost', groups[r].waitsFor \cap Processed')
      BY <2>3, <2>5, <2>6, <3>1
    <3>3. ASSUME groups[r].waitsFor \subseteq Processed', NEW k \in groups[r].group
          PROVE  cost'[k[2]] <= groupCost'[r] + ActionCost[k[1]]
      <4>1. CASE c \in groups[r].waitsFor
        <5>1. groups[r].waitsFor \ Processed = {c}
          BY <2>1, <3>3, <4>1
        <5>2. value[r] = 1
          BY <2>5, <5>1, FS_Singleton
        <5>3. cost'[k[2]] <= groupCost[r] + cost[c] + ActionCost[k[1]]
          BY <2>1, <2>3, <4>1, <5>2, TriggerOffers
        <5> QED
          BY <2>3, <4>1, <5>3
      <4>2. CASE c \notin groups[r].waitsFor
        <5>1. groups[r].waitsFor \subseteq Processed
          BY <2>1, <3>3, <4>2
        <5>2. cost[k[2]] <= groupCost[r] + ActionCost[k[1]] /\ Reached(k[2]) /\ groupCost'[r] = groupCost[r]
          BY <2>3, <2>5, <4>2, <5>1
        <5>3. k[2] \in DOMAIN cost
          BY GroupsOfConjunctions DEF DataInv, CostInv, Known_
        <5>4. cost'[k[2]] <= cost[k[2]] /\ cost[k[2]] \in Nat /\ cost'[k[2]] \in Nat \cup {UNREACHED}
          <6>1. CostInv'
            BY CostPopEntry
          <6> QED
            BY <2>1, <5>2, <5>3, <6>1 DEF CostInv, Reached
        <5>5. groupCost[r] \in Nat /\ ActionCost[k[1]] \in Nat
          <6>1. k[1] \in Actions
            <7>1. k[2] \in Known_ /\ k[1] \in Regressions(k[2])
              BY GroupsOfConjunctions DEF DataInv, Known_
            <7> QED
              BY <7>1, KnownConjunctions, RegressionFacts DEF DataInv, Known_
          <6> QED
            BY <6>1, RegressionAssumption DEF RegressionAssumption, CostInv
        <5> DEFINE x == cost'[k[2]]
                   y == cost[k[2]]
                   z == groupCost[r] + ActionCost[k[1]]
        <5> HIDE DEF x, y, z
        <5>6. x <= y /\ y <= z /\ x \in Int /\ y \in Int /\ z \in Int
          BY <5>2, <5>4, <5>5 DEF x, y, z, UNREACHED
        <5>7. x <= z
          BY <5>6
        <5> QED
          BY <5>2, <5>7 DEF x, z
      <4> QED
        BY <4>1, <4>2
    <3> QED
      BY <3>2, <3>3
  <2> QED
    BY <1>1, <2>7, <2>8, <2>9 DEF SumInv
<1> QED
  BY <1>3, <1>4, <1>5, <1>6

\* Nothing is added up at the start, where what is true costs nothing.
LEMMA CaddEvaluate ==
  ASSUME DataInv, CostInv, NEW s \in EvaluatedStates, Evaluate(s)
  PROVE  SumInv' /\ CaddInv'
<1> DEFINE true == {c \in DOMAIN cost : c \subseteq s}
           subgoals == GoalConjunctions \cap true
           last == ~Additive /\ subgoals = GoalConjunctions
           V == CaddWithin(learned, s)
<1>1. /\ UNCHANGED <<learned, groups, option>> /\ state' = s /\ h' = 0 /\ groupCost' = Zero(groups)
      /\ queue' = {<<0, c>> : c \in true}
  BY Zenon DEF Evaluate
<1>2. PICK set \in (IF last THEN {subgoals \cup rest : rest \in SUBSET (true \ subgoals)} ELSE {true}) :
        cost' = [c \in DOMAIN cost |-> IF c \in set THEN InitialCost ELSE UNREACHED]
  BY Zenon DEF Evaluate
<1>3. /\ DOMAIN cost = Known_ \cup {DummyPrecondition} /\ Known_' = Known_ /\ GoalConjunctions' = GoalConjunctions
      /\ CostInv' /\ CountInv' /\ (Additive' <=> Additive)
  BY <1>1, StartOfEvaluation DEF CostInv, Known_, GoalConjunctions, Additive
<1>4. SUFFICES ASSUME Additive, Additive' PROVE SumInv' /\ CaddInv'
  BY <1>3 DEF SumInv, CaddInv
<1>5. cost' = [c \in DOMAIN cost |-> IF c \in true THEN 0 ELSE UNREACHED]
  BY <1>2, <1>4 DEF InitialCost, Greedy, Additive, HCADD, HCMAX_GREEDY
<1>6. \A c \in DOMAIN cost : cost'[c] = IF c \in true THEN 0 ELSE UNREACHED
  BY <1>5
<1>7. Processed' = {}
  <2> SUFFICES ASSUME NEW c \in Processed' PROVE FALSE
    OBVIOUS
  <2>1. c \in DOMAIN cost /\ cost'[c] # UNREACHED /\ <<cost'[c], c>> \notin queue'
    BY <1>4, <1>5 DEF Processed, IsWaiting, Reached
  <2>2. c \in true /\ cost'[c] = 0
    BY <1>6, <2>1
  <2> HIDE DEF true
  <2> QED
    BY <1>1, <2>1, <2>2
<1>8. SumFunctionOnSet(cost', {}) = 0
  BY SumProperties, FS_EmptySet
<1>9. SumInv'
  <2>1. h' = SumFunctionOnSet(cost', GoalConjunctions' \cap Processed')
    <3>1. GoalConjunctions' \cap Processed' = {}
      BY <1>7
    <3> QED
      BY <1>1, <1>8, <3>1
  <2>2. \A c \in DOMAIN cost' : InitiallyTrue(c)' => cost'[c] = 0
    BY <1>1, <1>5, <1>6 DEF InitiallyTrue
  <2>3. ASSUME NEW r \in DOMAIN groups
        PROVE  /\ groupCost'[r] = SumFunctionOnSet(cost', groups[r].waitsFor \cap Processed')
               /\ ~(groups[r].waitsFor \subseteq Processed')
    <3>1. groups[r].waitsFor \cap Processed' = {} /\ groups[r].waitsFor # {}
      BY <1>7, GoalsAreFinite
    <3>2. groupCost'[r] = 0
      BY <1>1 DEF Zero
    <3> QED
      BY <1>7, <1>8, <3>1, <3>2
  <2> QED
    BY <1>1, <2>1, <2>2, <2>3 DEF SumInv
<1>10. ASSUME NEW c \in DOMAIN cost', Reached(c)'
       PROVE  \E n \in DOMAIN V : n <= RoundsFor(c)' /\ c \in DOMAIN V[n] /\ V[n][c] <= cost'[c]
  <2>1. c \in DOMAIN cost /\ c \subseteq s /\ cost'[c] = 0
    BY <1>5, <1>6, <1>10 DEF Reached
  <2>2. 0 \in DOMAIN V /\ V[0] = [d \in {e \in Priced : e \subseteq s} |-> 0]
    BY CaddSteps
  <2>3. c \in Priced
    BY <1>3, <2>1 DEF Priced
  <2>4. c \in DOMAIN V[0] /\ V[0][c] = 0
    BY <2>1, <2>2, <2>3
  <2>5. 0 <= RoundsFor(c)'
    <3>1. Processed' \ {DummyPrecondition} = {}
      BY <1>7
    <3>2. Cardinality(Processed' \ {DummyPrecondition}) = 0
      BY <3>1, FS_EmptySet
    <3> QED
      BY <3>2 DEF RoundsFor
  <2> QED
    BY <2>1, <2>2, <2>4, <2>5
<1>11. CaddWithin(learned, state)' = CaddWithin(learned, s)
  BY <1>1 DEF CaddWithin, CaddRound
<1>12. CaddInv'
  BY <1>10, <1>11 DEF CaddInv
<1> QED
  BY <1>9, <1>12

\* The definition finds a cost as low as the one an entry is popped with, in a round
\* more than what its action waits for took.
LEMMA CaddTrigger ==
  ASSUME DataInv, CostInv, CountInv, SumInv, CaddInv, PopEntry, numOpenGoals' > 0,
         NEW e \in queue, \A f \in queue : e[1] <= f[1], ~(cost[e[2]] < e[1]), Trigger(e[2])
  PROVE  CaddInv'
<1> DEFINE c == e[2]
           V == CaddWithin(learned, state)
           k == Cardinality(Known_)
           N == Cardinality(Processed \ {DummyPrecondition})
           M == Cardinality(Processed' \ {DummyPrecondition})
<1>1. UNCHANGED <<learned, groups, option, pc, state>> /\ pc = "search" /\ numOpenGoals > 0 /\ Additive /\ Additive'
  BY DEF PopEntry, Additive
<1>2. /\ c \in DOMAIN cost /\ Reached(c) /\ c \notin Processed
      /\ DOMAIN cost' = DOMAIN cost
      /\ \A d \in Processed \cup {c} : cost'[d] = cost[d]
      /\ Processed' = Processed \cup {c}
  BY TriggerProcesses
<1>3. /\ \A r \in DOMAIN groups :
           groupCost'[r] = IF c \in groups[r].waitsFor THEN groupCost[r] + cost[c] ELSE groupCost[r]
      /\ Trigger(c)
  BY DEF Trigger, WaitingFor, CostInv
<1> HIDE DEF c
<1>4. SumInv' /\ CostInv'
  BY SumPopEntry, CostPopEntry
<1>5. /\ \A r \in DOMAIN groups :
           groupCost'[r] = SumFunctionOnSet(cost', groups[r].waitsFor \cap Processed')
      /\ groups' = groups
  BY <1>1, <1>4 DEF SumInv
<1>6. /\ DOMAIN cost = Known_ \cup {DummyPrecondition} /\ Known_' = Known_
      /\ \A d \in DOMAIN cost : cost'[d] \in Nat \cup {UNREACHED}
      /\ IsFiniteSet(Known_) /\ DummyPrecondition \notin Known_
  BY <1>1, <1>2, <1>4, KnownConjunctions DEF CostInv, DataInv, Known_
<1>7. /\ k \in Nat /\ DOMAIN V = 0 .. k
      /\ V[0] = [d \in {x \in Priced : x \subseteq state} |-> 0]
      /\ \A n \in 0 .. k : \A d \in DOMAIN V[n] : V[n][d] \in Nat
  <2>1. /\ k \in Nat /\ DOMAIN V = 0 .. k
        /\ V[0] = [d \in {x \in Priced : x \subseteq state} |-> 0]
        /\ \A n \in 0 .. k : V[n] \in [DOMAIN V[n] -> Nat]
    BY CaddSteps
  <2> HIDE DEF V, k
  <2> QED
    BY <2>1
<1>8. CaddWithin(learned, state)' = V
  BY <1>1 DEF CaddWithin, CaddRound
<1>9. /\ Processed' \ {DummyPrecondition} \subseteq Known_
      /\ N \in Nat /\ M \in Nat /\ M <= k
      /\ M = IF c = DummyPrecondition THEN N ELSE N + 1
  <2> DEFINE P == Processed \ {DummyPrecondition}
             Q == Processed' \ {DummyPrecondition}
  <2>1. P \subseteq Known_ /\ Q \subseteq Known_
    BY <1>2, <1>6 DEF Processed
  <2>2. IsFiniteSet(P) /\ IsFiniteSet(Q) /\ Cardinality(Q) <= k
    BY <1>6, <2>1, FS_Subset
  <2>3. Cardinality(P) \in Nat /\ Cardinality(Q) \in Nat
    BY <2>2, FS_CardinalityType
  <2>4. CASE c = DummyPrecondition
    <3>1. P = Q
      BY <1>2, <2>4
    <3> QED
      BY <2>1, <2>2, <2>3, <2>4, <3>1
  <2>5. CASE c # DummyPrecondition
    <3>1. Q = P \cup {c} /\ c \notin P
      BY <1>2, <2>5
    <3>2. Cardinality(Q) = Cardinality(P) + 1
      BY <2>2, <3>1, FS_AddElement
    <3> QED
      BY <2>1, <2>2, <2>3, <2>5, <3>2
  <2> QED
    BY <2>4, <2>5
<1>10. \A d \in DOMAIN cost : Reached(d) =>
         \E n \in DOMAIN V : n <= RoundsFor(d) /\ d \in DOMAIN V[n] /\ V[n][d] <= cost[d]
  BY <1>1 DEF CaddInv
<1> HIDE DEF V, k, N, M
<1>11. \A d : RoundsFor(d) = N + (IF d \in Processed THEN 0 ELSE 1)
              /\ RoundsFor(d)' = M + (IF d \in Processed' THEN 0 ELSE 1)
  BY DEF RoundsFor, N, M
\* What is processed was found in as many rounds.
<1>12. ASSUME NEW d \in Processed'
       PROVE  \E n \in 0 .. M : d \in DOMAIN V[n] /\ V[n][d] <= cost'[d]
  <2>1. d \in DOMAIN cost /\ Reached(d) /\ cost'[d] = cost[d]
    BY <1>2 DEF Processed
  <2>2. PICK n \in DOMAIN V : n <= RoundsFor(d) /\ d \in DOMAIN V[n] /\ V[n][d] <= cost[d]
    BY <1>10, <2>1
  <2>3. CASE d = DummyPrecondition
    <3>1. d \in DOMAIN V[0] /\ V[0][d] = 0
      BY <1>7, <2>3 DEF Priced, DummyPrecondition
    <3>2. cost'[d] \in Nat
      BY <1>6, <2>1 DEF Reached
    <3> QED
      BY <1>9, <3>1, <3>2
  <2>4. CASE d # DummyPrecondition
    <3>1. RoundsFor(d) <= M
      BY <1>2, <1>9, <1>11, <2>4
    <3>2. n \in 0 .. M
      BY <1>7, <1>9, <1>11, <2>2, <3>1
    <3> QED
      BY <2>1, <2>2, <3>2
  <2> QED
    BY <2>3, <2>4
<1>13. ASSUME NEW d \in DOMAIN cost, cost'[d] = cost[d], Reached(d)
       PROVE  \E n \in DOMAIN V : n <= RoundsFor(d)' /\ d \in DOMAIN V[n] /\ V[n][d] <= cost'[d]
  <2>1. CASE d \in Processed'
    <3>1. PICK n \in 0 .. M : d \in DOMAIN V[n] /\ V[n][d] <= cost'[d]
      BY <1>12, <2>1
    <3>2. n \in DOMAIN V /\ n <= RoundsFor(d)'
      BY <1>7, <1>9, <1>11, <2>1, <3>1
    <3> QED
      BY <3>1, <3>2
  <2>2. CASE d \notin Processed'
    <3>1. PICK n \in DOMAIN V : n <= RoundsFor(d) /\ d \in DOMAIN V[n] /\ V[n][d] <= cost[d]
      BY <1>10, <1>13
    <3>2. RoundsFor(d) = N + 1 /\ RoundsFor(d)' = M + 1 /\ N <= M
      BY <1>2, <1>9, <1>11, <2>2
    <3>3. n <= RoundsFor(d)'
      BY <1>7, <1>9, <3>1, <3>2
    <3> QED
      BY <1>13, <3>1, <3>3
  <2> QED
    BY <2>1, <2>2
<1>14. ASSUME NEW d \in DOMAIN cost, cost'[d] # cost[d]
       PROVE  \E n \in DOMAIN V : n <= RoundsFor(d)' /\ d \in DOMAIN V[n] /\ V[n][d] <= cost'[d]
  <2>1. PICK r \in DOMAIN groups : /\ c \in groups[r].waitsFor /\ value[r] = 1
                                   /\ \E q \in groups[r].group :
                                        q[2] = d /\ cost'[d] = groupCost[r] + cost[c] + ActionCost[q[1]]
    BY <1>2, <1>3, <1>14, TriggerOffers
  <2>2. PICK q \in groups[r].group : q[2] = d /\ cost'[d] = groupCost[r] + cost[c] + ActionCost[q[1]]
    BY <2>1
  <2> DEFINE waits == groups[r].waitsFor
             sum == SumFunctionOnSet(cost', waits)
             found == SumFunctionOnSet(V[M], waits)
  <2>3. waits \subseteq Processed' /\ IsFiniteSet(waits) /\ waits \subseteq DOMAIN cost
    <3> DEFINE left == waits \ Processed
    <3>1. value[r] = Cardinality(left) /\ IsFiniteSet(waits) /\ waits \subseteq DOMAIN cost
      BY <1>1, <1>6, GoalsAreFinite DEF CountInv
    <3>2. IsFiniteSet(left) /\ c \in left
      BY <1>2, <2>1, <3>1, FS_Difference
    <3>3. Cardinality(left) = 1
      BY <2>1, <3>1
    <3> HIDE DEF left
    <3>4. Cardinality(left \ {c}) = 0 /\ IsFiniteSet(left \ {c})
      BY <3>2, <3>3, FS_RemoveElement
    <3>5. left \ {c} = {}
      BY <3>4, FS_EmptySet
    <3> QED
      BY <1>2, <3>1, <3>5 DEF left
  <2>4. cost'[d] = sum + ActionCost[q[1]]
    <3>1. groupCost'[r] = groupCost[r] + cost[c]
      BY <1>3, <2>1
    <3>2. waits \cap Processed' = waits
      BY <2>3
    <3> QED
      BY <1>5, <2>2, <3>1, <3>2
  <2>5. d \notin Processed' /\ d \in Known_ /\ ActionCost[q[1]] \in Nat
    <3>1. d \notin Processed'
      BY <1>2, <1>14
    <3>2. q[2] \in Known_ /\ q[1] \in Regressions(q[2])
      BY GroupsOfConjunctions DEF DataInv, Known_
    <3>3. q[1] \in Actions
      BY <3>2, KnownConjunctions, RegressionFacts DEF DataInv, Known_
    <3> QED
      BY <2>2, <3>1, <3>2, <3>3, RegressionAssumption DEF RegressionAssumption
  <2>6. M < k
    <3> DEFINE Q == Processed' \ {DummyPrecondition}
    <3>1. IsFiniteSet(Q) /\ Q \cup {d} \subseteq Known_ /\ d \notin Q
      BY <1>6, <1>9, <2>5, FS_Subset
    <3>2. Cardinality(Q \cup {d}) = M + 1
      BY <3>1, FS_AddElement DEF M
    <3>3. Cardinality(Q \cup {d}) <= k
      BY <1>6, <3>1, FS_Subset DEF k
    <3> QED
      BY <1>7, <1>9, <3>2, <3>3
  <2>7. M \in 0 .. k
    BY <1>7, <1>9
  <2>8. \A w \in waits : w \in DOMAIN V[M] /\ V[M][w] \in Nat /\ V[M][w] <= cost'[w] /\ cost'[w] \in Nat
    <3> SUFFICES ASSUME NEW w \in waits
                 PROVE  w \in DOMAIN V[M] /\ V[M][w] \in Nat /\ V[M][w] <= cost'[w] /\ cost'[w] \in Nat
      OBVIOUS
    <3>1. PICK n \in 0 .. M : w \in DOMAIN V[n] /\ V[n][w] <= cost'[w]
      BY <1>12, <2>3
    <3>2. w \in DOMAIN V[M] /\ V[M][w] \in Nat /\ V[M][w] <= V[n][w]
      BY <2>7, <3>1, CaddFalls DEF V, k
    <3>3. cost'[w] \in Nat
      BY <1>6, <2>3 DEF Processed, Reached
    <3>4. V[n][w] \in Nat
      BY <1>7, <1>9, <3>1
    <3> DEFINE x == V[M][w]
               y == V[n][w]
               z == cost'[w]
    <3> HIDE DEF x, y, z
    <3>5. x \in Nat /\ y \in Nat /\ z \in Nat /\ x <= y /\ y <= z
      BY <3>1, <3>2, <3>3, <3>4 DEF x, y, z
    <3>6. x <= z
      BY <3>5
    <3> QED
      BY <3>2, <3>3, <3>6 DEF x, z
  <2>9. found <= sum /\ found \in Nat /\ sum \in Nat
    <3> HIDE DEF waits
    <3>1. found <= sum
      BY <2>3, <2>8, SumGrows
    <3>2. found \in Nat
      BY <2>3, <2>8, SumProperties
    <3>3. sum \in Nat
      BY <2>3, <2>8, SumProperties
    <3> QED
      BY <3>1, <3>2, <3>3
  <2>10. d \in DOMAIN V[M + 1] /\ V[M + 1][d] <= ActionCost[q[1]] + found
    <3>1. waits \subseteq DOMAIN V[M]
      BY <2>8
    <3> HIDE DEF found
    <3>2. q[2] \in DOMAIN V[M + 1] /\ V[M + 1][q[2]] <= ActionCost[q[1]] + found
      BY <2>6, <2>7, <3>1, CaddFollows DEF V, k, found
    <3> QED
      BY <2>2, <3>2
  <2>11. M + 1 \in 0 .. k /\ V[M + 1][d] \in Nat
    BY <1>7, <1>9, <2>6, <2>10
  <2>12. V[M + 1][d] <= cost'[d]
    <3> DEFINE x == V[M + 1][d]
               a == ActionCost[q[1]]
    <3> HIDE DEF x, a, sum, found
    <3>1. x \in Nat /\ a \in Nat /\ x <= a + found /\ found <= sum /\ found \in Nat /\ sum \in Nat
      BY <2>5, <2>9, <2>10, <2>11 DEF x, a
    <3>2. x <= sum + a
      BY <3>1
    <3> QED
      BY <2>4, <3>2 DEF x, a
  <2>13. M + 1 <= RoundsFor(d)'
    BY <1>9, <1>11, <2>5
  <2> QED
    BY <1>7, <2>10, <2>11, <2>12, <2>13
<1>15. \A d \in DOMAIN cost : Reached(d)' =>
         \E n \in DOMAIN V : n <= RoundsFor(d)' /\ d \in DOMAIN V[n] /\ V[n][d] <= cost'[d]
  BY <1>13, <1>14 DEF Reached
<1> QED
  BY <1>1, <1>2, <1>8, <1>15 DEF CaddInv

LEMMA CaddPopEntry ==
  ASSUME DataInv, CostInv, CountInv, SumInv, CaddInv, PopEntry
  PROVE  CaddInv'
<1>1. PICK e \in queue :
           /\ \A f \in queue : e[1] <= f[1]
           /\ \/ /\ cost[e[2]] < e[1] /\ queue' = queue \ {e}
                 /\ UNCHANGED <<cost, supporters, value, groupCost, numOpenGoals, h>>
              \/ /\ ~(cost[e[2]] < e[1])
                 /\ h' = IF e[2] \in GoalConjunctions THEN h + cost[e[2]] ELSE h
                 /\ numOpenGoals' = IF e[2] \in GoalConjunctions THEN numOpenGoals - 1 ELSE numOpenGoals
                 /\ \/ numOpenGoals' = 0 /\ UNCHANGED <<cost, supporters, value, groupCost, queue>>
                    \/ numOpenGoals' # 0 /\ Trigger(e[2])
  BY PoppedEntry
<1>2. CASE cost[e[2]] < e[1] /\ queue' = queue \ {e} /\ UNCHANGED cost
  <2>1. Processed' = Processed
    BY <1>2, DropProcesses
  <2>2. UNCHANGED <<learned, groups, option, pc, state>> /\ pc = "search" /\ numOpenGoals > 0 /\ Additive
    BY DEF PopEntry
  <2>3. CaddWithin(learned, state)' = CaddWithin(learned, state)
    BY <2>2 DEF CaddWithin, CaddRound
  <2>4. \A c : (RoundsFor(c)' = RoundsFor(c)) /\ (Reached(c)' <=> Reached(c))
    BY <1>2, <2>1 DEF RoundsFor, Reached
  <2> QED
    BY <1>2, <2>2, <2>3, <2>4 DEF CaddInv
<1>3. CASE ~(numOpenGoals' > 0)
  BY <1>3 DEF CaddInv
<1>4. CASE ~(cost[e[2]] < e[1]) /\ Trigger(e[2]) /\ numOpenGoals' > 0
  BY <1>1, <1>4, CaddTrigger
<1>5. numOpenGoals' = 0 => ~(numOpenGoals' > 0)
  OBVIOUS
<1> QED
  BY <1>1, <1>2, <1>3, <1>4, <1>5

\* What the definition finds has been processed at no higher cost, or it waits for an entry
\* of the queue that costs no more.
LEMMA CaddIsReached ==
  ASSUME DataInv, CostInv, CountInv, SumInv, pc = "search", Additive, numOpenGoals > 0,
         NEW n \in 0 .. Cardinality(Known_),
         NEW c \in DOMAIN CaddWithin(learned, state)[n]
  PROVE  \/ c \in Processed /\ cost[c] <= CaddWithin(learned, state)[n][c]
         \/ \E e \in queue : e[1] <= CaddWithin(learned, state)[n][c]
<1> DEFINE V == CaddWithin(learned, state)
           k == Cardinality(Known_)
           Met(d, x) == (d \in Processed /\ cost[d] <= x) \/ \E e \in queue : e[1] <= x
           K == {i \in Nat : i \in 0 .. k => \A d \in DOMAIN V[i] : Met(d, V[i][d])}
<1>1. /\ DOMAIN cost = Known_ \cup {DummyPrecondition}
      /\ \A d \in DOMAIN cost : cost[d] \in Nat \cup {UNREACHED}
      /\ \A e \in queue : e[1] \in Nat
      /\ \A r \in DOMAIN groups : groupCost[r] \in Nat
  BY DEF CostInv
<1>2. /\ \A d \in DOMAIN cost : InitiallyTrue(d) => Reached(d) /\ cost[d] = 0
      /\ \A r \in DOMAIN groups :
           /\ groupCost[r] = SumFunctionOnSet(cost, groups[r].waitsFor \cap Processed)
           /\ groups[r].waitsFor \subseteq Processed => \A q \in groups[r].group :
                Reached(q[2]) /\ cost[q[2]] <= groupCost[r] + ActionCost[q[1]]
  BY DEF CountInv, SumInv
<1>3. \A d \in DOMAIN cost : Reached(d) => d \in Processed \/ <<cost[d], d>> \in queue
  BY DEF Processed, IsWaiting
<1>4. /\ k \in Nat /\ V[0] = [d \in {x \in Priced : x \subseteq state} |-> 0]
      /\ \A i \in 0 .. k : V[i] \in [DOMAIN V[i] -> Nat]
  BY CaddSteps
<1>5. \A i \in 0 .. k : \A d \in DOMAIN V[i] : V[i][d] \in Nat
  <2> HIDE DEF V, k
  <2> QED
    BY <1>4
\* A conjunction that costs at most x, reached, is met at x.
<1>6. ASSUME NEW d \in DOMAIN cost, Reached(d), NEW x \in Nat, cost[d] <= x PROVE Met(d, x)
  <2>1. CASE d \in Processed
    BY <1>6, <2>1
  <2>2. CASE <<cost[d], d>> \in queue
    <3>1. <<cost[d], d>>[1] = cost[d]
      OBVIOUS
    <3> QED
      BY <1>6, <2>2, <3>1
  <2> QED
    BY <1>3, <1>6, <2>1, <2>2
<1>7. 0 \in K
  <2> SUFFICES ASSUME NEW d \in DOMAIN V[0] PROVE Met(d, V[0][d])
    BY <1>4
  <2>1. d \in Priced /\ d \subseteq state /\ V[0][d] = 0
    BY <1>4
  <2>2. d \in DOMAIN cost /\ Reached(d) /\ cost[d] = 0
    BY <1>1, <1>2, <2>1 DEF Priced, InitiallyTrue
  <2> HIDE DEF Met, V
  <2> QED
    BY <1>6, <2>1, <2>2
<1>8. ASSUME NEW i \in K PROVE i + 1 \in K
  <2> SUFFICES ASSUME i + 1 \in 0 .. k, NEW d \in DOMAIN V[i + 1] PROVE Met(d, V[i + 1][d])
    OBVIOUS
  <2> DEFINE old == V[i]
             new == V[i + 1]
             Sum(r) == SumFunctionOnSet(old, groups[r].waitsFor)
  <2>1. i \in 0 .. k /\ i < k
    BY <1>4
  <2>2. /\ DOMAIN old \in SUBSET Priced
        /\ \A x \in DOMAIN old : old[x] \in Nat
        /\ \A x \in DOMAIN new : new[x] \in Nat
        /\ \A x \in DOMAIN new :
              \/ x \in DOMAIN old /\ new[x] = old[x]
              \/ \E r \in DOMAIN groups :
                   /\ groups[r].waitsFor \subseteq DOMAIN old
                   /\ \E q \in groups[r].group : q[2] = x /\ new[x] = ActionCost[q[1]] + Sum(r)
    BY <2>1, CaddFollows
  <2>3. \A x \in DOMAIN old : Met(x, old[x])
    BY <2>1
  <2> HIDE DEF V, old, new, Met, K
  <2>4. d \in DOMAIN new
    BY DEF new
  <2>5. CASE d \in DOMAIN old /\ new[d] = old[d]
    BY <2>3, <2>5 DEF new
  <2>6. ASSUME NEW r \in DOMAIN groups, groups[r].waitsFor \subseteq DOMAIN old,
               NEW q \in groups[r].group, q[2] = d, new[d] = ActionCost[q[1]] + Sum(r)
        PROVE  Met(d, new[d])
    <3> DEFINE waits == groups[r].waitsFor
    <3>1. IsFiniteSet(waits) /\ waits \subseteq DOMAIN cost /\ \A w \in waits : old[w] \in Nat
      BY <1>1, <2>2, <2>6, GoalsAreFinite
    <3>2. d \in DOMAIN cost /\ ActionCost[q[1]] \in Nat
      <4>1. q[2] \in Known_ /\ q[1] \in Regressions(q[2])
        BY GroupsOfConjunctions DEF DataInv, Known_
      <4>2. q[1] \in Actions
        BY <4>1, KnownConjunctions, RegressionFacts DEF DataInv, Known_
      <4> QED
        BY <1>1, <2>6, <4>1, <4>2, RegressionAssumption DEF RegressionAssumption
    <3> DEFINE sum == SumFunctionOnSet(old, waits)
    <3>3. sum \in Nat /\ \A w \in waits : old[w] <= sum
      <4> HIDE DEF waits
      <4>1. \A w \in waits : old[w] \in Nat /\ old[w] \in Nat /\ old[w] <= old[w]
        BY <3>1
      <4>2. \A w \in waits : old[w] <= sum
        BY <3>1, <4>1, SumGrows
      <4>3. sum \in Nat
        BY <3>1, SumProperties
      <4> QED
        BY <4>2, <4>3
    <3>4. new[d] = ActionCost[q[1]] + sum /\ new[d] \in Nat
      BY <2>2, <2>4, <2>6
    <3> HIDE DEF sum
    <3>5. CASE \E e \in queue : \E w \in waits : e[1] <= old[w]
      <4>1. PICK e \in queue : \E w \in waits : e[1] <= old[w]
        BY <3>5
      <4>2. PICK w \in waits : e[1] <= old[w]
        BY <4>1
      <4>3. e[1] <= new[d]
        <5> DEFINE x == e[1]
                   y == old[w]
                   a == ActionCost[q[1]]
                   z == new[d]
        <5>1. x \in Nat /\ y \in Nat /\ a \in Nat /\ sum \in Nat /\ x <= y /\ y <= sum /\ z = a + sum
          BY <1>1, <3>1, <3>2, <3>3, <3>4, <4>2
        <5> HIDE DEF x, y, a, z
        <5>2. x <= z
          BY <5>1
        <5> QED
          BY <5>2 DEF x, z
      <4> QED
        BY <4>3 DEF Met
    <3>6. CASE ~(\E e \in queue : \E w \in waits : e[1] <= old[w])
      <4>1. \A w \in waits : w \in Processed /\ cost[w] <= old[w]
        BY <2>3, <2>6, <3>6 DEF Met
      <4>2. \A w \in waits : cost[w] \in Nat
        BY <1>1, <3>1, <4>1 DEF Processed, Reached
      <4> DEFINE paid == SumFunctionOnSet(cost, waits)
      <4>3. paid <= sum /\ paid \in Nat
        <5> HIDE DEF waits
        <5>1. paid <= sum
          BY <3>1, <4>1, <4>2, SumGrows DEF sum
        <5>2. paid \in Nat
          BY <3>1, <4>2, SumProperties
        <5> QED
          BY <5>1, <5>2
      <4>4. Reached(d) /\ cost[d] <= paid + ActionCost[q[1]]
        <5>1. waits \cap Processed = waits /\ waits \subseteq Processed
          BY <4>1
        <5>2. groupCost[r] = paid
          BY <1>2, <5>1
        <5> HIDE DEF paid
        <5> QED
          BY <1>2, <2>6, <5>1, <5>2
      <4>5. cost[d] <= new[d]
        <5> DEFINE x == cost[d]
                   a == ActionCost[q[1]]
                   z == new[d]
        <5> HIDE DEF paid
        <5>1. x \in Nat /\ a \in Nat /\ paid \in Nat /\ sum \in Nat /\ x <= paid + a /\ paid <= sum /\ z = a + sum
          BY <1>1, <3>2, <3>3, <3>4, <4>3, <4>4 DEF Reached
        <5> HIDE DEF x, a, z
        <5>2. x <= z
          BY <5>1
        <5> QED
          BY <5>2 DEF x, z
      <4> QED
        BY <1>6, <3>2, <3>4, <4>4, <4>5
    <3> QED
      BY <3>5, <3>6
  <2>7. Met(d, new[d])
    BY <2>2, <2>4, <2>5, <2>6 DEF new
  <2> QED
    BY <2>7 DEF new
<1>9. K = Nat
  <2>1. K \in SUBSET Nat
    OBVIOUS
  <2> HIDE DEF K
  <2> QED
    BY <1>7, <1>8, <2>1, NatInductive
<1>10. n \in 0 .. k /\ n \in K
  BY <1>4, <1>9
<1>11. Met(c, V[n][c])
  BY <1>10
<1> QED
  BY <1>11 DEF V, Met

-----------------------------------------------------------------------------
(* The value of the last goal, and of none. *)

\* When the last goal leaves the queue every goal has the cost the definition finds.
LEMMA CaddLastGoal ==
  ASSUME DataInv, CostInv, CountInv, SumInv, CaddInv, PopEntry, numOpenGoals' = 0
  PROVE  h' = CaddOf(learned, state)
<1> DEFINE k == Cardinality(Known_)
           V == CaddWithin(learned, state)
           W == V[k]
<1>1. pc = "search" /\ numOpenGoals > 0 /\ Additive
  BY DEF PopEntry
<1>2. PICK e \in queue :
           /\ \A f \in queue : e[1] <= f[1]
           /\ ~(cost[e[2]] < e[1])
           /\ h' = IF e[2] \in GoalConjunctions THEN h + cost[e[2]] ELSE h
           /\ numOpenGoals' = IF e[2] \in GoalConjunctions THEN numOpenGoals - 1 ELSE numOpenGoals
  BY <1>1, PoppedEntry
<1> DEFINE g0 == e[2]
           done == GoalConjunctions \cap Processed
<1>3. /\ DOMAIN cost = Known_ \cup {DummyPrecondition}
      /\ \A c \in DOMAIN cost : cost[c] \in Nat \cup {UNREACHED}
      /\ \A f \in queue : f = <<f[1], f[2]>> /\ f[1] \in Nat /\ f[2] \in DOMAIN cost
  BY DEF CostInv
<1>4. /\ numOpenGoals = Cardinality(GoalConjunctions \ Processed)
      /\ \A f \in queue : Reached(f[2]) /\ cost[f[2]] <= f[1]
      /\ \A c \in Processed : \A f \in queue : cost[c] <= f[1]
  BY <1>1 DEF CountInv, OpenGoals
<1>5. cost[g0] = e[1] /\ cost[g0] \in Nat /\ g0 \in DOMAIN cost /\ Reached(g0)
  BY <1>2, <1>3, <1>4 DEF UNREACHED
<1>6. g0 \notin Processed
  BY <1>1, <1>3, <1>5 DEF Processed, IsWaiting
<1>7. IsFiniteSet(GoalConjunctions) /\ GoalConjunctions \subseteq Known_ /\ IsFiniteSet(done)
  BY GoalsAreFinite, FS_Intersection
<1>8. g0 \in GoalConjunctions /\ numOpenGoals = 1 /\ h' = h + cost[g0]
  <2>1. numOpenGoals \in Nat
    BY <1>4, <1>7, FS_Difference, FS_CardinalityType
  <2> QED
    BY <1>1, <1>2, <2>1
<1>9. GoalConjunctions \ Processed = {g0}
  <2>1. IsFiniteSet(GoalConjunctions \ Processed) /\ g0 \in GoalConjunctions \ Processed
    BY <1>6, <1>7, <1>8, FS_Difference
  <2>2. \E x : GoalConjunctions \ Processed = {x}
    BY <1>4, <1>8, <2>1, FS_Singleton
  <2> QED
    BY <2>1, <2>2
<1>10. GoalConjunctions = done \cup {g0} /\ g0 \notin done
  BY <1>6, <1>9
<1>11. k \in Nat /\ DOMAIN V = 0 .. k /\ k \in 0 .. k
  <2>1. k \in Nat /\ DOMAIN V = 0 .. k
    BY CaddSteps
  <2> HIDE DEF k, V
  <2> QED
    BY <2>1
\* What the definition finds in the end is no dearer, and no cheaper.
<1>12. ASSUME NEW g \in GoalConjunctions
       PROVE  g \in DOMAIN W /\ W[g] = cost[g] /\ cost[g] \in Nat
  <2>1. g \in DOMAIN cost /\ Reached(g) /\ cost[g] \in Nat
    BY <1>3, <1>5, <1>10, <1>12 DEF Processed, Reached
  <2>2. PICK n \in DOMAIN V : g \in DOMAIN V[n] /\ V[n][g] <= cost[g]
    BY <1>1, <2>1 DEF CaddInv
  <2>3. g \in DOMAIN W /\ W[g] \in Nat /\ W[g] <= V[n][g] /\ V[n][g] \in Nat
    <3>1. n \in 0 .. k /\ n \in Nat
      BY <1>11, <2>2
    <3>2. \A m \in 0 .. k : DOMAIN V[m] \subseteq DOMAIN W /\ \A c \in DOMAIN V[m] : W[c] \in Nat /\ W[c] <= V[m][c]
      BY <1>11, CaddFalls
    <3>3. n \in 0 .. n
      BY <3>1
    <3>4. V[n][g] \in Nat
      BY <2>2, <3>1, <3>3, CaddFalls
    <3> HIDE DEF V, W, k
    <3> QED
      BY <2>2, <3>1, <3>2, <3>4
  <2>4. \/ g \in Processed /\ cost[g] <= W[g]
        \/ \E f \in queue : f[1] <= W[g]
    BY <1>1, <1>11, <2>3, CaddIsReached
  <2>5. \A f \in queue : cost[g] <= f[1]
    <3>1. CASE g \in Processed
      BY <1>4, <3>1
    <3>2. CASE g = g0
      BY <1>2, <1>5, <3>2
    <3> QED
      BY <1>10, <1>12, <3>1, <3>2
  <2> DEFINE w == W[g]
             x == cost[g]
             y == V[n][g]
  <2>6. w \in Nat /\ x \in Nat /\ y \in Nat /\ w <= y /\ y <= x
    BY <2>1, <2>2, <2>3
  <2>7. x <= w \/ \E f \in queue : f[1] <= w /\ x <= f[1] /\ f[1] \in Nat
    BY <1>3, <2>4, <2>5
  <2> HIDE DEF w, x, y
  <2>8. w = x
    BY <2>6, <2>7
  <2> QED
    BY <2>1, <2>3, <2>8 DEF w, x
<1>13. GoalsOf(learned) = GoalConjunctions /\ Known(learned) = Known_
  BY DEF GoalsOf, GoalConjunctions, Known_
<1>14. CaddOf(learned, state) = SumFunctionOnSet(W, GoalConjunctions)
  <2>1. CaddOf(learned, state) = IF GoalConjunctions \subseteq DOMAIN W
                                 THEN SumFunctionOnSet(W, GoalConjunctions) ELSE DEAD_END
    BY <1>13 DEF CaddOf
  <2>2. GoalConjunctions \subseteq DOMAIN W
    BY <1>12
  <2> HIDE DEF W
  <2> QED
    BY <2>1, <2>2
<1> HIDE DEF W, V, k, done, g0
<1>15. SumFunctionOnSet(cost, GoalConjunctions) = SumFunctionOnSet(W, GoalConjunctions)
  BY <1>7, <1>12, SumsAreEqual
<1>16. SumFunctionOnSet(cost, done \cup {g0}) = SumFunctionOnSet(cost, done) + cost[g0]
  BY <1>7, <1>10, <1>12, SumAdds
<1>17. h = SumFunctionOnSet(cost, done)
  BY <1>1 DEF SumInv, done
<1> QED
  BY <1>8, <1>10, <1>14, <1>15, <1>16, <1>17

\* With an empty queue the definition does not find every goal either.
LEMMA CaddExhausted ==
  ASSUME DataInv, CostInv, CountInv, SumInv, pc = "search", Additive, numOpenGoals > 0, queue = {}
  PROVE  CaddOf(learned, state) = DEAD_END
<1> DEFINE k == Cardinality(Known_)
           W == CaddWithin(learned, state)[k]
<1>1. PICK g \in GoalConjunctions : ~Reached(g)
  BY ExhaustedIsClosed
<1>2. k \in 0 .. k
  <2>1. k \in Nat
    BY CaddSteps
  <2> HIDE DEF k
  <2> QED
    BY <2>1
<1>3. \A c \in DOMAIN W : Reached(c)
  BY <1>2, CaddIsReached DEF Processed
<1>4. GoalsOf(learned) = GoalConjunctions /\ Known(learned) = Known_
  BY DEF GoalsOf, GoalConjunctions, Known_
<1>5. ~(GoalsOf(learned) \subseteq DOMAIN W)
  BY <1>1, <1>3, <1>4
<1>6. CaddOf(learned, state) = IF GoalsOf(learned) \subseteq DOMAIN W
                               THEN SumFunctionOnSet(W, GoalsOf(learned)) ELSE DEAD_END
  BY <1>4 DEF CaddOf
<1> HIDE DEF W
<1> QED
  BY <1>5, <1>6

\* Nothing the definitions speak of changes.
LEMMA ExactSame ==
  ASSUME UNCHANGED <<learned, groups, option, state>>
  PROVE  /\ ExactValue' = ExactValue /\ (Additive' <=> Additive)
         /\ CaddWithin(learned, state)' = CaddWithin(learned, state)
         /\ CaddOf(learned, state)' = CaddOf(learned, state)
<1>1. CaddWithin(learned, state)' = CaddWithin(learned, state)
  BY DEF CaddWithin, CaddRound
<1>2. CaddOf(learned, state)' = CaddOf(learned, state)
  BY <1>1 DEF CaddOf
<1>3. CmaxOf(learned, state)' = CmaxOf(learned, state)
  BY DEF CmaxOf
<1>4. Additive' <=> Additive
  BY DEF Additive
<1> QED
  BY <1>1, <1>2, <1>3, <1>4 DEF ExactValue

\* There is a goal conjunction, for every fact of the goal.
LEMMA SomeGoalConjunction ==
  ASSUME DataInv
  PROVE  Cardinality(GoalConjunctions) \in Nat /\ Cardinality(GoalConjunctions) > 0
<1>1. PICK f \in GoalFacts : TRUE
  BY SupporterAssumption DEF SupporterAssumption
<1>2. {f} \in GoalConjunctions
  BY <1>1, RegressionAssumption DEF GoalConjunctions, Known, Singletons, RegressionAssumption
<1>3. IsFiniteSet(GoalConjunctions)
  BY GoalsAreFinite
<1> QED
  BY <1>2, <1>3, FS_EmptySet, FS_CardinalityType

LEMMA ExactEvaluate ==
  ASSUME DataInv, CostInv, NEW s \in EvaluatedStates, Evaluate(s)
  PROVE  ExactInv'
<1>1. /\ UNCHANGED <<learned, groups, option>> /\ state' = s /\ best' = NONE /\ pc' = "search" /\ h' = 0
      /\ Additive => numOpenGoals' = Cardinality(GoalConjunctions)
  <2>1. GoalConjunctions \ {} = GoalConjunctions
    OBVIOUS
  <2> QED
    BY <2>1, Zenon DEF Evaluate
<1>2. (Additive' <=> Additive) /\ CmaxOf(learned, state)' = CmaxOf(learned, s)
  BY <1>1 DEF Additive, CmaxOf
<1>3. ASSUME numOpenGoals' = 0 PROVE h' = ExactValue'
  <2>1. ~Additive
    BY <1>1, <1>3, SomeGoalConjunction
  <2> QED
    BY <1>2, <1>3, <2>1, CmaxEvaluate DEF ExactValue
<1> QED
  BY <1>1, <1>3 DEF ExactInv, BestSupporterFunctionIsExact

LEMMA ExactFinish ==
  ASSUME DataInv, CostInv, CountInv, SumInv, ExactInv, Finish
  PROVE  ExactInv'
<1>1. UNCHANGED <<learned, groups, option, state>> /\ pc = "search" /\ pc' # "search"
  BY DEF Finish, Return, StartExtraction
<1>2. CASE numOpenGoals = 0 /\ best' = h
  BY <1>1, <1>2, ExactSame DEF ExactInv, BestSupporterFunctionIsExact
<1>3. CASE numOpenGoals > 0 /\ queue = {} /\ best' = DEAD_END
  <2>1. ExactValue = DEAD_END
    BY <1>1, <1>3, CmaxExhausted, CaddExhausted DEF ExactValue
  <2> QED
    BY <1>1, <1>3, <2>1, ExactSame DEF ExactInv, BestSupporterFunctionIsExact
<1> QED
  BY <1>2, <1>3 DEF Finish, Return

\* The value of an evaluation under way, one step at a time.
LEMMA ExactNext ==
  /\ DataInv /\ CostInv /\ CountInv /\ CmaxInv /\ SumInv /\ CaddInv /\ ExactInv /\ [Next]_vars
  => CmaxInv' /\ SumInv' /\ CaddInv' /\ ExactInv'
<1> SUFFICES ASSUME DataInv, CostInv, CountInv, CmaxInv, SumInv, CaddInv, ExactInv, [Next]_vars
             PROVE  CmaxInv' /\ SumInv' /\ CaddInv' /\ ExactInv'
  OBVIOUS
<1>1. CASE UNCHANGED vars
  <2>1. /\ UNCHANGED <<learned, groups, option, pc, state, cost, value, groupCost, queue, numOpenGoals, h, best>>
        /\ CaddWithin(learned, state)' = CaddWithin(learned, state)
    BY <1>1, ExactSame DEF vars, searchVars
  <2>2. UNCHANGED <<Known_, GoalConjunctions, Processed>> /\ (Additive' <=> Additive)
    BY <2>1 DEF Known_, GoalConjunctions, Processed, IsWaiting, Additive, Reached
  <2>3. /\ \A c : (Reached(c)' <=> Reached(c)) /\ (InitiallyTrue(c)' <=> InitiallyTrue(c))
        /\ \A c : RoundsFor(c)' = RoundsFor(c)
    BY <2>1, <2>2 DEF Reached, InitiallyTrue, RoundsFor
  <2>4. CmaxInv'
    BY <2>1, <2>2, <2>3 DEF CmaxInv
  <2>5. SumInv'
    BY <2>1, <2>2, <2>3 DEF SumInv
  <2>6. CaddInv'
    BY <2>1, <2>2, <2>3 DEF CaddInv
  <2>7. ExactInv'
    BY <2>1, ExactSame DEF ExactInv, BestSupporterFunctionIsExact
  <2> QED
    BY <2>4, <2>5, <2>6, <2>7
<1>2. CASE Relearn
  <2>1. pc' # "search" /\ best' = NONE
    BY <1>2 DEF Relearn
  <2> QED
    BY <2>1 DEF CmaxInv, SumInv, CaddInv, ExactInv, BestSupporterFunctionIsExact
<1>3. ASSUME NEW s \in EvaluatedStates, Evaluate(s) PROVE CmaxInv' /\ SumInv' /\ CaddInv' /\ ExactInv'
  BY <1>3, CmaxEvaluate, CaddEvaluate, ExactEvaluate
<1>4. CASE Finish
  <2>1. pc' # "search"
    BY <1>4 DEF Finish, Return, StartExtraction
  <2> QED
    BY <1>4, <2>1, ExactFinish DEF CmaxInv, SumInv, CaddInv
<1>5. CASE PopEntry
  <2>1. UNCHANGED <<learned, groups, option, state, best, pc>> /\ Additive /\ pc = "search"
    BY <1>5 DEF PopEntry
  <2>2. Additive' /\ ExactValue' = ExactValue
    BY <2>1, ExactSame
  <2>3. numOpenGoals' = 0 => h' = ExactValue
    BY <1>5, <2>1, CaddLastGoal DEF ExactValue
  <2>4. ExactInv'
    BY <2>1, <2>2, <2>3 DEF ExactInv, BestSupporterFunctionIsExact
  <2> QED
    BY <1>5, <2>2, <2>4, SumPopEntry, CaddPopEntry DEF CmaxInv
<1>6. CASE NextLayer
  <2>1. UNCHANGED <<learned, groups, option, state, best, pc>> /\ ~Additive /\ pc = "search"
    BY <1>6 DEF NextLayer
  <2>2. ~(Additive') /\ ExactValue' = ExactValue
    BY <2>1, ExactSame
  <2>3. numOpenGoals' = 0 => h' = ExactValue
    BY <1>6, <2>1, CmaxNextLayer DEF ExactValue
  <2>4. ExactInv'
    BY <2>1, <2>2, <2>3 DEF ExactInv, BestSupporterFunctionIsExact
  <2> QED
    BY <1>6, <2>2, <2>4, CmaxNextLayer DEF SumInv, CaddInv
<1>7. CASE AddNode
  <2>1. UNCHANGED <<learned, groups, option, state, best>> /\ pc' # "search"
    BY <1>7 DEF AddNode
  <2> QED
    BY <2>1, ExactSame DEF CmaxInv, SumInv, CaddInv, ExactInv, BestSupporterFunctionIsExact
<1> QED
  BY <1>1, <1>2, <1>3, <1>4, <1>5, <1>6, <1>7 DEF Next, Search

\* Property BestSupporterFunctionIsExact: the queue counts the goals in at the least costs
\* that value iteration over the counters finds, the layers stop at the first round of the
\* fixpoint over every supporting action that holds the goals, and both find a dead end
\* exactly where the definitions do.
THEOREM BestSupportersAreExact == Spec => []BestSupporterFunctionIsExact
<1>1. Init => CmaxInv /\ SumInv /\ CaddInv /\ ExactInv
  BY DEF Init, CmaxInv, SumInv, CaddInv, ExactInv, BestSupporterFunctionIsExact
<1>2. ExactInv => BestSupporterFunctionIsExact
  BY DEF ExactInv
<1> QED
  BY <1>1, <1>2, ExactNext, DataAlways, CountAlways, PTL DEF Spec

=============================================================================
