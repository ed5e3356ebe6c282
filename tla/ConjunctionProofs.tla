------------------------- MODULE ConjunctionProofs -------------------------
(***************************************************************************)
(* The rules by which the conjunctions heuristic adjusts what a counter    *)
(* group waits for, when one conjunction comes or goes, give what          *)
(* get_non_dominated_conjunctions would recompute: for every set of facts, *)
(* every set of conjunctions and every regression.                         *)
(***************************************************************************)
EXTENDS ConjunctionInvariants, SetLemmas

-----------------------------------------------------------------------------
(* What the functions on facts and action instances return. *)

\* Every conjunction within a fact set is part of one that no other dominates.
LEMMA NonDominatedAbove ==
  ASSUME NEW C \in SUBSET SUBSET Facts, NEW F, NEW c \in C, c \subseteq F
  PROVE  \E d \in NonDominatedWithin(F, C) : c \subseteq d
<1> DEFINE Above == {d \in C : d \subseteq F /\ c \subseteq d}
           LeftOut == {Facts \ d : d \in Above}
<1>1. LeftOut \subseteq SUBSET Facts /\ Facts \ c \in LeftOut
  OBVIOUS
<1>2. PICK least \in LeftOut : \A x \in LeftOut : x \subseteq least => x = least
  <2> HIDE DEF LeftOut
  <2>1. IsFiniteSet(Facts)
    BY RegressionAssumption DEF RegressionAssumption
  <2> QED
    BY <1>1, <2>1, SmallestSet
<1>3. PICK d \in Above : least = Facts \ d
  OBVIOUS
<1>4. ASSUME NEW e \in C, e \subseteq F, d \subseteq e
      PROVE  d = e
  <2>1. Facts \ e \in LeftOut
    BY <1>4
  <2>2. Facts \ e = Facts \ d
    BY <1>2, <1>3, <1>4, <2>1
  <2> QED
    BY <1>4, <2>2
<1> QED
  BY <1>3, <1>4 DEF NonDominatedWithin, NonDominated

-----------------------------------------------------------------------------
\* Of the supporting actions with ids below n those to which no other one is preferred:
\* one that needs no more and costs no more, the earlier one if they need the same.
SimplestBelow(facts, n) ==
  {a \in SupportingActions(facts) :
     /\ a < n
     /\ \A b \in SupportingActions(facts) :
          b < n /\ IsSimpler(b, a, facts) => Regression(b, facts) = Regression(a, facts) /\ b >= a}

\* compute_regressions goes through the actions once, in the order of their ids.
LEMMA RegressionsByAction ==
  ASSUME NEW facts
  PROVE  \E kept \in [Nat -> SUBSET Actions] :
           /\ kept[0] = {}
           /\ \A n \in Nat : kept[n + 1] = IF n \in SupportingActions(facts)
                                           THEN KeepSimplest(kept[n], n, facts) ELSE kept[n]
           /\ ComputeRegressions(facts) = kept[Max({0} \cup Actions) + 1]
<1> DEFINE Step(K, n) == IF n \in SupportingActions(facts) THEN KeepSimplest(K, n, facts) ELSE K
           Body(f, n) == IF n = 0 THEN {}
                         ELSE IF n - 1 \in SupportingActions(facts)
                         THEN KeepSimplest(f[n - 1], n - 1, facts) ELSE f[n - 1]
           G == [n \in Nat |-> [K \in SUBSET Actions |-> Step(K, n)]]
           g == CHOOSE f : f = [n \in Nat |-> Body(f, n)]
<1>1. \A n \in Nat : \A K \in SUBSET Actions : Step(K, n) \in SUBSET Actions
  BY DEF KeepSimplest, SupportingActions
<1>2. PICK f \in [Nat -> SUBSET Actions] : Iterates(f, {}, G)
  <2>1. G \in [Nat -> [SUBSET Actions -> SUBSET Actions]]
    <3> HIDE DEF Step
    <3> QED
      BY <1>1
  <2> DEFINE X == SUBSET Actions
  <2>2. {} \in X /\ G \in [Nat -> [X -> X]]
    BY <2>1
  <2> HIDE DEF G, X
  <2>3. \E f \in [Nat -> X] : Iterates(f, {}, G)
    BY <2>2, NatRecursive
  <2> QED
    BY <2>3 DEF X
<1>3. f[0] = {} /\ \A n \in Nat : f[n + 1] = Step(f[n], n)
  <2> HIDE DEF Step
  <2> QED
    BY <1>2 DEF Iterates
<1>4. f = [n \in Nat |-> Body(f, n)]
  <2>1. ASSUME NEW n \in Nat PROVE f[n] = Body(f, n)
    <3>1. CASE n = 0
      BY <1>3, <3>1
    <3>2. CASE n # 0
      <4>1. n - 1 \in Nat /\ f[(n - 1) + 1] = Step(f[n - 1], n - 1) /\ (n - 1) + 1 = n
        <5> HIDE DEF Step
        <5> QED
          BY <1>3, <3>2
      <4> QED
        BY <3>2, <4>1
    <3> QED
      BY <3>1, <3>2
  <2> HIDE DEF Body
  <2> QED
    BY <2>1
<1>5. g = [n \in Nat |-> Body(g, n)]
  <2> HIDE DEF Body
  <2> QED
    BY <1>4
<1>6. ComputeRegressions(facts) = g[Max({0} \cup Actions) + 1]
  BY DEF ComputeRegressions
<1> DEFINE S == {n \in Nat : g[n] \in SUBSET Actions}
<1> HIDE DEF g
<1>7. g[0] = {} /\ \A n \in Nat : g[n + 1] = Step(g[n], n)
  <2>1. g[0] = Body(g, 0)
    <3> HIDE DEF Body
    <3> QED
      BY <1>5
  <2>2. ASSUME NEW n \in Nat PROVE g[n + 1] = Step(g[n], n)
    <3>1. g[n + 1] = Body(g, n + 1)
      <4> HIDE DEF Body
      <4> QED
        BY <1>5
    <3>2. (n + 1) - 1 = n /\ n + 1 # 0
      OBVIOUS
    <3> QED
      BY <3>1, <3>2
  <2> QED
    BY <2>1, <2>2
<1>8. S = Nat
  <2>1. S \in SUBSET Nat /\ 0 \in S /\ \A n \in S : n + 1 \in S
    <3> HIDE DEF Step
    <3> QED
      BY <1>1, <1>7
  <2> HIDE DEF S
  <2> QED
    BY <2>1, NatInductive
<1>9. g \in [Nat -> SUBSET Actions]
  <2> HIDE DEF Body
  <2> QED
    BY <1>5, <1>8
<1> QED
  BY <1>6, <1>7, <1>9

\* What compute_regressions has kept of the actions with ids below n: those no other
\* one of them is preferred to; and each has one that is as simple.
LEMMA KeptAreSimplest ==
  ASSUME NEW facts \in SUBSET Facts, NEW kept \in [Nat -> SUBSET Actions],
         kept[0] = {},
         \A n \in Nat : kept[n + 1] = IF n \in SupportingActions(facts)
                                      THEN KeepSimplest(kept[n], n, facts) ELSE kept[n],
         NEW n \in Nat
  PROVE  /\ kept[n] = SimplestBelow(facts, n)
         /\ \A b \in SupportingActions(facts) : b < n =>
              \E a \in kept[n] : IsSimpler(a, b, facts)
<1> DEFINE Supporting == SupportingActions(facts)
           Good(m) == /\ kept[m] = SimplestBelow(facts, m)
                      /\ \A b \in Supporting : b < m => \E a \in kept[m] : IsSimpler(a, b, facts)
           S == {m \in Nat : Good(m)}
<1>1. /\ \A a \in Actions : a \in Nat
      /\ \A a \in Supporting : a \in Actions /\ a \in Nat
      /\ ActionCost \in [Actions -> Nat]
  BY RegressionAssumption DEF RegressionAssumption, SupportingActions
<1>2. ASSUME NEW a \in Actions, NEW b \in Actions, NEW c \in Actions,
             IsSimpler(a, b, facts), IsSimpler(b, c, facts)
      PROVE  IsSimpler(a, c, facts)
  BY <1>1, <1>2 DEF IsSimpler
<1>3. \A a \in Actions : IsSimpler(a, a, facts)
  BY <1>1 DEF IsSimpler
<1>4. Good(0)
  BY <1>1 DEF SimplestBelow
<1>5. ASSUME NEW m \in Nat, Good(m), m \notin Supporting PROVE Good(m + 1)
  <2>1. kept[m + 1] = kept[m] /\ \A b \in Supporting : b < m + 1 <=> b < m
    BY <1>1, <1>5
  <2> QED
    BY <1>5, <2>1 DEF SimplestBelow
<1>6. ASSUME NEW m \in Nat, Good(m), m \in Supporting, \E b \in kept[m] : IsSimpler(b, m, facts)
      PROVE  Good(m + 1)
  <2>1. PICK b \in kept[m] : IsSimpler(b, m, facts)
    BY <1>6
  <2>2. kept[m + 1] = kept[m]
    BY <1>6 DEF KeepSimplest
  <2>3. b \in Supporting /\ b < m /\ m \in Actions
    BY <1>1, <1>6 DEF SimplestBelow
  <2>4. ASSUME NEW a \in SimplestBelow(facts, m + 1) PROVE a \in SimplestBelow(facts, m)
    <3>1. a # m
      BY <1>1, <2>1, <2>3, <2>4 DEF SimplestBelow
    <3> QED
      BY <1>1, <2>4, <3>1 DEF SimplestBelow
  <2>5. ASSUME NEW a \in SimplestBelow(facts, m) PROVE a \in SimplestBelow(facts, m + 1)
    <3>1. a \in Supporting /\ a < m
      BY DEF SimplestBelow
    <3>2. ASSUME IsSimpler(m, a, facts) PROVE Regression(m, facts) = Regression(a, facts)
      <4>1. IsSimpler(b, a, facts)
        BY <1>1, <1>2, <2>1, <2>3, <3>1, <3>2
      <4>2. Regression(b, facts) = Regression(a, facts)
        BY <2>3, <4>1 DEF SimplestBelow
      <4> QED
        BY <2>1, <3>2, <4>2 DEF IsSimpler
    <3>3. m >= a /\ a < m + 1
      BY <1>1, <3>1
    <3>4. \A d \in Supporting : d < m + 1 => d < m \/ d = m
      BY <1>1
    <3> QED
      BY <3>1, <3>2, <3>3, <3>4 DEF SimplestBelow
  <2>6. kept[m + 1] = SimplestBelow(facts, m + 1)
    BY <1>6, <2>2, <2>4, <2>5
  <2>7. \A d \in Supporting : d < m + 1 => d < m \/ d = m
    BY <1>1
  <2> QED
    BY <1>6, <2>1, <2>2, <2>6, <2>7
<1>7. ASSUME NEW m \in Nat, Good(m), m \in Supporting, ~\E b \in kept[m] : IsSimpler(b, m, facts)
      PROVE  Good(m + 1)
  <2>1. kept[m + 1] = {b \in kept[m] : Regression(b, facts) = Regression(m, facts)
                                         \/ ~IsSimpler(m, b, facts)} \cup {m}
    BY <1>7 DEF KeepSimplest
  <2>2. \A b \in Supporting : b < m => ~IsSimpler(b, m, facts)
    <3> SUFFICES ASSUME NEW b \in Supporting, b < m, IsSimpler(b, m, facts) PROVE FALSE
      OBVIOUS
    <3>1. PICK a \in kept[m] : IsSimpler(a, b, facts)
      BY <1>7
    <3>2. a \in Actions /\ b \in Actions /\ m \in Actions
      BY <1>1, <1>7, <3>1
    <3> QED
      BY <1>2, <1>7, <3>1, <3>2
  <2>3. \A d \in Supporting : d < m + 1 <=> d < m \/ d = m
    BY <1>1
  <2>4. \A d \in Supporting : d < m => m >= d
    BY <1>1
  <2>5. m >= m /\ m < m + 1 /\ m \in Actions
    BY <1>1, <1>7
  <2>6. m \in SimplestBelow(facts, m + 1)
    BY <1>7, <2>2, <2>3, <2>5 DEF SimplestBelow
  <2>7. ASSUME NEW b \in kept[m],
               Regression(b, facts) = Regression(m, facts) \/ ~IsSimpler(m, b, facts)
        PROVE  b \in SimplestBelow(facts, m + 1)
    <3>1. b \in SimplestBelow(facts, m)
      BY <1>7
    <3> QED
      BY <2>3, <2>4, <2>7, <3>1 DEF SimplestBelow
  <2>8. ASSUME NEW b \in SimplestBelow(facts, m + 1), b # m
        PROVE  b \in kept[m] /\ (Regression(b, facts) = Regression(m, facts)
                                   \/ ~IsSimpler(m, b, facts))
    <3>1. b \in SimplestBelow(facts, m)
      BY <2>3, <2>8 DEF SimplestBelow
    <3>2. IsSimpler(m, b, facts) => Regression(m, facts) = Regression(b, facts)
      BY <1>7, <2>5, <2>8 DEF SimplestBelow
    <3> QED
      BY <1>7, <3>1, <3>2
  <2>9. kept[m + 1] = SimplestBelow(facts, m + 1)
    BY <2>1, <2>6, <2>7, <2>8
  <2>10. ASSUME NEW b \in Supporting, b < m + 1
         PROVE  \E a \in kept[m + 1] : IsSimpler(a, b, facts)
    <3>1. CASE b = m
      BY <1>3, <2>1, <2>5, <3>1
    <3>2. CASE b # m
      <4>1. PICK a \in kept[m] : IsSimpler(a, b, facts)
        BY <1>7, <2>3, <2>10, <3>2
      <4>2. CASE a \in kept[m + 1]
        BY <4>1, <4>2
      <4>3. CASE a \notin kept[m + 1]
        <5>1. IsSimpler(m, a, facts) /\ m \in kept[m + 1]
          BY <2>1, <4>3
        <5>2. a \in Actions /\ b \in Actions
          BY <1>1, <4>1
        <5> QED
          BY <1>2, <2>5, <4>1, <5>1, <5>2
      <4> QED
        BY <4>2, <4>3
    <3> QED
      BY <3>1, <3>2
  <2> QED
    BY <2>9, <2>10
<1>8. S = Nat
  <2> HIDE DEF Good, Supporting
  <2>1. S \in SUBSET Nat /\ 0 \in S /\ \A m \in S : m + 1 \in S
    BY <1>4, <1>5, <1>6, <1>7
  <2> HIDE DEF S
  <2> QED
    BY <2>1, NatInductive
<1> QED
  BY <1>8

\* compute_regressions keeps exactly the supporting actions to which no other one is
\* preferred, whatever the order it meets them in, and one for each that it drops.
THEOREM RegressionsAreSimplest ==
  ASSUME NEW facts \in SUBSET Facts
  PROVE  /\ ComputeRegressions(facts) = SimplestBelow(facts, Max({0} \cup Actions) + 1)
         /\ \A b \in SupportingActions(facts) :
              /\ b < Max({0} \cup Actions) + 1
              /\ \E a \in ComputeRegressions(facts) : IsSimpler(a, b, facts)
<1>1. PICK kept \in [Nat -> SUBSET Actions] :
           /\ kept[0] = {}
           /\ \A n \in Nat : kept[n + 1] = IF n \in SupportingActions(facts)
                                           THEN KeepSimplest(kept[n], n, facts) ELSE kept[n]
           /\ ComputeRegressions(facts) = kept[Max({0} \cup Actions) + 1]
  BY RegressionsByAction
<1> DEFINE Ids == {0} \cup Actions
<1>2. Ids \in SUBSET Nat /\ IsFiniteSet(Ids) /\ Ids # {}
  <2>1. IsFiniteSet(Actions) /\ IsFiniteSet({0})
    BY RegressionAssumption, FS_Singleton DEF RegressionAssumption
  <2>2. IsFiniteSet({0} \cup Actions)
    BY <2>1, FS_Union
  <2> QED
    BY <2>2, RegressionAssumption DEF RegressionAssumption
<1>3. Max(Ids) \in Ids /\ \A a \in Ids : a <= Max(Ids)
  <2> HIDE DEF Ids
  <2>1. PICK k \in Nat : \A a \in Ids : a <= k
    BY <1>2, FiniteIsBounded
  <2>2. PICK n \in Ids : \A a \in Ids : a <= n
    BY <1>2, <2>1, GreatestNat
  <2>3. \E m \in Ids : \A a \in Ids : m >= a
    BY <1>2, <2>2
  <2> QED
    BY <1>2, <2>3 DEF Max
<1>4. Max(Ids) + 1 \in Nat /\ \A b \in SupportingActions(facts) : b < Max(Ids) + 1
  <2>1. \A b \in SupportingActions(facts) : b \in Ids
    BY DEF SupportingActions
  <2>2. \A b \in Ids : b \in Nat
    BY <1>2
  <2> HIDE DEF Ids
  <2> QED
    BY <2>2, <1>3, <2>1
<1> QED
  BY <1>1, <1>4, KeptAreSimplest

-----------------------------------------------------------------------------
\* One conjunction comes (add_conjunctions with a single fact set): adjusting what
\* a group waits for gives what recomputing it from all conjunctions would.
THEOREM WithConjunctionIsRecomputed ==
  ASSUME NEW C \in SUBSET SUBSET Facts, NEW F, NEW c \in SUBSET Facts,
         c \notin C, c \subseteq F
  PROVE  WithConjunction(NonDominatedWithin(F, C), c) = NonDominatedWithin(F, C \cup {c})
<1> DEFINE W == NonDominatedWithin(F, C)
<1>1. CASE \E d \in W : c \subseteq d
  <2>1. PICK d \in W : c \subseteq d
    BY <1>1
  <2>2. d \in C /\ d \subseteq F /\ d # c
    BY DEF NonDominatedWithin, NonDominated
  <2>3. c \notin NonDominatedWithin(F, C \cup {c})
    BY <2>1, <2>2 DEF NonDominatedWithin, NonDominated
  <2>4. ASSUME NEW e \in W
        PROVE  e \in NonDominatedWithin(F, C \cup {c})
    <3>1. e \in C /\ e \subseteq F /\ \A f \in C : f \subseteq F /\ e \subseteq f => e = f
      BY DEF NonDominatedWithin, NonDominated
    <3>2. ~(e \subseteq c)
      <4>1. SUFFICES ASSUME e \subseteq c PROVE FALSE
        OBVIOUS
      <4>2. e = d
        BY <2>1, <2>2, <3>1, <4>1
      <4>3. c = d
        BY <2>1, <4>1, <4>2
      <4> QED
        BY <2>2, <4>3
    <3> QED
      BY <3>1, <3>2 DEF NonDominatedWithin, NonDominated
  <2>5. ASSUME NEW e \in NonDominatedWithin(F, C \cup {c})
        PROVE  e \in W
    BY <2>3, <2>5 DEF NonDominatedWithin, NonDominated
  <2>6. W = NonDominatedWithin(F, C \cup {c})
    BY <2>4, <2>5
  <2> QED
    BY <1>1, <2>6 DEF WithConjunction
<1>2. CASE ~\E d \in W : c \subseteq d
  <2>1. \A e \in C : e \subseteq F => ~(c \subseteq e)
    <3> SUFFICES ASSUME NEW e \in C, e \subseteq F, c \subseteq e PROVE FALSE
      OBVIOUS
    <3>1. PICK d \in W : e \subseteq d
      BY NonDominatedAbove
    <3> QED
      BY <1>2, <3>1
  <2>2. {d \in W : ~(d \subseteq c)} \cup {c} = NonDominatedWithin(F, C \cup {c})
    BY <2>1 DEF NonDominatedWithin, NonDominated
  <2> QED
    BY <1>2, <2>2 DEF WithConjunction
<1> QED
  BY <1>1, <1>2

\* One conjunction goes (remove_conjunction): putting its largest parts in its
\* place gives what recomputing from the remaining conjunctions would.
THEOREM WithoutConjunctionIsRecomputed ==
  ASSUME NEW C \in SUBSET SUBSET Facts, NEW F, NEW c \in C,
         c \in NonDominatedWithin(F, C)
  PROVE  WithoutConjunction(NonDominatedWithin(F, C), c, C \ {c})
           = NonDominatedWithin(F, C \ {c})
<1> DEFINE W == NonDominatedWithin(F, C)
           P == NonDominatedWithin(c, C \ {c})
           N == NonDominatedWithin(F, C \ {c})
<1>0. c \subseteq F /\ \A e \in C : e \subseteq F /\ c \subseteq e => c = e
  BY DEF NonDominatedWithin, NonDominated
<1>1. ASSUME NEW e \in W \ {c} PROVE e \in N
  BY DEF NonDominatedWithin, NonDominated
<1>2. ASSUME NEW p \in P, ~\E d \in W \ {c} : p # d /\ p \subseteq d
      PROVE  p \in N
  <2>1. p \in C \ {c} /\ p \subseteq c /\ p \subseteq F
    BY <1>0 DEF NonDominatedWithin, NonDominated
  <2>2. ASSUME NEW e \in C \ {c}, e \subseteq F, p \subseteq e
        PROVE  p = e
    <3>1. PICK d \in W : e \subseteq d
      BY <2>2, NonDominatedAbove
    <3>2. CASE d = c
      BY <2>1, <2>2, <3>1, <3>2 DEF NonDominatedWithin, NonDominated
    <3>3. CASE d # c
      BY <1>2, <2>2, <3>1, <3>3
    <3> QED
      BY <3>2, <3>3
  <2> QED
    BY <2>1, <2>2 DEF NonDominatedWithin, NonDominated
<1>3. ASSUME NEW e \in N, e \notin W
      PROVE  e \in P /\ ~\E d \in W \ {c} : e # d /\ e \subseteq d
  <2>1. e \in C \ {c} /\ e \subseteq F
        /\ \A f \in C \ {c} : f \subseteq F /\ e \subseteq f => e = f
    BY DEF NonDominatedWithin, NonDominated
  <2>2. e \subseteq c
    BY <1>3, <2>1 DEF NonDominatedWithin, NonDominated
  <2>3. e \in P
    BY <1>0, <2>1, <2>2 DEF NonDominatedWithin, NonDominated
  <2>4. \A d \in W \ {c} : e \subseteq d => e = d
    BY <2>1 DEF NonDominatedWithin, NonDominated
  <2> QED
    BY <2>3, <2>4
<1>4. N \subseteq (W \ {c}) \cup {p \in P : ~\E d \in W \ {c} : p # d /\ p \subseteq d}
  <2> SUFFICES ASSUME NEW e \in N, e \notin W \ {c}
               PROVE  e \in P /\ ~\E d \in W \ {c} : e # d /\ e \subseteq d
    OBVIOUS
  <2>1. e # c
    BY DEF NonDominatedWithin, NonDominated
  <2> QED
    BY <1>3, <2>1
<1>5. (W \ {c}) \cup {p \in P : ~\E d \in W \ {c} : p # d /\ p \subseteq d} \subseteq N
  BY <1>1, <1>2
<1>6. (W \ {c}) \cup {p \in P : ~\E d \in W \ {c} : p # d /\ p \subseteq d} = N
  BY <1>4, <1>5
<1> QED
  BY <1>6 DEF WithoutConjunction, Replacements

-----------------------------------------------------------------------------
\* There are finitely many conjunctions and counters.
LEMMA FinitelyMany ==
  /\ Singletons \cup Learnable \subseteq SUBSET Facts
  /\ \A C \in SUBSET (Singletons \cup Learnable) :
       IsFiniteSet(C) /\ IsFiniteSet(CountersOf(C))
<1>1. Singletons \cup Learnable \subseteq SUBSET Facts
  BY LearnableAssumption DEF LearnableAssumption, Singletons
<1>2. IsFiniteSet(SUBSET Facts) /\ IsFiniteSet(Actions)
  BY RegressionAssumption, FS_SUBSET DEF RegressionAssumption
<1>3. ASSUME NEW C \in SUBSET (Singletons \cup Learnable)
      PROVE  IsFiniteSet(C) /\ IsFiniteSet(CountersOf(C))
  <2>1. C \in SUBSET SUBSET Facts
    BY <1>1
  <2>2. IsFiniteSet(C)
    BY <1>2, <2>1, FS_Subset
  <2>3. IsFiniteSet(Actions \X C)
    BY <1>2, <2>2, FS_Product
  <2>4. CountersOf(C) \in SUBSET (Actions \X C)
    BY DEF CountersOf
  <2> QED
    BY <2>2, <2>3, <2>4, FS_Subset
<1> QED
  BY <1>1, <1>3

\* The counters of a set of conjunctions are those of its members.
LEMMA CountersByConjunction ==
  /\ \A c \in Singletons \cup Learnable :
       CounterActions(c) \subseteq SupportingActions(c) /\ CounterActions(c) \subseteq Actions
  /\ \A C \in SUBSET (Singletons \cup Learnable) : \A a, c :
       <<a, c>> \in CountersOf(C) <=> c \in C /\ a \in CounterActions(c)
  /\ \A C \in SUBSET (Singletons \cup Learnable) : \A k \in CountersOf(C) : k = <<k[1], k[2]>>
<1>1. ASSUME NEW c \in Singletons \cup Learnable
      PROVE  CounterActions(c) \subseteq SupportingActions(c) /\ CounterActions(c) \subseteq Actions
  <2>1. Regressions[c] = ComputeRegressions(c)
    BY DEF Regressions
  <2>2. c \in SUBSET Facts
    BY FinitelyMany
  <2>3. ComputeRegressions(c) \subseteq SupportingActions(c)
    BY <2>2, RegressionsAreSimplest DEF SimplestBelow
  <2> QED
    BY <2>1, <2>3 DEF CounterActions, SupportingActions
<1>2. ASSUME NEW C \in SUBSET (Singletons \cup Learnable), NEW a, NEW c
      PROVE  <<a, c>> \in CountersOf(C) <=> c \in C /\ a \in CounterActions(c)
  <2>1. <<a, c>> \in CountersOf(C) <=> a \in Actions /\ c \in C /\ ~ContainsMutex(c)
                                         /\ a \in Regressions[c]
    BY DEF CountersOf
  <2> QED
    BY <1>1, <2>1 DEF CounterActions
<1>3. ASSUME NEW C \in SUBSET (Singletons \cup Learnable), NEW k \in CountersOf(C)
      PROVE  k = <<k[1], k[2]>>
  <2>1. k \in Actions \X C
    BY DEF CountersOf
  <2> QED
    BY <2>1
<1> QED
  BY <1>1, <1>2, <1>3

\* A conjunction has more than one fact if it was learned and one if it was not.
LEMMA ConjunctionSizes ==
  /\ \A c \in Singletons : Cardinality(c) = 1
  /\ \A c \in Learnable : Cardinality(c) > 1 /\ c \notin Singletons
  /\ \A c \in Singletons \cup Learnable : c # {}
  /\ {} \notin Singletons \cup Learnable
<1>1. \A c \in Singletons : Cardinality(c) = 1
  BY FS_Singleton DEF Singletons
<1>2. \A c \in Learnable : Cardinality(c) > 1
  BY LearnableAssumption DEF LearnableAssumption
<1>3. Cardinality({}) = 0
  BY FS_EmptySet
<1>4. \A c \in Learnable : c \notin Singletons
  BY <1>1, <1>2
<1>5. \A c \in Singletons \cup Learnable : c # {}
  BY <1>1, <1>2, <1>3
<1> QED
  BY <1>1, <1>2, <1>4, <1>5

\* A regression is a set of facts.
LEMMA RegressionType ==
  ASSUME NEW c \in Singletons \cup Learnable, NEW a \in CounterActions(c)
  PROVE  a \in Actions /\ Regression(a, c) \in SUBSET Facts
<1>1. c \in SUBSET Facts /\ a \in Actions
  BY FinitelyMany, CountersByConjunction
<1> QED
  BY <1>1, RegressionAssumption DEF RegressionAssumption, Regression

\* An action that supports a conjunction and requires nothing supports its facts.
LEMMA EmptyRegression ==
  ASSUME NEW c \in Singletons \cup Learnable, NEW a \in CounterActions(c), Regression(a, c) = {}
  PROVE  {} \in SingletonRegressions
<1>1. c \in SUBSET Facts /\ c # {} /\ a \in Actions /\ a \in SupportingActions(c)
  BY FinitelyMany, CountersByConjunction, ConjunctionSizes
<1>2. Pre[a] = {} /\ c \subseteq Eff[a]
  BY DEF Regression
<1>3. PICK f \in c : TRUE
  BY <1>1
<1>4. {f} \in Singletons /\ f \in Eff[a] /\ {f} \in Singletons \cup Learnable /\ {f} \in SUBSET Facts
  BY <1>1, <1>2 DEF Singletons
<1>5. a \in SupportingActions({f})
  <2>1. IsRegressableAndMutexFree(a, c)
    BY <1>1 DEF SupportingActions
  <2>2. IsRegressable(a, {f})
    BY <1>2, <1>3, <1>4, <2>1 DEF IsRegressableAndMutexFree, IsRegressable
  <2> QED
    BY <1>1, <1>4, <2>2 DEF SupportingActions, IsRegressableAndMutexFree
<1>6. PICK b \in ComputeRegressions({f}) : IsSimpler(b, a, {f})
  BY <1>4, <1>5, RegressionsAreSimplest
<1>7. Regression(b, {f}) = {}
  BY <1>2, <1>4, <1>6 DEF IsSimpler, Regression
<1>8. ~ContainsMutex({f})
  BY DEF ContainsMutex, AreMutex
<1>9. b \in CounterActions({f})
  BY <1>4, <1>6, <1>8 DEF CounterActions, Regressions
<1>10. <<b, {f}>> \in SingletonCounters
  BY <1>4, <1>9, CountersByConjunction DEF SingletonCounters
<1> QED
  BY <1>7, <1>10 DEF SingletonRegressions, RegressionOfCounter

-----------------------------------------------------------------------------
\* The order SetToSeq puts a finite set in has each member once.
LEMMA SetToSeqIsBijection ==
  ASSUME NEW S, IsFiniteSet(S)
  PROVE  /\ Cardinality(S) \in Nat
         /\ SetToSeq(S) \in [1 .. Cardinality(S) -> S]
         /\ \A i, j \in 1 .. Cardinality(S) : SetToSeq(S)[i] = SetToSeq(S)[j] => i = j
         /\ \A x \in S : \E i \in 1 .. Cardinality(S) : SetToSeq(S)[i] = x
<1> DEFINE T == 1 .. Cardinality(S)
           order == SetToSeq(S)
<1>1. Cardinality(S) \in Nat /\ ExistsBijection(T, S)
  BY FS_CardinalityType
<1>2. \E f \in [T -> S] : IsInjective(f)
  BY <1>1 DEF ExistsBijection, Bijection, Injection
<1>3. order \in [T -> S] /\ IsInjective(order)
  <2> HIDE DEF T
  <2> QED
    BY <1>2 DEF SetToSeq, T
<1>4. order \in Injection(T, S)
  <2> HIDE DEF T, order
  <2> QED
    BY <1>3 DEF Injection
<1>5. Cardinality(T) = Cardinality(S)
  BY <1>1, FS_Interval
<1>6. order \in Surjection(T, S)
  <2> HIDE DEF T, order
  <2> QED
    BY <1>4, <1>5, FS_Injection
<1> HIDE DEF order
<1>7. \A x \in S : \E i \in T : order[i] = x
  <2> HIDE DEF T
  <2> QED
    BY <1>6 DEF Surjection
<1>8. \A i, j \in T : order[i] = order[j] => i = j
  <2> HIDE DEF T
  <2> QED
    BY <1>3 DEF IsInjective
<1> QED
  BY <1>1, <1>3, <1>7, <1>8 DEF order, T

\* There are finitely many regressions of singletons.
LEMMA SingletonRegressionsFinite ==
  /\ IsFiniteSet(SingletonRegressions)
  /\ SingletonRegressions \subseteq SUBSET Facts
<1>1. ASSUME NEW k \in SingletonCounters PROVE RegressionOfCounter(k) \in SUBSET Facts
  <2>1. k = <<k[1], k[2]>> /\ k \in CountersOf(Singletons) /\ Singletons \in SUBSET (Singletons \cup Learnable)
    BY CountersByConjunction DEF SingletonCounters
  <2>2. k[2] \in Singletons /\ k[1] \in CounterActions(k[2])
    BY <2>1, CountersByConjunction
  <2> QED
    BY <2>2, RegressionType DEF RegressionOfCounter
<1>2. SingletonRegressions \in SUBSET SUBSET Facts
  BY <1>1 DEF SingletonRegressions
<1>3. IsFiniteSet(SUBSET Facts)
  BY RegressionAssumption, FS_SUBSET DEF RegressionAssumption
<1> QED
  BY <1>2, <1>3, FS_Subset

\* What a group waits for: the dummy if it has no regression, and else conjunctions.
LEMMA InitialWaits ==
  ASSUME NEW r, NEW C \in SUBSET (Singletons \cup Learnable)
  PROVE  /\ r = {} => InitialWaitsFor(r, C) = {DummyPrecondition}
         /\ r # {} => InitialWaitsFor(r, C) \subseteq C /\ DummyPrecondition \notin InitialWaitsFor(r, C)
         /\ InitialWaitsFor(r, C) \in SUBSET (Singletons \cup Learnable \cup {DummyPrecondition})
BY ConjunctionSizes DEF InitialWaitsFor, NonDominatedWithin, NonDominated, DummyPrecondition

\* The constructor establishes the invariant.
LEMMA InitCounters ==
  ASSUME Init
  PROVE  CountersInv
<1> DEFINE order == SetToSeq(SingletonRegressions)
           slot  == [r \in SingletonRegressions |-> CHOOSE i \in DOMAIN order : order[i] = r]
           N == NumSingletonCounterGroups
<1>1. /\ N \in Nat
      /\ order \in [1 .. N -> SingletonRegressions]
      /\ \A i, j \in 1 .. N : order[i] = order[j] => i = j
      /\ \A r \in SingletonRegressions : \E i \in 1 .. N : order[i] = r
  <2> HIDE DEF order
  <2> QED
    BY SingletonRegressionsFinite, SetToSeqIsBijection DEF NumSingletonCounterGroups, order
<1>2. /\ learned = {}
      /\ counterGroups = [i \in DOMAIN order |->
           [regression |-> order[i],
            group      |-> {k \in SingletonCounters : RegressionOfCounter(k) = order[i]},
            waitsFor   |-> InitialWaitsFor(order[i], Singletons)]]
      /\ unused = {}
      /\ byRegression = Restrict(slot, DOMAIN slot \ {{}})
      /\ emptySlot = IF {} \in DOMAIN slot THEN slot[{}] ELSE NoSlot
      /\ slotsOf = [c \in Singletons |->
           [a \in {k[1] : k \in {l \in SingletonCounters : l[2] = c}} |-> slot[Regression(a, c)]]]
      /\ regressionOf = [c \in Singletons \cup {DummyPrecondition} |->
           {i \in DOMAIN order : c \in InitialWaitsFor(order[i], Singletons)}]
      /\ numCounters = NumSingletonCounters
  BY DEF Init
<1> HIDE DEF order
<1>3. slot \in [SingletonRegressions -> 1 .. N] /\ \A r \in SingletonRegressions : order[slot[r]] = r
  BY <1>1
<1> HIDE DEF slot
<1>4. DOMAIN order = 1 .. N /\ \A i \in 1 .. N : order[i] \in SUBSET Facts /\ order[i] \in SingletonRegressions
  BY <1>1, SingletonRegressionsFinite
<1>5. \A i \in 1 .. N : slot[order[i]] = i
  BY <1>1, <1>3
<1>6. Conjunctions = Singletons /\ Singletons \in SUBSET (Singletons \cup Learnable)
  BY <1>2 DEF Conjunctions
<1>7. \A k \in SingletonCounters :
        /\ k = <<k[1], k[2]>> /\ k[2] \in Singletons /\ k[1] \in CounterActions(k[2]) /\ k[1] \in Actions
        /\ RegressionOfCounter(k) = Regression(k[1], k[2])
        /\ RegressionOfCounter(k) \in SingletonRegressions
  BY CountersByConjunction DEF SingletonCounters, SingletonRegressions, RegressionOfCounter
<1>8. ASSUME NEW i \in 1 .. N PROVE counterGroups[i] \in Group
  <2>1. {k \in SingletonCounters : RegressionOfCounter(k) = order[i]}
          \in SUBSET (Actions \X (Singletons \cup Learnable))
    BY <1>7
  <2>2. InitialWaitsFor(order[i], Singletons)
          \in SUBSET (Singletons \cup Learnable \cup {DummyPrecondition})
    BY <1>6, InitialWaits
  <2> QED
    BY <1>2, <1>4, <2>1, <2>2 DEF Group
<1>9. Len(counterGroups) = N /\ counterGroups \in Seq(Group) /\ InUse = 1 .. N
  <2>1. counterGroups \in [1 .. N -> Group]
    BY <1>2, <1>4, <1>8
  <2> QED
    BY <1>1, <1>2, <2>1 DEF InUse
<1>10. \A i \in 1 .. N : /\ RegressionOfSlot(i) = order[i]
                         /\ counterGroups[i].group = {k \in SingletonCounters : RegressionOfCounter(k) = order[i]}
                         /\ counterGroups[i].waitsFor = InitialWaitsFor(order[i], Singletons)
  BY <1>2, <1>4 DEF RegressionOfSlot
<1>11. SlotsInv
  BY <1>1, <1>2, <1>9 DEF SlotsInv
<1>12. \A c \in Singletons : {k[1] : k \in {l \in SingletonCounters : l[2] = c}} = CounterActions(c)
  <2> SUFFICES ASSUME NEW c \in Singletons
               PROVE  {k[1] : k \in {l \in SingletonCounters : l[2] = c}} = CounterActions(c)
    OBVIOUS
  <2>1. ASSUME NEW a \in CounterActions(c)
        PROVE  \E k \in {l \in SingletonCounters : l[2] = c} : a = k[1]
    <3>1. <<a, c>> \in SingletonCounters
      BY <1>6, CountersByConjunction DEF SingletonCounters
    <3> QED
      BY <3>1
  <2> QED
    BY <1>7, <2>1
<1>13. \A c \in Singletons : /\ slotsOf[c] \in [CounterActions(c) -> 1 .. N]
                             /\ \A a \in CounterActions(c) :
                                  /\ <<a, c>> \in SingletonCounters
                                  /\ Regression(a, c) \in SingletonRegressions
                                  /\ slotsOf[c][a] = slot[Regression(a, c)]
                                  /\ slotsOf[c][a] \in 1 .. N
                                  /\ order[slotsOf[c][a]] = Regression(a, c)
  <2> SUFFICES ASSUME NEW c \in Singletons
               PROVE  /\ slotsOf[c] \in [CounterActions(c) -> 1 .. N]
                      /\ \A a \in CounterActions(c) :
                                  /\ <<a, c>> \in SingletonCounters
                                  /\ Regression(a, c) \in SingletonRegressions
                                  /\ slotsOf[c][a] = slot[Regression(a, c)]
                                  /\ slotsOf[c][a] \in 1 .. N
                                  /\ order[slotsOf[c][a]] = Regression(a, c)
    OBVIOUS
  <2>1. slotsOf[c] = [a \in CounterActions(c) |-> slot[Regression(a, c)]]
    BY <1>2, <1>12
  <2>2. ASSUME NEW a \in CounterActions(c)
        PROVE  <<a, c>> \in SingletonCounters /\ Regression(a, c) \in SingletonRegressions
    <3>1. <<a, c>> \in SingletonCounters
      BY <1>6, CountersByConjunction DEF SingletonCounters
    <3>2. RegressionOfCounter(<<a, c>>) \in SingletonRegressions
      BY <1>7, <3>1
    <3> QED
      BY <3>1, <3>2 DEF RegressionOfCounter
  <2> QED
    BY <1>3, <2>1, <2>2
<1>14. MembersInv
  <2>1. DOMAIN slotsOf = Conjunctions
    BY <1>2, <1>6
  <2>2. ASSUME NEW c \in Conjunctions
        PROVE  /\ slotsOf[c] \in [CounterActions(c) -> InUse]
               /\ \A a \in CounterActions(c) :
                    /\ <<a, c>> \in counterGroups[slotsOf[c][a]].group
                    /\ RegressionOfSlot(slotsOf[c][a]) = Regression(a, c)
    <3>1. \A a \in CounterActions(c) : RegressionOfCounter(<<a, c>>) = Regression(a, c)
      BY DEF RegressionOfCounter
    <3> QED
      BY <1>6, <1>9, <1>10, <1>13, <3>1
  <2>3. ASSUME NEW i \in InUse, NEW k \in counterGroups[i].group
        PROVE  /\ k[2] \in Conjunctions /\ k[1] \in CounterActions(k[2])
               /\ slotsOf[k[2]][k[1]] = i
    <3>1. k \in SingletonCounters /\ RegressionOfCounter(k) = order[i] /\ i \in 1 .. N
      BY <1>9, <1>10
    <3>2. slotsOf[k[2]][k[1]] = slot[order[i]]
      BY <1>7, <1>13, <3>1
    <3> QED
      BY <1>5, <1>6, <1>7, <3>1, <3>2
  <2> QED
    BY <2>1, <2>2, <2>3 DEF MembersInv
<1>15. IndexInv
  <2>1. byRegression = [r \in SingletonRegressions \ {{}} |-> slot[r]]
    BY <1>2, <1>3 DEF Restrict
  <2>2. emptySlot = IF {} \in SingletonRegressions THEN slot[{}] ELSE NoSlot
    BY <1>2, <1>3
  <2>3. \A i \in InUse :
          IF RegressionOfSlot(i) = {} THEN emptySlot = i
          ELSE RegressionOfSlot(i) \in DOMAIN byRegression /\ byRegression[RegressionOfSlot(i)] = i
    <3> SUFFICES ASSUME NEW i \in InUse
                 PROVE  IF RegressionOfSlot(i) = {} THEN emptySlot = i
                        ELSE /\ RegressionOfSlot(i) \in DOMAIN byRegression
                             /\ byRegression[RegressionOfSlot(i)] = i
      OBVIOUS
    <3>1. RegressionOfSlot(i) = order[i] /\ order[i] \in SingletonRegressions /\ slot[order[i]] = i
      BY <1>4, <1>5, <1>9, <1>10
    <3>2. order[i] # {} => order[i] \in DOMAIN byRegression /\ byRegression[order[i]] = slot[order[i]]
      BY <2>1, <3>1
    <3> QED
      BY <2>2, <3>1, <3>2
  <2>4. \A r \in DOMAIN byRegression :
          r # {} /\ byRegression[r] \in InUse /\ RegressionOfSlot(byRegression[r]) = r
    BY <1>3, <1>9, <1>10, <2>1
  <2>5. IF {} \in SingletonRegressions
        THEN emptySlot \in InUse /\ RegressionOfSlot(emptySlot) = {} ELSE emptySlot = NoSlot
    BY <1>3, <1>9, <1>10, <2>2
  <2>6. byRegression = [r \in DOMAIN byRegression |-> byRegression[r]]
    BY <2>1
  <2> QED
    BY <2>3, <2>4, <2>5, <2>6 DEF IndexInv
<1>16. FirstSlotsInv
  BY <1>1, <1>4, <1>9, <1>10 DEF FirstSlotsInv
<1>17. LinksInv
  <2>1. DOMAIN regressionOf = Conjunctions \cup {DummyPrecondition}
    BY <1>2, <1>6
  <2>2. LinksAgree
    BY <1>2, <1>4, <1>6, <1>9, <1>10 DEF LinksAgree
  <2>3. ASSUME NEW i \in InUse
        PROVE  IF RegressionOfSlot(i) = {} THEN counterGroups[i].waitsFor = {DummyPrecondition}
               ELSE counterGroups[i].waitsFor \subseteq Conjunctions
    BY <1>6, <1>9, <1>10, InitialWaits
  <2> QED
    BY <2>1, <2>2, <2>3 DEF LinksInv
<1>18. numCounters = Cardinality(CountersOf(Conjunctions))
  BY <1>2, <1>6 DEF NumSingletonCounters, SingletonCounters
<1> QED
  BY <1>11, <1>14, <1>15, <1>16, <1>17, <1>18 DEF CountersInv

-----------------------------------------------------------------------------
\* The greatest member of a bounded set of numbers.
LEMMA MaxOfBounded ==
  ASSUME NEW B \in SUBSET Nat, B # {}, NEW k \in Nat, \A n \in B : n <= k
  PROVE  Max(B) \in B /\ Max(B) \in Nat /\ \A n \in B : n <= Max(B)
<1>1. PICK n \in B : \A m \in B : m <= n
  BY GreatestNat
<1>2. \E m \in B : \A a \in B : m >= a
  BY <1>1
<1> QED
  BY <1>2 DEF Max

\* Counters of disjoint sets of conjunctions add up.
LEMMA CountersAddUp ==
  ASSUME NEW C \in SUBSET (Singletons \cup Learnable),
         NEW D \in SUBSET (Singletons \cup Learnable), C \cap D = {}
  PROVE  /\ Cardinality(CountersOf(C \cup D)) = Cardinality(CountersOf(C)) + Cardinality(CountersOf(D))
         /\ Cardinality(CountersOf(C)) \in Nat /\ Cardinality(CountersOf(D)) \in Nat
<1>1. CountersOf(C \cup D) = CountersOf(C) \cup CountersOf(D)
  BY DEF CountersOf
<1>2. CountersOf(C) \cap CountersOf(D) = {}
  BY DEF CountersOf
<1>3. IsFiniteSet(CountersOf(C)) /\ IsFiniteSet(CountersOf(D))
  BY FinitelyMany
<1>4. Cardinality(CountersOf(C)) \in Nat /\ Cardinality(CountersOf(D)) \in Nat
  BY <1>3, FS_CardinalityType
<1>5. Cardinality(CountersOf(C) \cup CountersOf(D))
        = Cardinality(CountersOf(C)) + Cardinality(CountersOf(D)) - Cardinality({})
  BY <1>2, <1>3, FS_Union
<1>6. Cardinality({}) = 0
  BY FS_EmptySet
<1>7. Cardinality(CountersOf(C \cup D)) = Cardinality(CountersOf(C) \cup CountersOf(D))
  BY <1>1, Zenon
<1>8. \A a, b, x, y : a \in Nat /\ b \in Nat /\ x = a + b - y /\ y = 0 => x = a + b
  OBVIOUS
<1> QED
  BY <1>4, <1>5, <1>6, <1>7, <1>8, Zenon

\* A conjunction has as many counters as there are actions with one for it.
LEMMA CountersOfOne ==
  ASSUME NEW c \in Singletons \cup Learnable
  PROVE  Cardinality(CountersOf({c})) = Cardinality(CounterActions(c))
<1> DEFINE f == [a \in CounterActions(c) |-> <<a, c>>]
           S == CounterActions(c)
           T == CountersOf({c})
<1>1. {c} \in SUBSET (Singletons \cup Learnable)
  OBVIOUS
<1>2. IsFiniteSet(S)
  <2>1. S \in SUBSET Actions /\ IsFiniteSet(Actions)
    BY CountersByConjunction, RegressionAssumption DEF RegressionAssumption
  <2> HIDE DEF S
  <2> QED
    BY <2>1, FS_Subset
<1>3. f \in [S -> T] /\ \A x, y \in S : f[x] = f[y] => x = y
  BY <1>1, CountersByConjunction
<1>4. ASSUME NEW k \in T PROVE \E x \in S : f[x] = k
  <2>1. k = <<k[1], k[2]>> /\ k[2] \in {c} /\ k[1] \in CounterActions(k[2])
    BY <1>1, CountersByConjunction
  <2> QED
    BY <2>1
<1> HIDE DEF f, S, T
<1>5. Cardinality(T) = Cardinality(S)
  BY <1>2, <1>3, <1>4, SameSize
<1> QED
  BY <1>5 DEF S, T

\* A regression has one group, and a singleton's regression has one with a counter of
\* a singleton.
LEMMA OneGroup ==
  ASSUME CountersInv
  PROVE  /\ Conjunctions \in SUBSET (Singletons \cup Learnable) /\ Singletons \subseteq Conjunctions
         /\ \A i, j \in InUse : RegressionOfSlot(i) = RegressionOfSlot(j) => i = j
         /\ \A i \in InUse : RegressionOfSlot(i) \in SUBSET Facts /\ counterGroups[i] \in Group
         /\ \A i \in 1 .. NumSingletonCounterGroups :
              \E k \in counterGroups[i].group : k \in SingletonCounters /\ k[2] \in Singletons
         /\ {} \in SingletonRegressions => emptySlot \in 1 .. NumSingletonCounterGroups
<1>1. Conjunctions \in SUBSET (Singletons \cup Learnable) /\ Singletons \subseteq Conjunctions
  BY DEF CountersInv, SlotsInv, Conjunctions
<1>2. \A i, j \in InUse : RegressionOfSlot(i) = RegressionOfSlot(j) => i = j
  BY DEF CountersInv, IndexInv
<1>3. \A i \in InUse : RegressionOfSlot(i) \in SUBSET Facts /\ counterGroups[i] \in Group
  <2>1. ASSUME NEW i \in InUse PROVE counterGroups[i] \in Group
    BY DEF CountersInv, SlotsInv, InUse
  <2> QED
    BY <2>1 DEF RegressionOfSlot, Group
<1>4. ASSUME NEW i \in 1 .. NumSingletonCounterGroups
      PROVE  \E k \in counterGroups[i].group : k \in SingletonCounters /\ k[2] \in Singletons
  <2>1. i \in InUse /\ RegressionOfSlot(i) \in SingletonRegressions
    BY DEF CountersInv, FirstSlotsInv
  <2>2. PICK k \in SingletonCounters : RegressionOfSlot(i) = RegressionOfCounter(k)
    BY <2>1 DEF SingletonRegressions
  <2>3. k = <<k[1], k[2]>> /\ k[2] \in Singletons /\ k[1] \in CounterActions(k[2])
    BY CountersByConjunction DEF SingletonCounters
  <2> DEFINE j == slotsOf[k[2]][k[1]]
  <2>4. k[2] \in Conjunctions
    BY <1>1, <2>3
  <2>5. j \in InUse /\ k \in counterGroups[j].group /\ RegressionOfSlot(j) = Regression(k[1], k[2])
    BY <2>3, <2>4 DEF CountersInv, MembersInv
  <2>6. j = i
    BY <1>2, <2>1, <2>2, <2>5 DEF RegressionOfCounter
  <2> QED
    BY <2>3, <2>5, <2>6
<1>5. ASSUME {} \in SingletonRegressions PROVE emptySlot \in 1 .. NumSingletonCounterGroups
  <2>1. PICK i \in 1 .. NumSingletonCounterGroups : RegressionOfSlot(i) = {}
    BY <1>5 DEF CountersInv, FirstSlotsInv
  <2>2. i \in InUse
    BY DEF CountersInv, FirstSlotsInv
  <2> QED
    BY <2>1, <2>2 DEF CountersInv, IndexInv
<1> QED
  BY <1>1, <1>2, <1>3, <1>4, <1>5

-----------------------------------------------------------------------------
\* remove_conjunction, where the slots end up and what they hold.
LEMMA ForgetSlots ==
  ASSUME CountersInv, NEW c \in learned, RemoveConjunction(c)
  PROVE  LET removed == {i \in Range(slotsOf[c]) :
                           counterGroups[i].group = {k \in counterGroups[i].group : k[2] = c}}
         IN  /\ removed \subseteq InUse
             /\ Conjunctions' = Conjunctions \ {c} /\ c \in Conjunctions /\ c \notin Singletons
             /\ InUse' = InUse \ removed
             /\ SlotsInv'
             /\ \A i \in InUse' :
                  /\ RegressionOfSlot(i)' = RegressionOfSlot(i)
                  /\ counterGroups'[i].group = {k \in counterGroups[i].group : k[2] # c}
                  /\ counterGroups'[i].waitsFor =
                       IF c \in counterGroups[i].waitsFor
                       THEN WithoutConjunction(counterGroups[i].waitsFor, c, Conjunctions \ {c})
                       ELSE counterGroups[i].waitsFor
<1> DEFINE rest    == Conjunctions \ {c}
           mine(i) == {k \in counterGroups[i].group : k[2] = c}
           removed == {i \in Range(slotsOf[c]) : counterGroups[i].group = mine(i)}
           size    == SizeAfter(removed)
           waiting == regressionOf[c] \ removed
           Left(i) == [regression |-> counterGroups[i].regression,
                       group      |-> {CHOOSE k \in counterGroups[i].group : TRUE},
                       waitsFor   |-> counterGroups[i].waitsFor]
           Kept(i) == [regression |-> counterGroups[i].regression,
                       group      |-> counterGroups[i].group \ mine(i),
                       waitsFor   |-> IF i \in waiting
                                      THEN WithoutConjunction(counterGroups[i].waitsFor, c, rest)
                                      ELSE counterGroups[i].waitsFor]
           N == Len(counterGroups)
<1>1. /\ learned' = learned \ {c}
      /\ counterGroups' = [i \in 1 .. size |->
           IF i \in unused THEN counterGroups[i] ELSE IF i \in removed THEN Left(i) ELSE Kept(i)]
      /\ unused' = (unused \cup removed) \cap (1 .. size)
  BY DEF RemoveConjunction
<1>2. /\ learned \subseteq Learnable /\ counterGroups \in Seq(Group)
      /\ unused \subseteq 1 .. N /\ N \notin unused
  BY DEF CountersInv, SlotsInv
<1>3. c \in Learnable /\ c \notin Singletons /\ c \in Conjunctions
  BY <1>2, ConjunctionSizes DEF Conjunctions
<1>4. slotsOf[c] \in [CounterActions(c) -> InUse]
  BY <1>3 DEF CountersInv, MembersInv
<1>5. removed \subseteq InUse
  BY <1>4 DEF Range
<1>6. \A i \in removed : counterGroups[i].group # {}
  <2> SUFFICES ASSUME NEW i \in removed PROVE counterGroups[i].group # {}
    OBVIOUS
  <2>1. PICK a \in CounterActions(c) : slotsOf[c][a] = i
    BY <1>4 DEF Range
  <2>2. <<a, c>> \in counterGroups[i].group
    BY <1>3, <2>1 DEF CountersInv, MembersInv
  <2> QED
    BY <2>2
<1>7. Conjunctions' = rest
  BY <1>1, <1>3 DEF Conjunctions
<1>8. N \in Nat /\ counterGroups \in [1 .. N -> Group]
  BY <1>2
<1>9. InUse = (1 .. N) \ unused
  BY DEF InUse
<1> HIDE DEF removed
<1>10. /\ size \in Nat /\ size <= N
       /\ \A i \in InUse \ removed : i <= size
       /\ size \in InUse \ removed \/ size = 0
  <2>1. CASE N \in removed
    <3> DEFINE B == {0} \cup (InUse \ removed)
    <3>1. B \in SUBSET Nat /\ B # {} /\ \A n \in B : n <= N
      BY <1>8, <1>9
    <3>2. Max(B) \in B /\ Max(B) \in Nat /\ \A n \in B : n <= Max(B)
      <4> HIDE DEF B
      <4> QED
        BY <1>8, <3>1, MaxOfBounded
    <3>3. size = Max(B)
      BY <2>1 DEF SizeAfter
    <3>4. size \in Nat /\ size \in B /\ \A n \in B : n <= size
      BY <3>2, <3>3, Zenon
    <3> HIDE DEF size
    <3> QED
      BY <3>1, <3>4
  <2>2. CASE N \notin removed
    <3>1. size = N
      BY <2>2 DEF SizeAfter
    <3> HIDE DEF size
    <3> QED
      BY <1>2, <1>8, <1>9, <2>2, <3>1
  <2> QED
    BY <2>1, <2>2
<1> HIDE DEF size
<1>11. /\ counterGroups' \in [1 .. size -> Group]
  <2> SUFFICES ASSUME NEW i \in 1 .. size PROVE counterGroups'[i] \in Group
    BY <1>1
  <2>1. i \in 1 .. N /\ counterGroups[i] \in Group
    BY <1>8, <1>10
  <2>2. CASE i \in unused
    BY <1>1, <2>1, <2>2
  <2>3. CASE i \notin unused /\ i \in removed
    <3>1. counterGroups'[i] = Left(i)
      BY <1>1, <2>3
    <3>2. (CHOOSE k \in counterGroups[i].group : TRUE) \in counterGroups[i].group
      BY <1>6, <2>3
    <3>3. Left(i) \in Group
      BY <2>1, <3>2 DEF Group
    <3> QED
      BY <3>1, <3>3
  <2>4. CASE i \notin unused /\ i \notin removed
    <3>1. counterGroups'[i] = Kept(i)
      BY <1>1, <2>4
    <3>2. Kept(i).waitsFor \in SUBSET (Singletons \cup Learnable \cup {DummyPrecondition})
      <4>1. rest \subseteq Singletons \cup Learnable
        BY <1>2 DEF Conjunctions
      <4>2. counterGroups[i].waitsFor \in SUBSET (Singletons \cup Learnable \cup {DummyPrecondition})
        BY <2>1 DEF Group
      <4>3. WithoutConjunction(counterGroups[i].waitsFor, c, rest)
              \in SUBSET (Singletons \cup Learnable \cup {DummyPrecondition})
        BY <4>1, <4>2 DEF WithoutConjunction, Replacements, NonDominatedWithin, NonDominated
      <4> QED
        BY <4>2, <4>3
    <3>3. Kept(i).group \in SUBSET (Actions \X (Singletons \cup Learnable))
      BY <2>1 DEF Group
    <3>4. Kept(i) \in Group
      BY <2>1, <3>2, <3>3 DEF Group
    <3> QED
      BY <3>1, <3>4
  <2> QED
    BY <2>2, <2>3, <2>4
<1>12. Len(counterGroups') = size /\ counterGroups' \in Seq(Group)
  BY <1>10, <1>11
<1>13. InUse' = InUse \ removed
  <2>1. InUse' = (1 .. size) \ unused'
    BY <1>12 DEF InUse
  <2> QED
    BY <1>1, <1>8, <1>9, <1>10, <2>1
<1>14. SlotsInv'
  <2>1. unused' \subseteq 1 .. size /\ size \notin unused'
    BY <1>1, <1>9, <1>10
  <2>2. learned' \subseteq Learnable
    BY <1>1, <1>2
  <2> QED
    BY <1>12, <2>1, <2>2 DEF SlotsInv
<1>15. ASSUME NEW i \in InUse'
       PROVE  /\ RegressionOfSlot(i)' = RegressionOfSlot(i)
              /\ counterGroups'[i].group = {k \in counterGroups[i].group : k[2] # c}
              /\ counterGroups'[i].waitsFor =
                       IF c \in counterGroups[i].waitsFor
                       THEN WithoutConjunction(counterGroups[i].waitsFor, c, Conjunctions \ {c})
                       ELSE counterGroups[i].waitsFor
  <2>1. i \in 1 .. size /\ i \notin unused /\ i \notin removed /\ i \in InUse
    BY <1>9, <1>10, <1>13
  <2>2. counterGroups'[i] = Kept(i)
    BY <1>1, <2>1
  <2>3. i \in waiting <=> c \in counterGroups[i].waitsFor
    <3>1. regressionOf[c] = {j \in InUse : c \in counterGroups[j].waitsFor}
      BY <1>3 DEF CountersInv, LinksInv, LinksAgree
    <3> QED
      BY <2>1, <3>1
  <2>4. counterGroups'[i].waitsFor = IF i \in waiting
                                     THEN WithoutConjunction(counterGroups[i].waitsFor, c, rest)
                                     ELSE counterGroups[i].waitsFor
    BY <2>2
  <2>5. counterGroups'[i].group = counterGroups[i].group \ mine(i)
    BY <2>2
  <2>6. RegressionOfSlot(i)' = RegressionOfSlot(i)
    BY <2>2 DEF RegressionOfSlot
  <2> HIDE DEF waiting
  <2> QED
    BY <2>3, <2>4, <2>5, <2>6
<1> QED
  BY <1>3, <1>5, <1>7, <1>13, <1>14, <1>15 DEF removed

\* remove_conjunction keeps the invariant.
LEMMA ForgetCounters ==
  ASSUME CountersInv, NEW c \in learned, RemoveConjunction(c)
  PROVE  CountersInv'
<1> DEFINE rest    == Conjunctions \ {c}
           removed == {i \in Range(slotsOf[c]) :
                         counterGroups[i].group = {k \in counterGroups[i].group : k[2] = c}}
           waiting == regressionOf[c] \ removed
           replacing == [i \in waiting |-> Replacements(counterGroups[i].waitsFor \ {c}, c, rest)]
<1>1. /\ removed \subseteq InUse
      /\ Conjunctions' = rest /\ c \in Conjunctions /\ c \notin Singletons
      /\ InUse' = InUse \ removed
      /\ SlotsInv'
      /\ \A i \in InUse' :
           /\ RegressionOfSlot(i)' = RegressionOfSlot(i)
           /\ counterGroups'[i].group = {k \in counterGroups[i].group : k[2] # c}
           /\ counterGroups'[i].waitsFor =
                IF c \in counterGroups[i].waitsFor
                THEN WithoutConjunction(counterGroups[i].waitsFor, c, rest)
                ELSE counterGroups[i].waitsFor
  BY ForgetSlots
<1>2. /\ byRegression' = Restrict(byRegression,
                           DOMAIN byRegression \ {counterGroups[i].regression : i \in removed})
      /\ emptySlot' = emptySlot
      /\ slotsOf' = Restrict(slotsOf, rest)
      /\ regressionOf' = [d \in rest \cup {DummyPrecondition} |->
           {i \in waiting : d \in replacing[i]}
             \cup (regressionOf[d] \ {i \in removed : d \in counterGroups[i].waitsFor})]
      /\ numCounters' = numCounters - Cardinality(DOMAIN slotsOf[c])
  BY DEF RemoveConjunction
<1>3. \A i \in removed : \A k \in counterGroups[i].group : k[2] = c
  OBVIOUS
<1> HIDE DEF removed, waiting, replacing
<1>4. MembersInv'
  <2>1. DOMAIN slotsOf' = rest /\ \A d \in rest : slotsOf'[d] = slotsOf[d]
    BY <1>2 DEF Restrict
  <2>2. ASSUME NEW d \in rest
        PROVE  /\ slotsOf'[d] \in [CounterActions(d) -> InUse']
               /\ \A a \in CounterActions(d) :
                    /\ <<a, d>> \in counterGroups'[slotsOf'[d][a]].group
                    /\ counterGroups'[slotsOf'[d][a]].regression = Regression(a, d)
    <3>1. d \in Conjunctions /\ d # c /\ slotsOf'[d] = slotsOf[d]
      BY <2>1
    <3>2. /\ slotsOf[d] \in [CounterActions(d) -> InUse]
          /\ \A a \in CounterActions(d) :
               /\ <<a, d>> \in counterGroups[slotsOf[d][a]].group
               /\ RegressionOfSlot(slotsOf[d][a]) = Regression(a, d)
      BY <3>1 DEF CountersInv, MembersInv
    <3>3. ASSUME NEW a \in CounterActions(d)
          PROVE  slotsOf[d][a] \in InUse' /\ <<a, d>> \in counterGroups'[slotsOf[d][a]].group
      <4>1. slotsOf[d][a] \in InUse /\ <<a, d>> \in counterGroups[slotsOf[d][a]].group /\ <<a, d>>[2] = d
        BY <3>2
      <4>2. slotsOf[d][a] \notin removed
        BY <1>3, <3>1, <4>1
      <4> QED
        BY <1>1, <3>1, <4>1, <4>2
    <3>4. ASSUME NEW a \in CounterActions(d)
          PROVE  counterGroups'[slotsOf'[d][a]].regression = Regression(a, d)
      <4>1. slotsOf[d][a] \in InUse' /\ RegressionOfSlot(slotsOf[d][a]) = Regression(a, d)
        BY <3>2, <3>3
      <4> QED
        BY <1>1, <3>1, <4>1 DEF RegressionOfSlot
    <3> QED
      BY <3>1, <3>2, <3>3, <3>4
  <2>3. ASSUME NEW i \in InUse', NEW k \in counterGroups'[i].group
        PROVE  /\ k[2] \in rest /\ k[1] \in CounterActions(k[2]) /\ slotsOf'[k[2]][k[1]] = i
    <3>1. i \in InUse /\ k \in counterGroups[i].group /\ k[2] # c
      BY <1>1
    <3>2. k[2] \in Conjunctions /\ k[1] \in CounterActions(k[2]) /\ slotsOf[k[2]][k[1]] = i
      BY <3>1 DEF CountersInv, MembersInv
    <3> QED
      BY <2>1, <3>1, <3>2
  <2> QED
    BY <1>1, <2>1, <2>2, <2>3 DEF MembersInv, RegressionOfSlot, CounterActions, Regressions,
       ComputeRegressions
<1>5. /\ \A i, j \in InUse : RegressionOfSlot(i) = RegressionOfSlot(j) => i = j
      /\ \A i \in 1 .. NumSingletonCounterGroups : i \in InUse /\ i \notin removed
      /\ {} \in SingletonRegressions => emptySlot \in 1 .. NumSingletonCounterGroups
  <2>1. \A d \in Singletons : d # c
    BY <1>1
  <2> QED
    BY <1>3, <2>1, OneGroup DEF CountersInv, FirstSlotsInv
<1>6. IndexInv'
  <2> DEFINE gone == {RegressionOfSlot(i) : i \in removed}
  <2>1. /\ byRegression' = [r \in DOMAIN byRegression \ gone |-> byRegression[r]]
        /\ DOMAIN byRegression' = DOMAIN byRegression \ gone
        /\ \A r \in DOMAIN byRegression \ gone : byRegression'[r] = byRegression[r]
    BY <1>2 DEF Restrict, RegressionOfSlot
  <2>2. byRegression' = [r \in DOMAIN byRegression' |-> byRegression'[r]]
    <3> HIDE DEF gone
    <3> QED
      BY <2>1
  <2>3. ASSUME NEW i \in InUse'
        PROVE  IF RegressionOfSlot(i)' = {} THEN emptySlot' = i
               ELSE RegressionOfSlot(i)' \in DOMAIN byRegression'
                    /\ byRegression'[RegressionOfSlot(i)'] = i
    <3>1. i \in InUse /\ i \notin removed /\ RegressionOfSlot(i)' = RegressionOfSlot(i)
      BY <1>1
    <3>2. RegressionOfSlot(i) \notin gone
      BY <1>1, <1>5, <3>1
    <3>3. IF RegressionOfSlot(i) = {} THEN emptySlot = i
          ELSE RegressionOfSlot(i) \in DOMAIN byRegression /\ byRegression[RegressionOfSlot(i)] = i
      BY <3>1 DEF CountersInv, IndexInv
    <3> HIDE DEF gone
    <3> QED
      BY <1>2, <2>1, <3>1, <3>2, <3>3
  <2>4. ASSUME NEW r \in DOMAIN byRegression'
        PROVE  r # {} /\ byRegression'[r] \in InUse' /\ counterGroups'[byRegression'[r]].regression = r
    <3>1. r \in DOMAIN byRegression /\ r \notin gone /\ byRegression'[r] = byRegression[r]
      <4> HIDE DEF gone
      <4> QED
        BY <2>1
    <3>2. r # {} /\ byRegression[r] \in InUse /\ RegressionOfSlot(byRegression[r]) = r
      BY <3>1 DEF CountersInv, IndexInv
    <3>3. byRegression[r] \notin removed
      BY <3>1, <3>2
    <3>4. byRegression[r] \in InUse'
      BY <1>1, <3>2, <3>3
    <3>5. counterGroups'[byRegression'[r]].regression = RegressionOfSlot(byRegression[r])
      BY <1>1, <3>1, <3>4 DEF RegressionOfSlot
    <3> QED
      BY <3>1, <3>2, <3>4, <3>5
  <2>5. IF {} \in SingletonRegressions
        THEN emptySlot' \in InUse' /\ counterGroups'[emptySlot'].regression = {}
        ELSE emptySlot' = NoSlot
    <3>1. CASE {} \in SingletonRegressions
      <4>1. emptySlot \in InUse' /\ RegressionOfSlot(emptySlot) = {}
        BY <1>1, <1>5, <3>1 DEF CountersInv, IndexInv
      <4> QED
        BY <1>1, <1>2, <3>1, <4>1 DEF RegressionOfSlot
    <3>2. CASE {} \notin SingletonRegressions
      BY <1>2, <3>2 DEF CountersInv, IndexInv
    <3> QED
      BY <3>1, <3>2
  <2> QED
    BY <2>2, <2>3, <2>4, <2>5 DEF IndexInv, RegressionOfSlot
<1>7. FirstSlotsInv'
  <2>1. 1 .. NumSingletonCounterGroups \subseteq InUse'
    BY <1>1, <1>5
  <2>2. \A i \in 1 .. NumSingletonCounterGroups : RegressionOfSlot(i)' = RegressionOfSlot(i)
    BY <1>1, <2>1
  <2> QED
    BY <2>1, <2>2 DEF CountersInv, FirstSlotsInv
<1>8. LinksInv'
  <2>1. /\ c \in Conjunctions /\ c # DummyPrecondition
        /\ \A d \in Conjunctions \cup {DummyPrecondition} :
             regressionOf[d] = {i \in InUse : d \in counterGroups[i].waitsFor}
    BY <1>1, ConjunctionSizes, OneGroup DEF CountersInv, LinksInv, LinksAgree, DummyPrecondition
  <2>2. waiting = {i \in InUse' : c \in counterGroups[i].waitsFor}
    BY <1>1, <2>1 DEF waiting
  <2>3. ASSUME NEW d \in rest \cup {DummyPrecondition}
        PROVE  regressionOf'[d] = {i \in InUse' : d \in counterGroups'[i].waitsFor}
    <3>1. d # c /\ d \in Conjunctions \cup {DummyPrecondition}
      BY <2>1
    <3>2. regressionOf'[d] = {i \in waiting : d \in replacing[i]}
                               \cup (regressionOf[d] \ {i \in removed : d \in counterGroups[i].waitsFor})
      BY <1>2
    <3>3. regressionOf[d] = {i \in InUse : d \in counterGroups[i].waitsFor}
      BY <2>1, <3>1
    <3>4. ASSUME NEW i \in InUse', i \in waiting
          PROVE  d \in counterGroups'[i].waitsFor <=>
                   d \in counterGroups[i].waitsFor \/ d \in replacing[i]
      <4>1. counterGroups'[i].waitsFor = WithoutConjunction(counterGroups[i].waitsFor, c, rest)
        BY <1>1, <2>2, <3>4
      <4>2. replacing[i] = Replacements(counterGroups[i].waitsFor \ {c}, c, rest)
        BY <3>4 DEF replacing
      <4> QED
        BY <3>1, <4>1, <4>2 DEF WithoutConjunction
    <3>5. ASSUME NEW i \in InUse', i \notin waiting
          PROVE  counterGroups'[i].waitsFor = counterGroups[i].waitsFor
      BY <1>1, <2>2, <3>5
    <3> HIDE DEF rest
    <3> QED
      BY <1>1, <2>2, <3>2, <3>3, <3>4, <3>5
  <2>4. LinksAgree'
    BY <1>1, <2>3 DEF LinksAgree
  <2>5. ASSUME NEW i \in InUse'
        PROVE  IF RegressionOfSlot(i)' = {} THEN counterGroups'[i].waitsFor = {DummyPrecondition}
               ELSE counterGroups'[i].waitsFor \subseteq rest
    <3>1. i \in InUse /\ RegressionOfSlot(i)' = RegressionOfSlot(i)
      BY <1>1
    <3>2. IF RegressionOfSlot(i) = {} THEN counterGroups[i].waitsFor = {DummyPrecondition}
          ELSE counterGroups[i].waitsFor \subseteq Conjunctions
      BY <3>1 DEF CountersInv, LinksInv
    <3>3. c # DummyPrecondition
      BY <1>1, ConjunctionSizes, OneGroup DEF DummyPrecondition
    <3>4. CASE RegressionOfSlot(i) = {}
      BY <1>1, <3>1, <3>2, <3>3, <3>4
    <3>5. CASE RegressionOfSlot(i) # {}
      <4>1. WithoutConjunction(counterGroups[i].waitsFor, c, rest) \subseteq rest
        BY <3>2, <3>5 DEF WithoutConjunction, Replacements, NonDominatedWithin, NonDominated
      <4> HIDE DEF rest
      <4>2. c \notin counterGroups[i].waitsFor => counterGroups[i].waitsFor \subseteq rest
        BY <3>2, <3>5 DEF rest
      <4> QED
        BY <1>1, <3>1, <3>5, <4>1, <4>2
    <3> QED
      BY <3>4, <3>5
  <2>6. DOMAIN regressionOf' = rest \cup {DummyPrecondition}
    BY <1>2
  <2> QED
    BY <1>1, <2>4, <2>5, <2>6 DEF LinksInv
<1>9. numCounters' = Cardinality(CountersOf(Conjunctions'))
  <2>1. /\ c \in Singletons \cup Learnable /\ rest \in SUBSET (Singletons \cup Learnable)
        /\ {c} \in SUBSET (Singletons \cup Learnable)
    BY <1>1, OneGroup
  <2>2. rest \cup {c} = Conjunctions /\ rest \cap {c} = {}
    BY <1>1
  <2>3. DOMAIN slotsOf[c] = CounterActions(c)
    BY <1>1 DEF CountersInv, MembersInv
  <2>4. numCounters = Cardinality(CountersOf(Conjunctions))
    BY DEF CountersInv
  <2>5. Cardinality(CountersOf({c})) = Cardinality(CounterActions(c))
    BY <2>1, CountersOfOne
  <2>6. /\ Cardinality(CountersOf(rest \cup {c}))
             = Cardinality(CountersOf(rest)) + Cardinality(CountersOf({c}))
        /\ Cardinality(CountersOf(rest)) \in Nat /\ Cardinality(CountersOf({c})) \in Nat
    <3> HIDE DEF rest
    <3> QED
      BY <2>1, <2>2, CountersAddUp
  <2>7. Cardinality(CountersOf(rest \cup {c})) = Cardinality(CountersOf(Conjunctions))
    BY <2>2, Zenon
  <2>8. numCounters' = numCounters - Cardinality(CountersOf({c}))
    BY <1>2, <2>3, <2>5, Zenon
  <2>9. Cardinality(CountersOf(Conjunctions')) = Cardinality(CountersOf(rest))
    BY <1>1, Zenon
  <2> HIDE DEF rest
  <2>10. \A x, y \in Nat : \A n, n2 : n = x + y /\ n2 = n - y => n2 = x
    OBVIOUS
  <2>11. numCounters = Cardinality(CountersOf(rest)) + Cardinality(CountersOf({c}))
    BY <2>4, <2>6, <2>7, Zenon
  <2>12. numCounters' = Cardinality(CountersOf(rest))
    BY <2>6, <2>8, <2>10, <2>11, Zenon
  <2> QED
    BY <2>9, <2>12, Zenon
<1> QED
  BY <1>1, <1>4, <1>6, <1>7, <1>8, <1>9 DEF CountersInv, CountersOf, Regressions

\* remove_all_conjunctions keeps the invariant.
LEMMA ForgetAllCounters ==
  ASSUME CountersInv, RemoveAllConjunctions
  PROVE  CountersInv'
<1> DEFINE slots     == 1 .. NumSingletonCounterGroups
           forgotten == {RegressionOfSlot(i) : i \in InUse \ slots}
           N == NumSingletonCounterGroups
<1>1. /\ learned' = {}
      /\ counterGroups' = [i \in slots |-> SingletonGroup(counterGroups[i])]
      /\ unused' = {}
      /\ byRegression' = Restrict(byRegression, DOMAIN byRegression \ forgotten)
      /\ emptySlot' = emptySlot
      /\ slotsOf' = Restrict(slotsOf, Singletons)
      /\ regressionOf' = [c \in Singletons \cup {DummyPrecondition} |->
           IF c = DummyPrecondition THEN regressionOf[c]
           ELSE {i \in slots : c \subseteq counterGroups[i].regression}]
      /\ numCounters' = NumSingletonCounters
  BY DEF RemoveAllConjunctions, RegressionOfSlot
<1>2. /\ Conjunctions \in SUBSET (Singletons \cup Learnable) /\ Singletons \subseteq Conjunctions
      /\ \A i, j \in InUse : RegressionOfSlot(i) = RegressionOfSlot(j) => i = j
      /\ \A i \in InUse : RegressionOfSlot(i) \in SUBSET Facts /\ counterGroups[i] \in Group
      /\ {} \in SingletonRegressions => emptySlot \in slots
  BY OneGroup
<1>3. N \in Nat
  BY SingletonRegressionsFinite, FS_CardinalityType DEF NumSingletonCounterGroups
<1>4. /\ slots \subseteq InUse
      /\ \A i \in slots : RegressionOfSlot(i) \in SingletonRegressions
      /\ \A r \in SingletonRegressions : \E i \in slots : RegressionOfSlot(i) = r
  BY DEF CountersInv, FirstSlotsInv
<1>5. Conjunctions' = Singletons
  BY <1>1 DEF Conjunctions
<1>6. \A c \in Conjunctions : Cardinality(c) <= 1 <=> c \in Singletons
  <2>1. ASSUME NEW c \in Conjunctions PROVE Cardinality(c) <= 1 <=> c \in Singletons
    <3>1. CASE c \in Singletons
      BY <3>1, ConjunctionSizes
    <3>2. CASE c \notin Singletons
      <4>1. c \in Learnable /\ Cardinality(c) > 1
        BY <1>2, <3>2, ConjunctionSizes
      <4>2. Cardinality(c) \in Nat
        <5>1. c \in SUBSET Facts /\ IsFiniteSet(Facts)
          BY <1>2, FinitelyMany, RegressionAssumption DEF RegressionAssumption
        <5> QED
          BY <5>1, FS_Subset, FS_CardinalityType
      <4> QED
        BY <3>2, <4>1, <4>2
    <3> QED
      BY <3>1, <3>2
  <2> QED
    BY <2>1
<1>7. \A i \in slots : \A k \in counterGroups[i].group :
        /\ k[2] \in Conjunctions /\ k[1] \in CounterActions(k[2])
        /\ slotsOf[k[2]][k[1]] = i
  BY <1>4 DEF CountersInv, MembersInv
<1>8. ASSUME NEW i \in slots
      PROVE  /\ counterGroups'[i] \in Group
             /\ counterGroups'[i].regression = RegressionOfSlot(i)
             /\ counterGroups'[i].group = {k \in counterGroups[i].group : k[2] \in Singletons}
             /\ counterGroups'[i].waitsFor = IF RegressionOfSlot(i) = {} THEN {DummyPrecondition}
                                             ELSE {{f} : f \in RegressionOfSlot(i)}
  <2>1. /\ counterGroups'[i].regression = RegressionOfSlot(i)
        /\ counterGroups'[i].group = {k \in counterGroups[i].group : Cardinality(k[2]) <= 1}
        /\ counterGroups'[i].waitsFor = IF RegressionOfSlot(i) = {} THEN counterGroups[i].waitsFor
                                        ELSE {{f} : f \in RegressionOfSlot(i)}
        /\ counterGroups'[i] = [regression |-> counterGroups'[i].regression,
                                group      |-> counterGroups'[i].group,
                                waitsFor   |-> counterGroups'[i].waitsFor]
    BY <1>1 DEF SingletonGroup, RegressionOfSlot
  <2>2. counterGroups'[i].group = {k \in counterGroups[i].group : k[2] \in Singletons}
    BY <1>6, <1>7, <2>1
  <2>3. RegressionOfSlot(i) = {} => counterGroups[i].waitsFor = {DummyPrecondition}
    BY <1>4 DEF CountersInv, LinksInv
  <2>4. RegressionOfSlot(i) \in SUBSET Facts /\ counterGroups[i] \in Group
    BY <1>2, <1>4
  <2>5. counterGroups'[i].group \in SUBSET (Actions \X (Singletons \cup Learnable))
    BY <2>2, <2>4 DEF Group
  <2>6. counterGroups'[i].waitsFor \in SUBSET (Singletons \cup Learnable \cup {DummyPrecondition})
    BY <2>1, <2>3, <2>4 DEF Singletons
  <2>7. counterGroups'[i] \in Group
    BY <2>1, <2>4, <2>5, <2>6 DEF Group
  <2> QED
    BY <2>1, <2>2, <2>3, <2>7
<1>9. Len(counterGroups') = N /\ counterGroups' \in Seq(Group) /\ InUse' = slots
  <2>1. counterGroups' \in [slots -> Group]
    BY <1>1, <1>8
  <2>2. Len(counterGroups') = N /\ counterGroups' \in Seq(Group)
    BY <1>3, <2>1
  <2> QED
    BY <1>1, <2>2 DEF InUse
<1>10. SlotsInv'
  BY <1>1, <1>3, <1>9 DEF SlotsInv
<1>11. MembersInv'
  <2>1. DOMAIN slotsOf' = Singletons /\ \A d \in Singletons : slotsOf'[d] = slotsOf[d]
    BY <1>1 DEF Restrict
  <2>2. ASSUME NEW d \in Singletons
        PROVE  /\ slotsOf'[d] \in [CounterActions(d) -> InUse']
               /\ \A a \in CounterActions(d) :
                    /\ <<a, d>> \in counterGroups'[slotsOf'[d][a]].group
                    /\ counterGroups'[slotsOf'[d][a]].regression = Regression(a, d)
    <3>1. d \in Conjunctions /\ slotsOf'[d] = slotsOf[d]
      BY <1>2, <2>1
    <3>2. /\ slotsOf[d] \in [CounterActions(d) -> InUse]
          /\ \A a \in CounterActions(d) :
               /\ <<a, d>> \in counterGroups[slotsOf[d][a]].group
               /\ RegressionOfSlot(slotsOf[d][a]) = Regression(a, d)
      BY <3>1 DEF CountersInv, MembersInv
    <3>3. ASSUME NEW a \in CounterActions(d)
          PROVE  slotsOf[d][a] \in slots /\ <<a, d>> \in counterGroups'[slotsOf[d][a]].group
                 /\ counterGroups'[slotsOf[d][a]].regression = Regression(a, d)
      <4>1. <<a, d>> \in SingletonCounters
        BY CountersByConjunction DEF SingletonCounters
      <4>2. Regression(a, d) \in SingletonRegressions
        BY <4>1 DEF SingletonRegressions, RegressionOfCounter
      <4>3. PICK j \in slots : RegressionOfSlot(j) = Regression(a, d)
        BY <1>4, <4>2
      <4>4. slotsOf[d][a] = j
        BY <1>2, <1>4, <3>2, <4>3
      <4> QED
        BY <1>8, <3>2, <4>4
    <3> QED
      BY <1>9, <3>1, <3>2, <3>3
  <2>3. ASSUME NEW i \in slots, NEW k \in counterGroups'[i].group
        PROVE  /\ k[2] \in Singletons /\ k[1] \in CounterActions(k[2]) /\ slotsOf'[k[2]][k[1]] = i
    <3>1. k \in counterGroups[i].group /\ k[2] \in Singletons
      BY <1>8
    <3>2. k[1] \in CounterActions(k[2]) /\ slotsOf[k[2]][k[1]] = i
      BY <1>7, <3>1
    <3> QED
      BY <2>1, <3>1, <3>2
  <2> HIDE DEF slots
  <2> QED
    BY <1>5, <1>9, <2>1, <2>2, <2>3 DEF MembersInv, RegressionOfSlot, CounterActions, Regressions,
       ComputeRegressions
<1>12. IndexInv'
  <2>1. /\ DOMAIN byRegression' = DOMAIN byRegression \ forgotten
        /\ \A r \in DOMAIN byRegression \ forgotten : byRegression'[r] = byRegression[r]
        /\ byRegression' = [r \in DOMAIN byRegression' |-> byRegression'[r]]
    <3> HIDE DEF forgotten
    <3> QED
      BY <1>1 DEF Restrict
  <2>2. ASSUME NEW i \in slots
        PROVE  IF RegressionOfSlot(i) = {} THEN emptySlot' = i
               ELSE RegressionOfSlot(i) \in DOMAIN byRegression'
                    /\ byRegression'[RegressionOfSlot(i)] = i
    <3>1. RegressionOfSlot(i) \notin forgotten /\ i \in InUse
      BY <1>2, <1>4
    <3>2. IF RegressionOfSlot(i) = {} THEN emptySlot = i
          ELSE RegressionOfSlot(i) \in DOMAIN byRegression /\ byRegression[RegressionOfSlot(i)] = i
      BY <3>1 DEF CountersInv, IndexInv
    <3> HIDE DEF forgotten
    <3> QED
      BY <1>1, <2>1, <3>1, <3>2
  <2>3. ASSUME NEW r \in DOMAIN byRegression'
        PROVE  r # {} /\ byRegression'[r] \in slots /\ RegressionOfSlot(byRegression'[r]) = r
    <3>1. r \in DOMAIN byRegression /\ r \notin forgotten /\ byRegression'[r] = byRegression[r]
      <4> HIDE DEF forgotten
      <4> QED
        BY <2>1
    <3>2. r # {} /\ byRegression[r] \in InUse /\ RegressionOfSlot(byRegression[r]) = r
      BY <3>1 DEF CountersInv, IndexInv
    <3>3. byRegression[r] \in slots
      BY <3>1, <3>2
    <3> QED
      BY <3>1, <3>2, <3>3
  <2>4. IF {} \in SingletonRegressions
        THEN emptySlot' \in slots /\ RegressionOfSlot(emptySlot') = {}
        ELSE emptySlot' = NoSlot
    BY <1>1, <1>2 DEF CountersInv, IndexInv
  <2>5. \A i \in slots : counterGroups'[i].regression = RegressionOfSlot(i)
    BY <1>8
  <2> HIDE DEF slots, forgotten
  <2>6. \A i \in InUse' : RegressionOfSlot(i)' = counterGroups'[i].regression
    BY DEF RegressionOfSlot
  <2>7. \A i \in InUse' :
          IF RegressionOfSlot(i)' = {} THEN emptySlot' = i
          ELSE RegressionOfSlot(i)' \in DOMAIN byRegression' /\ byRegression'[RegressionOfSlot(i)'] = i
    BY <1>9, <2>2, <2>5, <2>6
  <2>8. \A r \in DOMAIN byRegression' :
          r # {} /\ byRegression'[r] \in InUse' /\ counterGroups'[byRegression'[r]].regression = r
    BY <1>9, <2>3, <2>5
  <2>9. IF {} \in SingletonRegressions
        THEN emptySlot' \in InUse' /\ counterGroups'[emptySlot'].regression = {}
        ELSE emptySlot' = NoSlot
    BY <1>9, <2>4, <2>5
  <2> QED
    BY <2>1, <2>7, <2>8, <2>9 DEF IndexInv, RegressionOfSlot
<1>13. FirstSlotsInv'
  <2>1. \A i \in slots : RegressionOfSlot(i)' = RegressionOfSlot(i)
    BY <1>8 DEF RegressionOfSlot
  <2> QED
    BY <1>4, <1>9, <2>1 DEF FirstSlotsInv
<1>14. LinksInv'
  <2>1. DOMAIN regressionOf' = Conjunctions' \cup {DummyPrecondition}
    BY <1>1, <1>5
  <2>2. ASSUME NEW i \in slots, NEW c \in Singletons
        PROVE  c \in counterGroups'[i].waitsFor <=> c \subseteq RegressionOfSlot(i)
    <3>1. PICK f \in Facts : c = {f}
      BY DEF Singletons
    <3>2. c # DummyPrecondition
      BY <3>1 DEF DummyPrecondition
    <3>3. CASE RegressionOfSlot(i) = {}
      BY <1>8, <3>1, <3>2, <3>3
    <3>4. CASE RegressionOfSlot(i) # {}
      <4>1. counterGroups'[i].waitsFor = {{g} : g \in RegressionOfSlot(i)}
        BY <1>8, <3>4
      <4> QED
        BY <3>1, <4>1
    <3> QED
      BY <3>3, <3>4
  <2>3. \A i \in slots : DummyPrecondition \in counterGroups'[i].waitsFor <=> RegressionOfSlot(i) = {}
    <3> SUFFICES ASSUME NEW i \in slots
                 PROVE  DummyPrecondition \in counterGroups'[i].waitsFor <=> RegressionOfSlot(i) = {}
      OBVIOUS
    <3>1. CASE RegressionOfSlot(i) = {}
      BY <1>8, <3>1
    <3>2. CASE RegressionOfSlot(i) # {}
      <4>1. counterGroups'[i].waitsFor = {{g} : g \in RegressionOfSlot(i)}
        BY <1>8, <3>2
      <4> QED
        BY <3>2, <4>1 DEF DummyPrecondition
    <3> QED
      BY <3>1, <3>2
  <2>4. \A i \in InUse : RegressionOfSlot(i) = {} => i \in slots
    <3> SUFFICES ASSUME NEW i \in InUse, RegressionOfSlot(i) = {} PROVE i \in slots
      OBVIOUS
    <3>1. emptySlot = i /\ i # NoSlot
      BY DEF CountersInv, IndexInv, InUse, NoSlot
    <3> QED
      BY <1>2, <3>1 DEF CountersInv, IndexInv
  <2>5. \A i \in InUse : DummyPrecondition \in counterGroups[i].waitsFor <=> RegressionOfSlot(i) = {}
    <3>1. DummyPrecondition \notin Conjunctions
      BY <1>2, ConjunctionSizes DEF DummyPrecondition
    <3> QED
      BY <3>1 DEF CountersInv, LinksInv
  <2>6. regressionOf'[DummyPrecondition] = {i \in slots : DummyPrecondition \in counterGroups'[i].waitsFor}
    <3>1. regressionOf'[DummyPrecondition] = regressionOf[DummyPrecondition]
      BY <1>1
    <3>2. regressionOf[DummyPrecondition] = {i \in InUse : DummyPrecondition \in counterGroups[i].waitsFor}
      BY DEF CountersInv, LinksInv, LinksAgree
    <3> QED
      BY <1>4, <2>3, <2>4, <2>5, <3>1, <3>2
  <2>7. ASSUME NEW c \in Singletons
        PROVE  regressionOf'[c] = {i \in slots : c \in counterGroups'[i].waitsFor}
    <3>1. c # DummyPrecondition
      BY ConjunctionSizes DEF DummyPrecondition
    <3>2. regressionOf'[c] = {i \in slots : c \subseteq RegressionOfSlot(i)}
      BY <1>1, <3>1 DEF RegressionOfSlot
    <3> QED
      BY <2>2, <3>2
  <2>8. LinksAgree'
    BY <1>5, <1>9, <2>6, <2>7 DEF LinksAgree
  <2>9. \A i \in slots :
          IF RegressionOfSlot(i) = {} THEN counterGroups'[i].waitsFor = {DummyPrecondition}
          ELSE counterGroups'[i].waitsFor \subseteq Singletons
    <3> SUFFICES ASSUME NEW i \in slots, RegressionOfSlot(i) # {}
                 PROVE  counterGroups'[i].waitsFor \subseteq Singletons
      BY <1>8
    <3>1. counterGroups'[i].waitsFor = {{g} : g \in RegressionOfSlot(i)}
      BY <1>8
    <3>2. RegressionOfSlot(i) \in SUBSET Facts
      BY <1>2, <1>4
    <3> QED
      BY <3>1, <3>2 DEF Singletons
  <2>10. \A i \in slots : RegressionOfSlot(i)' = RegressionOfSlot(i)
    BY <1>8 DEF RegressionOfSlot
  <2> HIDE DEF slots
  <2> QED
    BY <1>5, <1>9, <2>1, <2>8, <2>9, <2>10 DEF LinksInv
<1>15. numCounters' = Cardinality(CountersOf(Conjunctions'))
  BY <1>1, <1>5, Zenon DEF NumSingletonCounters, SingletonCounters
<1> QED
  BY <1>10, <1>11, <1>12, <1>13, <1>14, <1>15 DEF CountersInv, CountersOf, Regressions

-----------------------------------------------------------------------------
\* The slots add_counter_group hands out one after the other are all different and free,
\* and those beyond the end of the vector come without a gap.
LEMMA NextSlots ==
  ASSUME SlotsInv
  PROVE  /\ Cardinality(unused) \in Nat /\ Len(counterGroups) \in Nat
         /\ \A n \in Nat \ {0} :
              /\ NextSlot(n) \in Nat \ {0} /\ NextSlot(n) \notin InUse
              /\ n <= Cardinality(unused) => NextSlot(n) \in unused
              /\ n > Cardinality(unused)
                   => NextSlot(n) = Len(counterGroups) + n - Cardinality(unused)
         /\ \A m, n \in Nat \ {0} : NextSlot(m) = NextSlot(n) => m = n
<1> DEFINE N == Len(counterGroups)
           u == Cardinality(unused)
           Ge == {p \in unused \X unused : p[1] >= p[2]}
           rank == Ranks(Ge, unused)
<1>1. N \in Nat /\ unused \subseteq 1 .. N
  BY DEF SlotsInv
<1>2. IsFiniteSet(unused)
  <2>1. IsFiniteSet(1 .. N) /\ unused \in SUBSET (1 .. N)
    BY <1>1, FS_Interval
  <2> QED
    BY <2>1, FS_Subset
<1>3. u \in Nat
  BY <1>2, FS_CardinalityType
<1>4. \A i, j \in unused : <<i, j>> \in Ge <=> i >= j
  OBVIOUS
<1>5. rank \in Bijection(unused, 1 .. u)
  <2>1. TotallyOrders(Ge, unused)
    <3>1. \A x \in unused : x \in Nat
      BY <1>1
    <3> HIDE DEF Ge
    <3> QED
      BY <1>4, <3>1 DEF TotallyOrders
  <2> HIDE DEF Ge
  <2> QED
    BY <1>2, <2>1, RankIsBijection
<1>6. ASSUME NEW i \in unused
      PROVE  rank[i] = Cardinality({j \in unused : j >= i})
  <2>1. {j \in unused : <<j, i>> \in Ge} = {j \in unused : j >= i}
    <3> HIDE DEF Ge
    <3> QED
      BY <1>4
  <2>2. rank[i] = Cardinality({j \in unused : <<j, i>> \in Ge})
    <3> HIDE DEF Ge
    <3> QED
      BY DEF Ranks
  <2> QED
    BY <2>1, <2>2, Zenon
<1> HIDE DEF rank
<1>7. ASSUME NEW n \in 1 .. u
      PROVE  NextSlot(n) \in unused /\ Cardinality({j \in unused : j >= NextSlot(n)}) = n
  <2>1. PICK i \in unused : rank[i] = n
    BY <1>5 DEF Bijection, Surjection
  <2>2. Cardinality({j \in unused : j >= i}) = n
    BY <1>6, <2>1, Zenon
  <2>3. NextSlot(n) = CHOOSE k \in unused : Cardinality({j \in unused : j >= k}) = n
    BY <1>3 DEF NextSlot
  <2> QED
    BY <2>2, <2>3, Zenon
<1>8. ASSUME NEW n \in Nat \ {0}, n > u
      PROVE  NextSlot(n) = N + n - u
  BY <1>3, <1>8 DEF NextSlot
<1>9. ASSUME NEW n \in Nat \ {0}
      PROVE  /\ NextSlot(n) \in Nat \ {0} /\ NextSlot(n) \notin InUse
             /\ n <= u => NextSlot(n) \in unused /\ NextSlot(n) <= N
             /\ n > u => NextSlot(n) > N
  <2>1. CASE n <= u
    <3>1. n \in 1 .. u
      <4> HIDE DEF u
      <4> QED
        BY <1>3, <2>1
    <3>2. NextSlot(n) \in unused
      BY <1>7, <3>1
    <3>3. NextSlot(n) \in 1 .. N /\ ~(n > u)
      <4>1. NextSlot(n) \in 1 .. N
        BY <1>1, <3>2
      <4>2. ~(n > u)
        <5> HIDE DEF u
        <5> QED
          BY <1>3, <3>1
      <4> QED
        BY <4>1, <4>2
    <3>4. NextSlot(n) \notin InUse
      BY <3>2 DEF InUse
    <3> HIDE DEF u, N
    <3> QED
      BY <1>1, <3>2, <3>3, <3>4
  <2>2. CASE n > u
    <3>1. NextSlot(n) = N + n - u
      BY <1>8, <2>2
    <3> HIDE DEF N, u
    <3>2. NextSlot(n) > N /\ NextSlot(n) \in Nat
      BY <1>1, <1>3, <2>2, <3>1
    <3>3. InUse \subseteq 1 .. N
      BY DEF InUse, N
    <3> QED
      BY <1>1, <1>3, <2>2, <3>2, <3>3
  <2> QED
    BY <1>3, <2>1, <2>2
<1>10. ASSUME NEW m \in Nat \ {0}, NEW n \in Nat \ {0}, NextSlot(m) = NextSlot(n)
       PROVE  m = n
  <2>1. CASE m <= u /\ n <= u
    <3>1. m \in 1 .. u /\ n \in 1 .. u
      BY <1>3, <2>1
    <3>2. /\ Cardinality({j \in unused : j >= NextSlot(m)}) = m
          /\ Cardinality({j \in unused : j >= NextSlot(n)}) = n
      BY <1>7, <3>1
    <3> QED
      BY <1>10, <3>2, Zenon
  <2>2. CASE m > u /\ n > u
    <3>1. N + m - u = N + n - u
      BY <1>8, <1>10, <2>2
    <3> HIDE DEF N, u
    <3> QED
      BY <1>1, <1>3, <3>1
  <2>3. CASE m <= u /\ n > u
    BY <1>1, <1>9, <1>10, <2>3
  <2>4. CASE m > u /\ n <= u
    BY <1>1, <1>9, <1>10, <2>4
  <2> QED
    BY <1>3, <2>1, <2>2, <2>3, <2>4
<1> QED
  BY <1>1, <1>3, <1>8, <1>9, <1>10

\* The slots of the groups that new conjunctions need: one free slot for each regression
\* that has no group yet, and none skipped beyond the end of the vector.
LEMMA SlotsForFresh ==
  ASSUME CountersInv, NEW n \in Nat, NEW factsets \in [1 .. n -> Learnable \ learned],
         \A i, j \in 1 .. n : factsets[i] = factsets[j] => i = j
  PROVE  LET slot  == SlotsFor(factsets)
             added == CountersOf(Range(factsets))
         IN  /\ DOMAIN slot = {RegressionOfCounter(k) : k \in added}
                                \ {RegressionOfSlot(i) : i \in InUse}
             /\ slot \in [DOMAIN slot -> Nat \ {0}]
             /\ \A r \in DOMAIN slot : slot[r] \notin InUse
             /\ \A q, r \in DOMAIN slot : slot[q] = slot[r] => q = r
             /\ \E m \in Nat : \A r \in DOMAIN slot : slot[r] <= m
             /\ \A r \in DOMAIN slot : \A i \in Nat :
                  Len(counterGroups) < i /\ i <= slot[r] => \E q \in DOMAIN slot : slot[q] = i
<1> DEFINE added == CountersOf(Range(factsets))
           known == DOMAIN byRegression \cup (IF emptySlot = NoSlot THEN {} ELSE {{}})
           fresh == {RegressionOfCounter(k) : k \in added} \ known
           Position(k) == CHOOSE i \in DOMAIN factsets : factsets[i] = k[2]
           Before(k, l) == \/ Position(k) < Position(l)
                           \/ Position(k) = Position(l) /\ k[1] <= l[1]
           first == {k \in added : /\ RegressionOfCounter(k) \in fresh
                                   /\ \A l \in added : RegressionOfCounter(l) = RegressionOfCounter(k)
                                                         => Before(k, l)}
           FirstOf(r) == CHOOSE k \in first : RegressionOfCounter(k) = r
           slot == [r \in fresh |-> NextSlot(Cardinality({l \in first : Before(l, FirstOf(r))}))]
           Order == {p \in added \X added : Before(p[1], p[2])}
<1>1. SlotsFor(factsets) = slot
  BY DEF SlotsFor
<1>2. known = {RegressionOfSlot(i) : i \in InUse}
  <2>1. ASSUME NEW i \in InUse PROVE RegressionOfSlot(i) \in known
    <3>1. i # NoSlot
      BY DEF InUse, NoSlot
    <3> QED
      BY <3>1 DEF CountersInv, IndexInv
  <2>2. ASSUME NEW r \in known PROVE \E i \in InUse : RegressionOfSlot(i) = r
    BY DEF CountersInv, IndexInv
  <2> HIDE DEF known
  <2> QED
    BY <2>1, <2>2
<1>3. Range(factsets) \in SUBSET (Singletons \cup Learnable) /\ IsFiniteSet(added)
  <2>1. Range(factsets) \in SUBSET (Singletons \cup Learnable)
    BY DEF Range
  <2> QED
    BY <2>1, FinitelyMany
<1>4. \A k \in added : /\ k = <<k[1], k[2]>> /\ k[1] \in Nat /\ k[2] \in Range(factsets)
                       /\ Position(k) \in 1 .. n /\ factsets[Position(k)] = k[2]
  <2> SUFFICES ASSUME NEW k \in added
               PROVE  /\ k = <<k[1], k[2]>> /\ k[1] \in Nat /\ k[2] \in Range(factsets)
                      /\ Position(k) \in 1 .. n /\ factsets[Position(k)] = k[2]
    OBVIOUS
  <2>1. k = <<k[1], k[2]>>
    BY <1>3, CountersByConjunction
  <2>2. k[2] \in Range(factsets) /\ k[1] \in CounterActions(k[2])
    <3> HIDE DEF added
    <3>1. <<k[1], k[2]>> \in CountersOf(Range(factsets))
      BY <2>1 DEF added
    <3> QED
      BY <1>3, <3>1, CountersByConjunction
  <2>3. k[1] \in Nat
    BY <1>3, <2>2, CountersByConjunction, RegressionAssumption DEF RegressionAssumption
  <2>4. \E i \in DOMAIN factsets : factsets[i] = k[2]
    BY <2>2 DEF Range
  <2>5. Position(k) \in DOMAIN factsets /\ factsets[Position(k)] = k[2]
    BY <2>4
  <2> HIDE DEF Position
  <2> QED
    BY <2>1, <2>2, <2>3, <2>5
<1> HIDE DEF added, Position
<1>5. TotallyOrders(Order, added)
  <2>1. \A k, l \in added : <<k, l>> \in Order <=> Before(k, l)
    BY DEF Order
  <2>2. ASSUME NEW k \in added, NEW l \in added, Before(k, l), Before(l, k) PROVE k = l
    <3>1. Position(k) = Position(l) /\ k[1] = l[1]
      BY <1>4, <2>2
    <3>2. k[2] = l[2]
      BY <1>4, <3>1
    <3>3. k = <<k[1], k[2]>> /\ l = <<l[1], l[2]>>
      BY <1>4
    <3> QED
      BY <3>1, <3>2, <3>3, Zenon
  <2>3. \A k \in added : Before(k, k)
    BY <1>4
  <2>4. \A k, l \in added : Before(k, l) \/ Before(l, k)
    BY <1>4
  <2>5. \A k, l, m \in added : Before(k, l) /\ Before(l, m) => Before(k, m)
    BY <1>4
  <2> HIDE DEF Order, Before
  <2> QED
    BY <2>1, <2>2, <2>3, <2>4, <2>5 DEF TotallyOrders
<1> HIDE DEF known, Before, fresh
<1>6. \A k, l \in added : <<k, l>> \in Order <=> Before(k, l)
  BY DEF Order
<1> HIDE DEF Order
<1>7. ASSUME NEW S \in SUBSET added
      PROVE  IsFiniteSet(S) /\ TotallyOrders(Order, S)
  BY <1>3, <1>5, FS_Subset DEF TotallyOrders
<1>8. \A r \in fresh : FirstOf(r) \in first /\ RegressionOfCounter(FirstOf(r)) = r
  <2> SUFFICES ASSUME NEW r \in fresh PROVE \E k \in first : RegressionOfCounter(k) = r
    OBVIOUS
  <2> DEFINE S == {k \in added : RegressionOfCounter(k) = r}
  <2>1. S # {} /\ S \in SUBSET added
    BY DEF fresh
  <2> HIDE DEF S
  <2>2. PICK k \in S : \A l \in S : <<k, l>> \in Order
    BY <1>7, <2>1, FirstInOrder
  <2>3. k \in added /\ RegressionOfCounter(k) = r
    BY <2>2 DEF S
  <2>4. \A l \in added : RegressionOfCounter(l) = r => Before(k, l)
    BY <1>6, <2>2, <2>3 DEF S
  <2> QED
    BY <2>3, <2>4
<1>9. \A k, l \in first : RegressionOfCounter(k) = RegressionOfCounter(l) => k = l
  <2> SUFFICES ASSUME NEW k \in first, NEW l \in first, RegressionOfCounter(k) = RegressionOfCounter(l)
               PROVE  k = l
    OBVIOUS
  <2>1. k \in added /\ l \in added /\ Before(k, l) /\ Before(l, k)
    OBVIOUS
  <2> QED
    BY <1>5, <1>6, <2>1 DEF TotallyOrders
<1>10. first \in SUBSET added /\ \A k \in first : RegressionOfCounter(k) \in fresh
  OBVIOUS
<1> DEFINE M == Cardinality(first)
           rank == Ranks(Order, first)
<1> HIDE DEF first, FirstOf
<1>11. rank \in Bijection(first, 1 .. M) /\ M \in Nat
  BY <1>7, <1>10, RankIsBijection, FS_CardinalityType
<1>12. ASSUME NEW r \in fresh PROVE slot[r] = NextSlot(rank[FirstOf(r)])
  <2>1. {l \in first : Before(l, FirstOf(r))} = {l \in first : <<l, FirstOf(r)>> \in Order}
    BY <1>6, <1>8, <1>10
  <2>2. rank[FirstOf(r)] = Cardinality({l \in first : <<l, FirstOf(r)>> \in Order})
    BY <1>8 DEF Ranks
  <2>3. slot[r] = NextSlot(Cardinality({l \in first : Before(l, FirstOf(r))}))
    OBVIOUS
  <2> QED
    BY <2>1, <2>2, <2>3, Zenon
<1>13. DOMAIN slot = fresh /\ slot = [r \in fresh |-> slot[r]]
  OBVIOUS
<1> HIDE DEF slot, rank, M
<1>14. \A k \in first : rank[k] \in 1 .. M /\ rank[k] \in Nat \ {0} /\ rank[k] <= M
  BY <1>11 DEF Bijection, Injection
<1>15. \A k, l \in first : rank[k] = rank[l] => k = l
  BY <1>11 DEF Bijection, Injection, IsInjective
<1>16. \A i \in 1 .. M : \E k \in first : rank[k] = i
  BY <1>11 DEF Bijection, Surjection
<1> DEFINE N == Len(counterGroups)
           u == Cardinality(unused)
<1>17. /\ u \in Nat /\ N \in Nat
       /\ \A i \in Nat \ {0} :
            /\ NextSlot(i) \in Nat \ {0} /\ NextSlot(i) \notin InUse
            /\ i <= u => NextSlot(i) \in unused
            /\ i > u => NextSlot(i) = N + i - u
       /\ \A i, j \in Nat \ {0} : NextSlot(i) = NextSlot(j) => i = j
       /\ unused \subseteq 1 .. N
  BY NextSlots DEF CountersInv, SlotsInv
<1> HIDE DEF N, u
<1>18. ASSUME NEW r \in fresh
       PROVE  slot[r] \in Nat \ {0} /\ slot[r] \notin InUse /\ slot[r] <= N + M
  <2> DEFINE i == rank[FirstOf(r)]
  <2>1. i \in Nat \ {0} /\ i <= M /\ slot[r] = NextSlot(i)
    BY <1>8, <1>12, <1>14
  <2> HIDE DEF i
  <2>2. CASE i <= u
    BY <1>11, <1>17, <2>1, <2>2
  <2>3. CASE i > u
    BY <1>11, <1>17, <2>1, <2>3
  <2> QED
    BY <1>17, <2>1, <2>2, <2>3
<1>19. ASSUME NEW q \in fresh, NEW r \in fresh, slot[q] = slot[r]
       PROVE  q = r
  <2>1. rank[FirstOf(q)] = rank[FirstOf(r)]
    BY <1>8, <1>12, <1>14, <1>17, <1>19
  <2>2. FirstOf(q) = FirstOf(r)
    BY <1>8, <1>15, <2>1
  <2> QED
    BY <1>8, <2>2
<1>20. ASSUME NEW r \in fresh, NEW i \in Nat, N < i, i <= slot[r]
       PROVE  \E q \in fresh : slot[q] = i
  <2> DEFINE j == rank[FirstOf(r)]
             m == i - N + u
  <2>1. j \in Nat \ {0} /\ j <= M /\ slot[r] = NextSlot(j)
    BY <1>8, <1>12, <1>14
  <2> HIDE DEF j
  <2>2. j > u
    <3>1. CASE j <= u
      BY <1>17, <1>20, <2>1, <3>1
    <3> QED
      BY <1>17, <2>1, <3>1
  <2>3. m \in Nat \ {0} /\ m <= j /\ m > u /\ N + m - u = i
    BY <1>17, <1>20, <2>1, <2>2
  <2>4. m \in 1 .. M
    <3> HIDE DEF m
    <3> QED
      BY <1>11, <2>1, <2>3
  <2> HIDE DEF m
  <2>5. PICK k \in first : rank[k] = m
    BY <1>16, <2>4
  <2>6. RegressionOfCounter(k) \in fresh
    BY <1>10
  <2>7. FirstOf(RegressionOfCounter(k)) = k
    BY <1>8, <1>9, <2>6
  <2>8. slot[RegressionOfCounter(k)] = NextSlot(m)
    BY <1>12, <2>5, <2>6, <2>7
  <2>9. NextSlot(m) = i
    BY <1>17, <2>3
  <2> QED
    BY <2>6, <2>8, <2>9
<1>21. N + M \in Nat
  BY <1>11, <1>17
<1>22. fresh = {RegressionOfCounter(k) : k \in added} \ {RegressionOfSlot(i) : i \in InUse}
  BY <1>2 DEF fresh
<1>23. slot \in [fresh -> Nat \ {0}]
  BY <1>13, <1>18
<1> QED
  BY <1>1, <1>13, <1>18, <1>19, <1>20, <1>21, <1>22, <1>23 DEF added, N

-----------------------------------------------------------------------------
\* What a group in use waits for after conjunctions have been added.
LEMMA UpdatedWaits ==
  ASSUME CountersInv, NEW new \in SUBSET Learnable, new # {}, NEW i \in InUse, NEW joined
  PROVE  /\ RegressionOfSlot(i) = {} =>
              UpdatedWaitsFor(i, new, joined) = counterGroups[i].waitsFor
         /\ RegressionOfSlot(i) # {} => UpdatedWaitsFor(i, new, joined) \subseteq Conjunctions \cup new
<1> DEFINE r == RegressionOfSlot(i)
           w == counterGroups[i].waitsFor
           c == CHOOSE c \in new : TRUE
<1>1. UpdatedWaitsFor(i, new, joined) =
        IF Cardinality(new) > 1
        THEN IF \E d \in new : d \subseteq r /\ \A e \in w : ~(d \subseteq e)
             THEN NonDominatedWithin(r, Conjunctions \cup new)
             ELSE w
        ELSE IF joined # {} \/ ~(c \subseteq r) THEN w ELSE WithConjunction(w, c)
  BY DEF UpdatedWaitsFor, RegressionOfSlot
<1>2. c \in new
  OBVIOUS
<1>3. \A d \in new : d # {}
  BY ConjunctionSizes
<1> HIDE DEF c
<1>4. CASE r = {}
  <2>1. ~\E d \in new : d \subseteq r
    BY <1>3, <1>4
  <2>2. ~(c \subseteq r)
    BY <1>2, <2>1
  <2> HIDE DEF r, w
  <2>3. UpdatedWaitsFor(i, new, joined) = w
    BY <1>1, <2>1, <2>2
  <2> QED
    BY <1>4, <2>3 DEF w, r
<1>5. CASE r # {}
  <2>1. w \subseteq Conjunctions
    BY <1>5 DEF CountersInv, LinksInv
  <2> HIDE DEF r, w
  <2>2. NonDominatedWithin(r, Conjunctions \cup new) \subseteq Conjunctions \cup new
    BY DEF NonDominatedWithin, NonDominated
  <2>3. WithConjunction(w, c) \subseteq Conjunctions \cup new
    BY <1>2, <2>1 DEF WithConjunction
  <2>4. UpdatedWaitsFor(i, new, joined) \subseteq Conjunctions \cup new
    BY <1>1, <2>1, <2>2, <2>3
  <2> QED
    BY <1>5, <2>4 DEF r
<1> QED
  BY <1>4, <1>5

\* The slots pushed and erased are where what a group waits for has changed.
LEMMA UpdatedLinks ==
  ASSUME NEW new, NEW i, NEW joined
  PROVE  \A d : d \in UpdatedWaitsFor(i, new, joined) <=>
           \/ d \in GainingLink(i, new, joined)
           \/ d \in counterGroups[i].waitsFor /\ d \notin LosingLink(i, new, joined)
<1> DEFINE w == counterGroups[i].waitsFor
           c == CHOOSE c \in new : TRUE
<1>1. CASE Cardinality(new) > 1
  BY <1>1 DEF GainingLink, LosingLink
<1>2. CASE ~(Cardinality(new) > 1)
  <2>1. UpdatedWaitsFor(i, new, joined) =
          IF joined # {} \/ ~(c \subseteq counterGroups[i].regression) THEN w ELSE WithConjunction(w, c)
    BY <1>2 DEF UpdatedWaitsFor
  <2>2. /\ LosingLink(i, new, joined) = IF Enters(i, c, joined) THEN {d \in w : d \subseteq c} ELSE {}
        /\ GainingLink(i, new, joined) = IF Enters(i, c, joined) THEN {c} ELSE {}
    BY <1>2 DEF LosingLink, GainingLink
  <2> HIDE DEF c
  <2>3. CASE Enters(i, c, joined)
    <3>1. UpdatedWaitsFor(i, new, joined) = {d \in w : ~(d \subseteq c)} \cup {c}
      BY <2>1, <2>3 DEF Enters, WithConjunction
    <3> QED
      BY <2>2, <2>3, <3>1
  <2>4. CASE ~Enters(i, c, joined)
    <3>1. UpdatedWaitsFor(i, new, joined) = w
      BY <2>1, <2>4 DEF Enters, WithConjunction
    <3> QED
      BY <2>2, <2>4, <3>1
  <2> QED
    BY <2>3, <2>4
<1> QED
  BY <1>1, <1>2

\* What a group is made of.
LEMMA GroupType ==
  ASSUME NEW r \in SUBSET Facts, NEW g \in SUBSET (Actions \X (Singletons \cup Learnable)),
         NEW w \in SUBSET (Singletons \cup Learnable \cup {DummyPrecondition})
  PROVE  [regression |-> r, group |-> g, waitsFor |-> w] \in Group
BY DEF Group

\* add_conjunctions, where the groups end up and what they hold.
LEMMA LearnSlots ==
  ASSUME CountersInv, NEW n \in Nat \ {0}, NEW factsets \in [1 .. n -> Learnable \ learned],
         IsInjective(factsets), AddConjunctions(factsets)
  PROVE  LET new   == Range(factsets)
             added == CountersOf(new)
             slot  == SlotsFor(factsets)
             At(r) == SlotOf(slot, r)
             Joined(r) == {k \in added : RegressionOfCounter(k) = r}
         IN  /\ new \in SUBSET Learnable /\ new # {} /\ new \cap Conjunctions = {}
             /\ Conjunctions' = Conjunctions \cup new
             /\ SlotsInv'
             /\ InUse' = InUse \cup Range(slot) /\ InUse \cap Range(slot) = {}
             /\ \A r \in DOMAIN slot : r # {} /\ ~\E i \in InUse : RegressionOfSlot(i) = r
             /\ \A q, r \in DOMAIN slot : slot[q] = slot[r] => q = r
             /\ \A k \in added : RegressionOfCounter(k) \in DOMAIN slot
                  \/ \E i \in InUse : RegressionOfSlot(i) = RegressionOfCounter(k)
             /\ \A i \in InUse :
                  /\ At(RegressionOfSlot(i)) = i
                  /\ RegressionOfSlot(i)' = RegressionOfSlot(i)
                  /\ counterGroups'[i].group = counterGroups[i].group \cup Joined(RegressionOfSlot(i))
                  /\ \E joined \in {Joined(RegressionOfSlot(i))} :
                       counterGroups'[i].waitsFor = UpdatedWaitsFor(i, new, joined)
             /\ \A r \in DOMAIN slot :
                  counterGroups'[slot[r]] = [regression |-> r, group |-> Joined(r),
                                             waitsFor   |-> InitialWaitsFor(r, Conjunctions \cup new)]
<1> DEFINE new   == Range(factsets)
           all   == Conjunctions \cup new
           added == CountersOf(new)
           slot  == SlotsFor(factsets)
           fresh == DOMAIN slot
           taken == Range(slot)
           At(r) == IF r \in fresh THEN slot[r] ELSE IF r = {} THEN emptySlot ELSE byRegression[r]
           Joining(i) == {k \in added : At(RegressionOfCounter(k)) = i}
           Joined(r)  == {k \in added : RegressionOfCounter(k) = r}
           Created(r) == [regression |-> r, group |-> Joining(slot[r]),
                          waitsFor   |-> InitialWaitsFor(r, all)]
           Updated(i) == [regression |-> counterGroups[i].regression,
                          group      |-> counterGroups[i].group \cup Joining(i),
                          waitsFor   |-> UpdatedWaitsFor(i, new, Joining(i))]
           N == Len(counterGroups)
           size == Max({N} \cup taken)
<1>1. /\ learned' = learned \cup new
      /\ counterGroups' = [i \in 1 .. size |->
           IF i \in taken THEN Created(CHOOSE r \in fresh : slot[r] = i)
           ELSE IF i \in unused THEN counterGroups[i] ELSE Updated(i)]
      /\ unused' = unused \ taken
  BY DEF AddConjunctions
<1>2. /\ new \in SUBSET Learnable /\ new # {} /\ new \cap Conjunctions = {}
      /\ Conjunctions \in SUBSET (Singletons \cup Learnable)
  <2>1. factsets[1] \in new
    BY DEF Range
  <2>2. \A c \in new : c \in Learnable /\ c \notin learned
    BY DEF Range
  <2> HIDE DEF new
  <2>3. \A c \in new : c \notin Singletons
    BY <2>2, ConjunctionSizes
  <2> QED
    BY <2>1, <2>2, <2>3, OneGroup DEF Conjunctions
<1>3. Conjunctions' = all
  BY <1>1 DEF Conjunctions
<1>4. /\ fresh = {RegressionOfCounter(k) : k \in added} \ {RegressionOfSlot(i) : i \in InUse}
      /\ slot \in [fresh -> Nat \ {0}]
      /\ \A r \in fresh : slot[r] \notin InUse
      /\ \A q, r \in fresh : slot[q] = slot[r] => q = r
      /\ \E m \in Nat : \A r \in fresh : slot[r] <= m
      /\ \A r \in fresh : \A i \in Nat :
           N < i /\ i <= slot[r] => \E q \in fresh : slot[q] = i
  BY SlotsForFresh DEF IsInjective
<1> HIDE DEF slot
<1>5. taken = {slot[r] : r \in fresh} /\ taken \in SUBSET (Nat \ {0}) /\ taken \cap InUse = {}
  <2>1. taken = {slot[r] : r \in fresh}
    BY DEF Range
  <2>2. \A r \in fresh : slot[r] \in Nat \ {0} /\ slot[r] \notin InUse
    BY <1>4
  <2> HIDE DEF taken, fresh
  <2> QED
    BY <2>1, <2>2
<1>6. /\ N \in Nat /\ counterGroups \in [1 .. N -> Group] /\ counterGroups \in Seq(Group)
      /\ unused \subseteq 1 .. N /\ N \notin unused /\ InUse = (1 .. N) \ unused
  BY DEF CountersInv, SlotsInv, InUse
<1> HIDE DEF N
<1>7. /\ size \in Nat /\ N <= size /\ size \in {N} \cup taken /\ \A i \in taken : i <= size
      /\ \A i \in 1 .. size : i \in 1 .. N \/ i \in taken
  <2> DEFINE B == {N} \cup taken
  <2>1. PICK m \in Nat : \A r \in fresh : slot[r] <= m
    BY <1>4
  <2>2. B \in SUBSET Nat /\ B # {} /\ N + m \in Nat /\ \A b \in B : b <= N + m
    <3>1. \A b \in taken : b <= m /\ b \in Nat
      BY <1>4, <1>5, <2>1
    <3> HIDE DEF taken
    <3> QED
      BY <1>6, <3>1
  <2>3. Max(B) \in B /\ Max(B) \in Nat /\ \A b \in B : b <= Max(B)
    <3> HIDE DEF B
    <3> QED
      BY <2>2, MaxOfBounded
  <2> HIDE DEF taken
  <2>4. size \in Nat /\ N <= size /\ size \in {N} \cup taken /\ \A i \in taken : i <= size
    BY <2>3
  <2> HIDE DEF size
  <2>5. ASSUME NEW i \in 1 .. size, i \notin 1 .. N PROVE i \in taken
    <3>1. N < i /\ i \in Nat /\ i <= size /\ size \in taken
      BY <1>6, <2>4, <2>5
    <3>2. PICK r \in fresh : slot[r] = size
      BY <1>5, <3>1
    <3>3. \E q \in fresh : slot[q] = i
      BY <1>4, <3>1, <3>2
    <3> QED
      BY <1>5, <3>3
  <2> QED
    BY <2>4, <2>5
<1> HIDE DEF size
<1>8. \A k \in added : k = <<k[1], k[2]>> /\ k[2] \in new /\ k[1] \in CounterActions(k[2])
                       /\ k[1] \in Actions /\ RegressionOfCounter(k) = Regression(k[1], k[2])
                       /\ RegressionOfCounter(k) \in SUBSET Facts
  <2> SUFFICES ASSUME NEW k \in added
               PROVE  k = <<k[1], k[2]>> /\ k[2] \in new /\ k[1] \in CounterActions(k[2])
                       /\ k[1] \in Actions /\ RegressionOfCounter(k) = Regression(k[1], k[2])
                       /\ RegressionOfCounter(k) \in SUBSET Facts
    OBVIOUS
  <2>1. new \in SUBSET (Singletons \cup Learnable)
    BY <1>2
  <2> HIDE DEF new
  <2>2. k = <<k[1], k[2]>>
    BY <2>1, CountersByConjunction
  <2>3. k[2] \in new /\ k[1] \in CounterActions(k[2])
    <3> HIDE DEF added
    <3>1. <<k[1], k[2]>> \in CountersOf(new)
      BY <2>2 DEF added
    <3> QED
      BY <2>1, <3>1, CountersByConjunction
  <2> QED
    BY <2>1, <2>2, <2>3, RegressionType DEF RegressionOfCounter
<1>9. ASSUME NEW i \in InUse PROVE At(RegressionOfSlot(i)) = i /\ RegressionOfSlot(i) \notin fresh
  <2>1. RegressionOfSlot(i) \notin fresh
    BY <1>4
  <2>2. IF RegressionOfSlot(i) = {} THEN emptySlot = i
        ELSE RegressionOfSlot(i) \in DOMAIN byRegression /\ byRegression[RegressionOfSlot(i)] = i
    BY DEF CountersInv, IndexInv
  <2> QED
    BY <2>1, <2>2
<1>10. ASSUME NEW k \in added
       PROVE  RegressionOfCounter(k) \in fresh
                \/ \E i \in InUse : RegressionOfSlot(i) = RegressionOfCounter(k)
  BY <1>4
<1>11. ASSUME NEW r \in fresh PROVE r # {} /\ r \in SUBSET Facts
  <2>1. PICK k \in added : r = RegressionOfCounter(k)
    BY <1>4
  <2>2. ASSUME r = {} PROVE FALSE
    <3>1. k[2] \in Singletons \cup Learnable /\ k[1] \in CounterActions(k[2])
          /\ Regression(k[1], k[2]) = {}
      BY <1>2, <1>8, <2>1, <2>2
    <3>2. {} \in SingletonRegressions
      BY <3>1, EmptyRegression
    <3>3. emptySlot \in InUse /\ RegressionOfSlot(emptySlot) = {}
      BY <3>2 DEF CountersInv, IndexInv
    <3> QED
      BY <1>9, <2>2, <3>3
  <2> QED
    BY <1>8, <2>1, <2>2
<1> HIDE DEF added
<1>12. ASSUME NEW i \in InUse PROVE Joining(i) = Joined(RegressionOfSlot(i))
  <2>1. ASSUME NEW k \in added, At(RegressionOfCounter(k)) = i
        PROVE  RegressionOfCounter(k) = RegressionOfSlot(i)
    <3>1. CASE RegressionOfCounter(k) \in fresh
      BY <1>4, <2>1, <3>1
    <3>2. CASE RegressionOfCounter(k) \notin fresh
      <4>1. PICK j \in InUse : RegressionOfSlot(j) = RegressionOfCounter(k)
        BY <1>10, <3>2
      <4> QED
        BY <1>9, <2>1, <4>1
    <3> QED
      BY <3>1, <3>2
  <2> QED
    BY <1>9, <2>1
<1>13. ASSUME NEW r \in fresh PROVE Joining(slot[r]) = Joined(r)
  <2>1. ASSUME NEW k \in added, At(RegressionOfCounter(k)) = slot[r]
        PROVE  RegressionOfCounter(k) = r
    <3>1. CASE RegressionOfCounter(k) \in fresh
      BY <1>4, <2>1, <3>1
    <3>2. CASE RegressionOfCounter(k) \notin fresh
      <4>1. PICK j \in InUse : RegressionOfSlot(j) = RegressionOfCounter(k)
        BY <1>10, <3>2
      <4>2. slot[r] = j
        BY <1>9, <2>1, <4>1
      <4> QED
        BY <1>4, <4>2
    <3> QED
      BY <3>1, <3>2
  <2>2. At(r) = slot[r]
    OBVIOUS
  <2> QED
    BY <2>1, <2>2
<1> HIDE DEF At, Joining
<1>14. ASSUME NEW r \in fresh
       PROVE  counterGroups'[slot[r]] = [regression |-> r, group |-> Joined(r),
                                         waitsFor   |-> InitialWaitsFor(r, all)]
  <2>1. slot[r] \in 1 .. size /\ slot[r] \in taken
    BY <1>5, <1>7
  <2>2. (CHOOSE q \in fresh : slot[q] = slot[r]) = r
    BY <1>4
  <2>3. counterGroups'[slot[r]] = Created(CHOOSE q \in fresh : slot[q] = slot[r])
    <3> HIDE DEF Created, Updated
    <3> QED
      BY <1>1, <2>1
  <2>4. counterGroups'[slot[r]] = Created(r)
    BY <2>2, <2>3, Zenon
  <2>5. Joining(slot[r]) = Joined(r)
    BY <1>13
  <2> HIDE DEF Joined
  <2> QED
    BY <2>4, <2>5
<1>15. ASSUME NEW i \in InUse
       PROVE  counterGroups'[i] = [regression |-> RegressionOfSlot(i),
                                   group      |-> counterGroups[i].group \cup Joined(RegressionOfSlot(i)),
                                   waitsFor   |-> UpdatedWaitsFor(i, new, Joined(RegressionOfSlot(i)))]
  <2>1. i \in 1 .. size /\ i \notin taken /\ i \notin unused
    BY <1>5, <1>6, <1>7
  <2>2. counterGroups'[i] = Updated(i)
    <3> HIDE DEF Created, Updated
    <3> QED
      BY <1>1, <2>1
  <2>3. Joining(i) = Joined(RegressionOfSlot(i))
    BY <1>12
  <2> HIDE DEF Joined
  <2> QED
    BY <2>2, <2>3, Zenon DEF RegressionOfSlot
<1>16. \A r : Joined(r) \in SUBSET (Actions \X (Singletons \cup Learnable))
  <2> SUFFICES ASSUME NEW r, NEW k \in Joined(r)
               PROVE  k \in Actions \X (Singletons \cup Learnable)
    OBVIOUS
  <2>1. k = <<k[1], k[2]>> /\ k[1] \in Actions /\ k[2] \in Singletons \cup Learnable
    BY <1>2, <1>8
  <2> QED
    BY <2>1
<1>17. all \in SUBSET (Singletons \cup Learnable)
  BY <1>2
<1>18. ASSUME NEW i \in 1 .. size PROVE counterGroups'[i] \in Group
  <2>1. CASE i \in taken
    <3>1. PICK r \in fresh : slot[r] = i
      BY <1>5, <2>1
    <3>2. InitialWaitsFor(r, all) \in SUBSET (Singletons \cup Learnable \cup {DummyPrecondition})
      BY <1>17, InitialWaits
    <3>3. r \in SUBSET Facts /\ Joined(r) \in SUBSET (Actions \X (Singletons \cup Learnable))
      BY <1>11, <1>16
    <3>4. [regression |-> r, group |-> Joined(r), waitsFor |-> InitialWaitsFor(r, all)] \in Group
      <4> HIDE DEF Joined, all
      <4> QED
        BY <3>2, <3>3, GroupType
    <3> QED
      BY <1>14, <3>1, <3>4, Zenon
  <2>2. CASE i \notin taken /\ i \in unused
    <3>1. counterGroups'[i] = counterGroups[i]
      BY <1>1, <2>2
    <3> QED
      BY <1>6, <2>2, <3>1
  <2>3. CASE i \notin taken /\ i \notin unused
    <3>1. i \in InUse
      BY <1>6, <1>7, <2>3
    <3>2. counterGroups[i] \in Group /\ RegressionOfSlot(i) \in SUBSET Facts
      BY <3>1, OneGroup
    <3>3. counterGroups[i].group \cup Joined(RegressionOfSlot(i))
            \in SUBSET (Actions \X (Singletons \cup Learnable))
      BY <1>16, <3>2 DEF Group
    <3>4. UpdatedWaitsFor(i, new, Joined(RegressionOfSlot(i)))
            \in SUBSET (Singletons \cup Learnable \cup {DummyPrecondition})
      <4> HIDE DEF new, Joined
      <4>1. CASE RegressionOfSlot(i) = {}
        <5>1. UpdatedWaitsFor(i, new, Joined(RegressionOfSlot(i))) = counterGroups[i].waitsFor
          BY <1>2, <3>1, <4>1, UpdatedWaits
        <5> QED
          BY <3>2, <5>1 DEF Group
      <4>2. CASE RegressionOfSlot(i) # {}
        <5>1. UpdatedWaitsFor(i, new, Joined(RegressionOfSlot(i))) \subseteq all
          BY <1>2, <3>1, <4>2, UpdatedWaits
        <5> QED
          BY <1>17, <5>1
      <4> QED
        BY <4>1, <4>2
    <3> HIDE DEF new, Joined
    <3>5. [regression |-> RegressionOfSlot(i),
           group      |-> counterGroups[i].group \cup Joined(RegressionOfSlot(i)),
           waitsFor   |-> UpdatedWaitsFor(i, new, Joined(RegressionOfSlot(i)))] \in Group
      BY <3>2, <3>3, <3>4, GroupType
    <3> QED
      BY <1>15, <3>1, <3>5, Zenon
  <2> QED
    BY <2>1, <2>2, <2>3
<1>19. Len(counterGroups') = size /\ counterGroups' \in Seq(Group)
  <2>1. counterGroups' \in [1 .. size -> Group]
    <3>1. counterGroups' = [i \in 1 .. size |-> counterGroups'[i]]
      <4> HIDE DEF Created, Updated
      <4> QED
        BY <1>1
    <3> QED
      BY <1>18, <3>1
  <2> QED
    BY <1>7, <2>1
<1>20. InUse' = InUse \cup taken
  <2>1. InUse' = (1 .. size) \ (unused \ taken)
    BY <1>1, <1>19 DEF InUse
  <2>2. taken \subseteq 1 .. size
    BY <1>5, <1>7
  <2>3. InUse \subseteq 1 .. size
    BY <1>6, <1>7
  <2> HIDE DEF taken
  <2> QED
    BY <1>6, <1>7, <2>1, <2>2, <2>3
<1>21. SlotsInv'
  <2>1. unused' \subseteq 1 .. size /\ size \notin unused'
    <3> HIDE DEF taken
    <3> QED
      BY <1>1, <1>6, <1>7
  <2>2. learned' \subseteq Learnable
    BY <1>1, <1>2 DEF CountersInv, SlotsInv
  <2> QED
    BY <1>19, <2>1, <2>2 DEF SlotsInv
<1>22. ASSUME NEW i \in InUse
       PROVE  /\ SlotOf(slot, RegressionOfSlot(i)) = i
              /\ RegressionOfSlot(i)' = RegressionOfSlot(i)
              /\ counterGroups'[i].group = counterGroups[i].group \cup Joined(RegressionOfSlot(i))
              /\ counterGroups'[i].waitsFor = UpdatedWaitsFor(i, new, Joined(RegressionOfSlot(i)))
  <2>1. SlotOf(slot, RegressionOfSlot(i)) = i
    BY <1>9 DEF SlotOf, At
  <2>2. RegressionOfSlot(i)' = counterGroups'[i].regression
    BY DEF RegressionOfSlot
  <2> DEFINE r == RegressionOfSlot(i)
             g == counterGroups[i].group \cup Joined(RegressionOfSlot(i))
             w == UpdatedWaitsFor(i, new, Joined(RegressionOfSlot(i)))
  <2>3. counterGroups'[i] = [regression |-> r, group |-> g, waitsFor |-> w]
    BY <1>15, Zenon
  <2> HIDE DEF r, g, w
  <2>4. /\ counterGroups'[i].regression = r /\ counterGroups'[i].group = g
        /\ counterGroups'[i].waitsFor = w
    BY <2>3
  <2> QED
    BY <2>1, <2>2, <2>4, Zenon DEF r, g, w
<1>23. \A i \in InUse : \E joined \in {Joined(RegressionOfSlot(i))} :
         counterGroups'[i].waitsFor = UpdatedWaitsFor(i, new, joined)
  BY <1>22
<1>24. \A r \in fresh : r # {} /\ ~\E i \in InUse : RegressionOfSlot(i) = r
  BY <1>4, <1>11
<1> HIDE DEF Joined
<1>25. \A i \in InUse :
         /\ SlotOf(slot, RegressionOfSlot(i)) = i
         /\ RegressionOfSlot(i)' = RegressionOfSlot(i)
         /\ counterGroups'[i].group = counterGroups[i].group \cup Joined(RegressionOfSlot(i))
         /\ \E joined \in {Joined(RegressionOfSlot(i))} :
              counterGroups'[i].waitsFor = UpdatedWaitsFor(i, new, joined)
  BY <1>22, <1>23
<1> QED
  BY <1>2, <1>3, <1>4, <1>5, <1>10, <1>14, <1>20, <1>21, <1>24, <1>25 DEF slot, added, Joined

\* add_conjunctions keeps the invariant.
LEMMA LearnCounters ==
  ASSUME CountersInv, NEW n \in Nat \ {0}, NEW factsets \in [1 .. n -> Learnable \ learned],
         IsInjective(factsets), AddConjunctions(factsets)
  PROVE  CountersInv'
<1> DEFINE new   == Range(factsets)
           all   == Conjunctions \cup new
           added == CountersOf(new)
           slot  == SlotsFor(factsets)
           fresh == DOMAIN slot
           taken == Range(slot)
           At(r) == SlotOf(slot, r)
           Joined(r) == {k \in added : RegressionOfCounter(k) = r}
           Joining(i) == {k \in added : At(RegressionOfCounter(k)) = i}
           losing  == [i \in InUse |-> LosingLink(i, new, Joining(i))]
           gaining == [i \in InUse |-> GainingLink(i, new, Joining(i))]
           waitingNew(c) == {slot[r] : r \in {q \in fresh : c \in InitialWaitsFor(q, all)}}
<1>1. /\ new \in SUBSET Learnable /\ new # {} /\ new \cap Conjunctions = {}
      /\ Conjunctions' = all
      /\ SlotsInv'
      /\ InUse' = InUse \cup taken /\ InUse \cap taken = {}
      /\ \A r \in fresh : r # {} /\ ~\E i \in InUse : RegressionOfSlot(i) = r
      /\ \A q, r \in fresh : slot[q] = slot[r] => q = r
      /\ \A k \in added : RegressionOfCounter(k) \in fresh
           \/ \E i \in InUse : RegressionOfSlot(i) = RegressionOfCounter(k)
      /\ \A i \in InUse :
           /\ At(RegressionOfSlot(i)) = i
           /\ RegressionOfSlot(i)' = RegressionOfSlot(i)
           /\ counterGroups'[i].group = counterGroups[i].group \cup Joined(RegressionOfSlot(i))
           /\ \E joined \in {Joined(RegressionOfSlot(i))} :
                counterGroups'[i].waitsFor = UpdatedWaitsFor(i, new, joined)
      /\ \A r \in fresh :
           counterGroups'[slot[r]] = [regression |-> r, group |-> Joined(r),
                                      waitsFor   |-> InitialWaitsFor(r, all)]
  BY LearnSlots
<1>2. /\ byRegression' = [r \in DOMAIN byRegression \cup (fresh \ {{}}) |-> At(r)]
      /\ emptySlot' = IF {} \in fresh THEN slot[{}] ELSE emptySlot
      /\ slotsOf' = [c \in all |->
           IF c \in new
           THEN [a \in {k[1] : k \in {l \in added : l[2] = c}} |-> At(Regression(a, c))]
           ELSE slotsOf[c]]
      /\ regressionOf' = [c \in all \cup {DummyPrecondition} |->
           waitingNew(c) \cup {i \in InUse : c \in gaining[i]}
             \cup (Linked(c) \ {i \in InUse : c \in losing[i]})]
      /\ numCounters' = numCounters + Cardinality(added)
  BY DEF AddConjunctions, SlotOf
<1> HIDE DEF slot, new, losing, gaining, waitingNew, Joining
<1>3. /\ Conjunctions \in SUBSET (Singletons \cup Learnable) /\ Singletons \subseteq Conjunctions
      /\ new \in SUBSET (Singletons \cup Learnable)
      /\ \A i, j \in InUse : RegressionOfSlot(i) = RegressionOfSlot(j) => i = j
  BY <1>1, OneGroup
<1>4. \A a, c : <<a, c>> \in added <=> c \in new /\ a \in CounterActions(c)
  BY <1>3, CountersByConjunction
<1>5. \A k \in added : /\ k = <<k[1], k[2]>> /\ k[2] \in new /\ k[1] \in CounterActions(k[2])
                       /\ RegressionOfCounter(k) = Regression(k[1], k[2])
  <2> SUFFICES ASSUME NEW k \in added
               PROVE  /\ k = <<k[1], k[2]>> /\ k[2] \in new /\ k[1] \in CounterActions(k[2])
                      /\ RegressionOfCounter(k) = Regression(k[1], k[2])
    OBVIOUS
  <2>1. k = <<k[1], k[2]>>
    BY <1>3, CountersByConjunction
  <2>2. k[2] \in new /\ k[1] \in CounterActions(k[2])
    <3> HIDE DEF added
    <3> QED
      BY <1>4, <2>1
  <2> QED
    BY <2>1, <2>2 DEF RegressionOfCounter
<1> HIDE DEF added
<1>6. \A i \in taken : \E r \in fresh : slot[r] = i
  BY DEF Range
<1>7. \A r \in fresh : slot[r] \in taken /\ slot[r] \in InUse' /\ At(r) = slot[r]
  BY <1>1 DEF Range, SlotOf
<1> HIDE DEF taken
<1>8. ASSUME NEW r \in fresh
      PROVE  /\ counterGroups'[slot[r]].regression = r /\ counterGroups'[slot[r]].group = Joined(r)
             /\ counterGroups'[slot[r]].waitsFor = InitialWaitsFor(r, all)
  <2>1. counterGroups'[slot[r]] = [regression |-> r, group |-> Joined(r),
                                   waitsFor   |-> InitialWaitsFor(r, all)]
    BY <1>1
  <2> HIDE DEF Joined, all
  <2> QED
    BY <2>1
<1>9. ASSUME NEW k \in added
      PROVE  /\ At(RegressionOfCounter(k)) \in InUse'
             /\ k \in counterGroups'[At(RegressionOfCounter(k))].group
             /\ counterGroups'[At(RegressionOfCounter(k))].regression = RegressionOfCounter(k)
  <2>1. k \in Joined(RegressionOfCounter(k))
    OBVIOUS
  <2> HIDE DEF Joined, At
  <2>2. CASE RegressionOfCounter(k) \in fresh
    BY <1>7, <1>8, <2>1, <2>2
  <2>3. CASE RegressionOfCounter(k) \notin fresh
    <3>1. PICK i \in InUse : RegressionOfSlot(i) = RegressionOfCounter(k)
      BY <1>1, <2>3
    <3>2. At(RegressionOfCounter(k)) = i /\ i \in InUse'
      BY <1>1, <3>1
    <3>3. counterGroups'[i].group = counterGroups[i].group \cup Joined(RegressionOfCounter(k))
      BY <1>1, <3>1
    <3>4. counterGroups'[i].regression = RegressionOfCounter(k)
      BY <1>1, <3>1 DEF RegressionOfSlot
    <3> QED
      BY <2>1, <3>2, <3>3, <3>4
  <2> QED
    BY <2>2, <2>3
<1>10. \A c \in new : {k[1] : k \in {l \in added : l[2] = c}} = CounterActions(c)
  <2> SUFFICES ASSUME NEW c \in new
               PROVE  {k[1] : k \in {l \in added : l[2] = c}} = CounterActions(c)
    OBVIOUS
  <2>1. ASSUME NEW a \in CounterActions(c)
        PROVE  \E k \in {l \in added : l[2] = c} : a = k[1]
    <3>1. <<a, c>> \in added
      BY <1>4
    <3> QED
      BY <3>1
  <2> QED
    BY <1>5, <2>1
<1>11. /\ DOMAIN slotsOf' = all
       /\ \A c \in Conjunctions : slotsOf'[c] = slotsOf[c]
       /\ \A c \in new : slotsOf'[c] = [a \in CounterActions(c) |-> At(Regression(a, c))]
  <2> HIDE DEF At
  <2>1. DOMAIN slotsOf' = all
    BY <1>2
  <2>2. \A c \in Conjunctions : c \in all /\ c \notin new
    BY <1>1
  <2>3. \A c \in Conjunctions : slotsOf'[c] = slotsOf[c]
    BY <1>2, <2>2
  <2>4. ASSUME NEW c \in new
        PROVE  slotsOf'[c] = [a \in CounterActions(c) |-> At(Regression(a, c))]
    <3>1. slotsOf'[c] = [a \in {k[1] : k \in {l \in added : l[2] = c}} |-> At(Regression(a, c))]
      BY <1>2
    <3>2. {k[1] : k \in {l \in added : l[2] = c}} = CounterActions(c)
      BY <1>10
    <3> QED
      BY <3>1, <3>2, Zenon
  <2> QED
    BY <2>1, <2>3, <2>4
<1> HIDE DEF At
<1>12. MembersInv'
  <2>1. ASSUME NEW c \in all
        PROVE  /\ slotsOf'[c] \in [CounterActions(c) -> InUse']
               /\ \A a \in CounterActions(c) :
                    /\ <<a, c>> \in counterGroups'[slotsOf'[c][a]].group
                    /\ counterGroups'[slotsOf'[c][a]].regression = Regression(a, c)
    <3>1. CASE c \in Conjunctions
      <4>1. /\ slotsOf[c] \in [CounterActions(c) -> InUse]
            /\ \A a \in CounterActions(c) :
                 /\ <<a, c>> \in counterGroups[slotsOf[c][a]].group
                 /\ RegressionOfSlot(slotsOf[c][a]) = Regression(a, c)
        BY <3>1 DEF CountersInv, MembersInv
      <4>2. slotsOf'[c] = slotsOf[c]
        BY <1>11, <3>1
      <4>3. ASSUME NEW i \in InUse
            PROVE  /\ counterGroups[i].group \subseteq counterGroups'[i].group
                   /\ counterGroups'[i].regression = RegressionOfSlot(i)
                   /\ i \in InUse'
        <5>1. RegressionOfSlot(i)' = RegressionOfSlot(i)
          BY <1>1
        <5>2. counterGroups'[i].group = counterGroups[i].group \cup Joined(RegressionOfSlot(i))
          BY <1>1
        <5> QED
          BY <1>1, <5>1, <5>2 DEF RegressionOfSlot
      <4> QED
        BY <4>1, <4>2, <4>3
    <3>2. CASE c \in new
      <4>1. ASSUME NEW a \in CounterActions(c)
            PROVE  /\ slotsOf'[c][a] \in InUse'
                   /\ <<a, c>> \in counterGroups'[slotsOf'[c][a]].group
                   /\ counterGroups'[slotsOf'[c][a]].regression = Regression(a, c)
        <5>1. <<a, c>> \in added /\ RegressionOfCounter(<<a, c>>) = Regression(a, c)
          BY <1>4, <3>2 DEF RegressionOfCounter
        <5>2. slotsOf'[c][a] = At(Regression(a, c))
          BY <1>11, <3>2
        <5> QED
          BY <1>9, <5>1, <5>2
      <4>2. slotsOf'[c] = [a \in CounterActions(c) |-> slotsOf'[c][a]]
        BY <1>11, <3>2
      <4> QED
        BY <4>1, <4>2
    <3> QED
      BY <3>1, <3>2
  <2>2. ASSUME NEW i \in InUse', NEW k \in counterGroups'[i].group
        PROVE  /\ k[2] \in all /\ k[1] \in CounterActions(k[2]) /\ slotsOf'[k[2]][k[1]] = i
    <3>1. ASSUME k \in added, At(RegressionOfCounter(k)) = i
          PROVE  /\ k[2] \in all /\ k[1] \in CounterActions(k[2]) /\ slotsOf'[k[2]][k[1]] = i
      BY <1>5, <1>11, <3>1
    <3>2. CASE i \in taken
      <4>1. PICK r \in fresh : slot[r] = i
        BY <1>6, <3>2
      <4>2. k \in Joined(r)
        BY <1>8, <4>1
      <4> QED
        BY <1>7, <3>1, <4>1, <4>2
    <3>3. CASE i \in InUse
      <4>1. CASE k \in counterGroups[i].group
        <5>1. k[2] \in Conjunctions /\ k[1] \in CounterActions(k[2]) /\ slotsOf[k[2]][k[1]] = i
          BY <3>3, <4>1 DEF CountersInv, MembersInv
        <5> QED
          BY <1>11, <5>1
      <4>2. CASE k \notin counterGroups[i].group
        <5>1. k \in Joined(RegressionOfSlot(i)) /\ At(RegressionOfSlot(i)) = i
          BY <1>1, <3>3, <4>2
        <5> QED
          BY <3>1, <5>1
      <4> QED
        BY <4>1, <4>2
    <3> QED
      BY <1>1, <3>2, <3>3
  <2> HIDE DEF all
  <2> QED
    BY <1>1, <1>11, <2>1, <2>2 DEF MembersInv, RegressionOfSlot, CounterActions, Regressions,
       ComputeRegressions
<1>13. {} \notin fresh /\ emptySlot' = emptySlot
  BY <1>1, <1>2
<1>14. \A i \in InUse : i \in InUse' /\ counterGroups'[i].regression = RegressionOfSlot(i)
  <2> SUFFICES ASSUME NEW i \in InUse
               PROVE  i \in InUse' /\ counterGroups'[i].regression = RegressionOfSlot(i)
    OBVIOUS
  <2>1. RegressionOfSlot(i)' = RegressionOfSlot(i)
    BY <1>1
  <2> QED
    BY <1>1, <2>1 DEF RegressionOfSlot
<1>15. IndexInv'
  <2>1. /\ DOMAIN byRegression' = DOMAIN byRegression \cup fresh
        /\ \A r \in DOMAIN byRegression' : byRegression'[r] = At(r)
        /\ byRegression' = [r \in DOMAIN byRegression' |-> byRegression'[r]]
    BY <1>2, <1>13
  <2>2. ASSUME NEW r \in DOMAIN byRegression
        PROVE  /\ r # {} /\ byRegression'[r] = byRegression[r] /\ byRegression[r] \in InUse
               /\ RegressionOfSlot(byRegression[r]) = r
    <3>1. r # {} /\ byRegression[r] \in InUse /\ RegressionOfSlot(byRegression[r]) = r
      BY DEF CountersInv, IndexInv
    <3>2. At(r) = byRegression[r]
      BY <1>1, <3>1
    <3> QED
      BY <2>1, <3>1, <3>2
  <2>3. ASSUME NEW r \in DOMAIN byRegression'
        PROVE  r # {} /\ byRegression'[r] \in InUse' /\ counterGroups'[byRegression'[r]].regression = r
    <3>1. CASE r \in fresh
      BY <1>1, <1>7, <1>8, <2>1, <3>1
    <3>2. CASE r \notin fresh
      <4>1. r \in DOMAIN byRegression
        BY <2>1, <3>2
      <4> QED
        BY <1>14, <2>2, <4>1
    <3> QED
      BY <3>1, <3>2
  <2>4. ASSUME NEW i \in InUse'
        PROVE  IF counterGroups'[i].regression = {} THEN emptySlot' = i
               ELSE /\ counterGroups'[i].regression \in DOMAIN byRegression'
                    /\ byRegression'[counterGroups'[i].regression] = i
    <3>1. CASE i \in taken
      <4>1. PICK r \in fresh : slot[r] = i
        BY <1>6, <3>1
      <4> QED
        BY <1>1, <1>7, <1>8, <2>1, <4>1
    <3>2. CASE i \in InUse
      <4>1. IF RegressionOfSlot(i) = {} THEN emptySlot = i
            ELSE RegressionOfSlot(i) \in DOMAIN byRegression /\ byRegression[RegressionOfSlot(i)] = i
        BY <3>2 DEF CountersInv, IndexInv
      <4>2. counterGroups'[i].regression = RegressionOfSlot(i)
        BY <1>14, <3>2
      <4> QED
        BY <1>13, <2>1, <2>2, <4>1, <4>2
    <3> QED
      BY <1>1, <3>1, <3>2
  <2>5. IF {} \in SingletonRegressions
        THEN emptySlot' \in InUse' /\ counterGroups'[emptySlot'].regression = {}
        ELSE emptySlot' = NoSlot
    BY <1>13, <1>14 DEF CountersInv, IndexInv
  <2> QED
    BY <2>1, <2>3, <2>4, <2>5 DEF IndexInv, RegressionOfSlot
<1>16. FirstSlotsInv'
  <2>1. \A i \in InUse : RegressionOfSlot(i)' = RegressionOfSlot(i)
    BY <1>14 DEF RegressionOfSlot
  <2> QED
    BY <1>14, <2>1 DEF CountersInv, FirstSlotsInv
<1>17. ASSUME NEW i \in InUse, RegressionOfSlot(i) = {}
       PROVE  counterGroups'[i].waitsFor = counterGroups[i].waitsFor
  <2>1. counterGroups'[i].waitsFor = UpdatedWaitsFor(i, new, Joined(RegressionOfSlot(i)))
    BY <1>1
  <2> HIDE DEF Joined
  <2> QED
    BY <1>1, <1>17, <2>1, UpdatedWaits
<1>18. ASSUME NEW i \in InUse, RegressionOfSlot(i) # {}
       PROVE  counterGroups'[i].waitsFor \subseteq all
  <2>1. counterGroups'[i].waitsFor = UpdatedWaitsFor(i, new, Joined(RegressionOfSlot(i)))
    BY <1>1
  <2> HIDE DEF Joined
  <2> QED
    BY <1>1, <1>18, <2>1, UpdatedWaits
<1>19. LinksInv'
  <2>1. \A d \in Conjunctions \cup {DummyPrecondition} :
          Linked(d) = {i \in InUse : d \in counterGroups[i].waitsFor}
    BY DEF CountersInv, LinksInv, LinksAgree, Linked
  <2>2. ASSUME NEW d \in new
        PROVE  Linked(d) = {} /\ \A i \in InUse : d \notin counterGroups[i].waitsFor
    <3>1. d \notin Conjunctions /\ d # DummyPrecondition
      BY <1>1, <1>3, ConjunctionSizes DEF DummyPrecondition
    <3>2. Linked(d) = {}
      BY <3>1 DEF CountersInv, LinksInv, Linked
    <3>3. \A i \in InUse : d \notin counterGroups[i].waitsFor
      BY <3>1 DEF CountersInv, LinksInv
    <3> QED
      BY <3>2, <3>3
  <2>3. ASSUME NEW i \in InUse
        PROVE  \A d : d \in counterGroups'[i].waitsFor <=>
                 \/ d \in gaining[i]
                 \/ d \in counterGroups[i].waitsFor /\ d \notin losing[i]
    <3>1. ASSUME NEW k \in added, At(RegressionOfCounter(k)) = i
          PROVE  RegressionOfCounter(k) = RegressionOfSlot(i)
      <4>1. RegressionOfCounter(k) \notin fresh
        BY <1>1, <1>7, <3>1
      <4> QED
        BY <1>1, <3>1, <4>1
    <3>2. Joining(i) = Joined(RegressionOfSlot(i))
      BY <1>1, <3>1 DEF Joining
    <3>3. counterGroups'[i].waitsFor = UpdatedWaitsFor(i, new, Joining(i))
      <4> HIDE DEF Joined
      <4> QED
        BY <1>1, <3>2
    <3>4. losing[i] = LosingLink(i, new, Joining(i)) /\ gaining[i] = GainingLink(i, new, Joining(i))
      BY DEF losing, gaining
    <3> QED
      BY <3>3, <3>4, UpdatedLinks
  <2>4. ASSUME NEW d
        PROVE  waitingNew(d) = {i \in taken : d \in counterGroups'[i].waitsFor}
    <3>1. \A r \in fresh : /\ slot[r] \in taken
                           /\ counterGroups'[slot[r]].waitsFor = InitialWaitsFor(r, all)
      BY <1>7, <1>8
    <3> HIDE DEF all
    <3> QED
      BY <1>6, <3>1 DEF waitingNew
  <2>5. LinksAgree' /\ DOMAIN regressionOf' = all \cup {DummyPrecondition}
    <3>1. ASSUME NEW d \in all \cup {DummyPrecondition}
          PROVE  regressionOf'[d] = {i \in InUse' : d \in counterGroups'[i].waitsFor}
      <4>1. Linked(d) = {i \in InUse : d \in counterGroups[i].waitsFor}
        BY <2>1, <2>2
      <4>2. regressionOf'[d] = waitingNew(d) \cup {i \in InUse : d \in gaining[i]}
                                 \cup (Linked(d) \ {i \in InUse : d \in losing[i]})
        BY <1>2
      <4> HIDE DEF all
      <4> QED
        BY <1>1, <2>3, <2>4, <4>1, <4>2
    <3> QED
      BY <1>1, <1>2, <3>1 DEF LinksAgree
  <2>6. ASSUME NEW i \in InUse'
        PROVE  IF counterGroups'[i].regression = {} THEN counterGroups'[i].waitsFor = {DummyPrecondition}
               ELSE counterGroups'[i].waitsFor \subseteq all
    <3>1. CASE i \in taken
      <4>1. PICK r \in fresh : slot[r] = i
        BY <1>6, <3>1
      <4>2. r # {} /\ counterGroups'[i].regression = r
            /\ counterGroups'[i].waitsFor = InitialWaitsFor(r, all)
        BY <1>1, <1>8, <4>1
      <4>3. all \in SUBSET (Singletons \cup Learnable)
        BY <1>3
      <4> HIDE DEF all
      <4> QED
        BY <4>2, <4>3, InitialWaits
    <3>2. CASE i \in InUse
      <4>1. counterGroups'[i].regression = RegressionOfSlot(i)
        BY <1>14, <3>2
      <4>2. RegressionOfSlot(i) = {} => counterGroups[i].waitsFor = {DummyPrecondition}
        BY <3>2 DEF CountersInv, LinksInv
      <4> HIDE DEF all
      <4> QED
        BY <1>17, <1>18, <3>2, <4>1, <4>2
    <3> QED
      BY <1>1, <3>1, <3>2
  <2> HIDE DEF all
  <2> QED
    BY <1>1, <2>5, <2>6 DEF LinksInv, RegressionOfSlot
<1>20. numCounters' = Cardinality(CountersOf(Conjunctions'))
  <2>1. Cardinality(CountersOf(Conjunctions \cup new))
          = Cardinality(CountersOf(Conjunctions)) + Cardinality(CountersOf(new))
    BY <1>1, <1>3, CountersAddUp
  <2>2. numCounters = Cardinality(CountersOf(Conjunctions))
    BY DEF CountersInv
  <2>3. numCounters' = numCounters + Cardinality(CountersOf(new))
    BY <1>2 DEF added
  <2>4. Cardinality(CountersOf(Conjunctions')) = Cardinality(CountersOf(Conjunctions \cup new))
    BY <1>1, Zenon
  <2> QED
    BY <2>1, <2>2, <2>3, <2>4, Zenon
<1> QED
  BY <1>1, <1>12, <1>15, <1>16, <1>19, <1>20 DEF CountersInv, CountersOf, Regressions

-----------------------------------------------------------------------------
\* Every call keeps the invariant.
LEMMA NextCounters ==
  ASSUME CountersInv, Next
  PROVE  CountersInv'
<1>1. CASE Learn
  <2>1. PICK n \in 1 .. MaxAtOnce : \E factsets \in [1 .. n -> Learnable \ learned] :
               IsInjective(factsets) /\ AddConjunctions(factsets)
    BY <1>1 DEF Learn
  <2>2. n \in Nat \ {0}
    BY LearnableAssumption DEF LearnableAssumption
  <2>3. PICK factsets \in [1 .. n -> Learnable \ learned] :
               IsInjective(factsets) /\ AddConjunctions(factsets)
    BY <2>1
  <2> QED
    BY <2>2, <2>3, LearnCounters
<1>2. CASE Forget
  BY <1>2, ForgetCounters DEF Forget
<1>3. CASE ForgetAll
  BY <1>3, ForgetAllCounters DEF ForgetAll
<1> QED
  BY <1>1, <1>2, <1>3 DEF Next

LEMMA StutterCounters ==
  ASSUME CountersInv, UNCHANGED vars
  PROVE  CountersInv'
<1>1. /\ learned' = learned /\ counterGroups' = counterGroups /\ unused' = unused
      /\ byRegression' = byRegression /\ emptySlot' = emptySlot /\ slotsOf' = slotsOf
      /\ regressionOf' = regressionOf /\ numCounters' = numCounters
  BY DEF vars
<1>2. Conjunctions' = Conjunctions /\ InUse' = InUse
  BY <1>1 DEF Conjunctions, InUse
<1>3. \A i : RegressionOfSlot(i)' = RegressionOfSlot(i)
  BY <1>1 DEF RegressionOfSlot
<1>4. SlotsInv'
  BY <1>1 DEF CountersInv, SlotsInv
<1>5. MembersInv'
  BY <1>1, <1>2, <1>3 DEF CountersInv, MembersInv, CounterActions, Regressions, ComputeRegressions,
     RegressionOfSlot
<1>6. IndexInv'
  BY <1>1, <1>2, <1>3 DEF CountersInv, IndexInv, RegressionOfSlot
<1>7. FirstSlotsInv'
  BY <1>1, <1>2, <1>3 DEF CountersInv, FirstSlotsInv, RegressionOfSlot
<1>8. LinksInv'
  BY <1>1, <1>2, <1>3 DEF CountersInv, LinksInv, LinksAgree, RegressionOfSlot
<1>9. numCounters' = Cardinality(CountersOf(Conjunctions'))
  BY <1>1, <1>2, Zenon DEF CountersInv
<1> QED
  BY <1>4, <1>5, <1>6, <1>7, <1>8, <1>9 DEF CountersInv, CountersOf, Regressions

\* Whatever is added and removed, the counters of the conjunctions heuristic keep
\* the invariant.
THEOREM CountersAreKept == Spec => []CountersInv
<1>1. Init => CountersInv
  BY InitCounters
<1>2. CountersInv /\ [Next]_vars => CountersInv'
  BY NextCounters, StutterCounters
<1> QED
  BY <1>1, <1>2, PTL DEF Spec

\* In the invariant every slot is accounted for.
LEMMA InvSlots ==
  ASSUME CountersInv
  PROVE  SlotsAreConsistent
<1>1. /\ LinksAgree
      /\ unused \subseteq 1 .. Len(counterGroups)
      /\ Len(counterGroups) \notin unused
      /\ 1 .. NumSingletonCounterGroups \subseteq InUse
  BY DEF CountersInv, LinksInv, SlotsInv, FirstSlotsInv
<1>2. \A i \in InUse :
        LET r == counterGroups[i].regression
        IN  IF r = {} THEN emptySlot = i ELSE r \in DOMAIN byRegression /\ byRegression[r] = i
  BY DEF CountersInv, IndexInv, RegressionOfSlot
<1>3. \A r \in DOMAIN byRegression : byRegression[r] \in InUse
  BY DEF CountersInv, IndexInv
<1>4. \A c \in Conjunctions : Range(slotsOf[c]) \subseteq InUse
  BY DEF CountersInv, MembersInv, Range
<1> QED
  BY <1>1, <1>2, <1>3, <1>4 DEF SlotsAreConsistent

\* Whatever is added and removed, every slot of counter_groups is accounted for.
THEOREM SlotsStayConsistent == Spec => []SlotsAreConsistent
<1>1. CountersInv => SlotsAreConsistent
  BY InvSlots
<1> QED
  BY <1>1, CountersAreKept, PTL

\* In the invariant the counters of the groups are those of the conjunctions.
LEMMA InvMembers ==
  ASSUME CountersInv
  PROVE  CountersAreAccounted
<1> DEFINE members == UNION {counterGroups[i].group \X {i} : i \in InUse}
           pointed == UNION {{<<<<a, c>>, slotsOf[c][a]>> : a \in DOMAIN slotsOf[c]} : c \in Conjunctions}
           K == CountersOf(Conjunctions)
           f == [k \in K |-> <<k, slotsOf[k[2]][k[1]]>>]
<1>1. /\ DOMAIN slotsOf = Conjunctions
      /\ \A c \in Conjunctions :
           /\ slotsOf[c] \in [CounterActions(c) -> InUse]
           /\ \A a \in CounterActions(c) :
                /\ <<a, c>> \in counterGroups[slotsOf[c][a]].group
                /\ RegressionOfSlot(slotsOf[c][a]) = Regression(a, c)
      /\ \A i \in InUse : \A k \in counterGroups[i].group :
           /\ k[2] \in Conjunctions /\ k[1] \in CounterActions(k[2])
           /\ slotsOf[k[2]][k[1]] = i
  BY DEF CountersInv, MembersInv
<1>2. \A i \in InUse : \A k \in counterGroups[i].group : k = <<k[1], k[2]>>
  BY OneGroup DEF Group
<1>3. Conjunctions \in SUBSET (Singletons \cup Learnable)
  BY OneGroup
<1>4. ASSUME NEW m
      PROVE  m \in members <=>
               \E c \in Conjunctions : \E a \in CounterActions(c) : m = <<<<a, c>>, slotsOf[c][a]>>
  <2>1. ASSUME m \in members
        PROVE  \E c \in Conjunctions : \E a \in CounterActions(c) : m = <<<<a, c>>, slotsOf[c][a]>>
    <3>1. PICK i \in InUse : \E k \in counterGroups[i].group : m = <<k, i>>
      BY <2>1
    <3>2. PICK k \in counterGroups[i].group : m = <<k, i>>
      BY <3>1
    <3> QED
      BY <1>1, <1>2, <3>2
  <2>2. ASSUME NEW c \in Conjunctions, NEW a \in CounterActions(c), m = <<<<a, c>>, slotsOf[c][a]>>
        PROVE  m \in members
    <3>1. slotsOf[c][a] \in InUse /\ <<a, c>> \in counterGroups[slotsOf[c][a]].group
      BY <1>1
    <3>2. m \in counterGroups[slotsOf[c][a]].group \X {slotsOf[c][a]}
      BY <2>2, <3>1
    <3> QED
      BY <3>1, <3>2
  <2> QED
    BY <2>1, <2>2
<1>5. members = pointed
  <2>1. \A c \in Conjunctions : DOMAIN slotsOf[c] = CounterActions(c)
    BY <1>1
  <2>2. \A m : m \in pointed <=>
          \E c \in Conjunctions : \E a \in CounterActions(c) : m = <<<<a, c>>, slotsOf[c][a]>>
    BY <2>1
  <2> HIDE DEF members, pointed
  <2>3. \A m : m \in members <=> m \in pointed
    BY <1>4, <2>2
  <2> QED
    BY <2>3
<1>6. \A m \in members : counterGroups[m[2]].regression = RegressionOfCounter(m[1])
  <2> SUFFICES ASSUME NEW m \in members
               PROVE  counterGroups[m[2]].regression = RegressionOfCounter(m[1])
    OBVIOUS
  <2>1. PICK c \in Conjunctions : \E a \in CounterActions(c) : m = <<<<a, c>>, slotsOf[c][a]>>
    BY <1>4
  <2>2. PICK a \in CounterActions(c) : m = <<<<a, c>>, slotsOf[c][a]>>
    BY <2>1
  <2>3. RegressionOfSlot(slotsOf[c][a]) = Regression(a, c)
    BY <1>1
  <2> QED
    BY <2>2, <2>3 DEF RegressionOfSlot, RegressionOfCounter
<1>7. \A k \in K : k = <<k[1], k[2]>> /\ k[2] \in Conjunctions /\ k[1] \in CounterActions(k[2])
  <2>1. \A k \in K : k = <<k[1], k[2]>>
    BY <1>3, CountersByConjunction
  <2>2. \A a, c : <<a, c>> \in K <=> c \in Conjunctions /\ a \in CounterActions(c)
    BY <1>3, CountersByConjunction
  <2> HIDE DEF K
  <2> QED
    BY <2>1, <2>2
<1>8. IsFiniteSet(K)
  BY <1>3, FinitelyMany
<1>9. \A c \in Conjunctions : \A a \in CounterActions(c) : <<a, c>> \in K
  BY <1>3, CountersByConjunction
<1> HIDE DEF K
<1>10. \A k \in K : f[k] \in members
  <2> SUFFICES ASSUME NEW k \in K PROVE f[k] \in members
    OBVIOUS
  <2>1. f[k] = <<<<k[1], k[2]>>, slotsOf[k[2]][k[1]]>>
    BY <1>7
  <2> HIDE DEF f, members
  <2> QED
    BY <1>4, <1>7, <2>1
<1>11. f \in [K -> members]
  <2> HIDE DEF members
  <2> QED
    BY <1>10
<1>12. \A x, y \in K : f[x] = f[y] => x = y
  OBVIOUS
<1>13. \A m \in members : \E k \in K : f[k] = m
  <2> SUFFICES ASSUME NEW m \in members PROVE \E k \in K : f[k] = m
    OBVIOUS
  <2>1. PICK c \in Conjunctions : \E a \in CounterActions(c) : m = <<<<a, c>>, slotsOf[c][a]>>
    BY <1>4
  <2>2. PICK a \in CounterActions(c) : m = <<<<a, c>>, slotsOf[c][a]>>
    BY <2>1
  <2>3. <<a, c>> \in K /\ f[<<a, c>>] = m
    BY <1>9, <2>2
  <2> QED
    BY <2>3
<1>14. numCounters = Cardinality(members)
  <2>1. Cardinality(members) = Cardinality(K)
    <3> HIDE DEF f, members
    <3> QED
      BY <1>8, <1>11, <1>12, <1>13, SameSize
  <2> QED
    BY <2>1, Zenon DEF CountersInv, K
<1> QED
  BY <1>5, <1>6, <1>14 DEF CountersAreAccounted

\* Whatever is added and removed, the groups hold the counters of the conjunctions,
\* each under its regression, and num_counters is their number.
THEOREM CountersStayAccounted == Spec => []CountersAreAccounted
<1>1. CountersInv => CountersAreAccounted
  BY InvMembers
<1> QED
  BY <1>1, CountersAreKept, PTL

-----------------------------------------------------------------------------
\* Conjunctions that are part of others waited for change nothing about what is waited for.
LEMMA DominatedAddNothing ==
  ASSUME NEW C \in SUBSET SUBSET Facts, NEW D \in SUBSET SUBSET Facts, C \cap D = {}, NEW F,
         \A c \in D : c \subseteq F => \E d \in NonDominatedWithin(F, C) : c \subseteq d
  PROVE  NonDominatedWithin(F, C \cup D) = NonDominatedWithin(F, C)
<1>1. ASSUME NEW e \in NonDominatedWithin(F, C)
      PROVE  e \in NonDominatedWithin(F, C \cup D)
  <2>1. e \in C /\ e \subseteq F /\ \A d \in C : d \subseteq F /\ e \subseteq d => e = d
    BY DEF NonDominatedWithin, NonDominated
  <2>2. ASSUME NEW c \in D, c \subseteq F, e \subseteq c PROVE FALSE
    <3>1. PICK d \in NonDominatedWithin(F, C) : c \subseteq d
      BY <2>2
    <3>2. d \in C /\ d \subseteq F
      BY DEF NonDominatedWithin, NonDominated
    <3>3. e \subseteq d
      BY <2>2, <3>1
    <3>4. e = d
      BY <2>1, <3>2, <3>3
    <3>5. c = d
      BY <2>2, <3>1, <3>4
    <3> QED
      BY <3>2, <3>5
  <2> QED
    BY <2>1, <2>2 DEF NonDominatedWithin, NonDominated
<1>2. ASSUME NEW e \in NonDominatedWithin(F, C \cup D)
      PROVE  e \in NonDominatedWithin(F, C)
  <2>1. e \in C \cup D /\ e \subseteq F /\ \A d \in C \cup D : d \subseteq F /\ e \subseteq d => e = d
    BY DEF NonDominatedWithin, NonDominated
  <2>2. e \notin D
    <3> SUFFICES ASSUME e \in D PROVE FALSE
      OBVIOUS
    <3>1. PICK d \in NonDominatedWithin(F, C) : e \subseteq d
      BY <2>1
    <3>2. d \in C /\ d \subseteq F
      BY DEF NonDominatedWithin, NonDominated
    <3> QED
      BY <2>1, <3>1, <3>2
  <2> QED
    BY <2>1, <2>2 DEF NonDominatedWithin, NonDominated
<1> QED
  BY <1>1, <1>2

\* What is waited for after one conjunction has gone, whether or not it was waited for.
LEMMA WithoutIsRecomputed ==
  ASSUME NEW C \in SUBSET SUBSET Facts, NEW F, NEW c \in C
  PROVE  (IF c \in NonDominatedWithin(F, C)
          THEN WithoutConjunction(NonDominatedWithin(F, C), c, C \ {c})
          ELSE NonDominatedWithin(F, C)) = NonDominatedWithin(F, C \ {c})
<1>1. CASE c \in NonDominatedWithin(F, C)
  BY <1>1, WithoutConjunctionIsRecomputed
<1>2. CASE c \notin NonDominatedWithin(F, C)
  <2>1. ASSUME c \subseteq F
        PROVE  \E d \in NonDominatedWithin(F, C \ {c}) : c \subseteq d
    <3>1. PICK d \in NonDominatedWithin(F, C) : c \subseteq d
      BY <2>1, NonDominatedAbove
    <3>2. d \in NonDominatedWithin(F, C \ {c})
      BY <1>2 DEF NonDominatedWithin, NonDominated
    <3> QED
      BY <3>1, <3>2
  <2>2. NonDominatedWithin(F, (C \ {c}) \cup {c}) = NonDominatedWithin(F, C \ {c})
    <3> DEFINE rest == C \ {c}
               one  == {c}
    <3>1. rest \in SUBSET SUBSET Facts /\ one \in SUBSET SUBSET Facts /\ rest \cap one = {}
      OBVIOUS
    <3>2. \A e \in one : e \subseteq F => \E d \in NonDominatedWithin(F, rest) : e \subseteq d
      BY <2>1
    <3> HIDE DEF rest, one
    <3>3. NonDominatedWithin(F, rest \cup one) = NonDominatedWithin(F, rest)
      BY <3>1, <3>2, DominatedAddNothing
    <3> QED
      BY <3>3 DEF rest, one
  <2>3. (C \ {c}) \cup {c} = C
    OBVIOUS
  <2> QED
    BY <1>2, <2>2, <2>3
<1> QED
  BY <1>1, <1>2

\* No singleton dominates another one.
LEMMA SingletonsWithin ==
  ASSUME NEW F
  PROVE  /\ NonDominated({c \in Singletons : c \subseteq F}) = {c \in Singletons : c \subseteq F}
         /\ F \in SUBSET Facts => NonDominatedWithin(F, Singletons) = {{f} : f \in F}
         /\ NonDominated({c \in Singletons : c \subseteq F}) = NonDominatedWithin(F, Singletons)
BY DEF NonDominated, NonDominatedWithin, Singletons

\* The non-dominated goals are the conjunctions within the goal that no other dominates.
LEMMA GoalsWithin ==
  ASSUME NEW C
  PROVE  NonDominated({c \in C : IsGoalSet(c)}) = NonDominatedWithin(GoalFacts, C)
BY DEF NonDominatedWithin, IsGoalSet

-----------------------------------------------------------------------------
\* The constructor: every group waits for the singletons of its regression.
LEMMA InitWaits ==
  ASSUME Init
  PROVE  WaitsInv
<1> DEFINE order == SetToSeq(SingletonRegressions)
<1>1. /\ learned = {} /\ unused = {}
      /\ counterGroups = [i \in DOMAIN order |->
           [regression |-> order[i],
            group      |-> {k \in SingletonCounters : RegressionOfCounter(k) = order[i]},
            waitsFor   |-> InitialWaitsFor(order[i], Singletons)]]
      /\ goalConjunctions = {c \in Singletons : IsGoalSet(c)}
      /\ nonDominatedGoals = {c \in Singletons : IsGoalSet(c)}
  BY DEF Init
<1>2. Conjunctions = Singletons
  BY <1>1 DEF Conjunctions
<1>3. InUse \subseteq DOMAIN order
  <2>1. Cardinality(SingletonRegressions) \in Nat
        /\ order \in [1 .. Cardinality(SingletonRegressions) -> SingletonRegressions]
    <3> HIDE DEF order
    <3> QED
      BY SingletonRegressionsFinite, SetToSeqIsBijection DEF order
  <2> HIDE DEF order
  <2>2. Len(counterGroups) = Cardinality(SingletonRegressions)
    BY <1>1, <2>1
  <2> QED
    BY <1>1, <2>1, <2>2 DEF InUse
<1> HIDE DEF order
<1>4. ASSUME NEW i \in InUse
      PROVE  counterGroups[i].waitsFor = InitialWaitsFor(RegressionOfSlot(i), Conjunctions)
  <2>1. counterGroups[i] = [regression |-> order[i],
            group      |-> {k \in SingletonCounters : RegressionOfCounter(k) = order[i]},
            waitsFor   |-> InitialWaitsFor(order[i], Singletons)]
    BY <1>1, <1>3
  <2> QED
    BY <1>2, <2>1 DEF RegressionOfSlot
<1>5. nonDominatedGoals = NonDominated(goalConjunctions)
  BY <1>1, SingletonsWithin DEF IsGoalSet
<1> QED
  BY <1>1, <1>2, <1>4, <1>5 DEF WaitsInv

\* add_conjunctions: a group waits for what recomputing would give, provided no
\* counter has its own conjunction in its regression.
LEMMA UpdatedIsRecomputed ==
  ASSUME CountersInv, WaitsInv, WithinNoneOfItsRegressions,
         NEW new \in SUBSET Learnable, new # {}, new \cap Conjunctions = {}, NEW i \in InUse
  PROVE  LET joined == {k \in CountersOf(new) : RegressionOfCounter(k) = RegressionOfSlot(i)}
         IN  UpdatedWaitsFor(i, new, joined) = InitialWaitsFor(RegressionOfSlot(i), Conjunctions \cup new)
<1> DEFINE r == RegressionOfSlot(i)
           w == counterGroups[i].waitsFor
           C == Conjunctions
           joined == {k \in CountersOf(new) : RegressionOfCounter(k) = r}
<1>1. /\ C \in SUBSET (Singletons \cup Learnable) /\ new \in SUBSET (Singletons \cup Learnable)
      /\ C \in SUBSET SUBSET Facts /\ new \in SUBSET SUBSET Facts
      /\ IsFiniteSet(new)
  BY OneGroup, FinitelyMany
<1>2. w = InitialWaitsFor(r, C)
  BY DEF WaitsInv
<1>3. CASE r = {}
  <2>1. UpdatedWaitsFor(i, new, joined) = w
    <3> HIDE DEF joined
    <3> QED
      BY <1>3, UpdatedWaits
  <2>2. w = {DummyPrecondition} /\ InitialWaitsFor(r, C \cup new) = {DummyPrecondition}
    BY <1>2, <1>3 DEF InitialWaitsFor
  <2> QED
    BY <2>1, <2>2
<1>4. CASE r # {}
  <2>1. w = NonDominatedWithin(r, C)
    BY <1>2, <1>4 DEF InitialWaitsFor
  <2>2. InitialWaitsFor(r, C \cup new) = NonDominatedWithin(r, C \cup new)
    BY <1>4 DEF InitialWaitsFor
  <2> DEFINE first == CHOOSE c \in new : TRUE
  <2>3. UpdatedWaitsFor(i, new, joined) =
          IF Cardinality(new) > 1
          THEN IF \E d \in new : d \subseteq r /\ \A e \in w : ~(d \subseteq e)
               THEN NonDominatedWithin(r, C \cup new)
               ELSE w
          ELSE IF joined # {} \/ ~(first \subseteq r) THEN w ELSE WithConjunction(w, first)
    BY DEF UpdatedWaitsFor, RegressionOfSlot
  <2>4. first \in new
    OBVIOUS
  <2>5. ASSUME joined # {}, NEW c, new = {c} PROVE ~(c \subseteq r)
    <3>1. PICK k \in CountersOf(new) : RegressionOfCounter(k) = r
      BY <2>5
    <3>2. k = <<k[1], k[2]>>
      BY <1>1, CountersByConjunction
    <3>3. k[2] \in new /\ k[1] \in CounterActions(k[2])
      BY <1>1, <3>1, <3>2, CountersByConjunction
    <3>4. c \in Learnable /\ k[1] \in CounterActions(c) /\ r = Regression(k[1], c)
      BY <2>5, <3>1, <3>3 DEF RegressionOfCounter
    <3> QED
      BY <3>4 DEF WithinNoneOfItsRegressions
  <2> HIDE DEF r, w, joined, first, C
  <2>6. ASSUME \A c \in new : c \subseteq r => \E d \in w : c \subseteq d
        PROVE  w = NonDominatedWithin(r, C \cup new)
    <3>1. C \in SUBSET SUBSET Facts /\ new \in SUBSET SUBSET Facts /\ C \cap new = {}
      BY <1>1 DEF C
    <3>2. \A c \in new : c \subseteq r => \E d \in NonDominatedWithin(r, C) : c \subseteq d
      BY <2>1, <2>6
    <3>3. NonDominatedWithin(r, C \cup new) = NonDominatedWithin(r, C)
      BY <3>1, <3>2, DominatedAddNothing
    <3> QED
      BY <2>1, <3>3
  <2>7. ASSUME Cardinality(new) > 1
        PROVE  UpdatedWaitsFor(i, new, joined) = NonDominatedWithin(r, C \cup new)
    <3>1. CASE \E d \in new : d \subseteq r /\ \A e \in w : ~(d \subseteq e)
      BY <2>3, <2>7, <3>1
    <3>2. CASE ~\E d \in new : d \subseteq r /\ \A e \in w : ~(d \subseteq e)
      <4>1. w = NonDominatedWithin(r, C \cup new)
        BY <2>6, <3>2
      <4> QED
        BY <2>3, <2>7, <3>2, <4>1
    <3> QED
      BY <3>1, <3>2
  <2>8. ASSUME ~(Cardinality(new) > 1)
        PROVE  UpdatedWaitsFor(i, new, joined) = NonDominatedWithin(r, C \cup new)
    <3>1. new = {first}
      <4>1. Cardinality(new) \in Nat /\ Cardinality(new) # 0
        BY <1>1, FS_CardinalityType, FS_EmptySet
      <4>2. Cardinality(new) = 1
        BY <2>8, <4>1
      <4>3. PICK c : new = {c}
        BY <1>1, <4>2, FS_Singleton
      <4> QED
        BY <2>4, <4>3
    <3>2. CASE joined # {} \/ ~(first \subseteq r)
      <4>1. ~(first \subseteq r)
        BY <2>5, <3>1, <3>2
      <4>2. w = NonDominatedWithin(r, C \cup new)
        BY <2>6, <3>1, <4>1
      <4> QED
        BY <2>3, <2>8, <3>2, <4>2
    <3>3. CASE ~(joined # {} \/ ~(first \subseteq r))
      <4>1. WithConjunction(NonDominatedWithin(r, C), first) = NonDominatedWithin(r, C \cup {first})
        <5>1. first \notin C /\ first \in SUBSET Facts /\ first \subseteq r
          BY <1>1, <2>4, <3>3 DEF C
        <5> QED
          BY <1>1, <5>1, WithConjunctionIsRecomputed DEF C
      <4>2. WithConjunction(w, first) = NonDominatedWithin(r, C \cup new)
        BY <2>1, <3>1, <4>1
      <4> QED
        BY <2>3, <2>8, <3>3, <4>2
    <3> QED
      BY <3>2, <3>3
  <2> QED
    BY <2>2, <2>7, <2>8 DEF r, joined, C
<1> QED
  BY <1>3, <1>4

\* add_conjunctions keeps what the groups wait for and the goal conjunctions as
\* recomputing would have them.
LEMMA LearnWaits ==
  ASSUME CountersInv, WaitsInv, WithinNoneOfItsRegressions,
         NEW n \in Nat \ {0}, NEW factsets \in [1 .. n -> Learnable \ learned],
         IsInjective(factsets), AddConjunctions(factsets)
  PROVE  /\ WaitsInv'
         /\ \E new \in SUBSET (Learnable \ learned) : learned' = learned \cup new
<1> DEFINE new   == Range(factsets)
           all   == Conjunctions \cup new
           added == CountersOf(new)
           slot  == SlotsFor(factsets)
           fresh == DOMAIN slot
           taken == Range(slot)
           Joined(r) == {k \in added : RegressionOfCounter(k) = r}
           newGoals == {c \in new : IsGoalSet(c)}
<1>1. /\ new \in SUBSET Learnable /\ new # {} /\ new \cap Conjunctions = {}
      /\ Conjunctions' = all
      /\ SlotsInv'
      /\ InUse' = InUse \cup taken /\ InUse \cap taken = {}
      /\ \A r \in fresh : r # {} /\ ~\E i \in InUse : RegressionOfSlot(i) = r
      /\ \A q, r \in fresh : slot[q] = slot[r] => q = r
      /\ \A k \in added : RegressionOfCounter(k) \in fresh
           \/ \E i \in InUse : RegressionOfSlot(i) = RegressionOfCounter(k)
      /\ \A i \in InUse :
           /\ SlotOf(slot, RegressionOfSlot(i)) = i
           /\ RegressionOfSlot(i)' = RegressionOfSlot(i)
           /\ counterGroups'[i].group = counterGroups[i].group \cup Joined(RegressionOfSlot(i))
           /\ \E joined \in {Joined(RegressionOfSlot(i))} :
                counterGroups'[i].waitsFor = UpdatedWaitsFor(i, new, joined)
      /\ \A r \in fresh :
           counterGroups'[slot[r]] = [regression |-> r, group |-> Joined(r),
                                      waitsFor   |-> InitialWaitsFor(r, all)]
  BY LearnSlots
<1>2. /\ learned' = learned \cup new
      /\ goalConjunctions' = goalConjunctions \cup newGoals
      /\ nonDominatedGoals' = IF newGoals = {} THEN nonDominatedGoals
                              ELSE NonDominated(goalConjunctions \cup newGoals)
  BY DEF AddConjunctions
<1>3. \A i \in taken : \E r \in fresh : slot[r] = i
  BY DEF Range
<1>4. new \cap learned = {}
  BY <1>1 DEF Conjunctions
<1> HIDE DEF new, slot, taken
<1>5. ASSUME NEW i \in InUse'
      PROVE  counterGroups'[i].waitsFor = InitialWaitsFor(counterGroups'[i].regression, all)
  <2>1. CASE i \in InUse
    <3>1. counterGroups'[i].waitsFor = UpdatedWaitsFor(i, new, Joined(RegressionOfSlot(i)))
      BY <1>1, <2>1
    <3>2. UpdatedWaitsFor(i, new, Joined(RegressionOfSlot(i)))
            = InitialWaitsFor(RegressionOfSlot(i), Conjunctions \cup new)
      BY <1>1, <2>1, UpdatedIsRecomputed
    <3> HIDE DEF Joined
    <3>3. counterGroups'[i].regression = RegressionOfSlot(i)
      BY <1>1, <2>1 DEF RegressionOfSlot
    <3> QED
      BY <3>1, <3>2, <3>3
  <2>2. CASE i \in taken
    <3>1. PICK r \in fresh : slot[r] = i
      BY <1>3, <2>2
    <3>2. counterGroups'[slot[r]] = [regression |-> r, group |-> Joined(r),
                                     waitsFor   |-> InitialWaitsFor(r, all)]
      BY <1>1
    <3> HIDE DEF Joined, all
    <3> QED
      BY <3>1, <3>2
  <2> QED
    BY <1>1, <2>1, <2>2
<1>6. goalConjunctions' = {c \in all : IsGoalSet(c)}
  BY <1>2 DEF WaitsInv
<1>7. nonDominatedGoals' = NonDominated(goalConjunctions')
  <2>1. CASE newGoals = {}
    <3>1. goalConjunctions' = goalConjunctions
      BY <1>2, <2>1
    <3> QED
      BY <1>2, <2>1, <3>1 DEF WaitsInv
  <2>2. CASE newGoals # {}
    BY <1>2, <2>2
  <2> QED
    BY <2>1, <2>2
<1>8. WaitsInv'
  <2> HIDE DEF all
  <2> QED
    BY <1>1, <1>5, <1>6, <1>7 DEF WaitsInv, RegressionOfSlot, InitialWaitsFor, NonDominatedWithin,
       NonDominated, IsGoalSet
<1> QED
  BY <1>1, <1>2, <1>4, <1>8

\* remove_conjunction keeps them, too.
LEMMA ForgetWaits ==
  ASSUME CountersInv, WaitsInv, NEW c \in learned, RemoveConjunction(c)
  PROVE  WaitsInv' /\ learned' = learned \ {c}
<1> DEFINE rest == Conjunctions \ {c}
           removed == {i \in Range(slotsOf[c]) :
                         counterGroups[i].group = {k \in counterGroups[i].group : k[2] = c}}
<1>1. /\ Conjunctions' = rest /\ c \in Conjunctions
      /\ InUse' = InUse \ removed
      /\ \A i \in InUse' :
           /\ RegressionOfSlot(i)' = RegressionOfSlot(i)
           /\ counterGroups'[i].waitsFor =
                IF c \in counterGroups[i].waitsFor
                THEN WithoutConjunction(counterGroups[i].waitsFor, c, rest)
                ELSE counterGroups[i].waitsFor
  BY ForgetSlots
<1>2. /\ learned' = learned \ {c}
      /\ goalConjunctions' = goalConjunctions \ {c}
      /\ nonDominatedGoals' = IF c \in nonDominatedGoals
                              THEN WithoutConjunction(nonDominatedGoals, c, rest)
                              ELSE nonDominatedGoals
  BY DEF RemoveConjunction
<1>3. Conjunctions \in SUBSET SUBSET Facts /\ c # DummyPrecondition
  <2>1. Conjunctions \in SUBSET (Singletons \cup Learnable)
    BY OneGroup
  <2> QED
    BY <1>1, <2>1, FinitelyMany, ConjunctionSizes DEF DummyPrecondition
<1> HIDE DEF removed
<1>4. ASSUME NEW i \in InUse'
      PROVE  counterGroups'[i].waitsFor = InitialWaitsFor(counterGroups'[i].regression, rest)
  <2> DEFINE r == RegressionOfSlot(i)
             w == counterGroups[i].waitsFor
  <2>1. i \in InUse /\ w = InitialWaitsFor(r, Conjunctions)
    BY <1>1 DEF WaitsInv
  <2>2. counterGroups'[i].regression = r
    BY <1>1 DEF RegressionOfSlot
  <2>3. counterGroups'[i].waitsFor =
          IF c \in w THEN WithoutConjunction(w, c, rest) ELSE w
    BY <1>1
  <2> HIDE DEF r, w
  <2>4. CASE r = {}
    <3>1. w = {DummyPrecondition} /\ InitialWaitsFor(r, rest) = {DummyPrecondition}
      BY <2>1, <2>4 DEF InitialWaitsFor
    <3> HIDE DEF rest
    <3> QED
      BY <1>3, <2>2, <2>3, <3>1
  <2>5. CASE r # {}
    <3>1. w = NonDominatedWithin(r, Conjunctions)
          /\ InitialWaitsFor(r, rest) = NonDominatedWithin(r, rest)
      BY <2>1, <2>5 DEF InitialWaitsFor
    <3>2. (IF c \in w THEN WithoutConjunction(w, c, rest) ELSE w) = NonDominatedWithin(r, rest)
      BY <1>1, <1>3, <3>1, WithoutIsRecomputed
    <3> HIDE DEF rest
    <3> QED
      BY <2>2, <2>3, <3>1, <3>2
  <2> QED
    BY <2>4, <2>5
<1>5. goalConjunctions' = {d \in rest : IsGoalSet(d)}
  BY <1>2 DEF WaitsInv
<1>6. nonDominatedGoals' = NonDominated(goalConjunctions')
  <2> DEFINE w == nonDominatedGoals
  <2>1. w = NonDominatedWithin(GoalFacts, Conjunctions)
    BY GoalsWithin DEF WaitsInv
  <2>2. (IF c \in w THEN WithoutConjunction(w, c, rest) ELSE w) = NonDominatedWithin(GoalFacts, rest)
    <3> HIDE DEF w
    <3> QED
      BY <1>1, <1>3, <2>1, WithoutIsRecomputed
  <2>3. NonDominated(goalConjunctions') = NonDominatedWithin(GoalFacts, rest)
    BY <1>5, GoalsWithin
  <2> QED
    BY <1>2, <2>2, <2>3
<1>7. WaitsInv'
  <2> HIDE DEF rest
  <2> QED
    BY <1>1, <1>4, <1>5, <1>6 DEF WaitsInv, RegressionOfSlot, InitialWaitsFor, NonDominatedWithin,
       NonDominated, IsGoalSet
<1> QED
  BY <1>2, <1>7

\* remove_all_conjunctions keeps them as well.
LEMMA ForgetAllWaits ==
  ASSUME CountersInv, WaitsInv, RemoveAllConjunctions
  PROVE  WaitsInv' /\ learned' = {}
<1> DEFINE slots == 1 .. NumSingletonCounterGroups
<1>1. /\ learned' = {}
      /\ counterGroups' = [i \in slots |-> SingletonGroup(counterGroups[i])]
      /\ unused' = {}
      /\ goalConjunctions' = goalConjunctions \cap Singletons
      /\ nonDominatedGoals' = goalConjunctions \cap Singletons
  BY DEF RemoveAllConjunctions
<1>2. Conjunctions' = Singletons
  BY <1>1 DEF Conjunctions
<1>3. slots \subseteq InUse
  BY DEF CountersInv, FirstSlotsInv
<1>4. InUse' = slots
  <2>1. NumSingletonCounterGroups \in Nat
    BY SingletonRegressionsFinite, FS_CardinalityType DEF NumSingletonCounterGroups
  <2>2. Len(counterGroups') = NumSingletonCounterGroups
    BY <1>1, <2>1
  <2> QED
    BY <1>1, <2>2 DEF InUse
<1> HIDE DEF slots
<1>5. ASSUME NEW i \in slots
      PROVE  counterGroups'[i].waitsFor = InitialWaitsFor(counterGroups'[i].regression, Singletons)
  <2> DEFINE r == RegressionOfSlot(i)
             w == counterGroups[i].waitsFor
             v == IF r = {} THEN w ELSE {{f} : f \in r}
             g == {k \in counterGroups[i].group : Cardinality(k[2]) <= 1}
  <2>1. i \in InUse /\ w = InitialWaitsFor(r, Conjunctions) /\ r \in SUBSET Facts
    BY <1>3, OneGroup DEF WaitsInv
  <2>2. counterGroups'[i] = [regression |-> r, group |-> g, waitsFor |-> v]
    BY <1>1 DEF SingletonGroup, RegressionOfSlot
  <2> HIDE DEF r, w, v, g
  <2>3. counterGroups'[i].regression = r /\ counterGroups'[i].waitsFor = v
    BY <2>2
  <2>4. v = InitialWaitsFor(r, Singletons)
    <3>1. CASE r = {}
      BY <2>1, <3>1 DEF InitialWaitsFor, v
    <3>2. CASE r # {}
      BY <2>1, <3>2, SingletonsWithin DEF InitialWaitsFor, v
    <3> QED
      BY <3>1, <3>2
  <2> QED
    BY <2>3, <2>4
<1>6. goalConjunctions' = {c \in Singletons : IsGoalSet(c)}
  BY <1>1 DEF WaitsInv, Conjunctions
<1>7. nonDominatedGoals' = NonDominated(goalConjunctions')
  <2>1. nonDominatedGoals' = {c \in Singletons : IsGoalSet(c)}
    BY <1>1, <1>6
  <2> QED
    BY <1>6, <2>1, SingletonsWithin DEF IsGoalSet
<1> QED
  BY <1>1, <1>2, <1>4, <1>5, <1>6, <1>7 DEF WaitsInv, RegressionOfSlot, InitialWaitsFor,
     NonDominatedWithin, NonDominated, IsGoalSet

-----------------------------------------------------------------------------
\* The operators ConjunctionSet is written with are those of the counters.
LEMMA SameOperators ==
  /\ \A c : Abstract!SupportingActions(c) = SupportingActions(c)
  /\ \A a, c : Abstract!Regression(a, c) = Regression(a, c)
  /\ \A a, b, c : Abstract!IsSimpler(b, a, c) <=> IsSimpler(b, a, c)
  /\ \A c : Abstract!ContainsMutex(c) <=> ContainsMutex(c)
  /\ \A F, C : Abstract!NonDominatedWithin(F, C) = NonDominatedWithin(F, C)
  /\ \A C : Abstract!NonDominated(C) = NonDominated(C)
  /\ Abstract!Singletons = Singletons
  /\ Abstract!DummyPrecondition = DummyPrecondition
<1>1. \A a, c : Abstract!Regression(a, c) = Regression(a, c)
  BY DEF Abstract!Regression, Regression
<1>2. \A a, b, c : Abstract!IsSimpler(b, a, c) <=> IsSimpler(b, a, c)
  BY DEF Abstract!IsSimpler, IsSimpler, Abstract!Regression, Regression
<1>3. \A f, g : Abstract!AreMutex(f, g) <=> AreMutex(f, g)
  BY DEF Abstract!AreMutex, AreMutex
<1>4. \A c : Abstract!ContainsMutex(c) <=> ContainsMutex(c)
  BY <1>3 DEF Abstract!ContainsMutex, ContainsMutex
<1>5. \A c : Abstract!SupportingActions(c) = SupportingActions(c)
  <2>1. \A a, c : Abstract!IsRegressable(a, c) <=> IsRegressable(a, c)
    BY DEF Abstract!IsRegressable, IsRegressable
  <2>2. \A a, c : Abstract!IsRegressableAndMutexFree(a, c) <=> IsRegressableAndMutexFree(a, c)
    BY <1>3, <2>1 DEF Abstract!IsRegressableAndMutexFree, IsRegressableAndMutexFree
  <2> QED
    BY <2>2 DEF Abstract!SupportingActions, SupportingActions
<1>6. \A C : Abstract!NonDominated(C) = NonDominated(C)
  BY DEF Abstract!NonDominated, NonDominated
<1>7. \A F, C : Abstract!NonDominatedWithin(F, C) = NonDominatedWithin(F, C)
  BY <1>6 DEF Abstract!NonDominatedWithin, NonDominatedWithin
<1>8. Abstract!Singletons = Singletons /\ Abstract!DummyPrecondition = DummyPrecondition
  BY DEF Abstract!Singletons, Singletons, Abstract!DummyPrecondition, DummyPrecondition
<1> QED
  BY <1>1, <1>2, <1>4, <1>5, <1>6, <1>7, <1>8

\* What ConjunctionSet computes from a set of conjunctions, in the terms of the counters.
LEMMA WhatIsPromised ==
  /\ \A r, C : Abstract!Preconditions(r, C) = InitialWaitsFor(r, C)
  /\ \A C : Abstract!GoalsFor(C) = NonDominated({c \in C : IsGoalSet(c)})
  /\ \A c \in Singletons \cup Learnable :
       CounterActions(c) = IF ContainsMutex(c) THEN {} ELSE Abstract!SimplestActions(c)
<1>1. \A r, C : Abstract!Preconditions(r, C) = InitialWaitsFor(r, C)
  BY SameOperators DEF Abstract!Preconditions, InitialWaitsFor
<1>2. \A C : Abstract!GoalsFor(C) = NonDominated({c \in C : IsGoalSet(c)})
  BY SameOperators DEF Abstract!GoalsFor, IsGoalSet
<1>3. ASSUME NEW c \in Singletons \cup Learnable
      PROVE  CounterActions(c) = IF ContainsMutex(c) THEN {} ELSE Abstract!SimplestActions(c)
  <2> DEFINE n == Max({0} \cup Actions) + 1
  <2>1. c \in SUBSET Facts
    BY FinitelyMany
  <2>2. ComputeRegressions(c) = SimplestBelow(c, n) /\ \A b \in SupportingActions(c) : b < n
    BY <2>1, RegressionsAreSimplest
  <2>3. Abstract!SimplestActions(c) =
          {a \in SupportingActions(c) :
             \A b \in SupportingActions(c) :
               IsSimpler(b, a, c) => Regression(b, c) = Regression(a, c) /\ b >= a}
    BY SameOperators DEF Abstract!SimplestActions
  <2> HIDE DEF n
  <2>4. Abstract!SimplestActions(c) = ComputeRegressions(c)
    BY <2>2, <2>3 DEF SimplestBelow
  <2>5. Regressions[c] = ComputeRegressions(c)
    BY DEF Regressions
  <2> QED
    BY <2>4, <2>5 DEF CounterActions
<1> QED
  BY <1>1, <1>2, <1>3

\* In a state the calls can lead to, the counters and the goals are those ConjunctionSet
\* computes from the conjunctions.
LEMMA CountersMapped ==
  ASSUME CountersInv, WaitsInv
  PROVE  /\ UNION {{<<c, a, counterGroups[slotsOf[c][a]].waitsFor>> : a \in DOMAIN slotsOf[c]} :
                     c \in Conjunctions} = Abstract!CountersFor(Singletons \cup learned)
         /\ nonDominatedGoals = Abstract!GoalsFor(Singletons \cup learned)
<1> DEFINE C == Conjunctions
           mapped == UNION {{<<c, a, counterGroups[slotsOf[c][a]].waitsFor>> : a \in DOMAIN slotsOf[c]} :
                              c \in C}
           promised == Abstract!CountersFor(C)
<1>1. C \in SUBSET (Singletons \cup Learnable) /\ C = Singletons \cup learned
  BY OneGroup DEF Conjunctions
<1>2. \A c \in C :
        /\ DOMAIN slotsOf[c] = CounterActions(c)
        /\ \A a \in CounterActions(c) :
             counterGroups[slotsOf[c][a]].waitsFor = InitialWaitsFor(Regression(a, c), C)
  <2> SUFFICES ASSUME NEW c \in C
               PROVE  /\ DOMAIN slotsOf[c] = CounterActions(c)
                      /\ \A a \in CounterActions(c) :
                           counterGroups[slotsOf[c][a]].waitsFor = InitialWaitsFor(Regression(a, c), C)
    OBVIOUS
  <2>1. slotsOf[c] \in [CounterActions(c) -> InUse]
    BY DEF CountersInv, MembersInv
  <2>2. ASSUME NEW a \in CounterActions(c)
        PROVE  counterGroups[slotsOf[c][a]].waitsFor = InitialWaitsFor(Regression(a, c), C)
    <3>1. slotsOf[c][a] \in InUse /\ RegressionOfSlot(slotsOf[c][a]) = Regression(a, c)
      BY <2>1 DEF CountersInv, MembersInv
    <3> QED
      BY <3>1 DEF WaitsInv
  <2> QED
    BY <2>1, <2>2
<1>3. \A c \in C : CounterActions(c) = IF ContainsMutex(c) THEN {} ELSE Abstract!SimplestActions(c)
  BY <1>1, WhatIsPromised
<1>4. promised = UNION {{<<c, a, InitialWaitsFor(Regression(a, c), C)>> : a \in Abstract!SimplestActions(c)} :
                          c \in {d \in C : ~ContainsMutex(d)}}
  BY SameOperators, WhatIsPromised DEF Abstract!CountersFor
<1>5. \A m : m \in mapped <=>
        \E c \in C : \E a \in CounterActions(c) : m = <<c, a, InitialWaitsFor(Regression(a, c), C)>>
  <2>1. \A m : m \in mapped <=> \E c \in C : \E a \in DOMAIN slotsOf[c] :
                                   m = <<c, a, counterGroups[slotsOf[c][a]].waitsFor>>
    OBVIOUS
  <2> HIDE DEF mapped, C
  <2> QED
    BY <1>2, <2>1
<1>6. \A m : m \in promised <=>
        \E c \in C : \E a \in CounterActions(c) : m = <<c, a, InitialWaitsFor(Regression(a, c), C)>>
  <2>1. \A m : m \in promised <=>
          \E c \in {d \in C : ~ContainsMutex(d)} : \E a \in Abstract!SimplestActions(c) :
             m = <<c, a, InitialWaitsFor(Regression(a, c), C)>>
    BY <1>4
  <2> HIDE DEF promised, C
  <2> QED
    BY <1>3, <2>1
<1>7. mapped = promised
  <2> HIDE DEF mapped, promised
  <2> QED
    BY <1>5, <1>6
<1>8. nonDominatedGoals = Abstract!GoalsFor(C)
  <2>1. Abstract!GoalsFor(C) = NonDominated({c \in C : IsGoalSet(c)})
    BY WhatIsPromised
  <2>2. goalConjunctions = {c \in C : IsGoalSet(c)} /\ nonDominatedGoals = NonDominated(goalConjunctions)
    BY DEF WaitsInv
  <2> QED
    BY <2>1, <2>2
<1> QED
  BY <1>1, <1>7, <1>8

\* What both invariants are worth one step later.
LEMMA MappedLater ==
  CountersInv' /\ WaitsInv' =>
    /\ (UNION {{<<c, a, counterGroups[slotsOf[c][a]].waitsFor>> : a \in DOMAIN slotsOf[c]} :
                 c \in Conjunctions})' = Abstract!CountersFor(Singletons \cup learned')
    /\ nonDominatedGoals' = Abstract!GoalsFor(Singletons \cup learned')
<1> DEFINE mapped == UNION {{<<c, a, counterGroups[slotsOf[c][a]].waitsFor>> : a \in DOMAIN slotsOf[c]} :
                              c \in Conjunctions}
           promised == Abstract!CountersFor(Singletons \cup learned)
           within == Abstract!GoalsFor(Singletons \cup learned)
<1>1. CountersInv /\ WaitsInv => mapped = promised /\ nonDominatedGoals = within
  BY CountersMapped
<1> HIDE DEF mapped, promised, within
<1>2. (CountersInv /\ WaitsInv => mapped = promised /\ nonDominatedGoals = within)'
  BY <1>1, PTL
<1>3. CountersInv' /\ WaitsInv' => mapped' = promised' /\ nonDominatedGoals' = within'
  BY <1>2
<1> USE DEF mapped, promised, within
<1> QED
  BY <1>3

\* An action that supports a conjunction adds one of its facts, which is in the regression
\* only if the action requires it.
LEMMA WithinNone ==
  AddsNothingItRequires => WithinNoneOfItsRegressions
<1> SUFFICES ASSUME AddsNothingItRequires, NEW c \in Learnable, NEW a \in CounterActions(c)
             PROVE  ~(c \subseteq Regression(a, c))
  BY DEF WithinNoneOfItsRegressions
<1>1. a \in SupportingActions(c) /\ a \in Actions
  BY CountersByConjunction
<1>2. PICK f \in c : f \in Eff[a]
  BY <1>1 DEF SupportingActions
<1> QED
  BY <1>1, <1>2 DEF AddsNothingItRequires, Regression

\* If no counter has its own conjunction in its regression, as where no action requires
\* what it adds, the counters are always those one would compute
\* from the conjunctions alone, and so are the goals a relaxed plan starts from: adding
\* and removing conjunctions leave no trace of the way the set was arrived at.
THEOREM CountersImplementConjunctionSet ==
  WithinNoneOfItsRegressions => (Spec => ImplementsConjunctionSet)
<1> SUFFICES ASSUME WithinNoneOfItsRegressions PROVE Spec => ImplementsConjunctionSet
  OBVIOUS
<1> DEFINE Inv == CountersInv /\ WaitsInv
<1>1. Init => Inv /\ Abstract!Init
  <2> SUFFICES ASSUME Init PROVE Inv /\ Abstract!Init
    OBVIOUS
  <2>1. CountersInv /\ WaitsInv
    BY InitCounters, InitWaits
  <2>2. learned = {} /\ Singletons \cup learned = Singletons
    BY DEF Init
  <2> QED
    BY <2>1, <2>2, CountersMapped, SameOperators DEF Abstract!Init
<1> DEFINE mapped == UNION {{<<c, a, counterGroups[slotsOf[c][a]].waitsFor>> : a \in DOMAIN slotsOf[c]} :
                              c \in Conjunctions}
           abstractVars == <<learned, mapped, nonDominatedGoals>>
<1>2. ASSUME Inv, Next PROVE Inv' /\ Abstract!Next
  <2>2. CASE Learn
    <3>1. PICK n \in 1 .. MaxAtOnce : \E factsets \in [1 .. n -> Learnable \ learned] :
                 IsInjective(factsets) /\ AddConjunctions(factsets)
      BY <2>2 DEF Learn
    <3>2. n \in Nat \ {0}
      BY LearnableAssumption DEF LearnableAssumption
    <3>3. PICK factsets \in [1 .. n -> Learnable \ learned] :
                 IsInjective(factsets) /\ AddConjunctions(factsets)
      BY <3>1
    <3>4. CountersInv'
      BY <1>2, <3>2, <3>3, LearnCounters
    <3>5. WaitsInv' /\ \E new \in SUBSET (Learnable \ learned) : learned' = learned \cup new
      BY <1>2, <3>2, <3>3, LearnWaits
    <3>6. Abstract!Add
      <4>1. PICK new \in SUBSET (Learnable \ learned) : learned' = learned \cup new
        BY <3>5
      <4>2. Abstract!Become(learned \cup new)
        BY <3>4, <3>5, <4>1, MappedLater, SameOperators DEF Abstract!Become
      <4> QED
        BY <4>2, Zenon DEF Abstract!Add
    <3> QED
      BY <3>4, <3>5, <3>6 DEF Abstract!Next
  <2>3. CASE Forget
    <3>1. PICK c \in learned : RemoveConjunction(c)
      BY <2>3 DEF Forget
    <3>2. CountersInv'
      BY <1>2, <3>1, ForgetCounters
    <3>3. WaitsInv' /\ learned' = learned \ {c}
      BY <1>2, <3>1, ForgetWaits
    <3>4. Abstract!Remove
      <4>1. Abstract!Become(learned \ {c})
        BY <3>2, <3>3, MappedLater, SameOperators DEF Abstract!Become
      <4> QED
        BY <4>1, Zenon DEF Abstract!Remove
    <3> QED
      BY <3>2, <3>3, <3>4 DEF Abstract!Next
  <2>4. CASE ForgetAll
    <3>1. CountersInv'
      BY <1>2, <2>4, ForgetAllCounters DEF ForgetAll
    <3>2. WaitsInv' /\ learned' = {}
      BY <1>2, <2>4, ForgetAllWaits DEF ForgetAll
    <3>3. Abstract!RemoveAll
      BY <3>1, <3>2, MappedLater, SameOperators DEF Abstract!RemoveAll, Abstract!Become
    <3> QED
      BY <3>1, <3>2, <3>3 DEF Abstract!Next
  <2> QED
    BY <1>2, <2>2, <2>3, <2>4 DEF Next
<1>3. ASSUME Inv, UNCHANGED vars PROVE Inv' /\ UNCHANGED abstractVars
  <2>1. CountersInv'
    BY <1>3, StutterCounters
  <2>2. /\ learned' = learned /\ counterGroups' = counterGroups /\ unused' = unused
        /\ slotsOf' = slotsOf /\ goalConjunctions' = goalConjunctions
        /\ nonDominatedGoals' = nonDominatedGoals
    BY <1>3 DEF vars
  <2>3. Conjunctions' = Conjunctions /\ InUse' = InUse
    BY <2>2 DEF Conjunctions, InUse
  <2>4. WaitsInv'
    BY <1>3, <2>2, <2>3 DEF WaitsInv, RegressionOfSlot, InitialWaitsFor, NonDominatedWithin,
       NonDominated, IsGoalSet
  <2>5. mapped' = mapped
    BY <2>2, <2>3
  <2> QED
    BY <2>1, <2>2, <2>4, <2>5
<1>4. Inv /\ [Next]_vars => Inv' /\ [Abstract!Next]_abstractVars
  BY <1>2, <1>3
<1> QED
  BY <1>1, <1>4, PTL DEF Spec, ImplementsConjunctionSet, Abstract!Spec

=============================================================================
