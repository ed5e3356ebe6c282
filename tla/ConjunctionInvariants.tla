----------------------- MODULE ConjunctionInvariants -----------------------
(***************************************************************************)
(* What holds between any two calls on the counters of the conjunctions    *)
(* heuristic, in enough detail that each call preserves it: the inductive  *)
(* invariant behind SlotsAreConsistent, CountersAreAccounted and the       *)
(* implementation of ConjunctionSet.                                       *)
(***************************************************************************)
EXTENDS ConjunctionCounters

\* The actions a conjunction has a counter for.
CounterActions(c) == IF ContainsMutex(c) THEN {} ELSE Regressions[c]

Group == [regression : SUBSET Facts,
          group      : SUBSET (Actions \X (Singletons \cup Learnable)),
          waitsFor   : SUBSET (Singletons \cup Learnable \cup {DummyPrecondition})]

RegressionOfSlot(i) == counterGroups[i].regression

\* The slot of a regression after the new groups have got theirs.
SlotOf(slot, r) ==
  IF r \in DOMAIN slot THEN slot[r] ELSE IF r = {} THEN emptySlot ELSE byRegression[r]

\* The slots of the vector hold groups; the last one is in use.
SlotsInv ==
  /\ learned \subseteq Learnable
  /\ counterGroups \in Seq(Group)
  /\ unused \subseteq 1 .. Len(counterGroups)
  /\ Len(counterGroups) \notin unused

\* A conjunction has its counters in the groups of their regressions, and a group
\* has no others.
MembersInv ==
  /\ DOMAIN slotsOf = Conjunctions
  /\ \A c \in Conjunctions :
       /\ slotsOf[c] \in [CounterActions(c) -> InUse]
       /\ \A a \in CounterActions(c) :
            /\ <<a, c>> \in counterGroups[slotsOf[c][a]].group
            /\ RegressionOfSlot(slotsOf[c][a]) = Regression(a, c)
  /\ \A i \in InUse : \A k \in counterGroups[i].group :
       /\ k[2] \in Conjunctions /\ k[1] \in CounterActions(k[2])
       /\ slotsOf[k[2]][k[1]] = i

\* The index finds the one group in use of a regression.
IndexInv ==
  /\ byRegression = [r \in DOMAIN byRegression |-> byRegression[r]]
  /\ \A i \in InUse :
       IF RegressionOfSlot(i) = {} THEN emptySlot = i
       ELSE RegressionOfSlot(i) \in DOMAIN byRegression /\ byRegression[RegressionOfSlot(i)] = i
  /\ \A r \in DOMAIN byRegression :
       r # {} /\ byRegression[r] \in InUse /\ RegressionOfSlot(byRegression[r]) = r
  /\ IF {} \in SingletonRegressions
     THEN emptySlot \in InUse /\ RegressionOfSlot(emptySlot) = {}
     ELSE emptySlot = NoSlot

\* The groups of the singletons are in the first slots.
FirstSlotsInv ==
  /\ 1 .. NumSingletonCounterGroups \subseteq InUse
  /\ \A i \in 1 .. NumSingletonCounterGroups : RegressionOfSlot(i) \in SingletonRegressions
  /\ \A r \in SingletonRegressions :
       \E i \in 1 .. NumSingletonCounterGroups : RegressionOfSlot(i) = r

\* Groups wait for conjunctions that exist, a group without regression for the dummy
\* alone, and the conjunctions know the groups that wait for them.
LinksInv ==
  /\ DOMAIN regressionOf = Conjunctions \cup {DummyPrecondition}
  /\ LinksAgree
  /\ \A i \in InUse :
       IF RegressionOfSlot(i) = {} THEN counterGroups[i].waitsFor = {DummyPrecondition}
       ELSE counterGroups[i].waitsFor \subseteq Conjunctions

CountersInv ==
  /\ SlotsInv
  /\ MembersInv
  /\ IndexInv
  /\ FirstSlotsInv
  /\ LinksInv
  /\ numCounters = Cardinality(CountersOf(Conjunctions))

-----------------------------------------------------------------------------
\* No action requires a fact it adds.
AddsNothingItRequires == \A a \in Actions : Pre[a] \cap Eff[a] = {}

\* What follows for the counters: none has its own conjunction in its regression.
WithinNoneOfItsRegressions ==
  \A c \in Learnable : \A a \in CounterActions(c) : ~(c \subseteq Regression(a, c))

\* The groups wait for what one would compute from the conjunctions alone, and the
\* goals are the largest ones.
WaitsInv ==
  /\ \A i \in InUse :
       counterGroups[i].waitsFor = InitialWaitsFor(RegressionOfSlot(i), Conjunctions)
  /\ goalConjunctions = {c \in Conjunctions : IsGoalSet(c)}
  /\ nonDominatedGoals = NonDominated(goalConjunctions)

=============================================================================
