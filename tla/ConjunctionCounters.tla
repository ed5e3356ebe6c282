------------------------- MODULE ConjunctionCounters -------------------------
(***************************************************************************)
(* The counters of the conjunctions heuristic (conjunctions_heuristic.cc): *)
(* for every conjunction and every action that may support it one counter, *)
(* and one counter group for all the counters with the same regression.    *)
(* add_conjunctions, remove_conjunction and remove_all_conjunctions update *)
(* the groups, the two directions of the links between groups and          *)
(* conjunctions, the index of the groups by regression and the goal        *)
(* conjunctions in place; groups live in a vector whose slots are reused.  *)
(*                                                                         *)
(* Slots count from 1.  The vectors whose order is never read are sets:    *)
(* unused_counter_groups (kept sorted), the members of a group, the        *)
(* regression conjunctions, the conjunctions themselves.  Left out are     *)
(* conjunction_statistics, the best supporter graph and the counts of      *)
(* unregressable and unreachable conjunctions.                             *)
(***************************************************************************)
EXTENDS FactRegression, Sequences, SequencesExt

CONSTANTS
  Learnable,      \* the conjunctions a generation strategy may ask for
  MaxLearned,     \* bound on the conjunctions known at a time
  MaxAtOnce       \* bound on the conjunctions added at once

ASSUME LearnableAssumption ==
  /\ Learnable \subseteq SUBSET Facts
  /\ \A c \in Learnable : Cardinality(c) > 1
  /\ MaxLearned \in Nat /\ MaxAtOnce \in Nat

VARIABLES
  learned,                \* the conjunctions after the singletons
  counterGroups,          \* counter_groups, slot by slot
  unused,                 \* unused_counter_groups
  byRegression,           \* counter_groups_by_regression: regression -> slot
  emptySlot,              \* empty_counter_group_index
  slotsOf,                \* conjunction -> its counter_groups: action -> slot
  regressionOf,           \* conjunction -> its regression_of: a set of slots
  goalConjunctions,
  nonDominatedGoals,
  numCounters

vars == <<learned, counterGroups, unused, byRegression, emptySlot, slotsOf,
          regressionOf, goalConjunctions, nonDominatedGoals, numCounters>>

NoSlot == 0

Conjunctions == Singletons \cup learned

InUse == (1 .. Len(counterGroups)) \ unused

IsGoalSet(c) == c \subseteq GoalFacts

\* The counters add_conjunctions gives to new conjunctions.
Regressions == [c \in Singletons \cup Learnable |-> ComputeRegressions(c)]

CountersOf(new) ==
  {k \in Actions \X new : ~ContainsMutex(k[2]) /\ k[1] \in Regressions[k[2]]}

RegressionOfCounter(k) == Regression(k[1], k[2])

InitialWaitsFor(regression, conjunctions) ==
  IF regression = {} THEN {DummyPrecondition} ELSE NonDominatedWithin(regression, conjunctions)

\* A new conjunction triggers no group yet.
Linked(c) == IF c \in DOMAIN regressionOf THEN regressionOf[c] ELSE {}

-----------------------------------------------------------------------------
\* The constructor: add_all_singletons on an empty heuristic.
SingletonCounters == CountersOf(Singletons)

SingletonRegressions == {RegressionOfCounter(k) : k \in SingletonCounters}

NumSingletonCounters == Cardinality(SingletonCounters)

NumSingletonCounterGroups == Cardinality(SingletonRegressions)

Init ==
  LET order == SetToSeq(SingletonRegressions)
      slot  == [r \in SingletonRegressions |-> CHOOSE i \in DOMAIN order : order[i] = r]
  IN  /\ learned = {}
      /\ counterGroups = [i \in DOMAIN order |->
           [regression |-> order[i],
            group      |-> {k \in SingletonCounters : RegressionOfCounter(k) = order[i]},
            waitsFor   |-> InitialWaitsFor(order[i], Singletons)]]
      /\ unused = {}
      /\ byRegression = Restrict(slot, DOMAIN slot \ {{}})
      /\ emptySlot = IF {} \in DOMAIN slot THEN slot[{}] ELSE NoSlot
      /\ slotsOf = [c \in Singletons |->
           [a \in {k[1] : k \in {l \in SingletonCounters : l[2] = c}} |-> slot[Regression(a, c)]]]
      /\ regressionOf = [c \in Singletons \cup {DummyPrecondition} |->
           {i \in DOMAIN order : c \in InitialWaitsFor(order[i], Singletons)}]
      /\ goalConjunctions = {c \in Singletons : IsGoalSet(c)}
      /\ nonDominatedGoals = {c \in Singletons : IsGoalSet(c)}
      /\ numCounters = NumSingletonCounters

-----------------------------------------------------------------------------
\* The slot that the nth call of add_counter_group from here returns: the unused
\* ones from the last to the first, then new ones at the end.
NextSlot(n) ==
  IF n <= Cardinality(unused)
  THEN CHOOSE i \in unused : Cardinality({j \in unused : j >= i}) = n
  ELSE Len(counterGroups) + n - Cardinality(unused)

\* A group that was there before waits for a new conjunction in its regression
\* unless it waits for a larger one, and for nothing the new one contains.
WithConjunction(waitsFor, c) ==
  IF \E d \in waitsFor : c \subseteq d
  THEN waitsFor
  ELSE {d \in waitsFor : ~(d \subseteq c)} \cup {c}

\* update_regression_conjunctions: recomputed when several conjunctions are added
\* at once; for a single one adjusted, but not in a group the conjunction has
\* just joined (group.back().second == conjunction).
UpdatedWaitsFor(i, new, joined) ==
  LET regression == counterGroups[i].regression
      waitsFor   == counterGroups[i].waitsFor
  IN  IF Cardinality(new) > 1
      THEN IF \E c \in new : c \subseteq regression /\ \A d \in waitsFor : ~(c \subseteq d)
           THEN NonDominatedWithin(regression, Conjunctions \cup new)
           ELSE waitsFor
      ELSE LET c == CHOOSE c \in new : TRUE
           IN  IF joined # {} \/ ~(c \subseteq regression)
               THEN waitsFor
               ELSE WithConjunction(waitsFor, c)

\* Several conjunctions: the old and the new list are merged, and regression_of
\* loses and gains the slot where they differ.  A single one: the slot is erased
\* from what it dominates, and pushed on its own unless it is dominated.
Enters(i, c, joined) ==
  /\ joined = {}
  /\ c \subseteq counterGroups[i].regression
  /\ ~\E d \in counterGroups[i].waitsFor : c \subseteq d

LosingLink(i, new, joined) ==
  LET waitsFor == counterGroups[i].waitsFor
  IN  IF Cardinality(new) > 1
      THEN waitsFor \ UpdatedWaitsFor(i, new, joined)
      ELSE LET c == CHOOSE c \in new : TRUE
           IN  IF Enters(i, c, joined) THEN {d \in waitsFor : d \subseteq c} ELSE {}

GainingLink(i, new, joined) ==
  IF Cardinality(new) > 1
  THEN UpdatedWaitsFor(i, new, joined) \ counterGroups[i].waitsFor
  ELSE LET c == CHOOSE c \in new : TRUE
       IN  IF Enters(i, c, joined) THEN {c} ELSE {}

\* A regression without a group gets one when its first counter is met,
\* conjunction by conjunction and action by action.
SlotsFor(factsets) ==
  LET added == CountersOf(Range(factsets))
      known == DOMAIN byRegression \cup (IF emptySlot = NoSlot THEN {} ELSE {{}})
      fresh == {RegressionOfCounter(k) : k \in added} \ known
      Position(k) == CHOOSE n \in DOMAIN factsets : factsets[n] = k[2]
      Before(k, l) == \/ Position(k) < Position(l)
                      \/ Position(k) = Position(l) /\ k[1] <= l[1]
      first == {k \in added : /\ RegressionOfCounter(k) \in fresh
                              /\ \A l \in added : RegressionOfCounter(l) = RegressionOfCounter(k)
                                                    => Before(k, l)}
  IN  [r \in fresh |-> LET k == CHOOSE k \in first : RegressionOfCounter(k) = r
                       IN  NextSlot(Cardinality({l \in first : Before(l, k)}))]

\* add_conjunctions
AddConjunctions(factsets) ==
  LET new   == Range(factsets)
      all   == Conjunctions \cup new
      added == CountersOf(new)
      newGoals == {c \in new : IsGoalSet(c)}
  IN
  \E slot \in {SlotsFor(factsets)} :
    LET fresh == DOMAIN slot
        taken == Range(slot)
        At(r) == IF r \in fresh THEN slot[r] ELSE IF r = {} THEN emptySlot ELSE byRegression[r]
        Joining(i) == {k \in added : At(RegressionOfCounter(k)) = i}
        Created(r) == [regression |-> r, group |-> Joining(slot[r]),
                       waitsFor   |-> InitialWaitsFor(r, all)]
        Updated(i) == [regression |-> counterGroups[i].regression,
                       group      |-> counterGroups[i].group \cup Joining(i),
                       waitsFor   |-> UpdatedWaitsFor(i, new, Joining(i))]
        losing  == [i \in InUse |-> LosingLink(i, new, Joining(i))]
        gaining == [i \in InUse |-> GainingLink(i, new, Joining(i))]
        waitingNew(c) == {slot[r] : r \in {q \in fresh : c \in InitialWaitsFor(q, all)}}
    IN
    /\ learned' = learned \cup new
    /\ counterGroups' = [i \in 1 .. Max({Len(counterGroups)} \cup taken) |->
         IF i \in taken THEN Created(CHOOSE r \in fresh : slot[r] = i)
         ELSE IF i \in unused THEN counterGroups[i] ELSE Updated(i)]
    /\ unused' = unused \ taken
    /\ byRegression' = [r \in DOMAIN byRegression \cup (fresh \ {{}}) |-> At(r)]
    /\ emptySlot' = IF {} \in fresh THEN slot[{}] ELSE emptySlot
    /\ slotsOf' = [c \in all |->
         IF c \in new
         THEN [a \in {k[1] : k \in {l \in added : l[2] = c}} |-> At(Regression(a, c))]
         ELSE slotsOf[c]]
    /\ regressionOf' = [c \in all \cup {DummyPrecondition} |->
         waitingNew(c) \cup {i \in InUse : c \in gaining[i]}
           \cup (Linked(c) \ {i \in InUse : c \in losing[i]})]
    /\ goalConjunctions' = goalConjunctions \cup newGoals
    /\ nonDominatedGoals' = IF newGoals = {} THEN nonDominatedGoals
                            ELSE NonDominated(goalConjunctions \cup newGoals)
    /\ numCounters' = numCounters + Cardinality(added)

-----------------------------------------------------------------------------
\* What takes the place of a removed conjunction among those waited for: the
\* largest of its parts that none of the others contains.
Replacements(others, c, conjunctions) ==
  {p \in NonDominatedWithin(c, conjunctions) : ~\E d \in others : p # d /\ p \subseteq d}

WithoutConjunction(waitsFor, c, conjunctions) ==
  LET others == waitsFor \ {c}
  IN  others \cup Replacements(others, c, conjunctions)

\* remove_counter_group for a set of slots in ascending order: if the last slot
\* of the vector is among them, the unused slots at its end are cut off.
\* Mutant: only the last slot is cut off.
SizeAfter_CutOne(removed) ==
  IF Len(counterGroups) \in removed THEN Len(counterGroups) - 1 ELSE Len(counterGroups)

SizeAfter(removed) ==
  IF Len(counterGroups) \in removed
  THEN Max({0} \cup (InUse \ removed))
  ELSE Len(counterGroups)

\* remove_conjunction: a group that has nothing but counters of the conjunction
\* is removed, though the slot keeps what it held with the last counter.
RemoveConjunction(c) ==
  LET rest      == Conjunctions \ {c}
      mine(i)   == {k \in counterGroups[i].group : k[2] = c}
      removed   == {i \in Range(slotsOf[c]) : counterGroups[i].group = mine(i)}
      size      == SizeAfter(removed)
      waiting   == regressionOf[c] \ removed
      Left(i)   == [regression |-> counterGroups[i].regression,
                    group      |-> {CHOOSE k \in counterGroups[i].group : TRUE},
                    waitsFor   |-> counterGroups[i].waitsFor]
      Kept(i)   == [regression |-> counterGroups[i].regression,
                    group      |-> counterGroups[i].group \ mine(i),
                    waitsFor   |-> IF i \in waiting
                                   THEN WithoutConjunction(counterGroups[i].waitsFor, c, rest)
                                   ELSE counterGroups[i].waitsFor]
      replacing == [i \in waiting |-> Replacements(counterGroups[i].waitsFor \ {c}, c, rest)]
  IN
  /\ learned' = learned \ {c}
  /\ counterGroups' = [i \in 1 .. size |->
       IF i \in unused THEN counterGroups[i] ELSE IF i \in removed THEN Left(i) ELSE Kept(i)]
  /\ unused' = (unused \cup removed) \cap (1 .. size)
  /\ byRegression' = Restrict(byRegression,
                       DOMAIN byRegression \ {counterGroups[i].regression : i \in removed})
  /\ emptySlot' = emptySlot
  /\ slotsOf' = Restrict(slotsOf, rest)
  /\ regressionOf' = [d \in rest \cup {DummyPrecondition} |->
       {i \in waiting : d \in replacing[i]}
         \cup (regressionOf[d] \ {i \in removed : d \in counterGroups[i].waitsFor})]
  /\ goalConjunctions' = goalConjunctions \ {c}
  /\ nonDominatedGoals' = IF c \in nonDominatedGoals
                          THEN WithoutConjunction(nonDominatedGoals, c, rest)
                          ELSE nonDominatedGoals
  /\ numCounters' = numCounters - Cardinality(DOMAIN slotsOf[c])

\* remove_all_conjunctions: back to the groups of the singletons, which wait for
\* the singletons of their regression.
\* Mutant: the groups of the singletons keep the counters of the others.
SingletonGroup_KeepMembers(g) ==
  [g EXCEPT !.waitsFor = IF g.regression = {} THEN @ ELSE {{f} : f \in g.regression}]

SingletonGroup(g) ==
  [regression |-> g.regression,
   group      |-> {k \in g.group : Cardinality(k[2]) <= 1},
   waitsFor   |-> IF g.regression = {} THEN g.waitsFor ELSE {{f} : f \in g.regression}]

RemoveAllConjunctions ==
  LET slots     == 1 .. NumSingletonCounterGroups
      forgotten == {counterGroups[i].regression : i \in InUse \ slots}
  IN
  /\ learned' = {}
  /\ counterGroups' = [i \in slots |-> SingletonGroup(counterGroups[i])]
  /\ unused' = {}
  /\ byRegression' = Restrict(byRegression, DOMAIN byRegression \ forgotten)
  /\ emptySlot' = emptySlot
  /\ slotsOf' = Restrict(slotsOf, Singletons)
  /\ regressionOf' = [c \in Singletons \cup {DummyPrecondition} |->
       IF c = DummyPrecondition THEN regressionOf[c]
       ELSE {i \in slots : c \subseteq counterGroups[i].regression}]
  /\ goalConjunctions' = goalConjunctions \cap Singletons
  /\ nonDominatedGoals' = goalConjunctions \cap Singletons
  /\ numCounters' = NumSingletonCounters

-----------------------------------------------------------------------------
\* A generation strategy adds what it has generated, in any order, none of it known.
Learn ==
  \E n \in 1 .. MaxAtOnce : \E factsets \in [1 .. n -> Learnable \ learned] :
    /\ IsInjective(factsets)
    /\ Cardinality(learned) + n <= MaxLearned
    /\ AddConjunctions(factsets)

\* One round of a removal strategy.
Forget == \E c \in learned : RemoveConjunction(c)

\* Called whether or not something was learned.
ForgetAll == RemoveAllConjunctions

Next == Learn \/ Forget \/ ForgetAll

Spec == Init /\ [][Next]_vars

-----------------------------------------------------------------------------
\* get_num_influenced_counters, the numerator of get_efficiency
GetNumInfluencedCounters(facts) ==
  MapThenSumSet(LAMBDA i : Cardinality(counterGroups[i].group),
                {i \in DOMAIN counterGroups : ~(facts \subseteq counterGroups[i].regression)})

-----------------------------------------------------------------------------
\* The two directions of the links agree: a conjunction triggers exactly the
\* groups that wait for it (compute_hcadd counts down one and starts from the
\* size of the other).
LinksAgree ==
  \A c \in Conjunctions \cup {DummyPrecondition} :
    regressionOf[c] = {i \in InUse : c \in counterGroups[i].waitsFor}

\* Every slot is accounted for: the last one is in use, each regression has one
\* group in use, found under that regression, the groups of the singletons keep
\* the first slots, no counter points to a slot that is unused, and the links go both
\* ways.
SlotsAreConsistent ==
  /\ LinksAgree
  /\ unused \subseteq 1 .. Len(counterGroups)
  /\ Len(counterGroups) \notin unused
  /\ 1 .. NumSingletonCounterGroups \subseteq InUse
  /\ \A i \in InUse :
       LET r == counterGroups[i].regression
       IN  IF r = {} THEN emptySlot = i ELSE r \in DOMAIN byRegression /\ byRegression[r] = i
  /\ \A r \in DOMAIN byRegression : byRegression[r] \in InUse
  /\ \A c \in Conjunctions : Range(slotsOf[c]) \subseteq InUse

\* The counters of the groups are those of the conjunctions, each in the group of
\* its regression, none is left over from a removed conjunction, and the number
\* the growth bounds of the strategies are compared with is theirs.
CountersAreAccounted ==
  LET members == UNION {counterGroups[i].group \X {i} : i \in InUse}
  IN  /\ members = UNION {{<<<<a, c>>, slotsOf[c][a]>> : a \in DOMAIN slotsOf[c]} : c \in Conjunctions}
      /\ \A m \in members : counterGroups[m[2]].regression = RegressionOfCounter(m[1])
      /\ numCounters = Cardinality(members)

\* The counters are always those one would compute from the conjunctions alone.
Abstract == INSTANCE ConjunctionSet WITH
  conjunctions <- learned,
  counters <- UNION {{<<c, a, counterGroups[slotsOf[c][a]].waitsFor>> :
                         a \in DOMAIN slotsOf[c]} : c \in Conjunctions},
  goals <- nonDominatedGoals

\* add_conjunctions, remove_conjunction and remove_all_conjunctions leave what
\* recomputing everything would.
ImplementsConjunctionSet == Abstract!Spec

\* The comment in get_efficiency: "the number of counters that are influenced by
\* adding this conjunction".  Adding it can only influence a counter whose
\* regression contains it.
EfficiencyCountsTheInfluenced ==
  \A c \in Learnable \ learned :
    GetNumInfluencedCounters(c) =
      MapThenSumSet(LAMBDA i : Cardinality(counterGroups[i].group),
                    {i \in InUse : c \subseteq counterGroups[i].regression})

=============================================================================
