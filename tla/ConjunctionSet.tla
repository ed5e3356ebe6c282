--------------------------- MODULE ConjunctionSet ---------------------------
(***************************************************************************)
(* What the counters of the conjunctions heuristic promise: at any time    *)
(* they are those one would compute from the set of conjunctions alone,    *)
(* however the set was arrived at.                                         *)
(***************************************************************************)
EXTENDS FactRegression

CONSTANT Learnable    \* the conjunctions a generation strategy may ask for

VARIABLES
  conjunctions,       \* the learned conjunctions
  counters,           \* <<conjunction, action, the conjunctions its counter waits for>>
  goals               \* the goal conjunctions a relaxed plan starts from

\* The supporting actions no other one is preferred to: one with fewer or equal
\* regressed facts at no higher cost, the earlier one if they are the same facts.
SimplestActions(facts) ==
  {a \in SupportingActions(facts) :
     \A b \in SupportingActions(facts) :
       IsSimpler(b, a, facts) => Regression(b, facts) = Regression(a, facts) /\ b >= a}

\* All c in C where c subseteq R(g, a) and c is not dominated by any other one.
Preconditions(facts, C) ==
  IF facts = {} THEN {DummyPrecondition} ELSE NonDominatedWithin(facts, C)

CountersFor(C) ==
  UNION {{<<c, a, Preconditions(Regression(a, c), C)>> : a \in SimplestActions(c)} :
           c \in {d \in C : ~ContainsMutex(d)}}

GoalsFor(C) == NonDominated({c \in C : c \subseteq GoalFacts})

Become(learned) ==
  /\ conjunctions' = learned
  /\ counters' = CountersFor(Singletons \cup learned)
  /\ goals' = GoalsFor(Singletons \cup learned)

Init ==
  /\ conjunctions = {}
  /\ counters = CountersFor(Singletons)
  /\ goals = GoalsFor(Singletons)

Add == \E new \in SUBSET (Learnable \ conjunctions) : Become(conjunctions \cup new)

Remove == \E c \in conjunctions : Become(conjunctions \ {c})

RemoveAll == Become({})

Next == Add \/ Remove \/ RemoveAll

Spec == Init /\ [][Next]_<<conjunctions, counters, goals>>

=============================================================================
