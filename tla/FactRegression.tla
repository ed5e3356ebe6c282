--------------------------- MODULE FactRegression ---------------------------
(***************************************************************************)
(* Facts, action instances and conjunctions (conjunctions.h, utils.h) and  *)
(* what the conjunctions heuristic computes from them without looking at   *)
(* its own state: mutexes, the regression R(g, a) of a fact set over an    *)
(* action, the regressions worth a counter, and the conjunctions of a set  *)
(* that no other one dominates.                                            *)
(*                                                                         *)
(* A fact set is a set of facts, a conjunction is identified with its      *)
(* facts, and an action with its id, whose order stands for the order of   *)
(* the action pointers.                                                    *)
(***************************************************************************)
EXTENDS Integers, FiniteSets, FiniteSetsExt

CONSTANTS
  Facts,
  Variable,      \* [Facts -> the variables]
  Inconsistent,  \* the mutexes: a set of sets of two facts
  Actions,       \* the instances of the operators, without conditional effects
  Pre, Eff,      \* [Actions -> SUBSET Facts]
  ActionCost,    \* [Actions -> Nat]
  GoalFacts

ASSUME RegressionAssumption ==
  /\ IsFiniteSet(Facts)
  /\ Actions \subseteq Nat /\ IsFiniteSet(Actions)
  /\ Pre \in [Actions -> SUBSET Facts]
  /\ Eff \in [Actions -> SUBSET Facts]
  /\ ActionCost \in [Actions -> Nat]
  /\ GoalFacts \subseteq Facts

\* The dummy precondition of the counters that need none: the empty conjunction.
DummyPrecondition == {}

Singletons == {{f} : f \in Facts}

-----------------------------------------------------------------------------
AreMutex(f, g) ==
  IF Variable[f] = Variable[g] THEN f # g ELSE {f, g} \in Inconsistent

ContainsMutex(facts) == \E f, g \in facts : AreMutex(f, g)

\* The action adds one of the facts, adds nothing that contradicts one, and
\* requires nothing that contradicts one unless it changes that variable.
IsRegressable(a, facts) ==
  /\ Eff[a] \cap facts # {}
  /\ \A e \in Eff[a], f \in facts : Variable[e] = Variable[f] => e = f
  /\ \A p \in Pre[a], f \in facts :
       Variable[p] = Variable[f] /\ p # f => \E e \in Eff[a] : Variable[e] = Variable[p]

IsRegressableAndMutexFree(a, facts) ==
  /\ IsRegressable(a, facts)
  /\ \A f \in facts \ Eff[a] : \A g \in Pre[a] \cup Eff[a] : ~AreMutex(f, g)

Regression(a, facts) == (facts \ Eff[a]) \cup Pre[a]

\* get_potentially_supporting_actions, less those the callers skip
SupportingActions(facts) ==
  {a \in Actions : Eff[a] \cap facts # {} /\ IsRegressableAndMutexFree(a, facts)}

IsSimpler(a, b, facts) ==
  /\ Regression(a, facts) \subseteq Regression(b, facts)
  /\ ActionCost[a] <= ActionCost[b]

\* Mutant: a simpler regression does not push out the ones found before it.
KeepSimplest_NoErase(kept, a, facts) ==
  IF \E b \in kept : IsSimpler(b, a, facts) THEN kept ELSE kept \cup {a}

\* Mutant: a cheaper action pushes out one that needs something else.
KeepSimplest_AnyCheaper(kept, a, facts) ==
  IF \E b \in kept : ActionCost[b] <= ActionCost[a] THEN kept ELSE kept \cup {a}

\* One round of compute_regressions: the action's regression is dropped if a
\* simpler one is there, and else takes the place of those it is simpler than.
KeepSimplest(kept, a, facts) ==
  IF \E b \in kept : IsSimpler(b, a, facts)
  THEN kept
  ELSE {b \in kept : Regression(b, facts) = Regression(a, facts) \/ ~IsSimpler(a, b, facts)}
         \cup {a}

\* compute_regressions: the actions whose regressions get a counter.  kept[n] is what
\* is kept of the supporting actions with ids below n.
ComputeRegressions(facts) ==
  LET supporting == SupportingActions(facts)
      kept[n \in Nat] ==
        IF n = 0 THEN {}
        ELSE IF n - 1 \in supporting THEN KeepSimplest(kept[n - 1], n - 1, facts)
        ELSE kept[n - 1]
  IN  kept[Max({0} \cup Actions) + 1]

-----------------------------------------------------------------------------
\* get_non_dominated_conjunctions: of conjunctions, and of those within a fact set
NonDominated(conjunctions) ==
  {c \in conjunctions : \A d \in conjunctions : c \subseteq d => c = d}

NonDominatedWithin(facts, conjunctions) ==
  NonDominated({c \in conjunctions : c \subseteq facts})

=============================================================================
