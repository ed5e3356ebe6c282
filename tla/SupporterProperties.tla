------------------------ MODULE SupporterProperties ------------------------
(***************************************************************************)
(* What an evaluation of the conjunctions heuristic owes its callers: the  *)
(* values of the best supporter functions against their definitions, the   *)
(* documented properties safe and admissible against the planning task     *)
(* itself, and the relaxed plan against the heuristic's own semantics.     *)
(***************************************************************************)
EXTENDS BestSupporters

-----------------------------------------------------------------------------
(* The planning task *)

Successor(s, a) == {f \in s : \A e \in Eff[a] : Variable[e] # Variable[f]} \cup Eff[a]

Predecessors(S) == {s \in EvaluatedStates : \E a \in Actions : Pre[a] \subseteq s /\ Successor(s, a) \in S}

\* The states from which a plan of at most n actions exists.
SolvedWithin[n \in Nat] ==
  IF n = 0 THEN {s \in EvaluatedStates : GoalFacts \subseteq s}
  ELSE LET solved == SolvedWithin[n - 1] IN solved \cup Predecessors(solved)

\* A shortest plan visits no state twice.
Solvable == SolvedWithin[Cardinality(EvaluatedStates)]

-----------------------------------------------------------------------------
(* The best supporter functions, by their definitions *)

\* h^Cmax over every supporting action and every conjunction of a regression, not
\* only those that got a counter: what is reached within n - 1 layers.
AllWays(c) ==
  IF ContainsMutex(c) THEN {} ELSE {Regression(a, c) : a \in SupportingActions(c)}

ReachedWithin(C, s) ==
  LET needs == {<<w[1], {d \in Known(C) : d \subseteq w[2]}>> :
                  w \in UNION {{c} \X AllWays(c) : c \in Known(C)}}
      reached[n \in 0 .. Cardinality(Known(C))] ==
        IF n = 0 THEN {c \in Known(C) : c \subseteq s}
        ELSE LET before == reached[n - 1]
             IN  before \cup {m[1] : m \in {k \in needs : k[2] \subseteq before}}
  IN reached

GoalsOf(C) == {c \in Known(C) : c \subseteq GoalFacts}

CmaxOf(C, s) ==
  LET reached == ReachedWithin(C, s)
      enough == {n \in DOMAIN reached : GoalsOf(C) \subseteq reached[n]}
  IN IF enough = {} THEN DEAD_END ELSE Min(enough)

\* h^Cadd, by value iteration over the counters: a conjunction costs what the cheapest
\* of its actions costs, with all that the action's counter waits for.
CaddRound(costs) ==
  LET offers == UNION {{<<k[2], ActionCost[k[1]] + SumFunctionOnSet(costs, groups[r].waitsFor)>> :
                          k \in groups[r].group} :
                       r \in {q \in DOMAIN groups : groups[q].waitsFor \subseteq DOMAIN costs}}
      At(c) == {o[2] : o \in {p \in offers : p[1] = c}} \cup {costs[d] : d \in {c} \cap DOMAIN costs}
  IN [c \in {o[1] : o \in offers} \cup DOMAIN costs |-> Min(At(c))]

\* The costs of what is reached within n actions in a row.
CaddWithin(C, s) ==
  LET costs[n \in 0 .. Cardinality(Known(C))] ==
        IF n = 0 THEN [c \in {d \in Known(C) \cup {DummyPrecondition} : d \subseteq s} |-> 0]
        ELSE CaddRound(costs[n - 1])
  IN costs

CaddOf(C, s) ==
  LET costs == CaddWithin(C, s)[Cardinality(Known(C))]
  IN IF GoalsOf(C) \subseteq DOMAIN costs THEN SumFunctionOnSet(costs, GoalsOf(C)) ELSE DEAD_END

-----------------------------------------------------------------------------
Known_ == Known(learned)

Evaluated == pc = "idle" /\ result # NONE
Extracted == Evaluated /\ best # DEAD_END /\ ~option.no_relaxed_plan_extraction

ExactValue == IF Additive THEN CaddOf(learned, state) ELSE CmaxOf(learned, state)

\* Counting the preconditions of each counter group down, and stopping at the last
\* goal, computes h^Cadd (compute_hcadd) and h^Cmax (compute_hcmax and its greedy
\* variant) as they are defined; for h^Cmax that includes that the actions and the
\* conjunctions which get no counter would change nothing.
BestSupporterFunctionIsExact == best # NONE => best = ExactValue

\* "safe: yes" (conjunctions_heuristic.cc:2523): a state declared a dead end has no plan.
DeadEndsAreSafe == Evaluated /\ result = DEAD_END => state \notin Solvable

\* "admissible: yes" of h^Cmax (conjunctions_heuristic.cc:2596): no plan is shorter
\* than the value.
CmaxIsAdmissible ==
  Evaluated /\ ~Additive /\ state \in Solvable =>
    \A n \in 0 .. Cardinality(EvaluatedStates) : state \in SolvedWithin[n] => best <= n

\* verify_relaxed_plan: executed from the last node to the first, every node finds
\* its conjunctions reached, and so does the goal; preconditions over the facts of
\* several contexts are over facts that are.
ReachedBefore(i) ==
  {c \in Known_ : InitiallyTrue(c)} \cup {DummyPrecondition}
    \cup UNION {bsg[j].supported : j \in i + 1 .. Len(bsg)}

RelaxedPlanReachesGoal ==
  Extracted => \A i \in DOMAIN bsg : bsg[i].preconditions \subseteq ReachedBefore(i)

\* conflict_extraction.cc:1326 and 1341: what a node needs and the state does not
\* have is supported at a later position, so the ancestors of a node are known
\* when it is reached from the end of the graph.
SupportersComeLater ==
  Extracted => \A i \in DOMAIN bsg : \A c \in bsg[i].preconditions \cap Known_ :
    IF InitiallyTrue(c) THEN supporterPos[c] = NO_SUPPORTER
    ELSE supporterPos[c] > i /\ c \in bsg[supporterPos[c]].supported

\* A node that supports several conjunctions stands for one application of its
\* action: what it needs is consistent, and is all it takes to have each of them.
NodesAreApplicable ==
  Extracted => \A i \in DOMAIN bsg \ {1} :
    /\ ~ContainsMutex(bsg[i].facts)
    /\ \A c \in bsg[i].supported : Regression(bsg[i].action, c) \subseteq bsg[i].facts
    /\ option.cross_context /\ bsg[i].facts # {} =>
         bsg[i].preconditions = NonDominatedWithin(bsg[i].facts, Known_)

=============================================================================
