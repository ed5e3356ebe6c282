----------------------- MODULE IterationProperties -----------------------
(***************************************************************************)
(* What the iterated search must get right, and what a cheapest plan costs *)
(* by definition.                                                          *)
(***************************************************************************)
EXTENDS IteratedSearch, FiniteSetsExt

\* The costs at which states can be reached, by paths of at most n operators.
Reached ==
  LET f[n \in 0 .. Cardinality(States)] ==
        IF n = 0 THEN {<<InitialState, 0>>}
        ELSE f[n - 1] \cup
             {<<Target[e[1]], e[2][2] + Cost[e[1]]>> :
                e \in {p \in Transitions \X f[n - 1] : Source[p[1]] = p[2][1]}}
  IN f[Cardinality(States)]

CheapestPlan == Min({INT_MAX} \cup {r[2] : r \in {q \in Reached : q[1] \in Goals}})

IsPlan(p) == IsPathFrom(p, InitialState) /\ EndOf(p, InitialState) \in Goals

-----------------------------------------------------------------------------
\* Reopening lowers the cost of a node long after its successors were opened: the
\* cost a node has recorded is never below that of the path that is traced from it.
CostsAreUpperBounds ==
  \A s \in States : HasParent(search_space, s) =>
    LET p == ParentOf(search_space, s) IN
      /\ ~IsNew(search_space, p)
      /\ search_space[s].g >= search_space[p].g + AdjustedCost(search_space[s].op)

\* An engine that is run under the bound of the best plan so far finds a better one
\* or none: otherwise the last phase would be repeated without end.  The plan kept is a
\* plan, and its cost the bound for the next search.
EveryPlanImproves ==
  /\ pc = "finish" /\ solution_found => PlanCost(plan) < best_bound
  /\ iterated_found_solution => IsPlan(best_plan) /\ PlanCost(best_plan) = best_bound

\* lazy_search.cc:185: "no need to repeat if we already know that we can't find a
\* solution within the current bound".
ExhaustedMeansNothingBetter ==
  pc = "finish" /\ status = "FAILED" => CheapestPlan > bound

\* Searching on and on with a lower bound comes to an end.
Termination == <>(pc = "done")
=============================================================================
