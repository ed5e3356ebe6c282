------------------------ MODULE IterationInvariants ------------------------
(***************************************************************************)
(* The inductive invariants of the iterated lazy search: what the recorded *)
(* costs rest on (CostInv), what makes the traced paths plans (PathsInv),  *)
(* what makes every plan better than the last (PlansInv), and what makes   *)
(* an exhausted search conclusive (ExploredInv).                           *)
(***************************************************************************)
EXTENDS IterationProperties

\* The edge that is looked at, and those on the open list, lead out of nodes that
\* were opened; the edge was recorded when its source cost at least what it does now.
EdgeInv ==
  /\ search_space \in [States -> Node]
  /\ open_list \in [Transitions -> Int]
  /\ current_state \in States /\ current_g \in Int
  /\ current_operator \in Transitions \cup {NoTransition}
  /\ \A t \in EdgesOf(open_list) : ~IsNew(search_space, Source[t])
  /\ IF current_operator = NoTransition
     THEN current_state = InitialState /\ current_g = 0
     ELSE /\ current_state = Target[current_operator]
          /\ ~IsNew(search_space, Source[current_operator])
          /\ current_g >= search_space[Source[current_operator]].g + AdjustedCost(current_operator)

CostInv == EdgeInv /\ CostsAreUpperBounds

-----------------------------------------------------------------------------
(* Paths. *)

\* The engine's option cost_type leaves the operators' costs as they are.
CostsAreReal == \A t \in Transitions : AdjustedCost(t) = Cost[t]

Opened(space, s) == space[s].g # -1

\* Who follows the parents of any states leaves them.
Acyclic(space) ==
  \A C \in SUBSET States :
    (\A s \in C : HasParent(space, s) /\ ParentOf(space, s) \in C) => C = {}

\* What was opened hangs below the initial state; a dead end may never have been.
IsTree(space) ==
  /\ \A s \in States :
       IF ~Opened(space, s) THEN space[s].status \in {"NEW", "DEAD_END"} /\ ~HasParent(space, s)
       ELSE /\ ~IsNew(space, s)
            /\ space[s].g \in Nat /\ space[s].real_g = space[s].g
            /\ IF s = InitialState THEN ~HasParent(space, s) /\ space[s].g = 0
               ELSE /\ space[s].op \in Transitions
                    /\ Target[space[s].op] = s
                    /\ Opened(space, ParentOf(space, s))
  /\ Acyclic(space)

\* The edges on the open list lead out of the tree.
PathsInv ==
  /\ IsTree(search_space)
  /\ \A t \in EdgesOf(open_list) : Opened(search_space, Source[t])
  /\ current_operator # NoTransition => Opened(search_space, Source[current_operator])
  /\ current_real_g = current_g

-----------------------------------------------------------------------------
(* Plans. *)

\* A bound of -1 is none for the strategy that learns in the initialization, so a
\* plan of cost 0 is better than its bound allows for.
EveryPlanCosts == \A p \in Seq(Transitions) : IsPlan(p) => PlanCost(p) > 0

\* The engine searches under the bound that the plan kept sets, and what it finds
\* is within it.
PlansInv ==
  /\ best_bound \in Nat
  /\ pc \in {"initialize", "step", "finish"} => bound = NextBound
  /\ pc = "initialize" \/ (pc = "iterate" /\ current_search) => ~solution_found
  /\ pc \in {"step", "finish"} /\ solution_found => IsPlan(plan) /\ PlanCost(plan) <= bound
  /\ IF iterated_found_solution
     THEN IsPlan(best_plan) /\ PlanCost(best_plan) = best_bound
     ELSE best_bound = FirstBound

-----------------------------------------------------------------------------
(* Exhaustion. *)

\* An engine that searches on where it found a plan is not stopped by relaxed plans: the
\* state that one solves is opened, but never expanded, not even when the search goes on.
ResumesWhereItExpanded ==
  \A o \in EngineOptions :
    o.weights # -1 /\ o.repeat_last => ~o.check_relaxed_plans /\ "STEP" \notin o.solving_events

SolvesInSteps == option.check_relaxed_plans \/ "STEP" \in option.solving_events

\* The cost at which a node is looked at is the one of the edge, until another is.
CurrentIsExact ==
  current_operator # NoTransition =>
    current_g = search_space[Source[current_operator]].g + Cost[current_operator]

\* The engine, its bound, and when it is resumed.
EngineInv ==
  /\ engine_configs \in EngineConfigs /\ phase \in Nat
  /\ option \in EngineOptions
  /\ repeat_last => option.repeat_last
  /\ best_bound \in Nat /\ best_bound <= FirstBound
  /\ pc \in {"initialize", "step", "finish"} => bound = NextBound
  /\ solution_found => plan \in Seq(Transitions)
  /\ open_list \in [Transitions -> Nat]
  /\ CurrentIsExact
  /\ pc = "finish" /\ status = "FAILED" => EdgesOf(open_list) = {}

\* The search goes on, or has nowhere to go on.
Searching ==
  \/ pc \in {"initialize", "step"}
  \/ pc = "iterate" /\ current_search
  \/ pc = "finish" /\ (status = "FAILED" \/ ~SolvesInSteps)

IsClosed(space, s) == space[s].status = "CLOSED"

\* The edges that lead on: within the limit, from a state that was expanded, to one on
\* the way to a goal.
LeadsOn(space, limit, t) ==
  /\ IsClosed(space, Source[t]) /\ Source[t] \notin Goals
  /\ Target[t] \in Solvable
  /\ space[Source[t]].g + Cost[t] <= limit

\* They were followed, to a state that costs no more now if states are reopened, or are
\* still on the list.
Followed(space, list, t) ==
  \/ /\ IsClosed(space, Target[t])
     /\ reopen_closed_nodes => space[Target[t]].g <= space[Source[t]].g + Cost[t]
  \/ t \in EdgesOf(list)

\* The node taken off the list last is yet to be looked at.
IsPending(t) == status # "FAILED" /\ current_operator = t

\* All that is within the bound and on the way to a goal was expanded, or is on the list;
\* a goal that was reached is beyond the bound that
\* the plan set.
Explored ==
  /\ \A s \in Solvable : search_space[s].status \in {"NEW", "CLOSED"}
  /\ InitialState \in Solvable /\ 0 <= NextBound =>
       IsClosed(search_space, InitialState) \/ IsPending(NoTransition)
  /\ \A t \in Transitions :
       LeadsOn(search_space, NextBound, t) => Followed(search_space, open_list, t) \/ IsPending(t)
  /\ \A s \in Goals : IsClosed(search_space, s) =>
       \/ search_space[s].g > NextBound
       \/ pc = "finish" /\ status # "FAILED" /\ solution_found /\ PlanCost(plan) <= search_space[s].g

ExploredInv == EngineInv /\ (Searching => Explored)

\* The bound has cut nothing off.
NothingIsBeyondBound ==
  \A s \in States : Opened(search_space, s) =>
    /\ search_space[s].g <= bound
    /\ \A t \in OpsOf(s) : search_space[s].g + Cost[t] <= bound
=============================================================================
