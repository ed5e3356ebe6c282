---------------------------- MODULE LazySearch ----------------------------
(***************************************************************************)
(* The lazy best-first search with online learning of conjunctions         *)
(* (conjunctions/search_engines/lazy_search.cc): greedy, weighted A*, and  *)
(* the variant that starts greedily, then searches again and again with    *)
(* decreasing weights and finally goes on under the last weight with a     *)
(* tighter and tighter bound.                                              *)
(*                                                                         *)
(* A successor is put on the open list as an edge and looked at when the   *)
(* edge is taken off: only then is its state opened, or reopened if it is  *)
(* reached at a lower cost than before.  Open lists order edges by values  *)
(* that change while conjunctions are learned, so any edge may come next.  *)
(* Of the heuristic the engine sees that a state is a dead end (only if    *)
(* it is one), and that the relaxed plan of a state happens to be a plan.  *)
(***************************************************************************)
EXTENDS SearchSpace, Sequences

CONSTANTS
  Plans,            \* [States -> SUBSET Seq(Transitions)]: relaxed plans that execute
  EngineOptions,    \* the options of the engines that may be run
  MayTimeOut        \* whether option max_time may be hit

\* numeric_limits<int>::max(), the value of "infinity" for a bound.
INT_MAX == 2147483647

EndOf(p, s) == IF p = <<>> THEN s ELSE Target[p[Len(p)]]

IsPathFrom(p, s) ==
  /\ p \in Seq(Transitions)
  /\ \A i \in DOMAIN p : Source[p[i]] = IF i = 1 THEN s ELSE Target[p[i - 1]]

ASSUME EngineAssumption ==
  /\ DOMAIN Plans = States
  /\ \A s \in States : \A p \in Plans[s] : IsPathFrom(p, s) /\ EndOf(p, s) \in Goals
  /\ \A o \in EngineOptions :
       /\ {o.reopen_closed, o.check_relaxed_plans, o.repeat_last} \subseteq BOOLEAN
       /\ o.weights \in Nat \cup {-1} \* the number of weights; -1: not lazy_iterated_weights_c
       /\ o.bound \in Nat
       /\ o.solving_events \subseteq {"INITIALIZATION", "STEP"} \* when the strategy may solve the task
  /\ MayTimeOut \in BOOLEAN

VARIABLES
  search_space,
  open_list,                                 \* how often each edge is on it
  current_state, current_operator,           \* the state to look at, and how it was reached
  current_g, current_real_g,
  option,                                    \* the engine's own copy of its options
  reopen_closed_nodes, bound,
  solved,                                    \* solved during the initialization
  weight_index, currently_repeating, repeat_last,
  solution_found, plan, status,
  pc                                         \* what the engine, or who drives it, does next

searchVars == <<search_space, open_list, current_state, current_operator, current_g, current_real_g>>

weightVars == <<weight_index, currently_repeating, repeat_last, reopen_closed_nodes>>

resultVars == <<solution_found, plan>>

engineVars == <<searchVars, weightVars, resultVars, option, bound, solved, status>>

-----------------------------------------------------------------------------
EmptyList == [t \in Transitions |-> 0]

EdgesOf(list) == {t \in Transitions : list[t] > 0}

WithEdges(list, S) == [t \in Transitions |-> list[t] + (IF t \in S THEN 1 ELSE 0)]

PlanCost(p) ==
  LET sum[i \in 0 .. Len(p)] == IF i = 0 THEN 0 ELSE sum[i - 1] + Cost[p[i]]
  IN sum[Len(p)]

\* SearchSpace::trace_path
Trace(space, s) ==
  LET path[n \in 0 .. Cardinality(States)] ==
        [x \in States |->
           IF ~HasParent(space, x) \/ n = 0 THEN <<>>
           ELSE Append(path[n - 1][ParentOf(space, x)], space[x].op)]
  IN path[Cardinality(States)][s]

IteratesWeights == option.weights # -1

\* has_another_phase
HasAnotherPhase == IteratesWeights /\ (weight_index + 1 < option.weights \/ repeat_last)

\* LazySearch::LazySearch and set_iterated_weights_options: a new engine.
SearchFromInitialState ==
  /\ search_space' = EmptySpace
  /\ open_list' = EmptyList
  /\ current_state' = InitialState /\ current_operator' = NoTransition
  /\ current_g' = 0 /\ current_real_g' = 0
  /\ solved' = FALSE

NewEngine(o) ==
  /\ SearchFromInitialState
  /\ option' = o
  /\ reopen_closed_nodes' = o.reopen_closed
  /\ weight_index' = -1 /\ currently_repeating' = FALSE /\ repeat_last' = o.repeat_last
  /\ solution_found' = FALSE /\ plan' = <<>> /\ status' = "IN_PROGRESS"

\* restart_with_next_weight: start over with the next weight, or go on under the last.
RestartWithNextWeight ==
  /\ status' = "IN_PROGRESS" /\ solution_found' = FALSE /\ plan' = <<>>
  /\ IF weight_index + 1 = option.weights
     THEN /\ currently_repeating' = TRUE
          /\ UNCHANGED <<searchVars, solved, weight_index, reopen_closed_nodes>>
     ELSE /\ weight_index' = weight_index + 1
          /\ SearchFromInitialState
          /\ reopen_closed_nodes' = TRUE
          /\ UNCHANGED currently_repeating
  /\ UNCHANGED <<repeat_last, option>>

-----------------------------------------------------------------------------
SetPlan(p) == solution_found' = TRUE /\ plan' = p

\* initialize, with generate_conjunctions for the INITIALIZATION event.
Initialize ==
  /\ pc = "initialize"
  /\ pc' = "step"
  /\ \/ UNCHANGED <<resultVars, solved>>
     \/ /\ ~(IteratesWeights /\ weight_index # -1)
        /\ "INITIALIZATION" \in option.solving_events
        /\ \E p \in Plans[InitialState] :
             /\ bound = -1 \/ PlanCost(p) <= bound
             /\ SetPlan(p)
             /\ solved' = (solved \/ PlanCost(p) <= bound)
  /\ UNCHANGED <<searchVars, weightVars, option, bound, status>>

\* search: a step that hits the time limit ends the search whatever it returned.
Return(result) ==
  /\ status' \in {result} \cup (IF MayTimeOut THEN {"TIMEOUT"} ELSE {})
  /\ pc' = IF status' = "IN_PROGRESS" THEN "step" ELSE "finish"

\* Mutant: an exhausted search is repeated all the same.
GiveUp_Never == UNCHANGED <<repeat_last, weight_index>>

GiveUp ==
  /\ repeat_last' = (repeat_last /\ ~IteratesWeights)
  /\ weight_index' = IF IteratesWeights THEN option.weights ELSE weight_index

\* fetch_next_state
FetchNextState(space, list) ==
  /\ search_space' = space
  /\ IF EdgesOf(list) = {}
     THEN /\ Return("FAILED")
          /\ GiveUp
          /\ open_list' = list
          /\ UNCHANGED <<current_state, current_operator, current_g, current_real_g>>
     ELSE /\ \E t \in EdgesOf(list) :
               /\ open_list' = [list EXCEPT ![t] = @ - 1]
               /\ current_state' = Target[t] /\ current_operator' = t
               /\ current_g' = space[Source[t]].g + AdjustedCost(t)
               /\ current_real_g' = space[Source[t]].real_g + Cost[t]
          /\ Return("IN_PROGRESS")
          /\ UNCHANGED <<repeat_last, weight_index>>
  /\ UNCHANGED <<currently_repeating, reopen_closed_nodes, option, bound, solved>>

\* Mutant: a state that was reached before is never opened again.
Reopens_Never == FALSE

\* Mutant: a known state is opened again whatever it costs to reach it.
Reopens_AnyCost ==
  /\ reopen_closed_nodes
  /\ ~IsNew(search_space, current_state) /\ ~IsDeadEnd(search_space, current_state)

Reopens ==
  /\ reopen_closed_nodes
  /\ ~IsNew(search_space, current_state) /\ ~IsDeadEnd(search_space, current_state)
  /\ current_g < search_space[current_state].g

StopsAtOnce == solved /\ ~reopen_closed_nodes

\* Whether step() goes on to evaluate the current state.
Evaluates ==
  /\ pc = "step"
  /\ ~StopsAtOnce
  /\ current_real_g <= bound
  /\ IsNew(search_space, current_state) \/ Reopens

OpenedSpace ==
  IF current_operator = NoTransition
  THEN OpenInitial(search_space, current_state)
  ELSE OpenFrom(search_space, current_operator)

\* set_solution
SetSolution(p) == SetPlan(Trace(OpenedSpace, current_state) \o p)

WithinBound(p) == current_real_g + PlanCost(p) <= bound

-----------------------------------------------------------------------------
\* step() returns at once: the initialization found a plan.
StopSolved ==
  /\ pc = "step" /\ StopsAtOnce
  /\ Return("SOLVED")
  /\ UNCHANGED <<searchVars, weightVars, resultVars, option, bound, solved>>

\* The state is beyond a bound that was lowered, or it is known.  An assertion (line
\* 233) expects the former of a repetition only; where reopening raises a real cost
\* it is met without one, and goes unnoticed in a release build.
SkipState ==
  /\ pc = "step" /\ ~StopsAtOnce
  /\ current_real_g > bound \/ ~(IsNew(search_space, current_state) \/ Reopens)
  /\ FetchNextState(search_space, open_list)
  /\ UNCHANGED resultVars

\* The open list deems the state a dead end.
FindDeadEnd ==
  /\ Evaluates
  /\ current_state \notin Solvable
  /\ FetchNextState(MarkDeadEnd(search_space, current_state), open_list)
  /\ UNCHANGED resultVars

\* The relaxed plan is a plan: found by check_relaxed_plans or by the strategy.
SolveByRelaxedPlan ==
  /\ Evaluates
  /\ option.check_relaxed_plans \/ "STEP" \in option.solving_events
  /\ \E p \in Plans[current_state] : WithinBound(p) /\ SetSolution(p)
  /\ search_space' = OpenedSpace
  /\ Return("SOLVED")
  /\ UNCHANGED <<open_list, current_state, current_operator, current_g, current_real_g,
                 weightVars, option, bound, solved>>

\* Learning shows that the state is a dead end.
LearnDeadEnd ==
  /\ Evaluates
  /\ current_state \notin Solvable
  /\ FetchNextState(MarkDeadEnd(OpenedSpace, current_state), open_list)
  /\ UNCHANGED resultVars

ReachGoal ==
  /\ Evaluates
  /\ current_state \in Goals
  /\ search_space' = Close(OpenedSpace, current_state)
  /\ SetPlan(Trace(search_space', current_state))
  /\ Return("SOLVED")
  /\ UNCHANGED <<open_list, current_state, current_operator, current_g, current_real_g,
                 weightVars, option, bound, solved>>

\* generate_successors
Successors == {t \in OpsOf(current_state) : current_real_g + Cost[t] <= bound}

Expand ==
  /\ Evaluates
  /\ current_state \notin Goals
  /\ FetchNextState(Close(OpenedSpace, current_state), WithEdges(open_list, Successors))
  /\ UNCHANGED resultVars

\* One call of step().
Step ==
  \/ StopSolved
  \/ SkipState
  \/ FindDeadEnd
  \/ SolveByRelaxedPlan
  \/ LearnDeadEnd
  \/ ReachGoal
  \/ Expand

=============================================================================
