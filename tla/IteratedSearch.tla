-------------------------- MODULE IteratedSearch --------------------------
(***************************************************************************)
(* ipc18_iterated (conjunctions/search_engines/ipc18_iterated_search.cc):  *)
(* runs a list of engines one after the other, each under the bound that   *)
(* the best plan so far sets, and restarts an engine that iterates over    *)
(* weights for as long as it has another phase.                            *)
(***************************************************************************)
EXTENDS LazySearch

CONSTANTS
  EngineConfigs,      \* the lists of engines to choose from
  Bound,              \* option bound of the iterated search itself
  PassBound, RepeatLastPhase, ContinueOnFail, ContinueOnSolve,
  DecisionPoint, SkipIfSolved, SkipIfFailed

ASSUME IterationAssumption ==
  /\ \A c \in EngineConfigs : c # <<>> /\ c \in Seq(EngineOptions)
  /\ Bound \in 0 .. INT_MAX
  /\ {PassBound, RepeatLastPhase, ContinueOnFail, ContinueOnSolve} \subseteq BOOLEAN
  /\ DecisionPoint \in Nat
  /\ IsFiniteSet(SkipIfSolved) /\ IsFiniteSet(SkipIfFailed)
  /\ SkipIfSolved \cup SkipIfFailed \subseteq Nat

VARIABLES
  engine_configs,
  phase,                     \* counted from 0
  current_search,            \* whether there is an engine to go on with
  last_phase_found_solution, iterated_found_solution, decision_point_was_solved,
  best_bound, best_plan,
  iterated_status

iterationVars ==
  <<engine_configs, phase, current_search, last_phase_found_solution, iterated_found_solution,
    decision_point_was_solved, best_bound, best_plan, iterated_status>>

vars == <<engineVars, iterationVars, pc>>

-----------------------------------------------------------------------------
FirstBound == IF Bound = INT_MAX THEN Bound ELSE Bound + 1

Init ==
  /\ engine_configs \in EngineConfigs
  /\ phase = 0 /\ current_search = FALSE
  /\ last_phase_found_solution = FALSE /\ iterated_found_solution = FALSE
  /\ decision_point_was_solved = FALSE
  /\ best_bound = FirstBound
  /\ best_plan = <<>>
  /\ iterated_status = "IN_PROGRESS"
  /\ pc = "iterate"
  \* there is no engine yet
  /\ search_space = EmptySpace /\ open_list = EmptyList
  /\ current_state = InitialState /\ current_operator = NoTransition
  /\ current_g = 0 /\ current_real_g = 0
  /\ option = engine_configs[1] /\ reopen_closed_nodes = FALSE /\ bound = 0 /\ solved = FALSE
  /\ weight_index = -1 /\ currently_repeating = FALSE /\ repeat_last = FALSE
  /\ solution_found = FALSE /\ plan = <<>> /\ status = "IN_PROGRESS"

\* Mutant: the next search may find a plan of the same cost.
NextBound_Inclusive == best_bound

NextBound == best_bound - 1

\* step, up to search(): go on with the engine ...
ContinueEngine ==
  /\ pc = "iterate" /\ current_search
  /\ bound' = IF PassBound THEN NextBound ELSE bound
  /\ pc' = "initialize"
  /\ UNCHANGED <<searchVars, weightVars, resultVars, option, solved, status, iterationVars>>

\* create_phase
PhaseOptions ==
  IF phase < Len(engine_configs) THEN {engine_configs[phase + 1]}
  ELSE IF RepeatLastPhase /\ last_phase_found_solution
       THEN {engine_configs[Len(engine_configs)]} ELSE {}

\* ... or with a new one ...
StartEngine ==
  /\ pc = "iterate" /\ ~current_search
  /\ \E o \in PhaseOptions :
       /\ NewEngine(o)
       /\ bound' = IF PassBound THEN NextBound ELSE o.bound
  /\ current_search' = TRUE
  /\ pc' = "initialize"
  /\ UNCHANGED <<engine_configs, phase, last_phase_found_solution, iterated_found_solution,
                 decision_point_was_solved, best_bound, best_plan, iterated_status>>

\* found_solution() of the iterated search itself: a plan was kept.
KeptPlan == best_bound < FirstBound

\* ... or end, if all phases are through.
RunOutOfPhases ==
  /\ pc = "iterate" /\ ~current_search
  /\ PhaseOptions = {}
  /\ iterated_status' = IF KeptPlan THEN "SOLVED" ELSE "FAILED"
  /\ pc' = "done"
  /\ UNCHANGED <<engineVars, engine_configs, phase, current_search, last_phase_found_solution,
                 iterated_found_solution, decision_point_was_solved, best_bound, best_plan>>

\* skip_phase
Skips(solvedDecision, n) ==
  /\ n >= DecisionPoint
  /\ n \in IF solvedDecision THEN SkipIfSolved ELSE SkipIfFailed

NextPhase(solvedDecision) ==
  CHOOSE n \in phase + 1 .. phase + 1 + Cardinality(SkipIfSolved \cup SkipIfFailed) :
    /\ ~Skips(solvedDecision, n)
    /\ \A m \in phase + 1 .. n - 1 : Skips(solvedDecision, m)

KeepPlan ==
  IF solution_found /\ PlanCost(plan) < best_bound
  THEN best_bound' = PlanCost(plan) /\ best_plan' = plan
  ELSE UNCHANGED <<best_bound, best_plan>>

\* step_return_value
ReturnValue ==
  IF solution_found
  THEN IF ContinueOnSolve THEN "IN_PROGRESS" ELSE "SOLVED"
  ELSE IF ContinueOnFail THEN "IN_PROGRESS"
       ELSE IF iterated_found_solution THEN "SOLVED" ELSE "FAILED"

\* step, from search() on.
FinishSearch ==
  /\ pc = "finish"
  /\ last_phase_found_solution' = solution_found
  /\ iterated_found_solution' = (iterated_found_solution \/ solution_found)
  /\ decision_point_was_solved' =
       (decision_point_was_solved \/ (solution_found /\ phase = DecisionPoint))
  /\ KeepPlan
  /\ IF HasAnotherPhase
     THEN RestartWithNextWeight /\ UNCHANGED <<current_search, phase, bound>>
     ELSE /\ current_search' = FALSE
          /\ phase' = NextPhase(decision_point_was_solved')
          /\ UNCHANGED engineVars
  /\ iterated_status' = ReturnValue
  /\ pc' = IF iterated_status' = "IN_PROGRESS" THEN "iterate" ELSE "done"
  /\ UNCHANGED engine_configs

Done == pc = "done" /\ UNCHANGED vars

Next ==
  \/ ContinueEngine
  \/ StartEngine
  \/ RunOutOfPhases
  \/ Initialize /\ UNCHANGED iterationVars
  \/ Step /\ UNCHANGED iterationVars
  \/ FinishSearch
  \/ Done

Spec == Init /\ [][Next]_vars

\* The planner's main loop calls step() until it returns something final.
FairSpec == Spec /\ WF_vars(Next)
=============================================================================
