------------------------- MODULE MCIteratedSearch -------------------------
(***************************************************************************)
(* A task with three ways to the goal: a is reached directly at a high     *)
(* cost or through b, and the goal directly at a higher one; d is a trap.  *)
(***************************************************************************)
EXTENDS IterationProperties

MCStates == {"i", "a", "b", "c", "d", "g"}

MCTransitions == {"ia", "ib", "ig", "ba", "bd", "dd", "ac", "ca", "cg"}

Ends == [t \in MCTransitions |->
  CASE t = "ia" -> <<"i", "a", 3>> [] t = "ib" -> <<"i", "b", 1>> [] t = "ig" -> <<"i", "g", 7>>
    [] t = "ba" -> <<"b", "a", 1>> [] t = "bd" -> <<"b", "d", 1>> [] t = "dd" -> <<"d", "d", 1>>
    [] t = "ac" -> <<"a", "c", 1>> [] t = "ca" -> <<"c", "a", 1>> [] t = "cg" -> <<"c", "g", 1>>]

MCSource == [t \in MCTransitions |-> Ends[t][1]]

MCTarget == [t \in MCTransitions |-> Ends[t][2]]

MCCost == [t \in MCTransitions |-> Ends[t][3]]

\* The relaxed plans that may execute.
MCPlans == [s \in MCStates |->
  CASE s = "i" -> {<<"ig">>, <<"ia", "ac", "cg">>} [] s = "b" -> {<<"ba", "ac", "cg">>}
    [] s = "a" -> {<<"ac", "cg">>} [] s = "c" -> {<<"cg">>} [] s = "g" -> {<<>>} [] s = "d" -> {}]

Engine(weights, repeat, reopen, events) ==
  [weights |-> weights, repeat_last |-> repeat, reopen_closed |-> reopen, bound |-> INT_MAX,
   check_relaxed_plans |-> FALSE, solving_events |-> events]

\* Greedy, then A* again and again under a lower bound; the strategy learns (and
\* may solve the task) in the initialization only.
Repeating == Engine(1, TRUE, FALSE, {"INITIALIZATION"})

\* Two weights, once each; the strategy learns in every step.
Learning == Engine(2, FALSE, FALSE, {"INITIALIZATION", "STEP"})

\* A*: weighted A* without iterations.
AStar == Engine(-1, FALSE, TRUE, {})

Greedy == Engine(-1, FALSE, FALSE, {})

MCEngineOptions == {Repeating, Learning, AStar, Greedy}

Improving == {<<Repeating>>, <<Learning, Greedy, AStar>>}

\* A greedy search for a first plan, then the search with iterated weights.
GreedyFirst == {<<Greedy, Repeating>>}
=============================================================================
