-------------------------- MODULE MCBestSupporters --------------------------
(***************************************************************************)
(* A small task for the evaluation of a state: three variables, actions    *)
(* that undo what others need, and goals that must be had together.  It is *)
(* one where relaxed plans merge contexts, cannot merge mutex ones or ones *)
(* that need something unreached, and support a conjunction a second time. *)
(***************************************************************************)
EXTENDS SupporterProperties

TaskFacts == {"x0", "x1", "p0", "p1", "q0", "q1"}

TaskVariable ==
  [f \in TaskFacts |-> IF f \in {"x0", "x1"} THEN "x" ELSE IF f \in {"p0", "p1"} THEN "p" ELSE "q"]

TaskActions == 1 .. 5

TaskPre == <<{"p1", "x0"}, {"p0", "q1"}, {"p1", "q1"}, {"q1"}, {}>>

TaskEff == <<{"x1"}, {"x1", "q0"}, {"p0", "q0"}, {"p1", "x0"}, {"p1"}>>

TaskCost == <<1, 1, 1, 2, 1>>

TaskGoal == {"p1", "q0", "x0"}

TaskLearnable == {{"q0", "x0"}, {"p1", "q0"}, {"p1", "x0"}, {"p1", "q1"}, {"x1", "p0"}}

TaskStates == {{x, p, q} : x \in {"x0", "x1"}, p \in {"p0", "p1"}, q \in {"q0", "q1"}}

O(f, cross, singletons, none) ==
  [best_supporter_function |-> f, cross_context |-> cross,
   use_singleton_subgoals |-> singletons, no_relaxed_plan_extraction |-> none]

TaskOptions ==
  {O(HCADD, TRUE, FALSE, FALSE), O(HCADD, FALSE, FALSE, FALSE), O(HCADD, FALSE, TRUE, FALSE),
   O(HCMAX, TRUE, FALSE, FALSE), O(HCMAX_GREEDY, TRUE, FALSE, FALSE), O(HCMAX, TRUE, FALSE, TRUE)}

=============================================================================
