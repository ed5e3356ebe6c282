----------------------- MODULE MCConjunctionCounters -----------------------
(***************************************************************************)
(* A small task for the counters of the conjunctions heuristic.            *)
(***************************************************************************)
EXTENDS ConjunctionInvariants

\* A variable with the values x0 and x1, and variables of which one value
\* matters; s and g are mutex.
TaskFacts == {"x0", "x1", "p", "q", "r", "s", "g"}

TaskVariable == [f \in TaskFacts |-> IF f \in {"x0", "x1"} THEN "x" ELSE f]

TaskInconsistent == {{"s", "g"}}

\* 1 needs nothing; 2 and 4 need the same, and 4 is dearer; 3 needs less than
\* they but is dearer still; 6, met last, needs less than 2 at the same cost; 5
\* moves x and keeps q.
TaskActions == 1 .. 6

TaskPre == <<{}, {"p", "q", "r"}, {"p", "q"}, {"p", "q", "r"}, {"x0", "q"}, {"q", "r"}>>

TaskEff == <<{"p", "q"}, {"g"}, {"g", "s"}, {"g", "r"}, {"x1", "r"}, {"g"}>>

TaskCost == <<1, 1, 3, 2, 1, 1>>

TaskGoal == {"g", "r", "x1"}

TaskLearnable == {{"p", "q"}, {"q", "r"}, {"p", "q", "r"}, {"g", "r"}, {"g", "r", "x1"}, {"x0", "x1"}}

\* Action 4 requires a fact it adds, but gets no counter that could matter for.
ASSUME TaskAssumption == WithinNoneOfItsRegressions

=============================================================================
