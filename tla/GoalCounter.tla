---------------------------- MODULE GoalCounter ----------------------------
(***************************************************************************)
(* The counter of goals (landmark_graph.hxx, landmark_graph_manager.hxx,   *)
(* landmark_graph_generator.hxx, landmark_count.hxx): the landmark graph   *)
(* restricted to the goals, where a goal is consumed when it is achieved   *)
(* after those that must precede it.  The graph is shared by all nodes of  *)
(* the search; a node remembers what its action consumed and unconsumed,   *)
(* and the graph is set up for it by replaying its path.                   *)
(***************************************************************************)
EXTENDS StripsTask

ActionsAdding(p) == {a \in Actions : p \in MayAdd(a)}

\* All actions that add p delete q, whatever their conditions: p comes first.
Threatens(p, q) == \A a \in ActionsAdding(p) : q \in Del[a]

\* build_goal_ordering: the goals that precede the j-th one.
Preceding(q) ==
  LET j == CHOOSE n \in DOMAIN Goal : Goal[n] = q IN
  {Goal[i] : i \in {n \in 1 .. j - 1 : Threatens(Goal[n], q)}} \cup
  {Goal[i] : i \in {n \in j + 1 .. Len(Goal) : Threatens(Goal[n], q) /\ ~Threatens(q, Goal[n])}}

-----------------------------------------------------------------------------
\* A goal is consumed if those that precede it are.
Consume(graph, p) ==
  IF p \in Goals /\ Preceding(p) \subseteq graph THEN graph \cup {p} ELSE graph

ConsumeAll(graph, fluents) ==
  LET after[n \in 0 .. Len(fluents)] == IF n = 0 THEN graph ELSE Consume(after[n - 1], fluents[n])
  IN after[Len(fluents)]

\* A goal is unconsumed whenever it is deleted.
Unconsume(graph, fluents) == graph \ fluents

\* Landmarks_Graph_Manager::apply_action, and apply_cond_eff for the effects that fire:
\* the graph, and the two lists of everything consumed and unconsumed on the way.
ApplyAction(graph, fluents, a) ==
  LET effects == <<[pre |-> {}, add |-> Add[a], del |-> Del[a]]>> \o CondEffects[a]
      firing == {n \in DOMAIN effects : effects[n].pre \subseteq fluents}
      after[n \in 0 .. Len(effects)] ==
        IF n = 0 THEN graph
        ELSE IF n \in firing THEN Unconsume(ConsumeAll(after[n - 1], effects[n].add), effects[n].del)
        ELSE after[n - 1]
  IN [consumed |-> UNION {ConsumeAll(after[n - 1], effects[n].add) \ after[n - 1] : n \in firing},
      unconsumed |-> UNION {ConsumeAll(after[n - 1], effects[n].add) \ after[n] : n \in firing},
      graph |-> after[Len(effects)]]

-----------------------------------------------------------------------------
\* Landmarks_Count_Heuristic::eval: the goals that are not consumed, each once more for
\* every goal that must precede it.
Count(graph) ==
  LET left == Goals \ graph IN
  Cardinality(left) + Cardinality({e \in left \X Goals : e[2] \in Preceding(e[1])})

=============================================================================
