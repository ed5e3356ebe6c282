------------------------- MODULE BfwsProperties -------------------------
(***************************************************************************)
(* What makes 1-BFWS correct.  The states of the nodes are what their      *)
(* paths reach although most of them are never stored, the novelty tables  *)
(* hold what the evaluated nodes made true although only new fluents are   *)
(* looked up, and the shared graph of the goals gives every node the count *)
(* of its own path.                                                        *)
(***************************************************************************)
EXTENDS Bfws

\* No effect undoes another one of the same action: the tasks the properties are about.
\* With conditional effects that do, the novelty tables miss what is deleted and added at
\* once, and the relaxed plan starts in another state.
EffectsDoNotInterfere ==
  \A a \in Actions : \A fluents \in SUBSET Fluents :
    /\ Added(a, fluents) \cap Deleted(a, fluents) = {}
    /\ \A e \in Firing(a, fluents) : e.pre \cap Deleted(a, fluents) = {}

\* The state that a node stands for: the successor of the state its parent has.
StateAt(n) ==
  IF n = Root THEN InitialFluents ELSE Progress(nodes[Parent(n)].state.set, LastAction(n))

\* Types; an expanded node and every parent have a state.
TypeOK ==
  /\ DOMAIN nodes \subseteq Seq(Actions)
  /\ open \cup closed \subseteq DOMAIN nodes
  /\ head \in DOMAIN nodes \cup {None}
  /\ todo \subseteq Actions
  /\ graph \subseteq Goals
  /\ table \subseteq Nat \X Fluents
  /\ \A n \in DOMAIN nodes :
       /\ nodes[n].state \in [vec : SUBSET Fluents, set : SUBSET Fluents] \cup {None}
       /\ nodes[n].fate \in {"open", "closed", "duplicate", "pruned", "dead_end"}
  /\ phase \in {"start", "search", "solved", "failed"}

\* The state of a node is the successor of its parent's, in the vector and in the
\* inclusion set, whatever was progressed and regressed in them to evaluate successors
\* (bfws_2h.hxx, eval; novelty_partition.hxx, cover_tuples).
StatesAreRestored ==
  \A n \in DOMAIN nodes : nodes[n].state # None => nodes[n].state = StateOf(StateAt(n))

\* The tables hold exactly the fluents that a node made true in its partition, although
\* the fluents a node shares with its parent are not looked up in the partition of the
\* parent (novelty_partition.hxx, compute).
EvaluatedNodes == {n \in DOMAIN nodes : n = Root \/ nodes[n].fate # "dead_end"}

SeenAt(n) == {nodes[n].partition} \X StateAt(n)

NoveltyTablesAreExact == table = UNION {SeenAt(n) : n \in EvaluatedNodes}

\* The count of a node is what the replay of its path gives, although the graph it was
\* counted in is shared by all nodes (bfws_2h.hxx, update_land_graph), and the goals that
\* count as achieved are true in its state: one that the path deleted is counted again
\* (landmark_graph_manager.hxx, apply_action).
CountsFollowPaths ==
  \A n \in DOMAIN nodes :
    /\ nodes[n].h2 = Count(Replay(graph, n))
    /\ Replay(graph, n) \subseteq StateAt(n)

KeptNodes == {n \in DOMAIN nodes \ {Root} : nodes[n].fate \in {"open", "closed", "duplicate"}}

\* Every node that is kept brought an entry of its own to the tables, so that they bound
\* the search (bfws_2h.hxx, process).
KeptNodesAreBounded ==
  phase # "start" => Cardinality(KeptNodes) + Cardinality(InitialFluents) <= Cardinality(table)

\* Every state, and the states from which a goal state can be reached.
ReachableStates ==
  LET round[n \in 0 .. Cardinality(SUBSET Fluents)] ==
        IF n = 0 THEN {InitialFluents}
        ELSE LET states == round[n - 1] IN
             states \cup {Progress(t[1], t[2]) : t \in {u \in states \X Actions : Pre[u[2]] \subseteq u[1]}}
  IN round[Cardinality(SUBSET Fluents)]

SolvableStates ==
  LET round[n \in 0 .. Cardinality(ReachableStates)] ==
        IF n = 0 THEN {s \in ReachableStates : Goals \subseteq s}
        ELSE LET solvable == round[n - 1] IN
             {s \in ReachableStates :
                s \in solvable \/ \E a \in Actions : Pre[a] \subseteq s /\ Progress(s, a) \in solvable}
  IN round[Cardinality(ReachableStates)]

\* No plan is lost with a node that is dropped because its state has no relaxed plan,
\* although the relaxed plan is looked for in the state of its parent, progressed in
\* place (bfws_2h.hxx, eval and set_relplan).
DeadEndsAreReal ==
  \A n \in DOMAIN nodes : nodes[n].fate = "dead_end" => StateAt(n) \notin SolvableStates

\* A node that is dropped because its state is closed leaves no cheaper path behind: the
\* state stays with a node that is at most as expensive, also when the closed node is
\* replaced (bfws_2h.hxx, is_closed).
DuplicatesAreCovered ==
  \A n \in DOMAIN nodes : nodes[n].fate = "duplicate" =>
    \E m \in closed \cup ({head} \ {None}) :
      nodes[m].state.set = nodes[n].state.set /\ nodes[m].g <= nodes[n].g

\* A plan is executable and reaches the goal.
PlanIsValid ==
  phase = "solved" =>
    /\ Goals \subseteq StateAt(plan)
    /\ \A i \in 1 .. Len(plan) : Pre[plan[i]] \subseteq StateAt(SubSeq(plan, 1, i - 1))
=============================================================================
