---------------------------- MODULE SearchSpace ----------------------------
(***************************************************************************)
(* The search space of the planner's search engines                        *)
(* (src/search/search_space.cc): one node per registered state, with its   *)
(* status, its adjusted and its real path cost and the operator that       *)
(* created it.  A space is a function from States to nodes, so that an     *)
(* engine can own several (ehc_cn owns a global and a per-phase one).      *)
(*                                                                         *)
(* The planning task is its transition system: a transition is one         *)
(* operator applied in one state.                                          *)
(***************************************************************************)
EXTENDS Integers, FiniteSets

CONSTANTS
  States,        \* the registered states
  InitialState,
  Goals,         \* the states test_goal accepts
  Transitions,   \* operator instances: an operator in a state it applies to
  Source,        \* [Transitions -> States]
  Target,        \* [Transitions -> States]
  Cost,          \* [Transitions -> Nat], the real operator cost
  CostType,      \* the engine's option cost_type
  NoTransition   \* creating_operator = nullptr

ASSUME TaskAssumption ==
  /\ IsFiniteSet(States)
  /\ InitialState \in States
  /\ Goals \subseteq States
  /\ Source \in [Transitions -> States]
  /\ Target \in [Transitions -> States]
  /\ Cost \in [Transitions -> Nat]
  /\ CostType \in {"NORMAL", "ONE", "PLUSONE"}
  /\ NoTransition \notin Transitions

OpsOf(s) == {t \in Transitions : Source[t] = s}

\* The states from which a goal can be reached: the least set that holds the
\* goals and is closed under predecessors.
BackwardClosed(T) ==
  /\ Goals \subseteq T
  /\ \A t \in Transitions : Target[t] \in T => Source[t] \in T

Solvable == {s \in States : \A T \in SUBSET States : BackwardClosed(T) => s \in T}

-----------------------------------------------------------------------------
Status == {"NEW", "OPEN", "CLOSED", "DEAD_END"}

Node == [status : Status, g : Int, real_g : Int, op : Transitions \cup {NoTransition}]

NewNode == [status |-> "NEW", g |-> -1, real_g |-> -1, op |-> NoTransition]

EmptySpace == [s \in States |-> NewNode]

\* Mutant: a node that is open is opened a second time.
IsNew_NotClosed(space, s) == space[s].status \notin {"CLOSED", "DEAD_END"}

IsNew(space, s) == space[s].status = "NEW"

IsDeadEnd(space, s) == space[s].status = "DEAD_END"

HasParent(space, s) == space[s].op # NoTransition

ParentOf(space, s) == Source[space[s].op]

IsUnitCost == \A t \in Transitions : Cost[t] = 1

\* get_adjusted_action_cost
AdjustedCost(t) ==
  CASE CostType = "NORMAL"  -> Cost[t]
    [] CostType = "ONE"     -> 1
    [] CostType = "PLUSONE" -> IF IsUnitCost THEN 1 ELSE Cost[t] + 1

RootNode == [status |-> "OPEN", g |-> 0, real_g |-> 0, op |-> NoTransition]

\* Mutant: the real cost is summed up with adjusted operator costs.
ChildNode_AdjustedCost(space, t) ==
  [status |-> "OPEN",
   g      |-> space[Source[t]].g + AdjustedCost(t),
   real_g |-> space[Source[t]].real_g + AdjustedCost(t),
   op     |-> t]

\* SearchNode::open: path costs are those of the parent in this space.
ChildNode(space, t) ==
  [status |-> "OPEN",
   g      |-> space[Source[t]].g + AdjustedCost(t),
   real_g |-> space[Source[t]].real_g + Cost[t],
   op     |-> t]

OpenInitial(space, s) == [space EXCEPT ![s] = RootNode]

OpenFrom(space, t) == [space EXCEPT ![Target[t]] = ChildNode(space, t)]

Close(space, s) == [space EXCEPT ![s].status = "CLOSED"]

MarkDeadEnd(space, s) == [space EXCEPT ![s].status = "DEAD_END"]

MarkAllDeadEnd(space, S) ==
  [s \in States |-> IF s \in S THEN [space[s] EXCEPT !.status = "DEAD_END"] ELSE space[s]]
=============================================================================
