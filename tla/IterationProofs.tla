--------------------------- MODULE IterationProofs ---------------------------
(***************************************************************************)
(* For every task, every list of engines and every order in which edges    *)
(* leave the open list: the costs recorded in the search space of the lazy *)
(* search never fall below those of the paths traced through it, what it   *)
(* has opened is a tree, every plan is better than the one before, and a   *)
(* search that is exhausted leaves none within its bound, unless it        *)
(* neither reopens states nor has all of them within the bound.            *)
(***************************************************************************)
EXTENDS IterationInvariants, SetLemmas, SequenceTheorems

-----------------------------------------------------------------------------
LEMMA AdjustedCostIsNatural ==
  ASSUME NEW t \in Transitions
  PROVE  AdjustedCost(t) \in Nat
  BY TaskAssumption DEF AdjustedCost

\* A step changes the nodes of a space without making one dearer or new again.
Refines(space, next) ==
  /\ next \in [States -> Node]
  /\ \A s \in States : ~IsNew(space, s) =>
       ~IsNew(next, s) /\ next[s].g <= space[s].g

UpperBounds(space) ==
  \A s \in States : HasParent(space, s) =>
    LET p == ParentOf(space, s) IN
      /\ ~IsNew(space, p)
      /\ space[s].g >= space[p].g + AdjustedCost(space[s].op)

\* The only node a step gives a parent and a cost is the one it looks at.
LEMMA OpenedSpaceEffect ==
  ASSUME EdgeInv, UpperBounds(search_space), Evaluates
  PROVE  /\ Refines(search_space, OpenedSpace)
         /\ UpperBounds(OpenedSpace)
         /\ ~IsNew(OpenedSpace, current_state)
<1> DEFINE node == IF current_operator = NoTransition THEN RootNode
                   ELSE ChildNode(search_space, current_operator)
<1>1. current_state \in States /\ search_space \in [States -> Node]
  BY DEF EdgeInv
<1>2. OpenedSpace = [search_space EXCEPT ![current_state] = node]
  BY DEF EdgeInv, OpenedSpace, OpenInitial, OpenFrom
<1>3. node \in Node /\ node.status = "OPEN" /\ node.g <= current_g /\ node.g \in Int
  <2>1. CASE current_operator = NoTransition
    BY <2>1 DEF EdgeInv, RootNode, Node, Status
  <2>2. CASE current_operator # NoTransition
    <3>1. current_operator \in Transitions
      BY <2>2 DEF EdgeInv
    <3>2. Source[current_operator] \in States /\ Cost[current_operator] \in Nat
      BY <3>1, TaskAssumption
    <3>3. /\ search_space[Source[current_operator]].g \in Int
          /\ search_space[Source[current_operator]].real_g \in Int
      BY <1>1, <3>2 DEF Node
    <3>4. AdjustedCost(current_operator) \in Nat
      BY <3>1, AdjustedCostIsNatural
    <3>5. node = ChildNode(search_space, current_operator)
      BY <2>2
    <3> QED
      BY <2>2, <3>1, <3>2, <3>3, <3>4, <3>5 DEF EdgeInv, ChildNode, Node, Status
  <2> QED
    BY <2>1, <2>2
<1>4. IsNew(search_space, current_state) \/ node.g < search_space[current_state].g
  <2>1. search_space[current_state].g \in Int /\ current_g \in Int
    BY <1>1 DEF EdgeInv, Node
  <2> QED
    BY <1>3, <2>1 DEF Evaluates, Reopens
<1>5. OpenedSpace[current_state] = node /\ DOMAIN OpenedSpace = States
  BY <1>1, <1>2
<1>6. \A s \in States : s # current_state => OpenedSpace[s] = search_space[s]
  BY <1>1, <1>2
<1>7. Refines(search_space, OpenedSpace)
  <2>1. OpenedSpace \in [States -> Node]
    BY <1>1, <1>2, <1>3
  <2>2. ASSUME NEW s \in States, ~IsNew(search_space, s)
        PROVE  ~IsNew(OpenedSpace, s) /\ OpenedSpace[s].g <= search_space[s].g
    <3>1. search_space[s].g \in Int
      BY <1>1 DEF Node
    <3> QED
      BY <2>2, <1>3, <1>4, <1>5, <1>6, <3>1 DEF IsNew
  <2> QED
    BY <2>1, <2>2 DEF Refines
<1>8. ~IsNew(OpenedSpace, current_state)
  BY <1>3, <1>5 DEF IsNew
<1>9. UpperBounds(OpenedSpace)
  <2> SUFFICES ASSUME NEW s \in States, HasParent(OpenedSpace, s)
               PROVE  /\ ~IsNew(OpenedSpace, ParentOf(OpenedSpace, s))
                      /\ OpenedSpace[s].g >= OpenedSpace[ParentOf(OpenedSpace, s)].g
                                               + AdjustedCost(OpenedSpace[s].op)
    BY DEF UpperBounds
  <2>1. CASE s # current_state
    <3>1. OpenedSpace[s] = search_space[s]
      BY <2>1, <1>6
    <3>2. HasParent(search_space, s) /\ ParentOf(OpenedSpace, s) = ParentOf(search_space, s)
      BY <3>1 DEF HasParent, ParentOf
    <3>3. search_space[s].op \in Transitions
      BY <1>1, <3>2 DEF HasParent, Node
    <3> DEFINE p == ParentOf(search_space, s)
    <3>4. p \in States
      BY <3>3, TaskAssumption DEF ParentOf
    <3>5. ~IsNew(search_space, p) /\ search_space[s].g >= search_space[p].g + AdjustedCost(search_space[s].op)
      BY <3>2 DEF UpperBounds
    <3>6. ~IsNew(OpenedSpace, p) /\ OpenedSpace[p].g <= search_space[p].g
      BY <3>4, <3>5, <1>7 DEF Refines
    <3>7. /\ search_space[s].g \in Int /\ search_space[p].g \in Int /\ OpenedSpace[p].g \in Int
          /\ AdjustedCost(search_space[s].op) \in Nat
      BY <1>1, <1>7, <3>3, <3>4, AdjustedCostIsNatural DEF Refines, Node
    <3> HIDE DEF p
    <3>8. OpenedSpace[s].g >= OpenedSpace[p].g + AdjustedCost(OpenedSpace[s].op)
      BY <3>1, <3>5, <3>6, <3>7
    <3> QED
      BY <3>2, <3>6, <3>8 DEF p
  <2>2. CASE s = current_state
    <3>1. current_operator # NoTransition
      BY <2>2, <1>5 DEF HasParent, RootNode
    <3>2. current_operator \in Transitions /\ ~IsNew(search_space, Source[current_operator])
      BY <3>1 DEF EdgeInv
    <3>3. OpenedSpace[s] = ChildNode(search_space, current_operator)
      BY <2>2, <3>1, <1>5
    <3> DEFINE p == Source[current_operator]
    <3>4. OpenedSpace[s].op = current_operator /\ ParentOf(OpenedSpace, s) = p
      BY <3>3 DEF ChildNode, ParentOf
    <3>5. p \in States /\ AdjustedCost(current_operator) \in Nat
      BY <3>2, TaskAssumption, AdjustedCostIsNatural
    <3>6. p # current_state
      <4>1. SUFFICES ASSUME p = current_state PROVE FALSE
        OBVIOUS
      <4>2. current_g >= search_space[current_state].g + AdjustedCost(current_operator)
        BY <3>1, <4>1 DEF EdgeInv
      <4>3. node.g < search_space[current_state].g
        BY <3>2, <4>1, <1>4
      <4>4. node.g = search_space[current_state].g + AdjustedCost(current_operator)
        BY <3>1, <4>1 DEF ChildNode
      <4>5. search_space[current_state].g \in Int
        BY <1>1 DEF Node
      <4> QED
        BY <4>3, <4>4, <4>5, <3>5
    <3>7. OpenedSpace[p] = search_space[p]
      BY <3>5, <3>6, <1>6
    <3>8. OpenedSpace[s].g = search_space[p].g + AdjustedCost(current_operator)
      BY <3>3 DEF ChildNode
    <3>9. search_space[p].g \in Int
      BY <3>5, <1>1 DEF Node
    <3>10. ~IsNew(OpenedSpace, p)
      BY <3>2, <3>7 DEF IsNew
    <3>11. OpenedSpace[s].g >= OpenedSpace[p].g + AdjustedCost(OpenedSpace[s].op)
      BY <3>4, <3>5, <3>7, <3>8, <3>9
    <3> QED
      BY <3>4, <3>10, <3>11
  <2> QED
    BY <2>1, <2>2
<1> QED
  BY <1>7, <1>8, <1>9

-----------------------------------------------------------------------------
LEMMA SpaceRefinesItself ==
  ASSUME NEW space \in [States -> Node]
  PROVE  Refines(space, space)
  BY DEF Refines, Node

LEMMA RefinesIsTransitive ==
  ASSUME NEW a \in [States -> Node], NEW b, NEW c, Refines(a, b), Refines(b, c)
  PROVE  Refines(a, c)
<1>1. b \in [States -> Node] /\ c \in [States -> Node]
  BY DEF Refines
<1>2. ASSUME NEW s \in States, ~IsNew(a, s)
      PROVE  ~IsNew(c, s) /\ c[s].g <= a[s].g
  <2>1. a[s].g \in Int /\ b[s].g \in Int /\ c[s].g \in Int
    BY <1>1 DEF Node
  <2> QED
    BY <1>2, <2>1 DEF Refines
<1> QED
  BY <1>1, <1>2 DEF Refines

\* Closing a node, or marking it as a dead end.
LEMMA NewStatusEffect ==
  ASSUME NEW space \in [States -> Node], UpperBounds(space),
         NEW x \in States, NEW status_ \in {"CLOSED", "DEAD_END"}
  PROVE  LET next == [space EXCEPT ![x].status = status_] IN
           Refines(space, next) /\ UpperBounds(next)
<1> DEFINE next == [space EXCEPT ![x].status = status_]
<1>1. next \in [States -> Node]
  BY DEF Node, Status
<1>2. \A s \in States : next[s].g = space[s].g /\ next[s].op = space[s].op
  BY DEF Node
<1>3. \A s \in States : ~IsNew(space, s) => ~IsNew(next, s)
  BY DEF Node, IsNew
<1>4. Refines(space, next)
  <2>1. \A s \in States : next[s].g <= space[s].g
    BY <1>2 DEF Node
  <2> HIDE DEF next
  <2> QED
    BY <1>1, <1>3, <2>1 DEF Refines
<1> HIDE DEF next
<1>5. UpperBounds(next)
  <2> SUFFICES ASSUME NEW s \in States, HasParent(next, s)
               PROVE  /\ ~IsNew(next, ParentOf(next, s))
                      /\ next[s].g >= next[ParentOf(next, s)].g + AdjustedCost(next[s].op)
    BY DEF UpperBounds
  <2>1. HasParent(space, s) /\ ParentOf(next, s) = ParentOf(space, s) /\ next[s].op = space[s].op
    BY <1>2 DEF HasParent, ParentOf
  <2>2. space[s].op \in Transitions
    BY <2>1 DEF HasParent, Node
  <2>3. ParentOf(space, s) \in States
    BY <2>2, TaskAssumption DEF ParentOf
  <2>4. /\ ~IsNew(space, ParentOf(space, s))
        /\ space[s].g >= space[ParentOf(space, s)].g + AdjustedCost(space[s].op)
    BY <2>1 DEF UpperBounds
  <2>5. next[s].g = space[s].g /\ next[ParentOf(space, s)].g = space[ParentOf(space, s)].g
    BY <1>2, <2>3
  <2>6. ~IsNew(next, ParentOf(space, s))
    BY <1>3, <2>3, <2>4
  <2> QED
    BY <2>1, <2>4, <2>5, <2>6
<1> QED
  BY <1>4, <1>5 DEF next

-----------------------------------------------------------------------------
LEMMA UpperBoundsOfSpace == CostsAreUpperBounds <=> UpperBounds(search_space)
  BY DEF CostsAreUpperBounds, UpperBounds

\* The search stops or is interrupted: the edge it looks at stays the same.
LEMMA KeepsEdge ==
  ASSUME EdgeInv, NEW space, NEW list \in [Transitions -> Int],
         Refines(search_space, space), UpperBounds(space),
         \A t \in EdgesOf(list) : ~IsNew(space, Source[t]),
         search_space' = space, open_list' = list,
         UNCHANGED <<current_state, current_operator, current_g>>
  PROVE  CostInv'
<1>1. UpperBounds(space) /\ CostsAreUpperBounds' 
  BY DEF CostsAreUpperBounds, UpperBounds
<1>2. space \in [States -> Node] /\ search_space \in [States -> Node]
  BY DEF Refines, EdgeInv
<1>3. ASSUME current_operator # NoTransition
      PROVE  /\ ~IsNew(space, Source[current_operator])
             /\ current_g >= space[Source[current_operator]].g + AdjustedCost(current_operator)
  <2>1. current_operator \in Transitions /\ Source[current_operator] \in States
    BY <1>3, TaskAssumption DEF EdgeInv
  <2>2. /\ space[Source[current_operator]].g \in Int
        /\ search_space[Source[current_operator]].g \in Int
        /\ AdjustedCost(current_operator) \in Nat /\ current_g \in Int
    BY <1>2, <2>1, AdjustedCostIsNatural DEF Node, EdgeInv
  <2>3. /\ ~IsNew(search_space, Source[current_operator])
        /\ current_g >= search_space[Source[current_operator]].g + AdjustedCost(current_operator)
    BY <1>3 DEF EdgeInv
  <2>4. space[Source[current_operator]].g <= search_space[Source[current_operator]].g
    BY <2>1, <2>3 DEF Refines
  <2>5. ~IsNew(space, Source[current_operator])
    BY <2>1, <2>3 DEF Refines
  <2> QED
    BY <2>2, <2>3, <2>4, <2>5
<1>4. EdgeInv'
  <2>1. (search_space \in [States -> Node] /\ open_list \in [Transitions -> Int])'
    BY <1>2
  <2>2. (current_state \in States /\ current_g \in Int /\ current_operator \in Transitions \cup {NoTransition})'
    BY DEF EdgeInv
  <2>3. (\A t \in EdgesOf(open_list) : ~IsNew(search_space, Source[t]))'
    BY DEF EdgesOf, IsNew
  <2>4. AdjustedCost(current_operator)' = AdjustedCost(current_operator)
    BY DEF AdjustedCost, IsUnitCost
  <2>5. (IF current_operator = NoTransition
         THEN current_state = InitialState /\ current_g = 0
         ELSE /\ current_state = Target[current_operator]
              /\ ~IsNew(search_space, Source[current_operator])
              /\ current_g >= search_space[Source[current_operator]].g + AdjustedCost(current_operator))'
    BY <1>3, <2>4 DEF EdgeInv, IsNew
  <2> QED
    BY <2>1, <2>2, <2>3, <2>5 DEF EdgeInv
<1> QED
  BY <1>1, <1>4 DEF CostInv

\* fetch_next_state takes any edge of the list.
LEMMA FetchKeepsInv ==
  ASSUME EdgeInv, NEW space, NEW list \in [Transitions -> Int],
         Refines(search_space, space), UpperBounds(space),
         \A t \in EdgesOf(list) : ~IsNew(space, Source[t]),
         FetchNextState(space, list)
  PROVE  CostInv'
<1>1. CASE EdgesOf(list) = {}
  BY <1>1, KeepsEdge DEF FetchNextState
<1>2. CASE EdgesOf(list) # {}
  <2>1. search_space' = space /\ space \in [States -> Node]
    BY DEF FetchNextState, Refines
  <2>2. PICK t \in EdgesOf(list) :
          /\ open_list' = [list EXCEPT ![t] = @ - 1]
          /\ current_state' = Target[t] /\ current_operator' = t
          /\ current_g' = space[Source[t]].g + AdjustedCost(t)
    BY <1>2 DEF FetchNextState
  <2>3. t \in Transitions /\ t # NoTransition
    BY TaskAssumption DEF EdgesOf
  <2>4. Source[t] \in States /\ Target[t] \in States /\ AdjustedCost(t) \in Nat
    BY <2>3, TaskAssumption, AdjustedCostIsNatural
  <2>5. space[Source[t]].g \in Int
    BY <2>1, <2>4 DEF Node
  <2>6. open_list' \in [Transitions -> Int]
    BY <2>2, <2>3
  <2>7. \A u \in EdgesOf(open_list)' : u \in EdgesOf(list)
    BY <2>2, <2>3 DEF EdgesOf
  <2>8. AdjustedCost(current_operator)' = AdjustedCost(t)
    BY <2>2 DEF AdjustedCost, IsUnitCost
  <2>9. EdgeInv'
    <3>1. (search_space \in [States -> Node] /\ open_list \in [Transitions -> Int])'
      BY <2>1, <2>6
    <3>2. (current_state \in States /\ current_g \in Int /\ current_operator \in Transitions \cup {NoTransition})'
      BY <2>2, <2>3, <2>4, <2>5
    <3>3. (\A u \in EdgesOf(open_list) : ~IsNew(search_space, Source[u]))'
      BY <2>1, <2>7 DEF IsNew
    <3>4. ~IsNew(space, Source[t])
      OBVIOUS
    <3>5. current_g' >= space[Source[t]].g + AdjustedCost(t)
      BY <2>2, <2>4, <2>5
    <3>6. (IF current_operator = NoTransition
           THEN current_state = InitialState /\ current_g = 0
           ELSE /\ current_state = Target[current_operator]
                /\ ~IsNew(search_space, Source[current_operator])
                /\ current_g >= search_space[Source[current_operator]].g + AdjustedCost(current_operator))'
      BY <2>1, <2>2, <2>3, <2>8, <3>4, <3>5 DEF IsNew
    <3> QED
      BY <3>1, <3>2, <3>3, <3>6 DEF EdgeInv
  <2>10. CostsAreUpperBounds'
    BY <2>1 DEF CostsAreUpperBounds, UpperBounds
  <2> QED
    BY <2>9, <2>10 DEF CostInv
<1> QED
  BY <1>1, <1>2

-----------------------------------------------------------------------------
\* One call of step() of the engine.
LEMMA EvaluatingKeepsInv ==
  ASSUME CostInv, Evaluates,
         FindDeadEnd \/ SolveByRelaxedPlan \/ LearnDeadEnd \/ ReachGoal \/ Expand
  PROVE  CostInv'
<1>1. EdgeInv /\ UpperBounds(search_space)
  BY UpperBoundsOfSpace DEF CostInv
<1>2. /\ search_space \in [States -> Node] /\ current_state \in States
      /\ open_list \in [Transitions -> Int]
  BY <1>1 DEF EdgeInv
<1>3. /\ Refines(search_space, OpenedSpace) /\ UpperBounds(OpenedSpace)
      /\ ~IsNew(OpenedSpace, current_state)
  BY <1>1, OpenedSpaceEffect
<1>4. OpenedSpace \in [States -> Node]
  BY <1>3 DEF Refines
<1> DEFINE closed == Close(OpenedSpace, current_state)
           deadEnd == MarkDeadEnd(search_space, current_state)
           learned == MarkDeadEnd(OpenedSpace, current_state)
<1>5. /\ Refines(OpenedSpace, closed) /\ UpperBounds(closed)
      /\ Refines(OpenedSpace, learned) /\ UpperBounds(learned)
  BY <1>2, <1>3, <1>4, NewStatusEffect DEF Close, MarkDeadEnd
<1>6. Refines(search_space, deadEnd) /\ UpperBounds(deadEnd)
  BY <1>1, <1>2, NewStatusEffect DEF MarkDeadEnd
<1>7. Refines(search_space, closed) /\ Refines(search_space, learned)
  BY <1>2, <1>3, <1>5, RefinesIsTransitive
<1>8. ASSUME NEW space, Refines(search_space, space)
      PROVE  \A t \in EdgesOf(open_list) : ~IsNew(space, Source[t])
  BY <1>1, <1>8, TaskAssumption DEF EdgeInv, EdgesOf, Refines
<1>9. CASE FindDeadEnd
  <2>1. FetchNextState(deadEnd, open_list)
    BY <1>9 DEF FindDeadEnd
  <2> HIDE DEF deadEnd
  <2> QED
    BY <1>1, <1>2, <1>6, <1>8, <2>1, FetchKeepsInv
<1>10. CASE LearnDeadEnd
  <2>1. FetchNextState(learned, open_list)
    BY <1>10 DEF LearnDeadEnd
  <2> HIDE DEF learned
  <2> QED
    BY <1>1, <1>2, <1>5, <1>7, <1>8, <2>1, FetchKeepsInv
<1>11. CASE SolveByRelaxedPlan
  <2>1. /\ search_space' = OpenedSpace /\ open_list' = open_list
        /\ UNCHANGED <<current_state, current_operator, current_g>>
    BY <1>11 DEF SolveByRelaxedPlan
  <2> QED
    BY <1>1, <1>2, <1>3, <1>8, <2>1, KeepsEdge
<1>12. CASE ReachGoal
  <2>1. /\ search_space' = closed /\ open_list' = open_list
        /\ UNCHANGED <<current_state, current_operator, current_g>>
    BY <1>12 DEF ReachGoal
  <2> HIDE DEF closed
  <2> QED
    BY <1>1, <1>2, <1>5, <1>7, <1>8, <2>1, KeepsEdge
<1>13. CASE Expand
  <2> DEFINE list == WithEdges(open_list, Successors)
  <2>1. FetchNextState(closed, list)
    BY <1>13 DEF Expand
  <2>2. list \in [Transitions -> Int]
    BY <1>2 DEF WithEdges
  <2>3. ~IsNew(closed, current_state)
    BY <1>2, <1>3, <1>5 DEF Refines
  <2>4. \A t \in EdgesOf(list) : ~IsNew(closed, Source[t])
    <3> SUFFICES ASSUME NEW t \in EdgesOf(list) PROVE ~IsNew(closed, Source[t])
      OBVIOUS
    <3>1. t \in EdgesOf(open_list) \/ Source[t] = current_state
      BY <1>2 DEF EdgesOf, WithEdges, Successors, OpsOf
    <3> HIDE DEF closed
    <3> QED
      BY <1>7, <1>8, <2>3, <3>1
  <2> HIDE DEF closed, list
  <2> QED
    BY <1>1, <1>5, <1>7, <2>1, <2>2, <2>4, FetchKeepsInv
<1> QED
  BY <1>9, <1>10, <1>11, <1>12, <1>13

LEMMA StepKeepsInv ==
  ASSUME CostInv, Step
  PROVE  CostInv'
<1>1. EdgeInv /\ UpperBounds(search_space)
  BY UpperBoundsOfSpace DEF CostInv
<1>2. search_space \in [States -> Node] /\ open_list \in [Transitions -> Int]
  BY <1>1 DEF EdgeInv
<1>3. Refines(search_space, search_space)
  BY <1>2, SpaceRefinesItself
<1>4. \A t \in EdgesOf(open_list) : ~IsNew(search_space, Source[t])
  BY <1>1 DEF EdgeInv
<1>5. CASE StopSolved
  BY <1>1, <1>2, <1>3, <1>4, <1>5, KeepsEdge DEF StopSolved, searchVars
<1>6. CASE SkipState
  BY <1>1, <1>2, <1>3, <1>4, <1>6, FetchKeepsInv DEF SkipState
<1>7. CASE FindDeadEnd \/ SolveByRelaxedPlan \/ LearnDeadEnd \/ ReachGoal \/ Expand
  <2>1. Evaluates
    BY <1>7 DEF FindDeadEnd, SolveByRelaxedPlan, LearnDeadEnd, ReachGoal, Expand
  <2> QED
    BY <1>7, <2>1, EvaluatingKeepsInv
<1> QED
  BY <1>5, <1>6, <1>7 DEF Step

-----------------------------------------------------------------------------
LEMMA EmptySpaceIsOne ==
  /\ EmptySpace \in [States -> Node]
  /\ UpperBounds(EmptySpace)
  /\ EmptyList \in [Transitions -> Int]
  /\ EdgesOf(EmptyList) = {}
  BY DEF EmptySpace, Node, NewNode, Status, UpperBounds, HasParent, EmptyList, EdgesOf

\* A search starts over with a new space.
LEMMA NewSearchHasInv ==
  ASSUME SearchFromInitialState
  PROVE  CostInv'
<1>1. /\ search_space' = EmptySpace /\ open_list' = EmptyList
      /\ current_state' = InitialState /\ current_operator' = NoTransition /\ current_g' = 0
  BY DEF SearchFromInitialState
<1>2. EdgeInv'
  BY <1>1, EmptySpaceIsOne, TaskAssumption DEF EdgeInv, EdgesOf
<1>3. CostsAreUpperBounds'
  BY <1>1, EmptySpaceIsOne DEF CostsAreUpperBounds, UpperBounds
<1> QED
  BY <1>2, <1>3 DEF CostInv

LEMMA CostInvInitially == Init => CostInv
<1> SUFFICES ASSUME Init PROVE CostInv
  OBVIOUS
<1>1. /\ search_space = EmptySpace /\ open_list = EmptyList
      /\ current_state = InitialState /\ current_operator = NoTransition /\ current_g = 0
  BY DEF Init
<1>2. EdgeInv
  BY <1>1, EmptySpaceIsOne, TaskAssumption DEF EdgeInv
<1>3. CostsAreUpperBounds
  BY <1>1, EmptySpaceIsOne, UpperBoundsOfSpace
<1> QED
  BY <1>2, <1>3 DEF CostInv

LEMMA UnchangedKeepsInv == CostInv /\ UNCHANGED searchVars => CostInv'
<1> SUFFICES ASSUME CostInv, UNCHANGED searchVars PROVE CostInv'
  OBVIOUS
<1>1. /\ EdgeInv /\ UpperBounds(search_space) /\ Refines(search_space, search_space)
      /\ open_list \in [Transitions -> Int]
      /\ \A t \in EdgesOf(open_list) : ~IsNew(search_space, Source[t])
  BY UpperBoundsOfSpace, SpaceRefinesItself DEF CostInv, EdgeInv
<1> QED
  BY <1>1, KeepsEdge DEF searchVars

LEMMA CostInvIsKept == CostInv /\ [Next]_vars => CostInv'
<1> SUFFICES ASSUME CostInv, [Next]_vars PROVE CostInv'
  OBVIOUS
<1>1. CASE ContinueEngine \/ RunOutOfPhases
  BY <1>1, UnchangedKeepsInv DEF ContinueEngine, RunOutOfPhases, engineVars
<1>2. CASE StartEngine
  BY <1>2, NewSearchHasInv DEF StartEngine, NewEngine
<1>3. CASE Initialize
  BY <1>3, UnchangedKeepsInv DEF Initialize
<1>4. CASE Step
  BY <1>4, StepKeepsInv
<1>5. CASE FinishSearch
  <2>1. UNCHANGED searchVars \/ SearchFromInitialState
    BY <1>5 DEF FinishSearch, RestartWithNextWeight, engineVars
  <2> QED
    BY <2>1, UnchangedKeepsInv, NewSearchHasInv
<1>6. CASE Done \/ UNCHANGED vars
  BY <1>6, UnchangedKeepsInv DEF Done, vars, engineVars
<1> QED
  BY <1>1, <1>2, <1>3, <1>4, <1>5, <1>6 DEF Next

\* Edges and recorded costs fit together whatever the engines do (lazy_search.cc:
\* generate_successors, fetch_next_state, step; restart_with_next_weight).
THEOREM EdgesAreSound == Spec => []CostInv
  BY CostInvInitially, CostInvIsKept, PTL DEF Spec

\* Reopening lowers the cost of a node long after its successors were opened: the
\* cost a node has recorded is never below that of the path that is traced from it,
\* and the traced path leads through nodes that were opened (lazy_search.cc, step).
THEOREM CostsCorrect == Spec => []CostsAreUpperBounds
<1>1. CostInv => CostsAreUpperBounds
  BY DEF CostInv
<1> QED
  BY <1>1, EdgesAreSound, PTL

-----------------------------------------------------------------------------
(* Sums of costs. *)

PartialSums(f, p) ==
  f = [i \in 0 .. Len(p) |-> IF i = 0 THEN 0 ELSE f[i - 1] + Cost[p[i]]]

\* The recursive function of PlanCost.
LEMMA SumsExist ==
  ASSUME NEW p \in Seq(Transitions)
  PROVE  /\ PartialSums(CHOOSE f : PartialSums(f, p), p)
         /\ PlanCost(p) = (CHOOSE f : PartialSums(f, p))[Len(p)]
<1> DEFINE n == Len(p)
           Sums(k, f) == f = [i \in 0 .. k |-> IF i = 0 THEN 0 ELSE f[i - 1] + Cost[p[i]]]
           S == {k \in Nat : \E f : Sums(k, f)}
<1>1. 0 \in S
  <2> DEFINE f == [i \in 0 .. 0 |-> 0]
  <2>1. Sums(0, f)
    OBVIOUS
  <2> QED
    BY <2>1
<1>2. ASSUME NEW k \in S PROVE k + 1 \in S
  <2>1. PICK f : Sums(k, f)
    OBVIOUS
  <2> DEFINE g == [i \in 0 .. k + 1 |-> IF i = k + 1 THEN f[k] + Cost[p[i]] ELSE f[i]]
  <2>2. \A i \in 0 .. k : f[i] = IF i = 0 THEN 0 ELSE f[i - 1] + Cost[p[i]]
    BY <2>1, Zenon
  <2>3. k \in Nat /\ \A i \in 0 .. k + 1 : g[i] = IF i = k + 1 THEN f[k] + Cost[p[i]] ELSE f[i]
    OBVIOUS
  <2> HIDE DEF g
  <2>4. \A i \in 0 .. k + 1 : g[i] = IF i = 0 THEN 0 ELSE g[i - 1] + Cost[p[i]]
    BY <2>2, <2>3
  <2>5. g = [i \in 0 .. k + 1 |-> IF i = 0 THEN 0 ELSE g[i - 1] + Cost[p[i]]]
    BY <2>4 DEF g
  <2> QED
    BY <2>3, <2>5
<1>3. n \in S
  <2>1. S \in SUBSET Nat /\ n \in Nat
    OBVIOUS
  <2> HIDE DEF S, n
  <2> QED
    BY <1>1, <1>2, <2>1, NatInductive
<1>4. \E f : PartialSums(f, p)
  BY <1>3 DEF PartialSums
<1>5. PartialSums(CHOOSE f : PartialSums(f, p), p)
  BY <1>4
<1>6. PlanCost(p) = (CHOOSE f : PartialSums(f, p))[Len(p)]
  BY Zenon DEF PlanCost, PartialSums
<1> QED
  BY <1>5, <1>6

\* PlanCost adds up the costs, starting from 0.
LEMMA CostSums ==
  ASSUME NEW p \in Seq(Transitions)
  PROVE  \E f \in [0 .. Len(p) -> Nat] :
           /\ f[0] = 0
           /\ \A i \in 1 .. Len(p) : f[i] = f[i - 1] + Cost[p[i]]
           /\ PlanCost(p) = f[Len(p)]
<1> DEFINE f == CHOOSE f : PartialSums(f, p)
           n == Len(p)
<1>1. PartialSums(f, p) /\ PlanCost(p) = f[n]
  BY SumsExist
<1>2. n \in Nat /\ \A i \in 1 .. n : p[i] \in Transitions
  BY LenProperties
<1> HIDE DEF f
<1>3. DOMAIN f = 0 .. n /\ \A i \in 0 .. n : f[i] = IF i = 0 THEN 0 ELSE f[i - 1] + Cost[p[i]]
  BY <1>1, Zenon DEF PartialSums
<1> HIDE DEF n
<1>4. f[0] = 0 /\ \A i \in 1 .. n : f[i] = f[i - 1] + Cost[p[i]]
  BY <1>2, <1>3
<1> DEFINE S == {k \in Nat : k <= n => f[k] \in Nat}
<1>5. S \in SUBSET Nat /\ 0 \in S
  BY <1>4
<1>6. ASSUME NEW k \in S PROVE k + 1 \in S
  <2>1. SUFFICES ASSUME k + 1 <= n PROVE f[k + 1] \in Nat
    OBVIOUS
  <2>2. k \in Nat /\ f[k] \in Nat /\ k + 1 \in 1 .. n
    BY <1>2, <2>1
  <2>3. f[k + 1] = f[k] + Cost[p[k + 1]] /\ Cost[p[k + 1]] \in Nat
    BY <1>2, <1>4, <2>2, TaskAssumption
  <2> QED
    BY <2>2, <2>3
<1>7. S = Nat
  <2> HIDE DEF S
  <2> QED
    BY <1>5, <1>6, NatInductive
<1>8. \A k \in 0 .. n : f[k] \in Nat
  BY <1>2, <1>7
<1>9. f \in [0 .. n -> Nat]
  BY <1>1, <1>3, <1>8 DEF PartialSums
<1> QED
  BY <1>1, <1>4, <1>9 DEF n

\* The cost of a plan is that of its operators, one after the other.
LEMMA PlanCostProperties ==
  /\ PlanCost(<<>>) = 0
  /\ \A p \in Seq(Transitions) : PlanCost(p) \in Nat
  /\ \A p, q \in Seq(Transitions) : PlanCost(p \o q) = PlanCost(p) + PlanCost(q)
  /\ \A t \in Transitions : PlanCost(<<t>>) = Cost[t]
<1>1. PlanCost(<<>>) = 0
  <2>1. <<>> \in Seq(Transitions) /\ Len(<<>>) = 0
    OBVIOUS
  <2> QED
    BY <2>1, CostSums
<1>2. ASSUME NEW p \in Seq(Transitions) PROVE PlanCost(p) \in Nat
  BY CostSums, LenProperties
<1>3. ASSUME NEW p \in Seq(Transitions), NEW q \in Seq(Transitions)
      PROVE  PlanCost(p \o q) = PlanCost(p) + PlanCost(q)
  <2> DEFINE m == Len(p)
             n == Len(q)
             pq == p \o q
  <2>1. /\ m \in Nat /\ n \in Nat /\ pq \in Seq(Transitions) /\ Len(pq) = m + n
        /\ \A i \in 1 .. m + n : pq[i] = IF i <= m THEN p[i] ELSE q[i - m]
        /\ \A i \in 1 .. m : p[i] \in Transitions
        /\ \A i \in 1 .. n : q[i] \in Transitions
    BY ConcatProperties, LenProperties
  <2>2. PICK f \in [0 .. m -> Nat] :
          /\ f[0] = 0 /\ PlanCost(p) = f[m]
          /\ \A i \in 1 .. m : f[i] = f[i - 1] + Cost[p[i]]
    BY CostSums
  <2>3. PICK g \in [0 .. n -> Nat] :
          /\ g[0] = 0 /\ PlanCost(q) = g[n]
          /\ \A i \in 1 .. n : g[i] = g[i - 1] + Cost[q[i]]
    BY CostSums
  <2>4. PICK h \in [0 .. m + n -> Nat] :
          /\ h[0] = 0 /\ PlanCost(pq) = h[m + n]
          /\ \A i \in 1 .. m + n : h[i] = h[i - 1] + Cost[pq[i]]
    <3> HIDE DEF m, n, pq
    <3>1. \E h \in [0 .. Len(pq) -> Nat] :
            /\ h[0] = 0
            /\ \A i \in 1 .. Len(pq) : h[i] = h[i - 1] + Cost[pq[i]]
            /\ PlanCost(pq) = h[Len(pq)]
      BY <2>1, CostSums
    <3> QED
      BY <2>1, <3>1
  <2> HIDE DEF m, n, pq
  <2>5. \A t \in Transitions : Cost[t] \in Nat
    BY TaskAssumption
  <2> DEFINE S == {k \in Nat : k <= m => h[k] = f[k]}
  <2>6. S = Nat
    <3>1. S \in SUBSET Nat /\ 0 \in S
      BY <2>2, <2>4
    <3>2. ASSUME NEW k \in S PROVE k + 1 \in S
      <4>1. SUFFICES ASSUME k + 1 <= m PROVE h[k + 1] = f[k + 1]
        OBVIOUS
      <4>2. k \in Nat /\ h[k] = f[k] /\ k + 1 \in 1 .. m /\ k + 1 \in 1 .. m + n /\ (k + 1) - 1 = k
        <5>1. m \in Nat /\ n \in Nat
          BY <2>1
        <5> QED
          BY <4>1, <5>1
      <4>3. h[k + 1] = h[k] + Cost[pq[k + 1]] /\ f[k + 1] = f[k] + Cost[p[k + 1]]
        BY <2>2, <2>4, <4>2
      <4>4. pq[k + 1] = p[k + 1]
        BY <2>1, <4>1, <4>2
      <4> QED
        BY <4>2, <4>3, <4>4
    <3> HIDE DEF S
    <3> QED
      BY <3>1, <3>2, NatInductive
  <2>7. h[m] = f[m]
    <3>1. m \in Nat
      BY <2>1
    <3> HIDE DEF m
    <3>2. m \in S
      BY <2>6, <3>1
    <3> QED
      BY <3>1, <3>2
  <2> DEFINE T == {k \in Nat : k <= n => h[m + k] = f[m] + g[k]}
  <2>8. T = Nat
    <3>1. T \in SUBSET Nat /\ 0 \in T
      BY <2>1, <2>2, <2>3, <2>7
    <3>2. ASSUME NEW k \in T PROVE k + 1 \in T
      <4>1. SUFFICES ASSUME k + 1 <= n PROVE h[m + (k + 1)] = f[m] + g[k + 1]
        OBVIOUS
      <4>2. /\ k \in Nat /\ h[m + k] = f[m] + g[k] /\ k + 1 \in 1 .. n
            /\ m + (k + 1) \in 1 .. m + n /\ (k + 1) - 1 = k /\ (m + (k + 1)) - 1 = m + k
            /\ ~(m + (k + 1) <= m) /\ (m + (k + 1)) - m = k + 1
        <5>1. m \in Nat /\ n \in Nat
          BY <2>1
        <5>2. k \in Nat /\ k <= n /\ h[m + k] = f[m] + g[k]
          BY <4>1, <5>1
        <5> QED
          BY <4>1, <5>1, <5>2
      <4>3. h[m + (k + 1)] = h[m + k] + Cost[pq[m + (k + 1)]] /\ g[k + 1] = g[k] + Cost[q[k + 1]]
        BY <2>3, <2>4, <4>2
      <4>4. pq[m + (k + 1)] = q[k + 1]
        BY <2>1, <4>2
      <4>5. Cost[q[k + 1]] \in Nat
        BY <2>1, <2>5, <4>2
      <4>6. f[m] \in Nat /\ g[k] \in Nat
        <5>1. m \in 0 .. m /\ k \in 0 .. n
          BY <2>1, <4>2
        <5> QED
          BY <2>2, <2>3, <5>1
      <4> QED
        BY <4>2, <4>3, <4>4, <4>5, <4>6
    <3> HIDE DEF T
    <3> QED
      BY <3>1, <3>2, NatInductive
  <2>9. h[m + n] = f[m] + g[n]
    <3>1. n \in T
      BY <2>1, <2>8
    <3> QED
      BY <3>1
  <2> QED
    BY <2>2, <2>3, <2>4, <2>9 DEF pq
<1>4. ASSUME NEW t \in Transitions PROVE PlanCost(<<t>>) = Cost[t]
  <2>1. <<t>> \in Seq(Transitions) /\ Len(<<t>>) = 1 /\ <<t>>[1] = t
    OBVIOUS
  <2>2. Cost[t] \in Nat
    BY TaskAssumption
  <2>3. \E f \in [0 .. Len(<<t>>) -> Nat] :
          /\ f[0] = 0
          /\ \A i \in 1 .. Len(<<t>>) : f[i] = f[i - 1] + Cost[<<t>>[i]]
          /\ PlanCost(<<t>>) = f[Len(<<t>>)]
    BY <2>1, CostSums
  <2> QED
    BY <2>1, <2>2, <2>3
<1> QED
  BY <1>1, <1>2, <1>3, <1>4

-----------------------------------------------------------------------------
(* Paths and how they are traced. *)

LEMMA ShortPaths ==
  /\ \A s \in States : IsPathFrom(<<>>, s) /\ EndOf(<<>>, s) = s
  /\ \A t \in Transitions : IsPathFrom(<<t>>, Source[t]) /\ EndOf(<<t>>, Source[t]) = Target[t]
<1>1. ASSUME NEW t \in Transitions
      PROVE  IsPathFrom(<<t>>, Source[t]) /\ EndOf(<<t>>, Source[t]) = Target[t]
  <2>1. /\ <<t>> \in Seq(Transitions) /\ DOMAIN <<t>> = {1} /\ <<t>>[1] = t /\ Len(<<t>>) = 1
        /\ <<t>> # <<>>
    OBVIOUS
  <2> DEFINE p == <<t>>
  <2> HIDE DEF p
  <2> QED
    BY <2>1 DEF IsPathFrom, EndOf, p
<1> QED
  BY <1>1 DEF IsPathFrom, EndOf

LEMMA PathsJoin ==
  ASSUME NEW s \in States, NEW p, NEW q, IsPathFrom(p, s), IsPathFrom(q, EndOf(p, s))
  PROVE  /\ IsPathFrom(p \o q, s)
         /\ EndOf(p \o q, s) = EndOf(q, EndOf(p, s))
         /\ PlanCost(p \o q) = PlanCost(p) + PlanCost(q)
<1> DEFINE m == Len(p)
           n == Len(q)
           pq == p \o q
<1>1. p \in Seq(Transitions) /\ q \in Seq(Transitions)
  BY DEF IsPathFrom
<1>2. /\ m \in Nat /\ n \in Nat /\ pq \in Seq(Transitions) /\ Len(pq) = m + n
      /\ \A i \in 1 .. m + n : pq[i] = IF i <= m THEN p[i] ELSE q[i - m]
      /\ DOMAIN p = 1 .. m /\ DOMAIN q = 1 .. n /\ DOMAIN pq = 1 .. m + n
  BY <1>1, ConcatProperties, LenProperties
<1>3. (p = <<>> <=> m = 0) /\ (q = <<>> <=> n = 0) /\ (pq = <<>> <=> m + n = 0)
  BY <1>1, <1>2, EmptySeq
<1>4. PlanCost(pq) = PlanCost(p) + PlanCost(q)
  BY <1>1, PlanCostProperties
<1> HIDE DEF m, n, pq
<1>5. EndOf(p, s) = (IF m = 0 THEN s ELSE Target[p[m]])
  BY <1>3 DEF EndOf, m
<1>6. ASSUME NEW i \in 1 .. m + n
      PROVE  Source[pq[i]] = IF i = 1 THEN s ELSE Target[pq[i - 1]]
  <2>1. CASE i <= m
    <3>1. i \in 1 .. m /\ pq[i] = p[i] /\ (i # 1 => i - 1 \in 1 .. m + n /\ i - 1 <= m)
      BY <1>2, <2>1
    <3>2. i # 1 => pq[i - 1] = p[i - 1]
      BY <1>2, <3>1
    <3>3. Source[p[i]] = IF i = 1 THEN s ELSE Target[p[i - 1]]
      BY <1>2, <3>1 DEF IsPathFrom
    <3> QED
      BY <3>1, <3>2, <3>3
  <2>2. CASE ~(i <= m)
    <3> DEFINE j == i - m
    <3>1. j \in 1 .. n /\ pq[i] = q[j]
      BY <1>2, <2>2
    <3>2. Source[q[j]] = IF j = 1 THEN EndOf(p, s) ELSE Target[q[j - 1]]
      BY <1>2, <3>1 DEF IsPathFrom
    <3>3. CASE j = 1
      <4>1. i = m + 1 /\ (m # 0 => i - 1 = m /\ m \in 1 .. m + n /\ i # 1)
        BY <1>2, <3>3
      <4>2. m # 0 => pq[m] = p[m]
        BY <1>2, <4>1
      <4> QED
        BY <1>2, <1>5, <3>1, <3>2, <3>3, <4>1, <4>2
    <3>4. CASE j # 1
      <4>1. i # 1 /\ i - 1 \in 1 .. m + n /\ ~(i - 1 <= m) /\ (i - 1) - m = j - 1
        BY <1>2, <2>2, <3>1, <3>4
      <4>2. pq[i - 1] = q[j - 1]
        BY <1>2, <4>1
      <4> QED
        BY <3>1, <3>2, <3>4, <4>1, <4>2
    <3> QED
      BY <3>3, <3>4
  <2> QED
    BY <2>1, <2>2
<1>7. EndOf(pq, s) = EndOf(q, EndOf(p, s))
  <2>1. CASE n = 0
    <3>1. pq = p
      BY <1>1, <1>3, <2>1 DEF pq
    <3> QED
      BY <1>3, <2>1, <3>1 DEF EndOf
  <2>2. CASE n # 0
    <3>1. m + n \in 1 .. m + n /\ ~(m + n <= m) /\ (m + n) - m = n
      BY <1>2, <2>2
    <3>2. pq[m + n] = q[n]
      BY <1>2, <3>1
    <3> QED
      BY <1>2, <1>3, <2>2, <3>1, <3>2 DEF EndOf, n
  <2> QED
    BY <2>1, <2>2
<1>8. IsPathFrom(pq, s)
  BY <1>2, <1>6 DEF IsPathFrom
<1> QED
  BY <1>4, <1>7, <1>8 DEF pq

LEMMA PathGrows ==
  ASSUME NEW s \in States, NEW p, IsPathFrom(p, s),
         NEW t \in Transitions, Source[t] = EndOf(p, s)
  PROVE  /\ IsPathFrom(Append(p, t), s)
         /\ EndOf(Append(p, t), s) = Target[t]
         /\ PlanCost(Append(p, t)) = PlanCost(p) + Cost[t]
<1>1. Append(p, t) = p \o <<t>>
  BY AppendIsConcat DEF IsPathFrom
<1>2. IsPathFrom(<<t>>, EndOf(p, s)) /\ EndOf(<<t>>, EndOf(p, s)) = Target[t]
  BY ShortPaths
<1>3. PlanCost(<<t>>) = Cost[t]
  BY PlanCostProperties
<1> QED
  BY <1>1, <1>2, <1>3, PathsJoin

\* The recursive function of Trace.
TracedPaths(path, space, k) ==
  path = [n \in 0 .. k |->
            [x \in States |->
               IF ~HasParent(space, x) \/ n = 0 THEN <<>>
               ELSE Append(path[n - 1][ParentOf(space, x)], space[x].op)]]

LEMMA TracesExist ==
  ASSUME NEW space
  PROVE  LET path == CHOOSE path : TracedPaths(path, space, Cardinality(States)) IN
         /\ TracedPaths(path, space, Cardinality(States))
         /\ \A s : Trace(space, s) = path[Cardinality(States)][s]
<1> DEFINE S == {k \in Nat : \E path : TracedPaths(path, space, k)}
           Row(prev, n) == [x \in States |->
                              IF ~HasParent(space, x) \/ n = 0 THEN <<>>
                              ELSE Append(prev[ParentOf(space, x)], space[x].op)]
<1> HIDE DEF Row
<1>0. \A path, k : TracedPaths(path, space, k) <=> path = [n \in 0 .. k |-> Row(path[n - 1], n)]
  BY Zenon DEF TracedPaths, Row
<1>1. \A a, b : Row(a, 0) = Row(b, 0)
  BY DEF Row
<1>2. 0 \in S
  <2> DEFINE f == [n \in 0 .. 0 |-> Row(<<>>, 0)]
  <2>1. f = [n \in 0 .. 0 |-> Row(f[n - 1], n)]
    <3>1. \A n \in 0 .. 0 : Row(<<>>, 0) = Row(f[n - 1], n)
      BY <1>1
    <3> QED
      BY <3>1
  <2> HIDE DEF f
  <2>2. TracedPaths(f, space, 0)
    BY <1>0, <2>1
  <2> QED
    BY <2>2
<1>3. ASSUME NEW k \in S PROVE k + 1 \in S
  <2>1. PICK f : TracedPaths(f, space, k)
    OBVIOUS
  <2> DEFINE g == [n \in 0 .. k + 1 |-> IF n = k + 1 THEN Row(f[k], k + 1) ELSE f[n]]
  <2>2. f = [n \in 0 .. k |-> Row(f[n - 1], n)]
    BY <1>0, <2>1
  <2>3. \A n \in 0 .. k : f[n] = Row(f[n - 1], n)
    BY <2>2, Zenon
  <2>4. k \in Nat /\ \A n \in 0 .. k + 1 : g[n] = IF n = k + 1 THEN Row(f[k], k + 1) ELSE f[n]
    OBVIOUS
  <2> HIDE DEF g
  <2>5. \A n \in 0 .. k + 1 : g[n] = Row(g[n - 1], n)
    <3> SUFFICES ASSUME NEW n \in 0 .. k + 1 PROVE g[n] = Row(g[n - 1], n)
      OBVIOUS
    <3>1. CASE n = 0
      BY <1>1, <2>3, <2>4, <3>1
    <3>2. CASE n # 0
      <4>1. n - 1 \in 0 .. k + 1 /\ n - 1 # k + 1 /\ (n = k + 1 => n - 1 = k) /\ (n # k + 1 => n \in 0 .. k)
        BY <2>4, <3>2
      <4>2. g[n - 1] = f[n - 1]
        BY <2>4, <4>1
      <4> QED
        BY <2>3, <2>4, <4>1, <4>2
    <3> QED
      BY <3>1, <3>2
  <2>6. g = [n \in 0 .. k + 1 |-> Row(g[n - 1], n)]
    BY <2>5 DEF g
  <2>7. TracedPaths(g, space, k + 1)
    BY <1>0, <2>6
  <2> QED
    BY <2>4, <2>7
<1>4. Cardinality(States) \in S
  <2>1. S \in SUBSET Nat /\ Cardinality(States) \in Nat
    BY TaskAssumption, FS_CardinalityType
  <2> HIDE DEF S
  <2> QED
    BY <1>2, <1>3, <2>1, NatInductive
<1>5. \E path : TracedPaths(path, space, Cardinality(States))
  BY <1>4
<1>6. TracedPaths(CHOOSE path : TracedPaths(path, space, Cardinality(States)), space, Cardinality(States))
  BY <1>5
<1>7. \A s : Trace(space, s)
               = (CHOOSE path : TracedPaths(path, space, Cardinality(States)))[Cardinality(States)][s]
  BY Zenon DEF Trace, TracedPaths
<1> QED
  BY <1>6, <1>7, Zenon

\* Whoever was opened hangs below the initial state.
LEMMA InitialIsRoot ==
  ASSUME NEW space, IsTree(space), NEW s \in States, Opened(space, s)
  PROVE  Opened(space, InitialState) /\ ~HasParent(space, InitialState) /\ space[InitialState].g = 0
<1> DEFINE C == {x \in States : Opened(space, x)}
<1>1. CASE ~Opened(space, InitialState)
  <2>1. ASSUME NEW x \in C PROVE HasParent(space, x) /\ ParentOf(space, x) \in C
    <3>1. x # InitialState
      BY <1>1
    <3>2. space[x].op \in Transitions /\ Opened(space, ParentOf(space, x))
      BY <3>1 DEF IsTree
    <3> QED
      BY <3>2, TaskAssumption DEF HasParent, ParentOf
  <2>2. C = {}
    BY <2>1 DEF IsTree, Acyclic
  <2> QED
    BY <2>2
<1>2. CASE Opened(space, InitialState)
  BY <1>2, TaskAssumption DEF IsTree
<1> QED
  BY <1>1, <1>2

\* What is traced is a path to the state, and not dearer than the state's node says.
LEMMA TracedPath ==
  ASSUME CostsAreReal, NEW space \in [States -> Node], IsTree(space), UpperBounds(space),
         NEW s \in States, Opened(space, s)
  PROVE  /\ IsPathFrom(Trace(space, s), InitialState)
         /\ EndOf(Trace(space, s), InitialState) = s
         /\ PlanCost(Trace(space, s)) <= space[s].g
<1> DEFINE N == Cardinality(States)
           All == {x \in States : Opened(space, x)}
<1>1. PICK path : TracedPaths(path, space, N) /\ Trace(space, s) = path[N][s]
  BY TracesExist
<1>2. N \in Nat /\ IsFiniteSet(States) /\ InitialState \in States
  BY TaskAssumption, FS_CardinalityType
<1>3. Opened(space, InitialState) /\ ~HasParent(space, InitialState) /\ space[InitialState].g = 0
  BY InitialIsRoot
<1> HIDE DEF N
<1>4. \A n \in 0 .. N :
        path[n] = [x \in States |->
                     IF ~HasParent(space, x) \/ n = 0 THEN <<>>
                     ELSE Append(path[n - 1][ParentOf(space, x)], space[x].op)]
  BY <1>1, Zenon DEF TracedPaths
<1>5. \A n \in 0 .. N : \A x \in States :
        path[n][x] = IF ~HasParent(space, x) \/ n = 0 THEN <<>>
                     ELSE Append(path[n - 1][ParentOf(space, x)], space[x].op)
  BY <1>4
<1> DEFINE Good(n, x) == /\ IsPathFrom(path[n][x], InitialState)
                         /\ EndOf(path[n][x], InitialState) = x
                         /\ PlanCost(path[n][x]) <= space[x].g
           Deep(n, D) == /\ InitialState \in D
                         /\ Cardinality(D) > n \/ D = All
                         /\ \A x \in D : \A m \in n .. N : Good(m, x)
           S == {n \in Nat : \E D \in SUBSET All : Deep(n, D)}
<1> HIDE DEF Good
<1>6. ASSUME NEW n \in 0 .. N PROVE Good(n, InitialState)
  BY <1>2, <1>3, <1>5, ShortPaths, PlanCostProperties DEF Good
<1>7. ASSUME NEW x \in All, HasParent(space, x), NEW n \in 1 .. N, Good(n - 1, ParentOf(space, x))
      PROVE  Good(n, x)
  <2> DEFINE p == ParentOf(space, x)
             t == space[x].op
  <2>1. x \in States /\ t \in Transitions /\ Target[t] = x /\ Source[t] = p /\ p \in States
    BY <1>3, <1>7, TaskAssumption DEF IsTree, ParentOf
  <2>2. path[n][x] = Append(path[n - 1][p], t)
    <3>1. n \in 0 .. N /\ n # 0
      BY <1>2
    <3>2. path[n][x] = IF ~HasParent(space, x) \/ n = 0 THEN <<>>
                       ELSE Append(path[n - 1][ParentOf(space, x)], space[x].op)
      BY <1>5, <2>1, <3>1, Zenon
    <3> QED
      BY <1>7, <3>1, <3>2
  <2>3. /\ IsPathFrom(path[n - 1][p], InitialState) /\ EndOf(path[n - 1][p], InitialState) = p
        /\ PlanCost(path[n - 1][p]) <= space[p].g
    BY <1>7 DEF Good
  <2>4. space[x].g >= space[p].g + Cost[t]
    BY <1>7, <2>1 DEF UpperBounds, CostsAreReal
  <2>5. space[x].g \in Int /\ space[p].g \in Int /\ Cost[t] \in Nat
    BY <2>1, TaskAssumption DEF Node
  <2>6. PlanCost(path[n - 1][p]) \in Nat
    BY <2>3, PlanCostProperties DEF IsPathFrom
  <2> HIDE DEF p, t
  <2> DEFINE q == path[n - 1][p]
  <2> HIDE DEF q
  <2>7. /\ IsPathFrom(Append(q, t), InitialState) /\ EndOf(Append(q, t), InitialState) = x
        /\ PlanCost(Append(q, t)) = PlanCost(q) + Cost[t]
    BY <1>2, <2>1, <2>3, PathGrows DEF q
  <2> QED
    BY <2>2, <2>3, <2>4, <2>5, <2>6, <2>7 DEF Good, q
<1>8. 0 \in S
  <2> DEFINE D == {InitialState}
  <2>1. D \in SUBSET All /\ Cardinality(D) > 0
    BY <1>2, <1>3, FS_Singleton
  <2>2. \A x \in D : \A m \in 0 .. N : Good(m, x)
    BY <1>6
  <2> HIDE DEF All
  <2> QED
    BY <2>1, <2>2
<1>9. ASSUME NEW n \in S PROVE n + 1 \in S
  <2>1. PICK D \in SUBSET All : Deep(n, D)
    OBVIOUS
  <2>2. n \in Nat /\ IsFiniteSet(D) /\ Cardinality(D) \in Nat
    BY <1>2, FS_Subset, FS_CardinalityType
  <2>3. \A x \in D : \A m \in n + 1 .. N : Good(m, x)
    BY <2>1, <2>2
  <2>4. CASE D = All
    <3>1. Deep(n + 1, D)
      BY <2>1, <2>3, <2>4
    <3> QED
      BY <2>2, <3>1
  <2>5. CASE D # All
    <3> DEFINE C == All \ D
    <3>1. C # {} /\ C \in SUBSET States
      BY <2>5
    <3>2. PICK x \in C : ~(HasParent(space, x) /\ ParentOf(space, x) \in C)
      <4> HIDE DEF C
      <4> QED
        BY <3>1 DEF IsTree, Acyclic
    <3>3. x \in All /\ x \notin D /\ x # InitialState /\ x \in States
      BY <2>1
    <3>4. HasParent(space, x) /\ Opened(space, ParentOf(space, x)) /\ ParentOf(space, x) \in States
      BY <3>3, TaskAssumption DEF IsTree, HasParent, ParentOf
    <3>5. ParentOf(space, x) \in D
      BY <3>2, <3>4
    <3> DEFINE E == D \cup {x}
    <3>6. E \in SUBSET All /\ InitialState \in E
      BY <2>1, <3>3
    <3>7. Cardinality(E) = Cardinality(D) + 1
      BY <2>2, <3>3, FS_AddElement
    <3>8. \A m \in n + 1 .. N : Good(m, x)
      <4> SUFFICES ASSUME NEW m \in n + 1 .. N PROVE Good(m, x)
        OBVIOUS
      <4>1. m \in 1 .. N /\ m - 1 \in n .. N
        BY <1>2, <2>2
      <4>2. Good(m - 1, ParentOf(space, x))
        BY <2>1, <3>5, <4>1
      <4> HIDE DEF All
      <4> QED
        BY <1>7, <3>3, <3>4, <4>1, <4>2
    <3>9. Cardinality(E) > n + 1
      BY <2>1, <2>2, <2>5, <3>7
    <3>10. \A y \in E : \A m \in n + 1 .. N : Good(m, y)
      BY <2>3, <3>8
    <3> HIDE DEF E, All
    <3>11. Deep(n + 1, E)
      BY <3>6, <3>9, <3>10
    <3> QED
      BY <2>2, <3>6, <3>11
  <2> QED
    BY <2>4, <2>5
<1>10. N \in S
  <2>1. S \in SUBSET Nat
    OBVIOUS
  <2> HIDE DEF S
  <2> QED
    BY <1>2, <1>8, <1>9, <2>1, NatInductive
<1>11. PICK D \in SUBSET All : Deep(N, D)
  BY <1>10
<1>12. Cardinality(D) <= N
  BY <1>2, FS_Subset DEF N
<1>13. D = All
  <2>1. Cardinality(D) \in Nat
    BY <1>2, FS_Subset, FS_CardinalityType
  <2> QED
    BY <1>2, <1>11, <1>12, <2>1
<1>14. Good(N, s)
  BY <1>2, <1>11, <1>13
<1> QED
  BY <1>1, <1>14 DEF Good

-----------------------------------------------------------------------------
(* The tree of paths. *)

\* What was opened stays so.
Grows(space, next) == \A s \in States : Opened(space, s) => Opened(next, s)

LEMMA EdgeOpens ==
  ASSUME CostsAreReal, EdgeInv, PathsInv, Evaluates, current_operator # NoTransition
  PROVE  /\ current_operator \in Transitions /\ Target[current_operator] = current_state
         /\ Opened(search_space, Source[current_operator])
         /\ search_space[Source[current_operator]].g \in Nat
         /\ search_space[Source[current_operator]].real_g = search_space[Source[current_operator]].g
         /\ Cost[current_operator] \in Nat /\ AdjustedCost(current_operator) = Cost[current_operator]
         /\ current_state # InitialState /\ current_state # Source[current_operator]
         /\ Opened(search_space, current_state) =>
              search_space[Source[current_operator]].g < search_space[current_state].g
<1> DEFINE p == Source[current_operator]
<1>1. /\ current_operator \in Transitions /\ Target[current_operator] = current_state
      /\ current_g >= search_space[p].g + AdjustedCost(current_operator)
      /\ current_state \in States /\ current_g \in Int
  BY DEF EdgeInv
<1>2. p \in States /\ Cost[current_operator] \in Nat /\ AdjustedCost(current_operator) = Cost[current_operator]
  BY <1>1, TaskAssumption DEF CostsAreReal
<1>3. /\ Opened(search_space, p) /\ search_space[p].g \in Nat
      /\ search_space[p].real_g = search_space[p].g
  BY <1>2 DEF PathsInv, IsTree
<1>4. Opened(search_space, InitialState) /\ search_space[InitialState].g = 0
  BY <1>2, <1>3, InitialIsRoot DEF PathsInv
<1> HIDE DEF p
<1>5. Opened(search_space, current_state) => search_space[p].g < search_space[current_state].g
  <2> SUFFICES ASSUME Opened(search_space, current_state)
               PROVE  search_space[p].g < search_space[current_state].g
    OBVIOUS
  <2>1. ~IsNew(search_space, current_state) /\ search_space[current_state].g \in Nat
    BY <1>1 DEF PathsInv, IsTree
  <2>2. current_g < search_space[current_state].g
    BY <2>1 DEF Evaluates, Reopens
  <2> QED
    BY <1>1, <1>2, <1>3, <2>1, <2>2
<1>6. current_state # InitialState /\ current_state # p
  BY <1>3, <1>4, <1>5
<1> QED
  BY <1>1, <1>2, <1>3, <1>5, <1>6 DEF p

\* Opening or reopening the state that is looked at keeps the tree one: its new
\* parent is cheaper than what lies below it.
LEMMA OpenedSpaceIsTree ==
  ASSUME CostsAreReal, EdgeInv, UpperBounds(search_space), PathsInv, Evaluates
  PROVE  /\ IsTree(OpenedSpace)
         /\ Grows(search_space, OpenedSpace)
         /\ Opened(OpenedSpace, current_state)
<1> DEFINE node == IF current_operator = NoTransition THEN RootNode
                   ELSE ChildNode(search_space, current_operator)
           p == Source[current_operator]
<1>1. current_state \in States /\ search_space \in [States -> Node] /\ IsTree(search_space)
  BY DEF EdgeInv, PathsInv
<1>2. OpenedSpace = [search_space EXCEPT ![current_state] = node]
  BY DEF EdgeInv, OpenedSpace, OpenInitial, OpenFrom
<1>3. /\ OpenedSpace[current_state] = node
      /\ \A s \in States : s # current_state => OpenedSpace[s] = search_space[s]
  BY <1>1, <1>2
<1>4. /\ node.status = "OPEN" /\ node.g \in Nat /\ node.real_g = node.g
      /\ current_operator = NoTransition => node.op = NoTransition /\ node.g = 0
      /\ current_operator # NoTransition => node.op = current_operator
    BY EdgeOpens DEF RootNode, ChildNode
<1>5. current_operator = NoTransition =>
        current_state = InitialState /\ \A s \in States : ~Opened(search_space, s)
  <2> SUFFICES ASSUME current_operator = NoTransition, NEW s \in States, Opened(search_space, s)
               PROVE  FALSE
    BY DEF EdgeInv
  <2>1. /\ current_state = InitialState /\ current_g = 0
        /\ Opened(search_space, InitialState) /\ search_space[InitialState].g = 0
    BY <1>1, InitialIsRoot DEF EdgeInv
  <2> QED
    BY <1>1, <2>1 DEF IsTree, Evaluates, Reopens
<1>6. Opened(OpenedSpace, current_state) /\ Grows(search_space, OpenedSpace)
  BY <1>3, <1>4 DEF Opened, Grows
<1> HIDE DEF node
<1>7. ASSUME NEW s \in States
      PROVE  IF ~Opened(OpenedSpace, s)
             THEN OpenedSpace[s].status \in {"NEW", "DEAD_END"} /\ ~HasParent(OpenedSpace, s)
             ELSE /\ ~IsNew(OpenedSpace, s)
                  /\ OpenedSpace[s].g \in Nat /\ OpenedSpace[s].real_g = OpenedSpace[s].g
                  /\ IF s = InitialState THEN ~HasParent(OpenedSpace, s) /\ OpenedSpace[s].g = 0
                     ELSE /\ OpenedSpace[s].op \in Transitions
                          /\ Target[OpenedSpace[s].op] = s
                          /\ Opened(OpenedSpace, ParentOf(OpenedSpace, s))
  <2>1. CASE s # current_state
    <3>1. OpenedSpace[s] = search_space[s]
      BY <1>3, <2>1
    <3>2. Opened(OpenedSpace, s) <=> Opened(search_space, s)
      BY <3>1 DEF Opened
    <3>3. CASE ~Opened(search_space, s)
      BY <1>1, <3>1, <3>2, <3>3 DEF IsTree, HasParent
    <3>4. CASE Opened(search_space, s)
      <4>1. /\ ~IsNew(OpenedSpace, s)
            /\ OpenedSpace[s].g \in Nat /\ OpenedSpace[s].real_g = OpenedSpace[s].g
            /\ s = InitialState => ~HasParent(OpenedSpace, s) /\ OpenedSpace[s].g = 0
            /\ s # InitialState =>
                 /\ OpenedSpace[s].op \in Transitions /\ Target[OpenedSpace[s].op] = s
                 /\ Opened(search_space, ParentOf(OpenedSpace, s))
        BY <1>1, <3>1, <3>4 DEF IsTree, HasParent, ParentOf, IsNew
      <4>2. s # InitialState => ParentOf(OpenedSpace, s) \in States
        BY <4>1, TaskAssumption DEF ParentOf
      <4>3. s # InitialState => Opened(OpenedSpace, ParentOf(OpenedSpace, s))
        BY <1>6, <4>1, <4>2 DEF Grows
      <4> QED
        BY <3>2, <3>4, <4>1, <4>3
    <3> QED
      BY <3>3, <3>4
  <2>2. CASE s = current_state
    <3>1. OpenedSpace[s] = node /\ Opened(OpenedSpace, s)
      BY <1>3, <1>6, <2>2
    <3>2. /\ ~IsNew(OpenedSpace, s)
          /\ OpenedSpace[s].g \in Nat /\ OpenedSpace[s].real_g = OpenedSpace[s].g
      BY <1>4, <3>1 DEF IsNew
    <3>3. CASE current_operator = NoTransition
      BY <1>4, <1>5, <2>2, <3>1, <3>2, <3>3 DEF HasParent
    <3>4. CASE current_operator # NoTransition
      <4>1. /\ current_operator \in Transitions /\ Target[current_operator] = s
            /\ Opened(search_space, p) /\ s # InitialState
        BY <2>2, <3>4, EdgeOpens
      <4>2. OpenedSpace[s].op = current_operator /\ ParentOf(OpenedSpace, s) = p
        BY <1>4, <3>1, <3>4 DEF ParentOf
      <4>3. Opened(OpenedSpace, p)
        BY <1>6, <4>1, TaskAssumption DEF Grows
      <4> QED
        BY <3>1, <3>2, <4>1, <4>2, <4>3
    <3> QED
      BY <3>3, <3>4
  <2> QED
    BY <2>1, <2>2
<1>8. Acyclic(OpenedSpace)
  <2> SUFFICES ASSUME NEW C \in SUBSET States, C # {},
                      \A s \in C : HasParent(OpenedSpace, s) /\ ParentOf(OpenedSpace, s) \in C
               PROVE  FALSE
    BY DEF Acyclic
  <2>1. ASSUME NEW s \in C, s # current_state
        PROVE  /\ HasParent(search_space, s) /\ ParentOf(search_space, s) \in C
               /\ Opened(search_space, s)
    <3>1. OpenedSpace[s] = search_space[s]
      BY <1>3, <2>1
    <3> QED
      BY <1>1, <3>1 DEF HasParent, ParentOf, IsTree
  <2>2. CASE current_state \notin C
    BY <1>1, <2>1, <2>2 DEF IsTree, Acyclic
  <2>3. CASE current_state \in C
    <3>1. current_operator # NoTransition
      BY <1>3, <1>4, <2>3 DEF HasParent
    <3>2. /\ p \in C /\ p # current_state
          /\ Opened(search_space, current_state) =>
               search_space[p].g < search_space[current_state].g
      BY <1>3, <1>4, <2>3, <3>1, EdgeOpens DEF ParentOf
    <3>3. CASE Opened(search_space, current_state)
      <4> DEFINE E == {x \in C : search_space[x].g < search_space[current_state].g}
      <4>1. p \in E /\ current_state \notin E
        BY <1>1, <3>2, <3>3 DEF IsTree
      <4>2. ASSUME NEW x \in E PROVE HasParent(search_space, x) /\ ParentOf(search_space, x) \in E
        <5> DEFINE q == ParentOf(search_space, x)
        <5>1. x \in States /\ x # current_state
          BY <4>1
        <5>2. HasParent(search_space, x) /\ q \in C
          BY <2>1, <5>1
        <5>3. search_space[x].op \in Transitions
          BY <1>1, <5>1, <5>2 DEF HasParent, Node
        <5>4. search_space[x].g >= search_space[q].g + AdjustedCost(search_space[x].op)
          BY <5>1, <5>2 DEF UpperBounds
        <5>5. /\ search_space[x].g \in Int /\ search_space[q].g \in Int
              /\ search_space[current_state].g \in Int
              /\ AdjustedCost(search_space[x].op) \in Nat
          BY <1>1, <5>1, <5>2, <5>3, AdjustedCostIsNatural DEF Node
        <5>6. search_space[x].g < search_space[current_state].g
          OBVIOUS
        <5> HIDE DEF q
        <5>7. search_space[q].g < search_space[current_state].g
          BY <5>4, <5>5, <5>6
        <5> QED
          BY <5>2, <5>7 DEF q
      <4>3. E \in SUBSET States
        OBVIOUS
      <4> HIDE DEF E
      <4> QED
        BY <1>1, <4>1, <4>2, <4>3 DEF IsTree, Acyclic
    <3>4. CASE ~Opened(search_space, current_state)
      <4> DEFINE E == C \ {current_state}
      <4>1. p \in E
        BY <3>2
      <4>2. ASSUME NEW x \in E PROVE HasParent(search_space, x) /\ ParentOf(search_space, x) \in E
        <5>1. HasParent(search_space, x) /\ ParentOf(search_space, x) \in C /\ Opened(search_space, x)
          BY <2>1
        <5>2. Opened(search_space, ParentOf(search_space, x))
          BY <1>1, <5>1 DEF IsTree
        <5> QED
          BY <3>4, <5>1, <5>2
      <4>3. E \in SUBSET States
        OBVIOUS
      <4> HIDE DEF E
      <4> QED
        BY <1>1, <4>1, <4>2, <4>3 DEF IsTree, Acyclic
    <3> QED
      BY <3>3, <3>4
  <2> QED
    BY <2>2, <2>3
<1> QED
  BY <1>6, <1>7, <1>8 DEF IsTree

LEMMA NewStatusKeepsTree ==
  ASSUME NEW space \in [States -> Node], IsTree(space), NEW x \in States,
         NEW status_ \in {"CLOSED", "DEAD_END"}, status_ = "CLOSED" => Opened(space, x)
  PROVE  LET next == [space EXCEPT ![x].status = status_] IN IsTree(next) /\ Grows(space, next)
<1> DEFINE next == [space EXCEPT ![x].status = status_]
<1>1. \A s \in States : /\ next[s].g = space[s].g /\ next[s].op = space[s].op
                        /\ next[s].real_g = space[s].real_g
                        /\ next[s].status = IF s = x THEN status_ ELSE space[s].status
  BY DEF Node
<1> HIDE DEF next
<1>2. \A s \in States : /\ Opened(next, s) <=> Opened(space, s)
                        /\ HasParent(next, s) <=> HasParent(space, s)
                        /\ ParentOf(next, s) = ParentOf(space, s)
                        /\ IsNew(next, s) => IsNew(space, s)
  BY <1>1 DEF Opened, HasParent, ParentOf, IsNew
<1>3. Acyclic(next)
  BY <1>2 DEF IsTree, Acyclic
<1>4. ASSUME NEW s \in States, Opened(next, s), s # InitialState
      PROVE  next[s].op \in Transitions /\ Target[next[s].op] = s /\ Opened(next, ParentOf(next, s))
  <2>1. /\ space[s].op \in Transitions /\ Target[space[s].op] = s
        /\ Opened(space, ParentOf(space, s)) /\ ParentOf(space, s) \in States
    BY <1>2, <1>4, TaskAssumption DEF IsTree, ParentOf
  <2> QED
    BY <1>1, <1>2, <2>1
<1>5. ASSUME NEW s \in States, ~Opened(next, s)
      PROVE  next[s].status \in {"NEW", "DEAD_END"} /\ ~HasParent(next, s)
  BY <1>1, <1>2, <1>5 DEF IsTree
<1>6. ASSUME NEW s \in States, Opened(next, s)
      PROVE  /\ ~IsNew(next, s) /\ next[s].g \in Nat /\ next[s].real_g = next[s].g
             /\ s = InitialState => ~HasParent(next, s) /\ next[s].g = 0
  BY <1>1, <1>2, <1>6 DEF IsTree
<1>7. IsTree(next)
  BY <1>3, <1>4, <1>5, <1>6 DEF IsTree
<1> QED
  BY <1>2, <1>7 DEF Grows, next

\* fetch_next_state, or a stop: the edges that are left lead out of the tree.
EdgesOpened(space, list) == \A t \in EdgesOf(list) : Opened(space, Source[t])

LEMMA PathsKeepEdge ==
  ASSUME PathsInv, NEW space, NEW list, IsTree(space), Grows(search_space, space),
         EdgesOpened(space, list), search_space' = space, open_list' = list, EdgeInv,
         UNCHANGED <<current_state, current_operator, current_g, current_real_g>>
  PROVE  PathsInv'
<1>1. current_operator # NoTransition => Source[current_operator] \in States
  BY TaskAssumption DEF EdgeInv
<1>2. current_operator # NoTransition => Opened(space, Source[current_operator])
  BY <1>1 DEF PathsInv, Grows
<1>3. (\A t \in EdgesOf(open_list) : Opened(search_space, Source[t]))'
  BY DEF EdgesOpened, EdgesOf, Opened
<1> QED
  BY <1>2, <1>3 DEF PathsInv

LEMMA PathsKeepFetching ==
  ASSUME CostsAreReal, EdgeInv, PathsInv, NEW space \in [States -> Node],
         NEW list \in [Transitions -> Int],
         IsTree(space), Grows(search_space, space), EdgesOpened(space, list),
         FetchNextState(space, list)
  PROVE  PathsInv'
<1>1. CASE EdgesOf(list) = {}
  BY <1>1, PathsKeepEdge DEF FetchNextState
<1>2. CASE EdgesOf(list) # {}
  <2>1. search_space' = space
    BY DEF FetchNextState
  <2>2. PICK t \in EdgesOf(list) :
          /\ open_list' = [list EXCEPT ![t] = @ - 1]
          /\ current_operator' = t
          /\ current_g' = space[Source[t]].g + AdjustedCost(t)
          /\ current_real_g' = space[Source[t]].real_g + Cost[t]
    BY <1>2 DEF FetchNextState
  <2>3. t \in Transitions /\ Source[t] \in States /\ Opened(space, Source[t])
    BY TaskAssumption DEF EdgesOf, EdgesOpened
  <2>4. space[Source[t]].real_g = space[Source[t]].g /\ AdjustedCost(t) = Cost[t]
    BY <2>3 DEF IsTree, CostsAreReal
  <2>5. \A u \in EdgesOf(open_list)' : u \in EdgesOf(list)
    BY <2>2, <2>3 DEF EdgesOf
  <2>6. (\A u \in EdgesOf(open_list) : Opened(search_space, Source[u]))'
    BY <2>1, <2>5 DEF EdgesOpened, Opened
  <2> QED
    BY <2>1, <2>2, <2>3, <2>4, <2>6 DEF PathsInv
<1> QED
  BY <1>1, <1>2

LEMMA StepKeepsPaths ==
  ASSUME CostsAreReal, CostInv, PathsInv, Step
  PROVE  PathsInv'
<1>1. /\ EdgeInv /\ UpperBounds(search_space) /\ IsTree(search_space)
      /\ search_space \in [States -> Node] /\ open_list \in [Transitions -> Int]
      /\ current_state \in States /\ EdgesOpened(search_space, open_list)
  BY UpperBoundsOfSpace DEF CostInv, EdgeInv, PathsInv, EdgesOpened
<1>2. Grows(search_space, search_space)
  BY DEF Grows
<1>3. ASSUME NEW space, Grows(search_space, space)
      PROVE  EdgesOpened(space, open_list)
  BY <1>1, <1>3, TaskAssumption DEF EdgesOpened, EdgesOf, Grows
<1>4. CASE StopSolved
  BY <1>1, <1>2, <1>4, PathsKeepEdge DEF StopSolved, searchVars
<1>5. CASE SkipState
  BY <1>1, <1>2, <1>5, PathsKeepFetching DEF SkipState
<1>6. CASE FindDeadEnd
  <2> DEFINE dead == MarkDeadEnd(search_space, current_state)
  <2>1. FetchNextState(dead, open_list)
    BY <1>6 DEF FindDeadEnd
  <2>2. IsTree(dead) /\ Grows(search_space, dead)
    BY <1>1, NewStatusKeepsTree DEF MarkDeadEnd
  <2>3. dead \in [States -> Node] /\ EdgesOpened(dead, open_list)
    BY <1>1, <1>3, <2>2, NewStatusEffect DEF MarkDeadEnd, Refines
  <2> HIDE DEF dead
  <2> QED
    BY <1>1, <2>1, <2>2, <2>3, PathsKeepFetching
<1>7. CASE SolveByRelaxedPlan \/ LearnDeadEnd \/ ReachGoal \/ Expand
  <2>1. Evaluates
    BY <1>7 DEF SolveByRelaxedPlan, LearnDeadEnd, ReachGoal, Expand
  <2>2. /\ IsTree(OpenedSpace) /\ Grows(search_space, OpenedSpace)
        /\ Opened(OpenedSpace, current_state)
        /\ OpenedSpace \in [States -> Node] /\ UpperBounds(OpenedSpace)
    BY <1>1, <2>1, OpenedSpaceIsTree, OpenedSpaceEffect DEF Refines
  <2> DEFINE closed == Close(OpenedSpace, current_state)
             dead == MarkDeadEnd(OpenedSpace, current_state)
  <2>3. /\ IsTree(closed) /\ Grows(OpenedSpace, closed) /\ closed \in [States -> Node]
        /\ IsTree(dead) /\ Grows(OpenedSpace, dead) /\ dead \in [States -> Node]
    BY <1>1, <2>2, NewStatusKeepsTree, NewStatusEffect DEF Close, MarkDeadEnd, Refines
  <2> HIDE DEF closed, dead
  <2>4. Grows(search_space, closed) /\ Grows(search_space, dead)
    BY <2>2, <2>3 DEF Grows
  <2>5. EdgesOpened(closed, open_list) /\ EdgesOpened(dead, open_list)
        /\ EdgesOpened(OpenedSpace, open_list)
    BY <1>3, <2>2, <2>4
  <2>6. CASE SolveByRelaxedPlan
    <3>1. /\ search_space' = OpenedSpace /\ open_list' = open_list
          /\ UNCHANGED <<current_state, current_operator, current_g, current_real_g>>
      BY <2>6 DEF SolveByRelaxedPlan
    <3> QED
      BY <1>1, <2>2, <2>5, <3>1, PathsKeepEdge
  <2>7. CASE LearnDeadEnd
    <3>1. FetchNextState(dead, open_list)
      BY <2>7 DEF LearnDeadEnd, dead
    <3> QED
      BY <1>1, <2>3, <2>4, <2>5, <3>1, PathsKeepFetching
  <2>8. CASE ReachGoal
    <3>1. /\ search_space' = closed /\ open_list' = open_list
          /\ UNCHANGED <<current_state, current_operator, current_g, current_real_g>>
      BY <2>8 DEF ReachGoal, closed
    <3> QED
      BY <1>1, <2>3, <2>4, <2>5, <3>1, PathsKeepEdge
  <2>9. CASE Expand
    <3> DEFINE list == WithEdges(open_list, Successors)
    <3>1. FetchNextState(closed, list)
      BY <2>9 DEF Expand, closed
    <3>2. list \in [Transitions -> Int]
      BY <1>1 DEF WithEdges
    <3>3. Opened(closed, current_state)
      BY <1>1, <2>2, <2>3 DEF Grows
    <3>4. EdgesOpened(closed, list)
      <4> SUFFICES ASSUME NEW t \in EdgesOf(list) PROVE Opened(closed, Source[t])
        BY DEF EdgesOpened
      <4>1. t \in EdgesOf(open_list) \/ Source[t] = current_state
        BY <1>1 DEF EdgesOf, WithEdges, Successors, OpsOf
      <4> QED
        BY <2>5, <3>3, <4>1 DEF EdgesOpened
    <3> HIDE DEF list
    <3> QED
      BY <1>1, <2>3, <2>4, <3>1, <3>2, <3>4, PathsKeepFetching
  <2> QED
    BY <1>7, <2>6, <2>7, <2>8, <2>9
<1> QED
  BY <1>4, <1>5, <1>6, <1>7 DEF Step

LEMMA EmptySpaceIsTree == IsTree(EmptySpace)
<1>1. \A s \in States : ~Opened(EmptySpace, s) /\ ~HasParent(EmptySpace, s) /\ EmptySpace[s].status = "NEW"
  BY DEF EmptySpace, NewNode, Opened, HasParent
<1>2. Acyclic(EmptySpace)
  BY <1>1 DEF Acyclic
<1> QED
  BY <1>1, <1>2 DEF IsTree

LEMMA NewSearchHasPaths == SearchFromInitialState => PathsInv'
<1> SUFFICES ASSUME SearchFromInitialState PROVE PathsInv'
  OBVIOUS
<1>1. /\ search_space' = EmptySpace /\ open_list' = EmptyList
      /\ current_operator' = NoTransition /\ current_g' = 0 /\ current_real_g' = 0
  BY DEF SearchFromInitialState
<1>2. EdgesOf(open_list)' = {}
  BY <1>1, EmptySpaceIsOne DEF EdgesOf
<1> QED
  BY <1>1, <1>2, EmptySpaceIsTree DEF PathsInv

LEMMA UnchangedKeepsPaths == PathsInv /\ UNCHANGED searchVars => PathsInv'
  BY DEF PathsInv, searchVars, EdgesOf, Opened

LEMMA PathsInvInitially == Init => PathsInv
<1> SUFFICES ASSUME Init PROVE PathsInv
  OBVIOUS
<1>1. /\ search_space = EmptySpace /\ open_list = EmptyList
      /\ current_operator = NoTransition /\ current_g = 0 /\ current_real_g = 0
  BY DEF Init
<1> QED
  BY <1>1, EmptySpaceIsOne, EmptySpaceIsTree DEF PathsInv

LEMMA PathsInvIsKept ==
  ASSUME CostsAreReal, CostInv, PathsInv, [Next]_vars
  PROVE  PathsInv'
<1>1. CASE ContinueEngine \/ RunOutOfPhases
  BY <1>1, UnchangedKeepsPaths DEF ContinueEngine, RunOutOfPhases, engineVars
<1>2. CASE StartEngine
  BY <1>2, NewSearchHasPaths DEF StartEngine, NewEngine
<1>3. CASE Initialize
  BY <1>3, UnchangedKeepsPaths DEF Initialize
<1>4. CASE Step
  BY <1>4, StepKeepsPaths
<1>5. CASE FinishSearch
  <2>1. UNCHANGED searchVars \/ SearchFromInitialState
    BY <1>5 DEF FinishSearch, RestartWithNextWeight, engineVars
  <2> QED
    BY <2>1, UnchangedKeepsPaths, NewSearchHasPaths
<1>6. CASE Done \/ UNCHANGED vars
  BY <1>6, UnchangedKeepsPaths DEF Done, vars, engineVars
<1> QED
  BY <1>1, <1>2, <1>3, <1>4, <1>5, <1>6 DEF Next

-----------------------------------------------------------------------------
(* Plans. *)

\* What the engine sets as the plan: a path that was traced, and what leads on from
\* its end to the goal.
LEMMA SetSolutionIsPlan ==
  ASSUME CostsAreReal, NEW space \in [States -> Node], IsTree(space), UpperBounds(space),
         NEW s \in States, Opened(space, s), space[s].g <= current_real_g, current_real_g \in Int,
         bound \in Int, NEW p, IsPathFrom(p, s), EndOf(p, s) \in Goals,
         current_real_g + PlanCost(p) <= bound
  PROVE  IsPlan(Trace(space, s) \o p) /\ PlanCost(Trace(space, s) \o p) <= bound
<1> DEFINE q == Trace(space, s)
<1>1. IsPathFrom(q, InitialState) /\ EndOf(q, InitialState) = s /\ PlanCost(q) <= space[s].g
  BY TracedPath
<1> HIDE DEF q
<1>2. /\ IsPathFrom(q \o p, InitialState) /\ EndOf(q \o p, InitialState) = EndOf(p, s)
      /\ PlanCost(q \o p) = PlanCost(q) + PlanCost(p)
  BY <1>1, TaskAssumption, PathsJoin
<1>3. PlanCost(q) \in Nat /\ PlanCost(p) \in Nat /\ space[s].g \in Int
  BY <1>1, PlanCostProperties DEF IsPathFrom, Node
<1> QED
  BY <1>1, <1>2, <1>3 DEF IsPlan, q

LEMMA OpenedCost ==
  ASSUME CostsAreReal, EdgeInv, PathsInv, Evaluates
  PROVE  OpenedSpace[current_state].g <= current_real_g /\ current_real_g \in Int
<1>1. current_state \in States /\ search_space \in [States -> Node] /\ current_real_g = current_g /\ current_g \in Int
  BY DEF EdgeInv, PathsInv
<1>2. CASE current_operator = NoTransition
  BY <1>1, <1>2 DEF EdgeInv, OpenedSpace, OpenInitial, RootNode
<1>3. CASE current_operator # NoTransition
  <2>1. /\ current_operator \in Transitions /\ Target[current_operator] = current_state
        /\ current_g >= search_space[Source[current_operator]].g + AdjustedCost(current_operator)
    BY <1>3 DEF EdgeInv
  <2>2. OpenedSpace[current_state].g = search_space[Source[current_operator]].g + AdjustedCost(current_operator)
    BY <1>1, <1>3, <2>1 DEF OpenedSpace, OpenFrom, ChildNode
  <2>3. search_space[Source[current_operator]].g \in Nat /\ AdjustedCost(current_operator) \in Nat
    BY <1>3, EdgeOpens
  <2> QED
    BY <1>1, <2>1, <2>2, <2>3
<1> QED
  BY <1>2, <1>3

\* A step leaves the plan alone, or sets one that is within the bound.
LEMMA StepPlans ==
  ASSUME CostsAreReal, CostInv, PathsInv, bound \in Int, Step
  PROVE  \/ UNCHANGED <<solution_found, plan>>
         \/ solution_found' /\ IsPlan(plan') /\ PlanCost(plan') <= bound
<1>1. CASE StopSolved \/ SkipState \/ FindDeadEnd \/ LearnDeadEnd \/ Expand
  BY <1>1 DEF StopSolved, SkipState, FindDeadEnd, LearnDeadEnd, Expand, resultVars
<1>2. CASE SolveByRelaxedPlan \/ ReachGoal
  <2>1. Evaluates
    BY <1>2 DEF SolveByRelaxedPlan, ReachGoal
  <2>2. EdgeInv /\ UpperBounds(search_space) /\ current_state \in States
    BY UpperBoundsOfSpace DEF CostInv, EdgeInv
  <2>3. /\ IsTree(OpenedSpace) /\ Opened(OpenedSpace, current_state)
        /\ OpenedSpace \in [States -> Node] /\ UpperBounds(OpenedSpace)
    BY <2>1, <2>2, OpenedSpaceIsTree, OpenedSpaceEffect DEF Refines
  <2>4. OpenedSpace[current_state].g <= current_real_g /\ current_real_g \in Int
    BY <2>1, <2>2, OpenedCost
  <2>5. CASE SolveByRelaxedPlan
    <3>1. PICK p \in Plans[current_state] : WithinBound(p) /\ SetSolution(p)
      BY <2>5 DEF SolveByRelaxedPlan
    <3>2. IsPathFrom(p, current_state) /\ EndOf(p, current_state) \in Goals
      BY <2>2, EngineAssumption
    <3>3. current_real_g + PlanCost(p) <= bound
      BY <3>1 DEF WithinBound
    <3>4. solution_found' /\ plan' = Trace(OpenedSpace, current_state) \o p
      BY <3>1 DEF SetSolution, SetPlan
    <3> QED
      BY <2>2, <2>3, <2>4, <3>2, <3>3, <3>4, SetSolutionIsPlan
  <2>6. CASE ReachGoal
    <3> DEFINE closed == Close(OpenedSpace, current_state)
    <3>1. /\ IsTree(closed) /\ Grows(OpenedSpace, closed) /\ closed \in [States -> Node]
          /\ UpperBounds(closed)
      BY <2>2, <2>3, NewStatusKeepsTree, NewStatusEffect DEF Close, Refines
    <3>2. closed[current_state].g = OpenedSpace[current_state].g /\ Opened(closed, current_state)
      BY <2>2, <2>3 DEF Close, Opened, Node
    <3>3. /\ solution_found' /\ plan' = Trace(closed, current_state)
          /\ current_state \in Goals /\ current_real_g <= bound
      BY <2>1, <2>6 DEF ReachGoal, SetPlan, Evaluates
    <3> HIDE DEF closed
    <3> DEFINE q == Trace(closed, current_state)
    <3>4. /\ IsPathFrom(q, InitialState) /\ EndOf(q, InitialState) = current_state
          /\ PlanCost(q) <= closed[current_state].g
      BY <2>2, <3>1, <3>2, TracedPath
    <3> HIDE DEF q
    <3>5. PlanCost(q) \in Nat /\ closed[current_state].g \in Int
      BY <2>2, <3>1, <3>4, PlanCostProperties DEF IsPathFrom, Node
    <3>6. PlanCost(q) <= bound
      BY <2>4, <3>2, <3>3, <3>4, <3>5
    <3>7. IsPlan(q)
      BY <3>3, <3>4 DEF IsPlan
    <3>8. plan' = q
      BY <3>3 DEF q
    <3> QED
      BY <3>3, <3>6, <3>7, <3>8
  <2> QED
    BY <1>2, <2>5, <2>6
<1> QED
  BY <1>1, <1>2 DEF Step

LEMMA FirstBoundIsPositive == FirstBound \in Nat /\ FirstBound > 0
<1>1. INT_MAX \in Nat /\ INT_MAX > 0
  BY SMT DEF INT_MAX
<1>2. Bound \in Nat
  BY <1>1, IterationAssumption
<1> QED
  BY <1>1, <1>2 DEF FirstBound

LEMMA PlansInvInitially == Init => PlansInv
<1> SUFFICES ASSUME Init PROVE PlansInv
  OBVIOUS
<1>1. pc = "iterate" /\ current_search = FALSE /\ iterated_found_solution = FALSE /\ best_bound = FirstBound
  BY DEF Init
<1> QED
  BY <1>1, FirstBoundIsPositive DEF PlansInv

\* A search is only initialized under a bound that is one.
LEMMA BoundIsOne ==
  ASSUME EveryPlanCosts, PlansInv, pc = "initialize"
  PROVE  bound \in Nat
<1>1. bound = best_bound - 1 /\ best_bound \in Nat
  BY DEF PlansInv, NextBound
<1>2. best_bound > 0
  <2>1. CASE iterated_found_solution
    <3>1. IsPlan(best_plan) /\ PlanCost(best_plan) = best_bound
      BY <2>1 DEF PlansInv
    <3> QED
      BY <3>1 DEF EveryPlanCosts, IsPlan, IsPathFrom
  <2>2. CASE ~iterated_found_solution
    BY <2>2, FirstBoundIsPositive DEF PlansInv
  <2> QED
    BY <2>1, <2>2
<1> QED
  BY <1>1, <1>2

\* What the strategy finds in the initialization leads from the initial state to the
\* goal, and is within the bound because there is one.
LEMMA InitializeKeepsPlans ==
  ASSUME EveryPlanCosts, PlansInv, Initialize, UNCHANGED iterationVars
  PROVE  PlansInv'
<1>1. /\ pc = "initialize" /\ pc' = "step" /\ bound' = bound /\ ~solution_found
      /\ best_bound' = best_bound /\ best_plan' = best_plan
      /\ iterated_found_solution' = iterated_found_solution
  BY DEF Initialize, PlansInv, iterationVars
<1>2. bound = NextBound /\ bound' = NextBound'
  BY <1>1 DEF PlansInv, NextBound
<1>3. solution_found' => IsPlan(plan') /\ PlanCost(plan') <= bound'
  <2> SUFFICES ASSUME solution_found' PROVE IsPlan(plan') /\ PlanCost(plan') <= bound'
    OBVIOUS
  <2>1. ~UNCHANGED <<resultVars, solved>>
    BY <1>1 DEF resultVars
  <2>2. PICK p \in Plans[InitialState] : (bound = -1 \/ PlanCost(p) <= bound) /\ SetPlan(p)
    BY <2>1 DEF Initialize
  <2>3. IsPlan(p)
    BY TaskAssumption, EngineAssumption DEF IsPlan
  <2>4. PlanCost(p) <= bound
    BY <1>1, <2>2, BoundIsOne
  <2> QED
    BY <1>1, <2>2, <2>3, <2>4 DEF SetPlan
<1> QED
  BY <1>1, <1>2, <1>3 DEF PlansInv

LEMMA StepMovesOn ==
  Step => pc = "step" /\ pc' \in {"step", "finish"} /\ bound' = bound
<1>1. ASSUME NEW r, Return(r) PROVE pc' \in {"step", "finish"}
  BY <1>1 DEF Return
<1>2. ASSUME NEW space, NEW list, FetchNextState(space, list)
      PROVE  pc' \in {"step", "finish"} /\ bound' = bound
  BY <1>1, <1>2 DEF FetchNextState
<1> QED
  BY <1>1, <1>2
     DEF Step, StopSolved, SkipState, FindDeadEnd, SolveByRelaxedPlan, LearnDeadEnd, ReachGoal, Expand, Evaluates

LEMMA StepKeepsPlans ==
  ASSUME CostsAreReal, CostInv, PathsInv, PlansInv, Step, UNCHANGED iterationVars
  PROVE  PlansInv'
<1>1. /\ pc = "step" /\ pc' \in {"step", "finish"} /\ bound' = bound
      /\ best_bound' = best_bound /\ best_plan' = best_plan
      /\ iterated_found_solution' = iterated_found_solution
  BY StepMovesOn DEF iterationVars
<1>2. bound = NextBound /\ bound' = NextBound' /\ bound \in Int
  BY <1>1 DEF PlansInv, NextBound
<1>3. solution_found' => IsPlan(plan') /\ PlanCost(plan') <= bound'
  BY <1>1, <1>2, StepPlans DEF PlansInv
<1> QED
  BY <1>1, <1>2, <1>3 DEF PlansInv

\* The plan that was found is better than the one kept, so it is kept.
LEMMA FinishKeepsPlans ==
  ASSUME PlansInv, FinishSearch
  PROVE  PlansInv'
<1>1. pc = "finish" /\ bound = best_bound - 1 /\ best_bound \in Nat
  BY DEF FinishSearch, PlansInv, NextBound
<1>2. pc' \in {"iterate", "done"}
  BY DEF FinishSearch
<1>3. current_search' => ~solution_found'
  BY DEF FinishSearch, RestartWithNextWeight
<1>4. iterated_found_solution' = (iterated_found_solution \/ solution_found)
  BY DEF FinishSearch
<1>5. CASE solution_found
  <2>1. IsPlan(plan) /\ PlanCost(plan) <= bound
    BY <1>1, <1>5 DEF PlansInv
  <2>2. PlanCost(plan) \in Nat
    BY <2>1, PlanCostProperties DEF IsPlan, IsPathFrom
  <2>3. PlanCost(plan) < best_bound
    BY <1>1, <2>1, <2>2
  <2>4. best_bound' = PlanCost(plan) /\ best_plan' = plan
    BY <1>5, <2>3 DEF FinishSearch, KeepPlan
  <2>5. IsPlan(best_plan') /\ PlanCost(best_plan') = best_bound' /\ best_bound' \in Nat
    BY <2>1, <2>2, <2>4
  <2> QED
    BY <1>2, <1>3, <1>4, <1>5, <2>5 DEF PlansInv
<1>6. CASE ~solution_found
  <2>1. UNCHANGED <<best_bound, best_plan>>
    BY <1>6 DEF FinishSearch, KeepPlan
  <2>2. IF iterated_found_solution'
        THEN IsPlan(best_plan') /\ PlanCost(best_plan') = best_bound'
        ELSE best_bound' = FirstBound
    BY <1>4, <1>6, <2>1 DEF PlansInv
  <2> QED
    BY <1>1, <1>2, <1>3, <2>1, <2>2 DEF PlansInv
<1> QED
  BY <1>5, <1>6

LEMMA PlansInvIsKept ==
  ASSUME PassBound, CostsAreReal, EveryPlanCosts, CostInv, PathsInv, PlansInv, [Next]_vars
  PROVE  PlansInv'
<1>1. CASE ContinueEngine
  <2>1. /\ pc = "iterate" /\ current_search /\ pc' = "initialize" /\ bound' = best_bound - 1
        /\ UNCHANGED <<solution_found, plan, best_bound, best_plan, iterated_found_solution>>
    BY <1>1 DEF ContinueEngine, NextBound, resultVars, iterationVars
  <2> QED
    BY <2>1 DEF PlansInv, NextBound
<1>2. CASE StartEngine
  <2>1. /\ pc' = "initialize" /\ bound' = best_bound - 1 /\ ~solution_found'
        /\ UNCHANGED <<best_bound, best_plan, iterated_found_solution>>
    BY <1>2 DEF StartEngine, NextBound, NewEngine
  <2> QED
    BY <2>1 DEF PlansInv, NextBound
<1>3. CASE RunOutOfPhases
  <2>1. pc' = "done" /\ UNCHANGED <<best_bound, best_plan, iterated_found_solution>>
    BY <1>3 DEF RunOutOfPhases
  <2> QED
    BY <2>1 DEF PlansInv
<1>4. CASE Initialize /\ UNCHANGED iterationVars
  BY <1>4, InitializeKeepsPlans
<1>5. CASE Step /\ UNCHANGED iterationVars
  BY <1>5, StepKeepsPlans
<1>6. CASE FinishSearch
  BY <1>6, FinishKeepsPlans
<1>7. CASE Done \/ UNCHANGED vars
  <2>1. UNCHANGED <<pc, bound, current_search, solution_found, plan, best_bound, best_plan, iterated_found_solution>>
    BY <1>7 DEF Done, vars, engineVars, resultVars, iterationVars
  <2> QED
    BY <2>1 DEF PlansInv, NextBound
<1> QED
  BY <1>1, <1>2, <1>3, <1>4, <1>5, <1>6, <1>7 DEF Next

\* As long as the engine's costs are the operators' own, what was opened is a tree
\* below the initial state whatever was reopened in between, the node that is looked
\* at included (search_space.cc, open, reopen and trace_path).
THEOREM PathsCorrect == CostsAreReal => (Spec => []PathsInv)
<1> SUFFICES ASSUME CostsAreReal PROVE Spec => []PathsInv
  OBVIOUS
<1>1. Init => PathsInv
  BY PathsInvInitially
<1>2. CostInv /\ PathsInv /\ [Next]_vars => PathsInv'
  BY PathsInvIsKept
<1> QED
  BY <1>1, <1>2, EdgesAreSound, PTL DEF Spec

\* Whatever is traced or found in the initialization is a plan, and within the bound
\* that the plan kept sets; the plan kept is one, of the cost recorded for it.
THEOREM PlansCorrect == PassBound /\ CostsAreReal /\ EveryPlanCosts => (Spec => []PlansInv)
<1> SUFFICES ASSUME PassBound, CostsAreReal, EveryPlanCosts PROVE Spec => []PlansInv
  OBVIOUS
<1>1. Init => PlansInv
  BY PlansInvInitially
<1>2. CostInv /\ PathsInv /\ PlansInv /\ [Next]_vars => PlansInv'
  BY PlansInvIsKept
<1>3. Spec => []PathsInv
  BY PathsCorrect
<1> QED
  BY <1>1, <1>2, <1>3, EdgesAreSound, PTL DEF Spec

\* Every search that finds a plan finds a better one than the plan kept, so that
\* going on under a lower bound comes to an end; and what is kept is a plan.
THEOREM PlansImprove == PassBound /\ CostsAreReal /\ EveryPlanCosts => (Spec => []EveryPlanImproves)
<1> SUFFICES ASSUME PassBound, CostsAreReal, EveryPlanCosts PROVE Spec => []EveryPlanImproves
  OBVIOUS
<1>1. PlansInv => EveryPlanImproves
  <2> SUFFICES ASSUME PlansInv PROVE EveryPlanImproves
    OBVIOUS
  <2>1. ASSUME pc = "finish", solution_found PROVE PlanCost(plan) < best_bound
    <3>1. IsPlan(plan) /\ PlanCost(plan) <= best_bound - 1 /\ best_bound \in Nat
      BY <2>1 DEF PlansInv, NextBound
    <3>2. PlanCost(plan) \in Nat
      BY <3>1, PlanCostProperties DEF IsPlan, IsPathFrom
    <3> QED
      BY <3>1, <3>2
  <2> QED
    BY <2>1 DEF EveryPlanImproves, PlansInv
<1> QED
  BY <1>1, PlansCorrect, PTL

-----------------------------------------------------------------------------
(* Exhaustion. *)

LEMMA SolvableStates ==
  /\ Goals \subseteq Solvable /\ Solvable \subseteq States
  /\ \A t \in Transitions : Target[t] \in Solvable => Source[t] \in Solvable
  BY TaskAssumption DEF Solvable, BackwardClosed

LEMMA NextPhaseIsOne ==
  ASSUME phase \in Nat, NEW solved_
  PROVE  NextPhase(solved_) \in Nat
<1> DEFINE Skipped == SkipIfSolved \cup SkipIfFailed
           k == Cardinality(Skipped)
           I == phase + 1 .. phase + 1 + k
           Kept == {n \in I : ~Skips(solved_, n)}
<1>1. IsFiniteSet(Skipped) /\ k \in Nat
  BY IterationAssumption, FS_Union, FS_CardinalityType
<1> HIDE DEF k
<1>2. IsFiniteSet(I) /\ Cardinality(I) = k + 1
  BY <1>1, FS_Interval
<1>3. I \subseteq Nat
  BY <1>1
<1>4. Kept # {}
  <2> SUFFICES ASSUME Kept = {} PROVE FALSE
    OBVIOUS
  <2>1. I \subseteq Skipped
    BY DEF Skips
  <2> HIDE DEF I, Skipped
  <2>2. Cardinality(I) <= Cardinality(Skipped)
    BY <1>1, <2>1, FS_Subset
  <2> QED
    BY <1>1, <1>2, <2>2 DEF k
<1>5. PICK n \in Kept : \A m \in Kept : n <= m
  <2> HIDE DEF I
  <2>1. Kept \in SUBSET Nat
    BY <1>3
  <2> HIDE DEF Kept
  <2> QED
    BY <1>4, <2>1, LeastNat
<1>6. n \in I /\ ~Skips(solved_, n) /\ \A m \in phase + 1 .. n - 1 : Skips(solved_, m)
  <2>1. n \in I /\ ~Skips(solved_, n)
    OBVIOUS
  <2>2. ASSUME NEW m \in phase + 1 .. n - 1 PROVE Skips(solved_, m)
    <3>1. m \in I /\ ~(n <= m)
      BY <1>1, <2>1
    <3> HIDE DEF I
    <3> QED
      BY <1>5, <3>1
  <2> QED
    BY <2>1, <2>2
<1>7. NextPhase(solved_) \in I
  <2> HIDE DEF Skipped
  <2> QED
    BY <1>6 DEF NextPhase, k, Skipped
<1> QED
  BY <1>3, <1>7

\* A bound that was set stays or gets lower.
LEMMA BoundsFall ==
  ASSUME best_bound \in Nat, solution_found => plan \in Seq(Transitions), KeepPlan
  PROVE  /\ best_bound' \in Nat /\ best_bound' <= best_bound
         /\ solution_found => best_bound' <= PlanCost(plan)
<1>1. solution_found => PlanCost(plan) \in Nat
  BY PlanCostProperties
<1> QED
  BY <1>1 DEF KeepPlan

LEMMA FetchedIsExact ==
  ASSUME CostsAreReal, NEW space, NEW list, FetchNextState(space, list),
         current_operator # NoTransition =>
           current_g = space[Source[current_operator]].g + Cost[current_operator]
  PROVE  CurrentIsExact'
<1>1. CASE EdgesOf(list) = {}
  BY <1>1 DEF FetchNextState, CurrentIsExact
<1>2. CASE EdgesOf(list) # {}
  <2>1. search_space' = space
    BY DEF FetchNextState
  <2>2. PICK t \in EdgesOf(list) : current_operator' = t /\ current_g' = space[Source[t]].g + AdjustedCost(t)
    BY <1>2 DEF FetchNextState
  <2>3. t \in Transitions
    BY DEF EdgesOf
  <2>4. AdjustedCost(t) = Cost[t]
    BY <2>3 DEF CostsAreReal
  <2> QED
    BY <2>1, <2>2, <2>4 DEF CurrentIsExact
<1> QED
  BY <1>1, <1>2

\* What a step makes of the node it evaluates, and of no other one.
LEMMA EvaluatedNode ==
  ASSUME CostsAreReal, EdgeInv, PathsInv, CurrentIsExact, Evaluates
  PROVE  /\ current_state \in States /\ search_space \in [States -> Node] /\ OpenedSpace \in [States -> Node]
         /\ \A s \in States : s # current_state => OpenedSpace[s] = search_space[s]
         /\ OpenedSpace[current_state].g = current_g
         /\ current_real_g = current_g /\ current_g \in Int
         /\ current_operator # NoTransition =>
              current_operator \in Transitions /\ Target[current_operator] = current_state
              /\ Source[current_operator] \in States /\ Source[current_operator] # current_state
<1>1. /\ current_state \in States /\ search_space \in [States -> Node]
      /\ current_g \in Int /\ current_real_g = current_g
  BY DEF EdgeInv, PathsInv
<1>2. CASE current_operator = NoTransition
  BY <1>1, <1>2 DEF EdgeInv, OpenedSpace, OpenInitial, RootNode, Node, Status
<1>3. CASE current_operator # NoTransition
  <2>1. /\ current_operator \in Transitions /\ Target[current_operator] = current_state
        /\ search_space[Source[current_operator]].g \in Nat
        /\ search_space[Source[current_operator]].real_g \in Int
        /\ Cost[current_operator] \in Nat /\ AdjustedCost(current_operator) = Cost[current_operator]
        /\ current_state # Source[current_operator]
    BY <1>3, EdgeOpens
  <2> DEFINE node == ChildNode(search_space, current_operator)
  <2>2. node \in Node /\ node.g = current_g
    BY <1>3, <2>1 DEF ChildNode, Node, Status, CurrentIsExact
  <2>3. OpenedSpace = [search_space EXCEPT ![current_state] = node]
    BY <1>3, <2>1 DEF OpenedSpace, OpenFrom
  <2>4. Source[current_operator] \in States
    BY <2>1, TaskAssumption
  <2> HIDE DEF node
  <2> QED
    BY <1>1, <2>1, <2>2, <2>3, <2>4
<1> QED
  BY <1>2, <1>3

LEMMA StepIsExact ==
  ASSUME CostsAreReal, CostInv, PathsInv, CurrentIsExact, Step
  PROVE  CurrentIsExact'
<1>1. EdgeInv
  BY DEF CostInv
<1>2. CASE StopSolved
  BY <1>2 DEF StopSolved, searchVars, CurrentIsExact
<1>3. CASE SkipState
  <2>1. FetchNextState(search_space, open_list)
    BY <1>3 DEF SkipState
  <2> QED
    BY <2>1, FetchedIsExact DEF CurrentIsExact
<1>4. CASE FindDeadEnd \/ SolveByRelaxedPlan \/ LearnDeadEnd \/ ReachGoal \/ Expand
  <2>1. Evaluates
    BY <1>4 DEF FindDeadEnd, SolveByRelaxedPlan, LearnDeadEnd, ReachGoal, Expand
  <2>2. /\ current_state \in States /\ search_space \in [States -> Node] /\ OpenedSpace \in [States -> Node]
        /\ \A s \in States : s # current_state => OpenedSpace[s] = search_space[s]
        /\ current_operator # NoTransition =>
             Source[current_operator] \in States /\ Source[current_operator] # current_state
    BY <1>1, <2>1, EvaluatedNode
  <2> DEFINE exact(space) == current_operator # NoTransition =>
                               current_g = space[Source[current_operator]].g + Cost[current_operator]
             dead == MarkDeadEnd(search_space, current_state)
             learned == MarkDeadEnd(OpenedSpace, current_state)
             closed == Close(OpenedSpace, current_state)
  <2>3. exact(search_space) /\ exact(OpenedSpace)
    BY <2>2 DEF CurrentIsExact
  <2>4. exact(dead) /\ exact(learned) /\ exact(closed)
    BY <2>2, <2>3 DEF MarkDeadEnd, Close
  <2> HIDE DEF dead, learned, closed
  <2>5. CASE FindDeadEnd
    <3>1. FetchNextState(dead, open_list)
      BY <2>5 DEF FindDeadEnd, dead
    <3> QED
      BY <2>4, <3>1, FetchedIsExact
  <2>6. CASE SolveByRelaxedPlan
    BY <2>3, <2>6 DEF SolveByRelaxedPlan, CurrentIsExact
  <2>7. CASE LearnDeadEnd
    <3>1. FetchNextState(learned, open_list)
      BY <2>7 DEF LearnDeadEnd, learned
    <3> QED
      BY <2>4, <3>1, FetchedIsExact
  <2>8. CASE ReachGoal
    BY <2>4, <2>8 DEF ReachGoal, CurrentIsExact, closed
  <2>9. CASE Expand
    <3>1. FetchNextState(closed, WithEdges(open_list, Successors))
      BY <2>9 DEF Expand, closed
    <3> QED
      BY <2>4, <3>1, FetchedIsExact
  <2> QED
    BY <1>4, <2>5, <2>6, <2>7, <2>8, <2>9
<1> QED
  BY <1>2, <1>3, <1>4 DEF Step

\* A step of the engine leaves its options alone, and may only give up repeating.
LEMMA StepKeepsOptions ==
  ASSUME Step
  PROVE  /\ option' = option /\ bound' = bound /\ reopen_closed_nodes' = reopen_closed_nodes
         /\ repeat_last' => repeat_last
<1>1. ASSUME NEW space, NEW list, FetchNextState(space, list)
      PROVE  /\ option' = option /\ bound' = bound /\ reopen_closed_nodes' = reopen_closed_nodes
             /\ repeat_last' => repeat_last
  BY <1>1 DEF FetchNextState, GiveUp
<1> QED
  BY <1>1 DEF Step, StopSolved, SkipState, FindDeadEnd, SolveByRelaxedPlan, LearnDeadEnd, ReachGoal, Expand,
              weightVars

LEMMA StepKeepsList ==
  ASSUME open_list \in [Transitions -> Nat], Step
  PROVE  open_list' \in [Transitions -> Nat]
<1>1. ASSUME NEW space, NEW list \in [Transitions -> Nat], FetchNextState(space, list)
      PROVE  open_list' \in [Transitions -> Nat]
  <2>1. CASE EdgesOf(list) = {}
    BY <1>1, <2>1 DEF FetchNextState
  <2>2. CASE EdgesOf(list) # {}
    <3>1. PICK t \in EdgesOf(list) : open_list' = [list EXCEPT ![t] = @ - 1]
      BY <1>1, <2>2 DEF FetchNextState
    <3>2. t \in Transitions /\ list[t] - 1 \in Nat
      BY DEF EdgesOf
    <3> QED
      BY <3>1, <3>2
  <2> QED
    BY <2>1, <2>2
<1>2. WithEdges(open_list, Successors) \in [Transitions -> Nat]
  BY DEF WithEdges
<1>3. \/ open_list' = open_list
      \/ \E space : FetchNextState(space, open_list)
      \/ \E space : FetchNextState(space, WithEdges(open_list, Successors))
  BY DEF Step, StopSolved, SkipState, FindDeadEnd, SolveByRelaxedPlan, LearnDeadEnd, ReachGoal, Expand,
         searchVars
<1> QED
  BY <1>1, <1>2, <1>3

LEMMA StepFailsExhausted ==
  ASSUME Step
  PROVE  status' = "FAILED" => EdgesOf(open_list)' = {}
<1>1. ASSUME NEW space, NEW list, FetchNextState(space, list), status' = "FAILED"
      PROVE  EdgesOf(open_list)' = {}
  <2>1. EdgesOf(list) = {}
    BY <1>1 DEF FetchNextState, Return
  <2> QED
    BY <1>1, <2>1 DEF FetchNextState, EdgesOf
<1>2. \/ status' \in {"SOLVED", "TIMEOUT"}
      \/ \E space : FetchNextState(space, open_list)
      \/ \E space : FetchNextState(space, WithEdges(open_list, Successors))
  BY DEF Step, StopSolved, SkipState, FindDeadEnd, SolveByRelaxedPlan, LearnDeadEnd, ReachGoal, Expand,
         Return
<1> QED
  BY <1>1, <1>2

LEMMA EngineInvInitially == Init => EngineInv
<1> SUFFICES ASSUME Init PROVE EngineInv
  OBVIOUS
<1>1. /\ engine_configs \in EngineConfigs /\ phase = 0 /\ option = engine_configs[1]
      /\ best_bound = FirstBound /\ pc = "iterate" /\ repeat_last = FALSE /\ solution_found = FALSE
      /\ current_operator = NoTransition /\ open_list = EmptyList
  BY DEF Init
<1>2. engine_configs \in Seq(EngineOptions) /\ engine_configs # <<>>
  BY <1>1, IterationAssumption
<1>3. option \in EngineOptions
  BY <1>1, <1>2
<1>4. FirstBound \in Nat
  BY FirstBoundIsPositive
<1> QED
  BY <1>1, <1>3, <1>4 DEF EngineInv, CurrentIsExact, EmptyList

LEMMA EngineInvIsKept ==
  ASSUME PassBound, CostsAreReal, CostInv, PathsInv, EngineInv, [Next]_vars
  PROVE  EngineInv'
<1>0. /\ engine_configs \in EngineConfigs /\ phase \in Nat
      /\ option \in EngineOptions /\ (repeat_last => option.repeat_last)
      /\ best_bound \in Nat /\ best_bound <= FirstBound
      /\ pc \in {"initialize", "step", "finish"} => bound = NextBound
      /\ solution_found => plan \in Seq(Transitions)
      /\ open_list \in [Transitions -> Nat]
      /\ CurrentIsExact
      /\ pc = "finish" /\ status = "FAILED" => EdgesOf(open_list) = {}
  BY DEF EngineInv
<1> DEFINE Same == UNCHANGED <<engine_configs, phase, best_bound>>
           Options == option' \in EngineOptions /\ (repeat_last' => option'.repeat_last)
           Bounds == pc' \in {"initialize", "step", "finish"} => bound' = best_bound' - 1
           Plan == solution_found' => plan' \in Seq(Transitions)
           Exhausted == pc' = "finish" /\ status' = "FAILED" => EdgesOf(open_list)' = {}
           Search == open_list'  \in [Transitions -> Nat] /\ CurrentIsExact'
<1>1. ASSUME Same, Options, Bounds, Plan, Search, Exhausted PROVE EngineInv'
  BY <1>0, <1>1 DEF EngineInv, NextBound, FirstBound
<1>2. ASSUME UNCHANGED searchVars PROVE Search
  BY <1>0, <1>2 DEF searchVars, CurrentIsExact
<1>3. ASSUME SearchFromInitialState PROVE Search
  BY <1>3 DEF SearchFromInitialState, CurrentIsExact, EmptyList
<1>4. CASE ContinueEngine
  <2>1. Same /\ Options /\ Bounds /\ Plan /\ Exhausted /\ UNCHANGED searchVars
    BY <1>0, <1>4 DEF ContinueEngine, NextBound, weightVars, resultVars, iterationVars
  <2> QED
    BY <1>1, <1>2, <2>1
<1>5. CASE StartEngine
  <2>1. PICK o \in PhaseOptions : NewEngine(o) /\ bound' = best_bound - 1
    BY <1>5 DEF StartEngine, NextBound
  <2>2. o \in EngineOptions
    <3>1. engine_configs \in Seq(EngineOptions) /\ engine_configs # <<>>
      BY <1>0, IterationAssumption
    <3> QED
      BY <1>0, <2>1, <3>1 DEF PhaseOptions
  <2>3. Same /\ Options /\ Bounds /\ Plan /\ Exhausted /\ SearchFromInitialState
    BY <1>5, <2>1, <2>2 DEF StartEngine, NewEngine
  <2> QED
    BY <1>1, <1>3, <2>3
<1>6. CASE RunOutOfPhases
  <2>1. Same /\ Options /\ Bounds /\ Plan /\ Exhausted /\ UNCHANGED searchVars
    BY <1>0, <1>6 DEF RunOutOfPhases, engineVars, weightVars, resultVars
  <2> QED
    BY <1>1, <1>2, <2>1
<1>7. CASE Initialize /\ UNCHANGED iterationVars
  <2>1. Same /\ Options /\ Bounds /\ Exhausted /\ UNCHANGED searchVars
    BY <1>0, <1>7 DEF Initialize, NextBound, weightVars, iterationVars
  <2>2. Plan
    <3>1. CASE UNCHANGED resultVars
      BY <1>0, <3>1 DEF resultVars
    <3>2. CASE ~UNCHANGED resultVars
      <4>1. PICK p \in Plans[InitialState] : SetPlan(p)
        BY <1>7, <3>2 DEF Initialize
      <4> QED
        BY <4>1, TaskAssumption, EngineAssumption DEF SetPlan, IsPathFrom
    <3> QED
      BY <3>1, <3>2
  <2> QED
    BY <1>1, <1>2, <2>1, <2>2
<1>8. CASE Step /\ UNCHANGED iterationVars
  <2>1. pc = "step" /\ bound = best_bound - 1
    BY <1>0, <1>8, StepMovesOn DEF NextBound
  <2>2. Same /\ Options /\ Bounds
    BY <1>0, <1>8, <2>1, StepKeepsOptions DEF iterationVars
  <2>3. Plan
    <3>1. \/ UNCHANGED <<solution_found, plan>>
          \/ solution_found' /\ IsPlan(plan') /\ PlanCost(plan') <= bound
      BY <1>0, <1>8, <2>1, StepPlans
    <3> QED
      BY <1>0, <3>1 DEF IsPlan, IsPathFrom
  <2>4. Search
    BY <1>0, <1>8, StepIsExact, StepKeepsList
  <2>5. Exhausted
    BY <1>8, StepFailsExhausted
  <2> QED
    BY <1>1, <2>2, <2>3, <2>4, <2>5
<1>9. CASE FinishSearch
  <2>1. pc' \in {"iterate", "done"} /\ engine_configs' = engine_configs
    BY <1>9 DEF FinishSearch
  <2>2. best_bound' \in Nat /\ best_bound' <= best_bound
    BY <1>0, <1>9, BoundsFall DEF FinishSearch
  <2>3. phase' \in Nat
    BY <1>0, <1>9, NextPhaseIsOne DEF FinishSearch
  <2>4. Options /\ Plan
    BY <1>0, <1>9 DEF FinishSearch, RestartWithNextWeight, engineVars, weightVars, resultVars
  <2>5. UNCHANGED searchVars \/ SearchFromInitialState
    BY <1>9 DEF FinishSearch, RestartWithNextWeight, engineVars
  <2>6. FirstBound' = FirstBound /\ FirstBound \in Nat
    BY FirstBoundIsPositive DEF FirstBound
  <2> QED
    BY <1>0, <1>2, <1>3, <2>1, <2>2, <2>3, <2>4, <2>5, <2>6 DEF EngineInv
<1>10. CASE Done \/ UNCHANGED vars
  <2>1. /\ Same /\ UNCHANGED searchVars
        /\ UNCHANGED <<option, repeat_last, bound, pc, status, open_list, solution_found, plan>>
    BY <1>10 DEF Done, vars, engineVars, searchVars, iterationVars, weightVars, resultVars
  <2>2. Options /\ Bounds /\ Plan /\ Exhausted
    BY <1>0, <2>1 DEF NextBound, EdgesOf
  <2> QED
    BY <1>1, <1>2, <2>1, <2>2
<1> QED
  BY <1>4, <1>5, <1>6, <1>7, <1>8, <1>9, <1>10 DEF Next

\* What Explored says of a space that all the edges off the list were looked at in.
Settled(space, list) ==
  /\ \A s \in Solvable : space[s].status \in {"NEW", "CLOSED"}
  /\ InitialState \in Solvable /\ 0 <= NextBound => IsClosed(space, InitialState)
  /\ \A t \in Transitions : LeadsOn(space, NextBound, t) => Followed(space, list, t)

GoalsAreBeyond(space) == \A s \in Goals : IsClosed(space, s) => space[s].g > NextBound

LEMMA FetchKeepsExplored ==
  ASSUME NEW space, NEW list \in [Transitions -> Int], Settled(space, list), GoalsAreBeyond(space),
         FetchNextState(space, list), best_bound' = best_bound
  PROVE  Explored'
<1>1. /\ search_space' = space /\ reopen_closed_nodes' = reopen_closed_nodes
      /\ NextBound' = NextBound
  BY DEF FetchNextState, NextBound
<1>2. \A s \in Solvable : search_space'[s].status \in {"NEW", "CLOSED"}
  BY <1>1 DEF Settled
<1>3. InitialState \in Solvable /\ 0 <= NextBound' => IsClosed(search_space', InitialState)
  BY <1>1 DEF Settled
<1>4. \A s \in Goals : IsClosed(search_space', s) => search_space'[s].g > NextBound'
  BY <1>1 DEF GoalsAreBeyond
<1>5. ASSUME NEW t \in Transitions, LeadsOn(search_space', NextBound', t)
      PROVE  Followed(search_space, open_list, t)' \/ IsPending(t)'
  <2>1. Followed(space, list, t)
    BY <1>1, <1>5 DEF Settled
  <2>2. CASE t \notin EdgesOf(list)
    BY <1>1, <2>1, <2>2 DEF Followed, IsClosed
  <2>3. CASE t \in EdgesOf(list)
    <3>1. PICK u \in EdgesOf(list) : open_list' = [list EXCEPT ![u] = @ - 1] /\ current_operator' = u
      BY <2>3 DEF FetchNextState
    <3>2. status' \in {"IN_PROGRESS", "TIMEOUT"}
      BY <2>3 DEF FetchNextState, Return
    <3>3. CASE t = u
      BY <3>1, <3>2, <3>3 DEF IsPending
    <3>4. CASE t # u
      <4>1. open_list'[t] = list[t]
        BY <3>1, <3>4
      <4>2. t \in EdgesOf(open_list')
        BY <2>3, <4>1 DEF EdgesOf
      <4> QED
        BY <4>2 DEF Followed
    <3> QED
      BY <3>3, <3>4
  <2> QED
    BY <2>2, <2>3
<1> QED
  BY <1>2, <1>3, <1>4, <1>5 DEF Explored

\* A node that is looked at is settled: closed if a goal can be reached from it, at a cost
\* no higher than before, with its edges on the list unless it is a goal.
LEMMA LooksAt ==
  ASSUME CostsAreReal, EdgeInv, PathsInv, CurrentIsExact, Explored, Evaluates,
         NEW space, NEW list,
         \A s \in States : s # current_state => space[s] = search_space[s],
         current_state \in Solvable => IsClosed(space, current_state) /\ space[current_state].g = current_g,
         EdgesOf(open_list) \subseteq EdgesOf(list),
         current_state \in Solvable /\ current_state \notin Goals =>
           \A t \in OpsOf(current_state) : current_g + Cost[t] <= NextBound => t \in EdgesOf(list)
  PROVE  Settled(space, list) /\ (current_state \notin Goals => GoalsAreBeyond(space))
<1>0. /\ current_state \in States /\ current_g \in Int
      /\ search_space \in [States -> Node] /\ pc = "step"
  BY DEF EdgeInv, Evaluates
<1>1. \A s \in Solvable : space[s].status \in {"NEW", "CLOSED"}
  BY SolvableStates DEF Explored, IsClosed
<1>2. InitialState \in Solvable /\ 0 <= NextBound => IsClosed(space, InitialState)
  <2> SUFFICES ASSUME InitialState \in Solvable, 0 <= NextBound PROVE IsClosed(space, InitialState)
    OBVIOUS
  <2>1. IsClosed(search_space, InitialState) \/ IsPending(NoTransition)
    BY DEF Explored
  <2>2. IsPending(NoTransition) => current_state = InitialState
    BY DEF IsPending, EdgeInv
  <2> QED
    BY <2>1, <2>2, SolvableStates DEF IsClosed
<1>3. ASSUME NEW t \in Transitions, LeadsOn(space, NextBound, t)
      PROVE  Followed(space, list, t)
  <2> DEFINE s == Source[t]
             u == Target[t]
  <2>1. /\ s \in Solvable /\ u \in Solvable /\ s \in States /\ u \in States
        /\ Cost[t] \in Nat
    BY <1>3, SolvableStates, TaskAssumption DEF LeadsOn
  <2>2. CASE s = current_state
    <3>1. t \in OpsOf(current_state) /\ current_state \notin Goals /\ current_g + Cost[t] <= NextBound
      BY <1>3, <2>1, <2>2 DEF LeadsOn, OpsOf
    <3> QED
      BY <2>1, <2>2, <3>1 DEF Followed
  <2>3. CASE s # current_state
    <3>1. space[s] = search_space[s] /\ search_space[s].g \in Int /\ search_space[u].g \in Int
      BY <1>0, <2>1, <2>3 DEF Node
    <3>2. LeadsOn(search_space, NextBound, t)
      BY <1>3, <3>1 DEF LeadsOn, IsClosed
    <3>3. Followed(search_space, open_list, t) \/ IsPending(t)
      BY <3>2 DEF Explored
    <3>4. CASE t \in EdgesOf(open_list)
      BY <3>4 DEF Followed
    <3>5. CASE t \notin EdgesOf(open_list) /\ Followed(search_space, open_list, t)
      <4>1. /\ IsClosed(search_space, u)
            /\ reopen_closed_nodes => search_space[u].g <= search_space[s].g + Cost[t]
        BY <3>5 DEF Followed
      <4>2. CASE u # current_state
        BY <2>1, <3>1, <4>1, <4>2 DEF Followed, IsClosed
      <4>3. CASE u = current_state
        <5>1. IsClosed(space, u) /\ space[u].g = current_g
          BY <2>1, <4>3
        <5>2. current_g < search_space[u].g
          BY <4>1, <4>3 DEF Evaluates, Reopens, IsNew, IsClosed
        <5>3. reopen_closed_nodes => space[u].g <= space[s].g + Cost[t]
          BY <1>0, <2>1, <3>1, <4>1, <5>1, <5>2
        <5> QED
          BY <5>1, <5>3 DEF Followed
      <4> QED
        BY <4>2, <4>3
    <3>6. CASE IsPending(t)
      <4>1. current_operator = t /\ t # NoTransition
        BY <3>6, TaskAssumption DEF IsPending
      <4>2. u = current_state
        BY <4>1 DEF EdgeInv
      <4>3. current_g = search_space[s].g + Cost[t]
        BY <4>1 DEF CurrentIsExact
      <4>4. IsClosed(space, u) /\ space[u].g = space[s].g + Cost[t]
        BY <2>1, <3>1, <4>2, <4>3
      <4> HIDE DEF s, u
      <4>5. space[u].g <= space[s].g + Cost[t]
        BY <1>0, <2>1, <3>1, <4>3, <4>4
      <4> QED
        BY <4>4, <4>5 DEF Followed, s, u
    <3> QED
      BY <3>3, <3>4, <3>5, <3>6
  <2> QED
    BY <2>2, <2>3
<1>4. ASSUME current_state \notin Goals PROVE GoalsAreBeyond(space)
  BY <1>0, <1>4, TaskAssumption DEF GoalsAreBeyond, Explored, IsClosed
<1> QED
  BY <1>1, <1>2, <1>3, <1>4 DEF Settled

\* So is one that is beyond the bound, or known at a cost no higher.
LEMMA SkippedIsSettled ==
  ASSUME EdgeInv, PathsInv, EngineInv, Explored, pc = "step",
         current_real_g > bound \/ ~(IsNew(search_space, current_state) \/ Reopens)
  PROVE  Settled(search_space, open_list) /\ GoalsAreBeyond(search_space)
<1>0. /\ current_state \in States /\ current_g \in Int /\ current_real_g = current_g
      /\ search_space \in [States -> Node]
      /\ bound = NextBound /\ NextBound \in Int /\ CurrentIsExact
  BY DEF EdgeInv, PathsInv, EngineInv, NextBound
<1>1. ASSUME current_g <= NextBound, current_state \in Solvable
      PROVE  /\ IsClosed(search_space, current_state)
             /\ reopen_closed_nodes => search_space[current_state].g <= current_g
  <2>1. ~IsNew(search_space, current_state) /\ ~Reopens
    BY <1>0, <1>1
  <2>2. search_space[current_state].status \in {"NEW", "CLOSED"}
    BY <1>1 DEF Explored
  <2>3. IsClosed(search_space, current_state)
    BY <2>1, <2>2 DEF IsClosed, IsNew
  <2>4. search_space[current_state].g \in Int
    BY <1>0 DEF Node
  <2>5. reopen_closed_nodes => ~(current_g < search_space[current_state].g)
    BY <2>1, <2>3 DEF Reopens, IsDeadEnd, IsClosed
  <2> QED
    BY <1>0, <2>3, <2>4, <2>5
<1>2. InitialState \in Solvable /\ 0 <= NextBound => IsClosed(search_space, InitialState)
  <2> SUFFICES ASSUME InitialState \in Solvable, 0 <= NextBound PROVE IsClosed(search_space, InitialState)
    OBVIOUS
  <2>1. IsClosed(search_space, InitialState) \/ IsPending(NoTransition)
    BY DEF Explored
  <2>2. IsPending(NoTransition) => current_state = InitialState /\ current_g = 0
    BY DEF IsPending, EdgeInv
  <2> QED
    BY <1>1, <2>1, <2>2
<1>3. ASSUME NEW t \in Transitions, LeadsOn(search_space, NextBound, t)
      PROVE  Followed(search_space, open_list, t)
  <2>1. CASE ~IsPending(t)
    BY <1>3, <2>1 DEF Explored
  <2>2. CASE IsPending(t)
    <3>1. current_operator = t /\ t # NoTransition
      BY <2>2, TaskAssumption DEF IsPending
    <3>2. Target[t] = current_state
      BY <3>1 DEF EdgeInv
    <3>3. current_g = search_space[Source[t]].g + Cost[t]
      BY <1>0, <3>1 DEF CurrentIsExact
    <3>4. current_g <= NextBound /\ current_state \in Solvable
      BY <1>3, <3>2, <3>3 DEF LeadsOn
    <3> QED
      BY <1>1, <3>2, <3>3, <3>4 DEF Followed
  <2> QED
    BY <2>1, <2>2
<1>4. \A s \in Solvable : search_space[s].status \in {"NEW", "CLOSED"}
  BY DEF Explored
<1>5. GoalsAreBeyond(search_space)
  BY DEF GoalsAreBeyond, Explored
<1> QED
  BY <1>2, <1>3, <1>4, <1>5 DEF Settled

LEMMA StepKeepsExplored ==
  ASSUME CostsAreReal, CostInv, PathsInv, EngineInv, Explored, Step, best_bound' = best_bound
  PROVE  Searching' => Explored'
<1>0. /\ EdgeInv /\ UpperBounds(search_space) /\ pc = "step" /\ CurrentIsExact
      /\ bound = NextBound /\ NextBound \in Int /\ NextBound' = NextBound
      /\ option' = option /\ reopen_closed_nodes' = reopen_closed_nodes
      /\ open_list \in [Transitions -> Nat]
  BY UpperBoundsOfSpace, StepMovesOn, StepKeepsOptions DEF CostInv, EngineInv, NextBound
<1>1. CASE StopSolved
  <2>1. /\ UNCHANGED searchVars /\ status' \in {"SOLVED", "TIMEOUT"}
    BY <1>1 DEF StopSolved, Return
  <2>2. /\ search_space' = search_space /\ open_list' = open_list /\ current_operator' = current_operator
    BY <2>1 DEF searchVars
  <2>3. \A t \in Transitions :
          LeadsOn(search_space', NextBound', t) => Followed(search_space, open_list, t)' \/ IsPending(t)'
    BY <1>0, <2>1, <2>2 DEF Explored, IsPending, Followed
  <2>4. \A s \in Goals : IsClosed(search_space', s) => search_space'[s].g > NextBound'
    BY <1>0, <2>2 DEF Explored
  <2>5. InitialState \in Solvable /\ 0 <= NextBound' => IsClosed(search_space', InitialState) \/ IsPending(NoTransition)'
    BY <1>0, <2>1, <2>2 DEF Explored, IsPending
  <2>6. \A s \in Solvable : search_space'[s].status \in {"NEW", "CLOSED"}
    BY <2>2 DEF Explored
  <2> QED
    BY <2>3, <2>4, <2>5, <2>6 DEF Explored
<1>2. CASE SkipState
  <2>1. FetchNextState(search_space, open_list)
    BY <1>2 DEF SkipState
  <2>2. Settled(search_space, open_list) /\ GoalsAreBeyond(search_space)
    BY <1>0, <1>2, SkippedIsSettled DEF SkipState
  <2>3. open_list \in [Transitions -> Int]
    BY <1>0
  <2> QED
    BY <2>1, <2>2, <2>3, FetchKeepsExplored
<1>3. CASE FindDeadEnd \/ SolveByRelaxedPlan \/ LearnDeadEnd \/ ReachGoal \/ Expand
  <2>1. Evaluates
    BY <1>3 DEF FindDeadEnd, SolveByRelaxedPlan, LearnDeadEnd, ReachGoal, Expand
  <2>2. /\ current_state \in States /\ search_space \in [States -> Node] /\ OpenedSpace \in [States -> Node]
        /\ \A s \in States : s # current_state => OpenedSpace[s] = search_space[s]
        /\ OpenedSpace[current_state].g = current_g
        /\ current_real_g = current_g /\ current_g \in Int
    BY <1>0, <2>1, EvaluatedNode
  <2> DEFINE dead == MarkDeadEnd(search_space, current_state)
             learned == MarkDeadEnd(OpenedSpace, current_state)
             closed == Close(OpenedSpace, current_state)
             list == WithEdges(open_list, Successors)
  <2>3. /\ dead \in [States -> Node] /\ learned \in [States -> Node] /\ closed \in [States -> Node]
        /\ \A s \in States : s # current_state =>
             dead[s] = search_space[s] /\ learned[s] = search_space[s] /\ closed[s] = search_space[s]
        /\ IsClosed(closed, current_state) /\ closed[current_state].g = current_g
    BY <2>2 DEF MarkDeadEnd, Close, IsClosed, Node, Status
  <2>4. open_list \in [Transitions -> Int] /\ list \in [Transitions -> Int] /\ EdgesOf(open_list) \subseteq EdgesOf(list)
    BY <1>0 DEF WithEdges, EdgesOf
  <2>5. \A t \in OpsOf(current_state) : current_g + Cost[t] <= NextBound => t \in EdgesOf(list)
    <3> SUFFICES ASSUME NEW t \in OpsOf(current_state), current_g + Cost[t] <= NextBound
                 PROVE  t \in EdgesOf(list)
      OBVIOUS
    <3>1. t \in Successors /\ t \in Transitions
      BY <1>0, <2>2 DEF Successors, OpsOf
    <3> QED
      BY <1>0, <3>1 DEF WithEdges, EdgesOf
  <2> HIDE DEF dead, learned, closed, list
  <2>6. CASE FindDeadEnd
    <3>1. FetchNextState(dead, open_list) /\ current_state \notin Solvable /\ current_state \notin Goals
      BY <2>6, SolvableStates DEF FindDeadEnd, dead
    <3>2. Settled(dead, open_list) /\ GoalsAreBeyond(dead)
      BY <1>0, <2>1, <2>3, <3>1, LooksAt
    <3> QED
      BY <2>4, <3>1, <3>2, FetchKeepsExplored
  <2>7. CASE SolveByRelaxedPlan
    <3>1. SolvesInSteps' /\ status' \in {"SOLVED", "TIMEOUT"} /\ pc' = "finish"
      BY <1>0, <2>7 DEF SolveByRelaxedPlan, SolvesInSteps, Return
    <3> QED
      BY <3>1 DEF Searching
  <2>8. CASE LearnDeadEnd
    <3>1. FetchNextState(learned, open_list) /\ current_state \notin Solvable /\ current_state \notin Goals
      BY <2>8, SolvableStates DEF LearnDeadEnd, learned
    <3>2. Settled(learned, open_list) /\ GoalsAreBeyond(learned)
      BY <1>0, <2>1, <2>3, <3>1, LooksAt
    <3> QED
      BY <2>4, <3>1, <3>2, FetchKeepsExplored
  <2>9. CASE ReachGoal
    <3>1. /\ search_space' = closed /\ open_list' = open_list /\ current_state \in Goals
          /\ solution_found' = TRUE /\ plan' = Trace(closed, current_state)
          /\ status' \in {"SOLVED", "TIMEOUT"} /\ pc' = "finish"
      BY <2>9 DEF ReachGoal, closed, SetPlan, Return
    <3>2. Settled(closed, open_list)
      BY <1>0, <2>1, <2>3, <3>1, LooksAt
    <3>3. PlanCost(plan') <= closed[current_state].g
      <4>1. /\ IsTree(OpenedSpace) /\ UpperBounds(OpenedSpace) /\ Opened(OpenedSpace, current_state)
        BY <1>0, <2>1, OpenedSpaceIsTree, OpenedSpaceEffect
      <4>2. closed = [OpenedSpace EXCEPT ![current_state].status = "CLOSED"]
        BY DEF closed, Close
      <4>3. IsTree(closed) /\ Grows(OpenedSpace, closed)
        BY <2>2, <4>1, <4>2, NewStatusKeepsTree
      <4>4. UpperBounds(closed)
        BY <2>2, <4>1, <4>2, NewStatusEffect
      <4>5. Opened(closed, current_state)
        BY <2>2, <4>1, <4>3 DEF Grows
      <4> QED
        BY <2>2, <2>3, <3>1, <4>3, <4>4, <4>5, TracedPath
    <3>4. \A s \in Goals : IsClosed(search_space', s) =>
            search_space'[s].g > NextBound' \/ PlanCost(plan') <= search_space'[s].g
      <4> SUFFICES ASSUME NEW s \in Goals, IsClosed(closed, s)
                   PROVE  closed[s].g > NextBound \/ PlanCost(plan') <= closed[s].g
        BY <1>0, <3>1
      <4>1. CASE s = current_state
        BY <3>3, <4>1
      <4>2. CASE s # current_state
        <5>1. closed[s] = search_space[s]
          BY <2>3, <4>2, TaskAssumption
        <5> QED
          BY <1>0, <5>1 DEF Explored, IsClosed
      <4> QED
        BY <4>1, <4>2
    <3>5. \A t \in Transitions : LeadsOn(search_space', NextBound', t) => Followed(search_space, open_list, t)'
      BY <1>0, <3>1, <3>2 DEF Settled, Followed
    <3>6. /\ \A s \in Solvable : search_space'[s].status \in {"NEW", "CLOSED"}
          /\ InitialState \in Solvable /\ 0 <= NextBound' => IsClosed(search_space', InitialState)
      BY <1>0, <3>1, <3>2 DEF Settled
    <3> QED
      BY <3>1, <3>4, <3>5, <3>6 DEF Explored
  <2>10. CASE Expand
    <3>1. FetchNextState(closed, list) /\ current_state \notin Goals
      BY <2>10 DEF Expand, closed, list
    <3>2. Settled(closed, list) /\ GoalsAreBeyond(closed)
      BY <1>0, <2>1, <2>3, <2>4, <2>5, <3>1, LooksAt
    <3> QED
      BY <2>4, <3>1, <3>2, FetchKeepsExplored
  <2> QED
    BY <1>3, <2>6, <2>7, <2>8, <2>9, <2>10
<1> QED
  BY <1>1, <1>2, <1>3 DEF Step

LEMMA NewSearchIsExplored ==
  ASSUME SearchFromInitialState, status' = "IN_PROGRESS"
  PROVE  Explored'
<1>1. /\ search_space' = EmptySpace /\ current_operator' = NoTransition
  BY DEF SearchFromInitialState
<1>2. \A s \in States : ~IsClosed(search_space', s) /\ search_space'[s].status = "NEW"
  BY <1>1 DEF EmptySpace, NewNode, IsClosed
<1>3. IsPending(NoTransition)'
  BY <1>1 DEF IsPending
<1> QED
  BY <1>2, <1>3, SolvableStates, TaskAssumption DEF Explored, LeadsOn

\* Going on with a lower bound, or leaving the search as it is.
LEMMA SameSearchIsExplored ==
  ASSUME Explored, NextBound \in Int, NextBound' \in Int, NextBound' <= NextBound, search_space \in [States -> Node],
         UNCHANGED <<search_space, open_list, current_operator, reopen_closed_nodes>>,
         status # "FAILED" => status' # "FAILED",
         \A s \in Goals : IsClosed(search_space, s) => search_space[s].g > NextBound'
  PROVE  Explored'
<1>1. \A t \in Transitions : LeadsOn(search_space', NextBound', t) => LeadsOn(search_space, NextBound, t)
  <2> SUFFICES ASSUME NEW t \in Transitions, LeadsOn(search_space, NextBound', t)
               PROVE  LeadsOn(search_space, NextBound, t)
    OBVIOUS
  <2>1. search_space[Source[t]].g \in Int /\ Cost[t] \in Int
    BY TaskAssumption DEF Node
  <2>2. search_space[Source[t]].g + Cost[t] <= NextBound
    BY <2>1 DEF LeadsOn
  <2> QED
    BY <2>2 DEF LeadsOn
<1>2. \A t : IsPending(t) => IsPending(t)'
  BY DEF IsPending
<1>3. \A t \in Transitions :
        LeadsOn(search_space', NextBound', t) => Followed(search_space, open_list, t)' \/ IsPending(t)'
  BY <1>1, <1>2 DEF Explored, Followed
<1>4. InitialState \in Solvable /\ 0 <= NextBound' => IsClosed(search_space', InitialState) \/ IsPending(NoTransition)'
  BY <1>2 DEF Explored
<1> QED
  BY <1>3, <1>4 DEF Explored

LEMMA FinishKeepsExplored ==
  ASSUME ResumesWhereItExpanded, EdgeInv, EngineInv, Searching => Explored, FinishSearch
  PROVE  Searching' => Explored'
<1> SUFFICES ASSUME Searching' PROVE Explored'
  OBVIOUS
<1>0. /\ pc = "finish" /\ option \in EngineOptions /\ (repeat_last => option.repeat_last)
      /\ best_bound \in Nat /\ (solution_found => plan \in Seq(Transitions))
      /\ search_space \in [States -> Node]
  BY DEF EngineInv, EdgeInv, FinishSearch
<1>1. pc' = "iterate" /\ current_search'
  BY DEF FinishSearch, Searching
<1>2. HasAnotherPhase /\ RestartWithNextWeight
  BY <1>1 DEF FinishSearch
<1>3. best_bound' \in Nat /\ best_bound' <= best_bound
  BY <1>0, BoundsFall DEF FinishSearch
<1>6. solution_found => best_bound' <= PlanCost(plan) /\ PlanCost(plan) \in Nat
  BY <1>0, BoundsFall, PlanCostProperties DEF FinishSearch
<1> DEFINE old == best_bound
           new == best_bound'
<1>7. old \in Int /\ new \in Int /\ new <= old
  BY <1>0, <1>3
<1>8. NextBound = old - 1 /\ NextBound' = new - 1 /\ (solution_found => new <= PlanCost(plan))
  BY <1>6 DEF NextBound
<1> HIDE DEF old, new
<1>4. CASE SearchFromInitialState
  BY <1>2, <1>4, NewSearchIsExplored DEF RestartWithNextWeight
<1>5. CASE ~SearchFromInitialState
  <2>1. weight_index + 1 = option.weights /\ UNCHANGED <<searchVars, reopen_closed_nodes>> /\ status' = "IN_PROGRESS"
    BY <1>2, <1>5 DEF RestartWithNextWeight
  <2>2. option.weights \in Nat
    BY <1>0, <1>2, EngineAssumption DEF HasAnotherPhase, IteratesWeights
  <2>3. repeat_last
    BY <1>2, <2>1, <2>2 DEF HasAnotherPhase
  <2>4. ~SolvesInSteps
    BY <1>0, <1>2, <2>3 DEF ResumesWhereItExpanded, HasAnotherPhase, IteratesWeights, SolvesInSteps
  <2>5. Explored
    BY <1>0, <2>4 DEF Searching
  <2>6. \A s \in Goals : IsClosed(search_space, s) => search_space[s].g > NextBound'
    <3> SUFFICES ASSUME NEW s \in Goals, IsClosed(search_space, s) PROVE search_space[s].g > NextBound'
      OBVIOUS
    <3>1. search_space[s].g \in Int
      BY <1>0, TaskAssumption DEF Node
    <3>2. search_space[s].g > NextBound \/ (solution_found /\ PlanCost(plan) <= search_space[s].g)
      BY <2>5 DEF Explored
    <3> DEFINE c == search_space[s].g
               k == PlanCost(plan)
    <3>3. c \in Int /\ (c > old - 1 \/ (solution_found /\ k <= c))
      BY <1>8, <3>1, <3>2
    <3>4. solution_found => new <= k /\ k \in Int
      BY <1>6, <1>8
    <3> HIDE DEF c, k
    <3>5. c > new - 1
      BY <1>7, <3>3, <3>4
    <3> QED
      BY <1>8, <3>5 DEF c
  <2>7. NextBound \in Int /\ NextBound' \in Int /\ NextBound' <= NextBound
    BY <1>7, <1>8
  <2> QED
    BY <1>0, <2>1, <2>5, <2>6, <2>7, SameSearchIsExplored DEF searchVars
<1> QED
  BY <1>4, <1>5

LEMMA ExploredInvIsKept ==
  ASSUME PassBound, CostsAreReal, ResumesWhereItExpanded, CostInv, PathsInv, ExploredInv, [Next]_vars
  PROVE  ExploredInv'
<1>0. EngineInv /\ EdgeInv /\ (Searching => Explored)
  BY DEF ExploredInv, CostInv
<1>1. EngineInv'
  BY <1>0, EngineInvIsKept
<1>2. Searching' => Explored'
  <2>0. NextBound \in Int /\ NextBound' \in Int /\ search_space \in [States -> Node]
    BY <1>0, <1>1 DEF EngineInv, EdgeInv, NextBound
  <2>1. CASE ContinueEngine
    <3>1. /\ Searching /\ pc = "iterate" /\ NextBound' = NextBound
          /\ UNCHANGED <<search_space, open_list, current_operator, reopen_closed_nodes, status>>
      BY <2>1 DEF ContinueEngine, Searching, searchVars, weightVars, iterationVars, NextBound
    <3>2. \A s \in Goals : IsClosed(search_space, s) => search_space[s].g > NextBound'
      BY <1>0, <3>1 DEF Explored
    <3> QED
      BY <1>0, <2>0, <3>1, <3>2, SameSearchIsExplored
  <2>2. CASE StartEngine
    BY <2>2, NewSearchIsExplored DEF StartEngine, NewEngine
  <2>3. CASE RunOutOfPhases
    BY <2>3 DEF RunOutOfPhases, Searching
  <2>4. CASE Initialize /\ UNCHANGED iterationVars
    <3>1. /\ Searching /\ pc = "initialize" /\ NextBound' = NextBound
          /\ UNCHANGED <<search_space, open_list, current_operator, reopen_closed_nodes, status>>
      BY <2>4 DEF Initialize, Searching, searchVars, weightVars, iterationVars, NextBound
    <3>2. \A s \in Goals : IsClosed(search_space, s) => search_space[s].g > NextBound'
      BY <1>0, <3>1 DEF Explored
    <3> QED
      BY <1>0, <2>0, <3>1, <3>2, SameSearchIsExplored
  <2>5. CASE Step /\ UNCHANGED iterationVars
    <3>1. Searching /\ best_bound' = best_bound
      BY <2>5, StepMovesOn DEF Searching, iterationVars
    <3> QED
      BY <1>0, <2>5, <3>1, StepKeepsExplored
  <2>6. CASE FinishSearch
    BY <1>0, <2>6, FinishKeepsExplored
  <2>7. CASE Done \/ UNCHANGED vars
    <3> SUFFICES ASSUME Searching' PROVE Explored'
      OBVIOUS
    <3>1. /\ UNCHANGED <<pc, current_search, status, option, search_space, open_list, current_operator,
                         reopen_closed_nodes, best_bound, solution_found, plan>>
      BY <2>7 DEF Done, vars, engineVars, searchVars, weightVars, resultVars, iterationVars
    <3>2. Explored
      BY <1>0, <3>1 DEF Searching, SolvesInSteps
    <3>3. NextBound' = NextBound
      BY <3>1 DEF NextBound
    <3> QED
      BY <3>1, <3>2, <3>3 DEF Explored, Followed, IsPending
  <2> QED
    BY <2>1, <2>2, <2>3, <2>4, <2>5, <2>6, <2>7 DEF Next
<1> QED
  BY <1>1, <1>2 DEF ExploredInv

\* The costs at which the states in R can be left, and where to.
LedTo(R) ==
  {<<Target[e[1]], e[2][2] + Cost[e[1]]>> :
     e \in {p \in Transitions \X R : Source[p[1]] = p[2][1]}}

\* The recursive function of Reached.
ReachedUpto(f, k) ==
  f = [n \in 0 .. k |-> IF n = 0 THEN {<<InitialState, 0>>} ELSE f[n - 1] \cup LedTo(f[n - 1])]

\* What holds for the initial state at no cost, and for whoever comes after one for whom
\* it holds, holds for all that is reached.
LEMMA ReachedInduction ==
  ASSUME NEW T \in SUBSET (States \X Nat), <<InitialState, 0>> \in T,
         \A t \in Transitions, c \in Nat : <<Source[t], c>> \in T => <<Target[t], c + Cost[t]>> \in T
  PROVE  Reached \subseteq T
<1> DEFINE k == Cardinality(States)
           X == SUBSET T
           a == {<<InitialState, 0>>}
<1>1. k \in Nat
  BY TaskAssumption, FS_CardinalityType
<1>2. ASSUME NEW R \in X PROVE LedTo(R) \in X
  <2> SUFFICES ASSUME NEW r \in LedTo(R) PROVE r \in T
    OBVIOUS
  <2>1. PICK e \in Transitions \X R :
          Source[e[1]] = e[2][1] /\ r = <<Target[e[1]], e[2][2] + Cost[e[1]]>>
    BY DEF LedTo
  <2> DEFINE t == e[1]
             q == e[2]
  <2>2. t \in Transitions /\ q \in T /\ Source[t] = q[1] /\ r = <<Target[t], q[2] + Cost[t]>>
    BY <2>1
  <2>3. q \in States \X Nat
    BY <2>2
  <2>4. q = <<q[1], q[2]>> /\ q[2] \in Nat
    BY <2>3
  <2> HIDE DEF t, q
  <2> QED
    BY <2>2, <2>4
<1>3. \E f : ReachedUpto(f, k)
  <2> DEFINE G == [i \in 1 .. k |-> [R \in X |-> R \cup LedTo(R)]]
  <2>1. G \in [1 .. k -> [X -> X]]
    BY <1>2
  <2>2. \A i \in 1 .. k : \A R \in X : G[i][R] = R \cup LedTo(R)
    OBVIOUS
  <2>3. a \in X
    OBVIOUS
  <2> HIDE DEF G, X, a, k
  <2>4. PICK f \in [0 .. k -> X] : IteratesUpto(f, k, a, G)
    BY <1>1, <2>1, <2>3, RecursionUpto
  <2>5. \A n \in 0 .. k : f[n] = IF n = 0 THEN a ELSE G[n][f[n - 1]]
    BY <2>4, Zenon DEF IteratesUpto
  <2>6. \A n \in 0 .. k : n # 0 => G[n][f[n - 1]] = f[n - 1] \cup LedTo(f[n - 1])
    BY <1>1, <2>2, <2>4
  <2>7. f = [n \in 0 .. k |-> IF n = 0 THEN a ELSE f[n - 1] \cup LedTo(f[n - 1])]
    BY <2>4, <2>5, <2>6
  <2> QED
    BY <2>7 DEF ReachedUpto, a
<1> DEFINE f == CHOOSE g : ReachedUpto(g, k)
<1>4. ReachedUpto(f, k)
  BY <1>3
<1>5. Reached = f[k]
  BY Zenon DEF Reached, ReachedUpto, LedTo
<1>6. \A n \in 0 .. k : f[n] = IF n = 0 THEN a ELSE f[n - 1] \cup LedTo(f[n - 1])
  <2> HIDE DEF f, k
  <2> QED
    BY <1>4, Zenon DEF ReachedUpto
<1> HIDE DEF f, k
<1> DEFINE S == {n \in Nat : n \in 0 .. k => f[n] \in X}
<1>7. 0 \in S
  BY <1>6
<1>8. ASSUME NEW n \in S PROVE n + 1 \in S
  <2> SUFFICES ASSUME n + 1 \in 0 .. k PROVE f[n + 1] \in X
    OBVIOUS
  <2>1. n \in 0 .. k /\ n + 1 # 0 /\ (n + 1) - 1 = n
    BY <1>1
  <2>2. f[n] \in X /\ f[n + 1] = f[n] \cup LedTo(f[n])
    BY <1>6, <2>1
  <2>3. LedTo(f[n]) \in X
    BY <1>2, <2>2
  <2> QED
    BY <2>2, <2>3
<1>9. k \in S
  <2>1. S \in SUBSET Nat
    OBVIOUS
  <2> HIDE DEF S
  <2> QED
    BY <1>1, <1>7, <1>8, <2>1, NatInductive
<1> QED
  BY <1>1, <1>5, <1>9

LEMMA CheapestPlanIsAbove ==
  ASSUME NEW b \in Int, b < INT_MAX, Reached \subseteq States \X Nat,
         \A r \in Reached : r[1] \in Goals => r[2] > b
  PROVE  CheapestPlan > b
<1> DEFINE B == {INT_MAX} \cup {r[2] : r \in {q \in Reached : q[1] \in Goals}}
<1>1. B \in SUBSET Nat /\ B # {}
  BY DEF INT_MAX
<1>2. \A m \in B : m > b
  OBVIOUS
<1>3. CheapestPlan = Min(B)
  BY DEF CheapestPlan
<1> HIDE DEF B
<1>4. Min(B) \in B
  <2>1. \E n \in B : \A m \in B : n <= m
    BY <1>1, LeastNat
  <2> QED
    BY <2>1 DEF Min
<1> QED
  BY <1>2, <1>3, <1>4

LEMMA ExploredIsConclusive ==
  ASSUME PathsInv, EdgeInv, ExploredInv, reopen_closed_nodes \/ NothingIsBeyondBound
  PROVE  ExhaustedMeansNothingBetter
<1> SUFFICES ASSUME pc = "finish", status = "FAILED" PROVE CheapestPlan > bound
  BY DEF ExhaustedMeansNothingBetter
<1> DEFINE g(s) == search_space[s].g
<1>1. /\ Explored /\ EdgesOf(open_list) = {} /\ bound = NextBound
      /\ bound \in Int /\ bound < INT_MAX
  <2>1. INT_MAX \in Int
    BY SMT DEF INT_MAX
  <2>2. FirstBound \in Int /\ FirstBound <= INT_MAX
    BY <2>1, IterationAssumption, SMT DEF FirstBound
  <2>3. /\ Explored /\ EdgesOf(open_list) = {} /\ bound = best_bound - 1
        /\ best_bound \in Nat /\ best_bound <= FirstBound
    BY SMT DEF ExploredInv, EngineInv, Searching, NextBound
  <2> QED
    BY <2>1, <2>2, <2>3, SMT DEF NextBound
<1>2. \A t : ~IsPending(t)
  BY DEF IsPending
<1>3. \A s \in Goals : IsClosed(search_space, s) => g(s) > bound
  BY <1>1 DEF Explored
<1>4. InitialState \in Solvable /\ 0 <= bound => IsClosed(search_space, InitialState)
  BY <1>1, <1>2 DEF Explored
<1>5. \A t \in Transitions : LeadsOn(search_space, bound, t) =>
         /\ IsClosed(search_space, Target[t])
         /\ reopen_closed_nodes => g(Target[t]) <= g(Source[t]) + Cost[t]
  BY <1>1, <1>2 DEF Explored, Followed
<1>6. \A s \in States : IsClosed(search_space, s) =>
        Opened(search_space, s) /\ g(s) \in Nat /\ (s = InitialState => g(s) = 0)
  BY DEF PathsInv, IsTree, IsClosed
<1> HIDE DEF g
<1>7. CASE ~(0 <= bound)
  <2>1. Reached \subseteq States \X Nat
    <3>1. <<InitialState, 0>> \in States \X Nat
      BY TaskAssumption
    <3>2. \A t \in Transitions, c \in Nat : <<Target[t], c + Cost[t]>> \in States \X Nat
      BY TaskAssumption
    <3> QED
      BY <3>1, <3>2, ReachedInduction
  <2> QED
    BY <1>1, <1>7, <2>1, CheapestPlanIsAbove
<1>8. CASE 0 <= bound /\ reopen_closed_nodes
  <2> DEFINE IsFound(s, c) == s \in Solvable /\ c <= bound => IsClosed(search_space, s) /\ g(s) <= c
             T == {r \in States \X Nat : IsFound(r[1], r[2])}
  <2>1. \A s \in States, c \in Nat : <<s, c>> \in T <=> IsFound(s, c)
    OBVIOUS
  <2>2. IsFound(InitialState, 0)
    BY <1>4, <1>6, <1>8, TaskAssumption
  <2>3. ASSUME NEW t \in Transitions, NEW c \in Nat, IsFound(Source[t], c)
        PROVE  IsFound(Target[t], c + Cost[t])
    <3> SUFFICES ASSUME Target[t] \in Solvable, c + Cost[t] <= bound
                 PROVE  IsClosed(search_space, Target[t]) /\ g(Target[t]) <= c + Cost[t]
      OBVIOUS
    <3> DEFINE s == Source[t]
               u == Target[t]
    <3>1. s \in Solvable /\ s \in States /\ u \in States /\ Cost[t] \in Nat
      BY SolvableStates, TaskAssumption
    <3>2. c <= bound
      BY <1>1, <3>1
    <3>3. IsClosed(search_space, s) /\ g(s) <= c /\ g(s) \in Nat
      BY <1>6, <2>3, <3>1, <3>2
    <3>4. s \notin Goals
      BY <1>1, <1>3, <3>2, <3>3
    <3>5. g(s) + Cost[t] <= bound
      BY <1>1, <3>1, <3>3
    <3>6. LeadsOn(search_space, bound, t)
      BY <3>3, <3>4, <3>5 DEF LeadsOn, g
    <3>7. IsClosed(search_space, u) /\ g(u) <= g(s) + Cost[t]
      BY <1>5, <1>8, <3>6
    <3>8. g(u) \in Nat
      BY <1>6, <3>1, <3>7
    <3> QED
      BY <3>1, <3>3, <3>7, <3>8
  <2>4. /\ T \in SUBSET (States \X Nat) /\ <<InitialState, 0>> \in T
        /\ \A t \in Transitions, c \in Nat : <<Source[t], c>> \in T => <<Target[t], c + Cost[t]>> \in T
    <3>1. \A t \in Transitions : Source[t] \in States /\ Target[t] \in States /\ Cost[t] \in Nat
      BY TaskAssumption
    <3>2. InitialState \in States /\ T \in SUBSET (States \X Nat)
      BY TaskAssumption
    <3> HIDE DEF T, IsFound
    <3> QED
      BY <2>1, <2>2, <2>3, <3>1, <3>2
  <2>5. Reached \subseteq T
    <3> HIDE DEF T
    <3> QED
      BY <2>4, ReachedInduction
  <2>6. ASSUME NEW r \in Reached, r[1] \in Goals PROVE r[2] > bound
    <3>1. r \in States \X Nat /\ IsFound(r[1], r[2])
      BY <2>5
    <3>2. r[1] \in States /\ r[2] \in Nat /\ r[1] \in Solvable
      BY <2>6, <3>1, SolvableStates
    <3>3. CASE r[2] <= bound
      <4>1. IsClosed(search_space, r[1]) /\ g(r[1]) <= r[2] /\ g(r[1]) > bound /\ g(r[1]) \in Nat
        BY <1>3, <1>6, <2>6, <3>1, <3>2, <3>3
      <4> QED
        BY <1>1, <3>2, <4>1
    <3> QED
      BY <1>1, <3>2, <3>3
  <2>7. Reached \subseteq States \X Nat
    BY <2>5
  <2> QED
    BY <1>1, <2>6, <2>7, CheapestPlanIsAbove
<1>9. CASE 0 <= bound /\ NothingIsBeyondBound
  <2> DEFINE T == {r \in States \X Nat : r[1] \in Solvable => IsClosed(search_space, r[1])}
  <2>1. \A s \in States, c \in Nat : <<s, c>> \in T <=> (s \in Solvable => IsClosed(search_space, s))
    OBVIOUS
  <2>2. \A s \in States : IsClosed(search_space, s) =>
          /\ s \notin Goals
          /\ \A t \in OpsOf(s) : g(s) + Cost[t] <= bound
    <3> SUFFICES ASSUME NEW s \in States, IsClosed(search_space, s)
                 PROVE  s \notin Goals /\ \A t \in OpsOf(s) : g(s) + Cost[t] <= bound
      OBVIOUS
    <3>1. g(s) <= bound /\ g(s) \in Nat /\ \A t \in OpsOf(s) : g(s) + Cost[t] <= bound
      BY <1>6, <1>9 DEF NothingIsBeyondBound, g
    <3> QED
      BY <1>1, <1>3, <3>1
  <2>3. ASSUME NEW t \in Transitions, Source[t] \in Solvable => IsClosed(search_space, Source[t]),
               Target[t] \in Solvable
        PROVE  IsClosed(search_space, Target[t])
    <3>1. Source[t] \in Solvable /\ Source[t] \in States /\ t \in OpsOf(Source[t])
      BY <2>3, SolvableStates, TaskAssumption DEF OpsOf
    <3>2. IsClosed(search_space, Source[t]) /\ Source[t] \notin Goals /\ g(Source[t]) + Cost[t] <= bound
      BY <2>2, <2>3, <3>1
    <3>3. LeadsOn(search_space, bound, t)
      BY <2>3, <3>2 DEF LeadsOn, g
    <3> QED
      BY <1>5, <3>3
  <2>4. /\ T \in SUBSET (States \X Nat) /\ <<InitialState, 0>> \in T
        /\ \A t \in Transitions, c \in Nat : <<Source[t], c>> \in T => <<Target[t], c + Cost[t]>> \in T
    <3>1. \A t \in Transitions : Source[t] \in States /\ Target[t] \in States /\ Cost[t] \in Nat
      BY TaskAssumption
    <3>2. InitialState \in States /\ T \in SUBSET (States \X Nat)
      BY TaskAssumption
    <3> HIDE DEF T
    <3>3. <<InitialState, 0>> \in T
      BY <1>4, <1>9, <2>1, <3>2
    <3>4. ASSUME NEW t \in Transitions, NEW c \in Nat, <<Source[t], c>> \in T
          PROVE  <<Target[t], c + Cost[t]>> \in T
      <4>1. Target[t] \in States /\ c + Cost[t] \in Nat
        BY <3>1
      <4>2. Source[t] \in Solvable => IsClosed(search_space, Source[t])
        BY <2>1, <3>1, <3>4
      <4>3. Target[t] \in Solvable => IsClosed(search_space, Target[t])
        BY <2>3, <4>2
      <4> QED
        BY <2>1, <4>1, <4>3
    <3> QED
      BY <3>2, <3>3, <3>4
  <2>5. Reached \subseteq T
    <3> HIDE DEF T
    <3> QED
      BY <2>4, ReachedInduction
  <2>6. \A r \in Reached : r[1] \notin Goals
    BY <2>2, <2>5, SolvableStates
  <2>7. Reached \subseteq States \X Nat
    BY <2>5
  <2> QED
    BY <1>1, <2>6, <2>7, CheapestPlanIsAbove
<1> QED
  BY <1>7, <1>8, <1>9

LEMMA ExploredInvInitially == Init => ExploredInv
  BY EngineInvInitially DEF ExploredInv, Searching, Init

\* A lazy search that is exhausted has shown that there is no plan within its bound, if it
\* opens states again that it reaches at a lower cost, or if the bound has cut nothing off:
\* the comment in front of its return value (lazy_search.cc:185) says so of every search,
\* and run AnytimeGivesUp shows one of which it is not true.
THEOREM ExhaustionIsConclusive ==
  PassBound /\ CostsAreReal /\ ResumesWhereItExpanded =>
    (Spec => [](reopen_closed_nodes \/ NothingIsBeyondBound => ExhaustedMeansNothingBetter))
<1> SUFFICES ASSUME PassBound /\ CostsAreReal /\ ResumesWhereItExpanded
             PROVE  Spec => [](reopen_closed_nodes \/ NothingIsBeyondBound => ExhaustedMeansNothingBetter)
  OBVIOUS
<1>1. CostInv /\ PathsInv /\ ExploredInv /\ [Next]_vars => ExploredInv'
  BY ExploredInvIsKept
<1>2. CostInv /\ PathsInv /\ ExploredInv =>
        (reopen_closed_nodes \/ NothingIsBeyondBound => ExhaustedMeansNothingBetter)
  BY ExploredIsConclusive DEF CostInv
<1>3. Spec => []CostInv
  BY EdgesAreSound
<1>4. Spec => []PathsInv
  BY PathsCorrect
<1> QED
  BY <1>1, <1>2, <1>3, <1>4, ExploredInvInitially, PTL DEF Spec
=============================================================================
