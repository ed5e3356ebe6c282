-------------------------------- MODULE Bfws --------------------------------
(***************************************************************************)
(* 1-BFWS (bfws_2h.hxx with novelty_partition.hxx): a best-first search    *)
(* that orders nodes by novelty, the number of goals left and cost, and    *)
(* drops every node that is not novel.  A node is novel if its state has a *)
(* fluent that no node with the same number of goals left, and of fluents  *)
(* of the last relaxed plan achieved, had before.                          *)
(*                                                                         *)
(* The state of a new node is not made until the node is expanded; until   *)
(* then the state of its parent is progressed and regressed in place       *)
(* whenever it is needed.  A node is identified with its path.             *)
(***************************************************************************)
EXTENDS GoalCounter

CONSTANT None  \* no state yet, no relaxed plan of its own, no node

ASSUME NoneAssumption ==
  None \notin Seq(Actions) /\ None \notin [vec : SUBSET Fluents, set : SUBSET Fluents]

VARIABLES
  nodes,        \* everything known of a generated node; of a deleted one, what it was
  open, closed,
  head, todo,   \* the node being expanded and its applicable actions left to try
  table,        \* the novelty tables: the pairs of a partition and a fluent seen in it
  graph,        \* the consumed goals
  phase, plan

vars == <<nodes, open, closed, head, todo, table, graph, phase, plan>>

Root == <<>>

\* Node::m_parent and m_action
Parent(n) == SubSeq(n, 1, Len(n) - 1)

LastAction(n) == n[Len(n)]

-----------------------------------------------------------------------------
\* Mutant: the graph is not reset before a path is replayed.
ResetGraph_Never(g) == g

ResetGraph(g) == {}

\* update_land_graph: what the nodes of the path consumed and unconsumed, in turn
Replay(g, n) ==
  LET after[i \in 0 .. Len(n)] ==
        ((IF i = 0 THEN ResetGraph(g) ELSE after[i - 1]) \cup nodes[SubSeq(n, 1, i)].consumed)
          \ nodes[SubSeq(n, 1, i)].unconsumed
  IN after[Len(n)]

\* rp_fl_achieved: the relevant fluents of the closest node with a relaxed plan that
\* were added since, whether or not the conditions of the effects hold.
Achieved(n, rp) ==
  IF rp # None THEN 0
  ELSE LET start == CHOOSE i \in 0 .. Len(n) - 1 :
                      /\ nodes[SubSeq(n, 1, i)].rp # None
                      /\ \A j \in i + 1 .. Len(n) - 1 : nodes[SubSeq(n, 1, j)].rp = None
           added == UNION {MayAdd(n[i]) : i \in start + 1 .. Len(n)}
       IN Cardinality(added \cap nodes[SubSeq(n, 1, start)].rp)

\* eval_novel
Partition(h2, r) == 1000 * h2 + r

\* Mutant: only what the action added is looked up, in every partition.
Atoms_OnlyAdded(state, a, sameAsParent) == Added(a, state.set)

\* compute: every fluent of the state is looked up in a new partition, only those its
\* action added in the partition of the parent.
Atoms(state, a, sameAsParent) ==
  IF sameAsParent THEN Added(a, state.set) ELSE ProgressLazy(state, a).vec

-----------------------------------------------------------------------------
Init ==
  /\ nodes = <<>> /\ open = {} /\ closed = {}
  /\ head = None /\ todo = {}
  /\ table = {} /\ graph = {}
  /\ phase = "start" /\ plan = None

RootNode(h1, h2, consumed, rp, fate) ==
  [state |-> StateOf(InitialFluents), g |-> 0, h1 |-> h1, h2 |-> h2, r |-> 0,
   partition |-> Partition(h2, 0), consumed |-> consumed, unconsumed |-> {}, rp |-> rp,
   fate |-> fate]

\* start: the goals of the initial state are consumed in two passes, and undone.
Start ==
  LET consumed == ConsumeAll(ConsumeAll({}, Init0), Init0)
      h2 == Count(consumed)
      node(rp, fate) == RootNode(IF InitialFluents = {} THEN 2 ELSE 1, h2, consumed, rp, fate)
  IN
  /\ phase = "start"
  /\ phase' = "search"
  /\ IF IsRelaxedDeadEnd(InitialFluents)
     THEN nodes' = [n \in {Root} |-> node({}, "dead_end")] /\ open' = open
     ELSE /\ \E rp \in RelevantFluents(InitialFluents) : nodes' = [n \in {Root} |-> node(rp, "open")]
          /\ open' = {Root}
  /\ table' = {Partition(h2, 0)} \X InitialFluents
  /\ graph' = consumed \ consumed
  /\ UNCHANGED <<closed, head, todo, plan>>

-----------------------------------------------------------------------------
\* Node_Comparer_2H
Before(m, n) ==
  \/ nodes[m].h1 < nodes[n].h1
  \/ nodes[m].h1 = nodes[n].h1 /\ nodes[m].h2 < nodes[n].h2
  \/ nodes[m].h1 = nodes[n].h1 /\ nodes[m].h2 = nodes[n].h2 /\ nodes[m].g < nodes[n].g

IsNext(n) == n \in open /\ \A m \in open : ~Before(m, n)

\* The state of a node is made when it is taken off the open list.
Generated(n) ==
  IF nodes[n].state # None THEN nodes[n].state.set
  ELSE ProgressThrough(nodes[Parent(n)].state, LastAction(n))

\* The node of the closed list with this state, if any.
ClosedWith(fluents) == {m \in closed : nodes[m].state.set = fluents}

Retire(n, fate) == [nodes EXCEPT ![n].state = StateOf(Generated(n)), ![n].fate = fate]

\* Mutant: a node is dropped whatever the cost of the closed one.
IsClosed_AtAnyCost(n) == ClosedWith(Generated(n)) # {}

IsClosed(n) == \E m \in ClosedWith(Generated(n)) : nodes[m].g <= nodes[n].g

Searching == phase = "search" /\ head = None

\* extract_plan
FindGoal ==
  /\ Searching
  /\ \E n \in open :
       /\ IsNext(n) /\ Goals \subseteq Generated(n)
       /\ open' = open \ {n} /\ closed' = closed \cup {n}
       /\ nodes' = Retire(n, "closed")
       /\ plan' = n
  /\ phase' = "solved"
  /\ UNCHANGED <<head, todo, table, graph>>

SkipClosed ==
  /\ Searching
  /\ \E n \in open :
       /\ IsNext(n) /\ ~(Goals \subseteq Generated(n)) /\ IsClosed(n)
       /\ open' = open \ {n}
       /\ nodes' = Retire(n, "duplicate")
  /\ UNCHANGED <<closed, head, todo, table, graph, phase, plan>>

\* process: the node replaces a closed one that was reached at a higher cost.
Expand ==
  /\ Searching
  /\ \E n \in open :
       /\ IsNext(n) /\ ~(Goals \subseteq Generated(n)) /\ ~IsClosed(n)
       /\ open' = open \ {n}
       /\ closed' = closed \ ClosedWith(Generated(n))
       /\ nodes' = Retire(n, "closed")
       /\ head' = n
       /\ todo' = {a \in Actions : Pre[a] \subseteq Generated(n)}
       /\ graph' = Replay(graph, n)
  /\ UNCHANGED <<table, phase, plan>>

FinishExpansion ==
  /\ head # None /\ todo = {}
  /\ head' = None
  /\ closed' = closed \cup {head}
  /\ UNCHANGED <<nodes, open, todo, table, graph, phase, plan>>

Exhausted ==
  /\ Searching /\ open = {}
  /\ phase' = "failed"
  /\ UNCHANGED <<nodes, open, closed, head, todo, table, graph, plan>>

-----------------------------------------------------------------------------
\* The evaluation of a new node up to its number of goals left; the state of the
\* parent makes a round trip if the action has conditional effects.
Counted(a) ==
  LET state == nodes[head].state
      lists == ApplyAction(Replay(graph, head), state.set, a)
  IN [lists |-> lists, h2 |-> Count(lists.graph),
      state |-> IF CondEffects[a] = <<>> THEN state ELSE RoundTrip(state, a)]

\* A relaxed plan is computed whenever a node has fewer goals left than its parent, from
\* the state of the parent progressed in place.
HasPlan(c) == c.h2 < nodes[head].h2

Successor(c, a) == ProgressListed(c.state, a).vec

AfterPlan(c, a) == IF HasPlan(c) THEN ListedRoundTrip(c.state, a) ELSE c.state

NewNode(c, a, rp, h1, fate) ==
  LET n == Append(head, a)
      r == Achieved(n, rp)
  IN [state |-> None, g |-> nodes[head].g + ActionCost[a], h1 |-> h1, h2 |-> c.h2, r |-> r,
      partition |-> Partition(c.h2, r), consumed |-> c.lists.consumed,
      unconsumed |-> c.lists.unconsumed, rp |-> rp, fate |-> fate]

\* The parent's state after everything that was done to it, and the new node.
WithNode(state, a, node) ==
  [n \in DOMAIN nodes \cup {Append(head, a)} |->
     IF n = Append(head, a) THEN node
     ELSE IF n = head THEN [nodes[n] EXCEPT !.state = state] ELSE nodes[n]]

GenerateDeadEnd ==
  /\ \E a \in todo :
       LET c == Counted(a) IN
       /\ HasPlan(c) /\ IsRelaxedDeadEnd(Successor(c, a))
       /\ nodes' = WithNode(AfterPlan(c, a), a, NewNode(c, a, {}, 0, "dead_end"))
       /\ todo' = todo \ {a}
       /\ graph' = c.lists.graph
  /\ UNCHANGED <<open, closed, head, table, phase, plan>>

\* Mutant: nodes that are not novel are kept.
IsKept_Always(novel) == TRUE

IsKept(novel) == novel

GenerateNode ==
  /\ \E a \in todo :
       LET c == Counted(a)
           state == AfterPlan(c, a)
       IN
       /\ ~(HasPlan(c) /\ IsRelaxedDeadEnd(Successor(c, a)))
       /\ \E rp \in IF HasPlan(c) THEN RelevantFluents(Successor(c, a)) ELSE {None} :
            LET partition == Partition(c.h2, Achieved(Append(head, a), rp))
                atoms == {partition} \X Atoms(state, a, partition = nodes[head].partition)
                novel == ~(atoms \subseteq table)
            IN
            /\ table' = table \cup atoms
            /\ open' = IF IsKept(novel) THEN open \cup {Append(head, a)} ELSE open
            /\ nodes' = WithNode(RoundTrip(state, a), a,
                          NewNode(c, a, rp, IF novel THEN 1 ELSE 2,
                                  IF IsKept(novel) THEN "open" ELSE "pruned"))
       /\ todo' = todo \ {a}
       /\ graph' = c.lists.graph
  /\ UNCHANGED <<closed, head, phase, plan>>

Ended == phase \in {"solved", "failed"}

Done == Ended /\ UNCHANGED vars

Next ==
  \/ Start \/ FindGoal \/ SkipClosed \/ Expand \/ FinishExpansion \/ Exhausted
  \/ GenerateDeadEnd \/ GenerateNode
  \/ Done

Spec == Init /\ [][Next]_vars
=============================================================================
