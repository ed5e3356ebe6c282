--------------------------- MODULE BfwsInvariants ---------------------------
(***************************************************************************)
(* What the properties of 1-BFWS rest on: every generated node but the     *)
(* root has a parent that was taken off the open list before, has its own  *)
(* state, and never tries the same action twice.                           *)
(***************************************************************************)
EXTENDS BfwsProperties

Fields == {"state", "g", "h1", "h2", "r", "partition", "consumed", "unconsumed", "rp", "fate"}

HasState(n) == nodes[n].state # None

\* Every node is one, and the phases of a search.
NodesInv ==
  /\ DOMAIN nodes \subseteq Seq(Actions)
  /\ \A n \in DOMAIN nodes : DOMAIN nodes[n] = Fields /\ nodes[n].g \in Nat
  /\ IF phase = "start" THEN DOMAIN nodes = {} /\ open = {} /\ closed = {} /\ head = None
     ELSE Root \in DOMAIN nodes /\ HasState(Root)

\* Where a node is, and what that says of it.
ListsInv ==
  /\ open \subseteq DOMAIN nodes /\ \A n \in open : nodes[n].fate = "open"
  /\ closed \subseteq DOMAIN nodes /\ \A n \in closed : HasState(n)
  /\ IF head = None THEN todo = {}
     ELSE /\ head \in DOMAIN nodes \ open
          /\ HasState(head) /\ nodes[head].fate = "closed"
          /\ phase = "search"
  /\ todo \subseteq Actions

\* A node is generated by its parent, once.
TreeInv ==
  \A n \in DOMAIN nodes \ {Root} :
    /\ Parent(n) \in DOMAIN nodes \ open
    /\ HasState(Parent(n))
    /\ LastAction(n) \in Actions
    /\ Parent(n) = head => LastAction(n) \notin todo

StateInv ==
  \A n \in DOMAIN nodes : HasState(n) =>
    nodes[n].state = StateOf(StateAt(n)) /\ StateAt(n) \subseteq Fluents

SearchInv == NodesInv /\ ListsInv /\ TreeInv /\ StateInv

\* With the entries of the tables that are not of the initial state, one for each node
\* that is kept.
TableInv ==
  /\ IsFiniteSet(table) /\ IsFiniteSet(KeptNodes)
  /\ KeptNodesAreBounded
  /\ phase = "start" => table = {}

\* The path of a node leads through nodes and is executable.
PathInv ==
  /\ \A n \in DOMAIN nodes : \A i \in 1 .. Len(n) :
       SubSeq(n, 1, i - 1) \in DOMAIN nodes /\ Pre[n[i]] \subseteq StateAt(SubSeq(n, 1, i - 1))
  /\ \A a \in todo : Pre[a] \subseteq StateAt(head)
  /\ phase = "solved" => plan \in DOMAIN nodes /\ Goals \subseteq StateAt(plan)

\* What was dropped as a dead end has no relaxed plan.
DeadInv == \A n \in DOMAIN nodes : nodes[n].fate = "dead_end" => IsRelaxedDeadEnd(StateAt(n))
=============================================================================
