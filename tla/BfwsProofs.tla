----------------------------- MODULE BfwsProofs -----------------------------
(***************************************************************************)
(* 1-BFWS for every task: the states progressed and regressed in place are *)
(* restored, the novelty tables are exact, each node that is kept brought  *)
(* something new, no node is dropped in favour of a dearer one, the one    *)
(* goal graph counts for each path what it achieved, and what is dropped   *)
(* as a dead end has no plan.                                              *)
(***************************************************************************)
EXTENDS BfwsInvariants, SetLemmas, SequenceTheorems

-----------------------------------------------------------------------------
LEMMA TaskFacts ==
  /\ InitialFluents \subseteq Fluents
  /\ \A a \in Actions : MayAdd(a) \subseteq Fluents
<1>1. InitialFluents \subseteq Fluents
  BY TaskAssumption, ElementOfSeq DEF InitialFluents, ToSet
<1>2. ASSUME NEW a \in Actions PROVE MayAdd(a) \subseteq Fluents
  <2>1. ToSet(Add[a]) \subseteq Fluents
    <3>1. Add[a] \in Seq(Fluents)
      BY TaskAssumption
    <3> QED
      BY <3>1, ElementOfSeq DEF ToSet
  <2>2. ASSUME NEW e \in EffectsOf(a) PROVE ToSet(e.add) \subseteq Fluents
    <3>1. e.add \in Seq(Fluents)
      <4>1. PICK i \in DOMAIN CondEffects[a] : e = CondEffects[a][i]
        BY <2>2 DEF EffectsOf, ToSet
      <4> DEFINE R == [pre : SUBSET Fluents, del : SUBSET Fluents, add : Seq(Fluents)]
      <4>2. CondEffects[a] \in Seq(R)
        BY TaskAssumption
      <4> HIDE DEF R
      <4>3. e \in R
        BY <4>1, <4>2, ElementOfSeq, LenProperties
      <4> QED
        BY <4>3 DEF R
    <3> QED
      BY <3>1, ElementOfSeq DEF ToSet
  <2> QED
    BY <2>1, <2>2 DEF MayAdd, AddsOf
<1> QED
  BY <1>1, <1>2

(* The state object. *)

\* What an action adds in a state is among what it can add, and more fires in more fluents.
LEMMA AddedWithin ==
  ASSUME NEW a \in Actions, NEW S, NEW T, S \subseteq T
  PROVE  Added(a, S) \subseteq Added(a, T) /\ Added(a, S) \subseteq Fluents
<1>1. Firing(a, S) \subseteq Firing(a, T) /\ Firing(a, S) \subseteq EffectsOf(a)
  BY DEF Firing
<1>2. AddsOf(Firing(a, S)) \subseteq AddsOf(Firing(a, T)) /\ AddsOf(Firing(a, S)) \subseteq AddsOf(EffectsOf(a))
  BY <1>1 DEF AddsOf
<1> QED
  BY <1>2, TaskFacts DEF Added, MayAdd

\* Progressing a state object and regressing it again gives it back.
LEMMA RoundTripRestores ==
  ASSUME NEW a \in Actions, NEW S
  PROVE  RoundTrip(StateOf(S), a) = StateOf(S)
  BY DEF RoundTrip, RegressLazy, ProgressLazy, StateOf

\* And so with the lists of what was added and deleted, although the conditional effects
\* are tested in another state on the way.
LEMMA ListedRoundTripRestores ==
  ASSUME NEW a \in Actions, NEW S
  PROVE  ListedRoundTrip(StateOf(S), a) = StateOf(S)
<1> DEFINE s == StateOf(S)
           deleted == ListedDeletes(s, a)
           added == ListedAdds(s, a)
           kept == S \ deleted
<1>1. deleted = S \cap Deleted(a, S) /\ s.set = S /\ s.vec = S
  BY DEF ListedDeletes, StateOf
<1>2. added = Added(a, kept) \ kept
  BY <1>1 DEF ListedAdds
<1>3. added \subseteq Added(a, S)
  BY <1>2, AddedWithin
<1>4. ProgressListed(s, a) = [vec |-> kept \cup added, set |-> kept \cup added]
  BY <1>1 DEF ProgressListed
<1>5. RegressListed(ProgressListed(s, a), a, added, deleted)
        = RegressLazy([vec |-> kept \cup added, set |-> S], a)
  <2>1. ((kept \cup added) \ added) \cup deleted = S
    BY <1>1, <1>2
  <2>2. ProgressListed(s, a).vec = kept \cup added /\ ProgressListed(s, a).set = kept \cup added
    BY <1>4
  <2> HIDE DEF s, deleted, added, kept
  <2> QED
    BY <2>1, <2>2 DEF RegressListed
<1>6. RegressLazy([vec |-> kept \cup added, set |-> S], a)
        = [vec |-> {p \in kept \cup added : p \in S \/ p \notin Added(a, S)} \cup (Deleted(a, S) \cap S), set |-> S]
  BY DEF RegressLazy
<1>7. {p \in kept \cup added : p \in S \/ p \notin Added(a, S)} \cup (Deleted(a, S) \cap S) = S
  BY <1>1, <1>3
<1> HIDE DEF s, deleted, added, kept
<1> QED
  BY <1>5, <1>6, <1>7 DEF ListedRoundTrip, StateOf, s, deleted, added

\* The successor of a state.
LEMMA ProgressWithin ==
  ASSUME NEW a \in Actions, NEW S \in SUBSET Fluents
  PROVE  Progress(S, a) \subseteq Fluents
  BY AddedWithin DEF Progress

-----------------------------------------------------------------------------
(* Nodes are paths. *)

LEMMA ChildOf ==
  ASSUME NEW n \in Seq(Actions), NEW a \in Actions
  PROVE  /\ Append(n, a) \in Seq(Actions)
         /\ Append(n, a) # Root /\ Append(n, a) # n
         /\ Parent(Append(n, a)) = n
         /\ LastAction(Append(n, a)) = a
<1> DEFINE m == Append(n, a)
<1>1. m \in Seq(Actions) /\ Len(m) = Len(n) + 1 /\ m[Len(n) + 1] = a /\ \A i \in 1 .. Len(n) : m[i] = n[i]
  BY AppendProperties
<1>2. Len(n) \in Nat /\ n = [i \in 1 .. Len(n) |-> n[i]]
  BY LenProperties
<1>3. m # Root /\ m # n
  <2>1. Len(Root) = 0
    BY EmptySeq DEF Root
  <2> HIDE DEF m
  <2> QED
    BY <1>1, <1>2, <2>1
<1>4. SubSeq(m, 1, Len(n)) = n
  <2>1. SubSeq(m, 1, Len(n)) \in Seq(Actions) /\ Len(SubSeq(m, 1, Len(n))) = Len(n)
        /\ \A i \in 1 .. Len(n) : SubSeq(m, 1, Len(n))[i] = m[i]
    BY <1>1, <1>2, SubSeqProperties
  <2> QED
    BY <2>1, <1>1, SeqEqual
<1> HIDE DEF m
<1>5. Parent(m) = n /\ LastAction(m) = a
  BY <1>1, <1>2, <1>4 DEF Parent, LastAction
<1> QED
  BY <1>1, <1>2, <1>3, <1>5 DEF m
-----------------------------------------------------------------------------
(* What the actions do to the nodes. *)

\* What a node remembers of the goals.
SameCount(m) ==
  /\ nodes'[m].h2 = nodes[m].h2
  /\ nodes'[m].consumed = nodes[m].consumed /\ nodes'[m].unconsumed = nodes[m].unconsumed

\* What nothing but the retirement of the node changes.
SameNode(m) ==
  /\ m \in DOMAIN nodes' /\ DOMAIN nodes'[m] = Fields
  /\ nodes'[m].state = nodes[m].state /\ nodes'[m].g = nodes[m].g
  /\ nodes'[m].partition = nodes[m].partition /\ nodes'[m].fate = nodes[m].fate
  /\ SameCount(m)

LEMMA SetOfStateOf == \A S : StateOf(S).set = S
  BY DEF StateOf

\* The state a node stands for, if it has it and if it is still to be generated.
LEMMA StateAtWithin ==
  ASSUME SearchInv, NEW n \in DOMAIN nodes
  PROVE  StateAt(n) \subseteq Fluents
<1>1. CASE n = Root
  BY <1>1, TaskFacts DEF StateAt
<1>2. CASE n # Root
  <2>1. LastAction(n) \in Actions /\ Parent(n) \in DOMAIN nodes /\ HasState(Parent(n))
    BY <1>2 DEF SearchInv, TreeInv
  <2>2. nodes[Parent(n)].state.set \in SUBSET Fluents
    BY <2>1, SetOfStateOf DEF SearchInv, StateInv
  <2> QED
    BY <1>2, <2>1, <2>2, ProgressWithin DEF StateAt
<1> QED
  BY <1>1, <1>2

\* The new state is what the action makes of the fluents of the old one.
LEMMA ProgressOfState == \A S, a : ProgressThrough(StateOf(S), a) = Progress(S, a)
  BY DEF ProgressThrough, Progress, StateOf

LEMMA GeneratedState ==
  ASSUME SearchInv, NEW n \in DOMAIN nodes, Root \in DOMAIN nodes => HasState(Root)
  PROVE  Generated(n) = StateAt(n)
<1>1. CASE HasState(n)
  BY <1>1, SetOfStateOf DEF SearchInv, StateInv, Generated, HasState
<1>2. CASE ~HasState(n)
  <2>1. n # Root
    BY <1>2
  <2>2. nodes[Parent(n)].state = StateOf(StateAt(Parent(n)))
    BY <2>1 DEF SearchInv, StateInv, TreeInv
  <2>3. Generated(n) = Progress(StateAt(Parent(n)), LastAction(n))
    BY <1>2, <2>2, ProgressOfState DEF Generated, HasState
  <2> QED
    BY <2>1, <2>2, <2>3, SetOfStateOf DEF StateAt
<1> QED
  BY <1>1, <1>2

\* A state is not None.
LEMMA StateIsNotNone ==
  ASSUME NEW S \in SUBSET Fluents
  PROVE  StateOf(S) # None /\ StateOf(S).set = S
  BY NoneAssumption DEF StateOf

LEMMA RetireEffect ==
  ASSUME SearchInv, NEW n \in open, NEW fate, nodes' = Retire(n, fate)
  PROVE  /\ n \in DOMAIN nodes /\ DOMAIN nodes' = DOMAIN nodes
         /\ \A m \in DOMAIN nodes \ {n} : SameNode(m)
         /\ DOMAIN nodes'[n] = Fields /\ nodes'[n].state = StateOf(StateAt(n))
         /\ nodes'[n].g = nodes[n].g /\ nodes'[n].partition = nodes[n].partition
         /\ nodes'[n].fate = fate /\ SameCount(n)
         /\ Generated(n) = StateAt(n)
<1>1. n \in DOMAIN nodes /\ \A m \in DOMAIN nodes : DOMAIN nodes[m] = Fields
  BY DEF SearchInv, ListsInv, NodesInv
<1>2. Generated(n) = StateAt(n)
  BY <1>1, GeneratedState DEF SearchInv, NodesInv
<1>3. nodes' = [nodes EXCEPT ![n] = [nodes[n] EXCEPT !.state = StateOf(StateAt(n)), !.fate = fate]]
  BY <1>1, <1>2 DEF Retire
<1>4. DOMAIN nodes' = DOMAIN nodes /\ \A m \in DOMAIN nodes \ {n} : nodes'[m] = nodes[m]
  BY <1>1, <1>3
<1>5. nodes'[n] = [nodes[n] EXCEPT !.state = StateOf(StateAt(n)), !.fate = fate]
  BY <1>1, <1>3
<1>6. /\ DOMAIN nodes'[n] = Fields /\ nodes'[n].state = StateOf(StateAt(n))
      /\ nodes'[n].g = nodes[n].g /\ nodes'[n].partition = nodes[n].partition
      /\ nodes'[n].fate = fate /\ SameCount(n)
  BY <1>1, <1>5 DEF Fields, SameCount
<1> QED
  BY <1>1, <1>2, <1>4, <1>6 DEF SameNode, SameCount

\* The state of the node that is expanded is what it was after every round trip.
LEMMA HeadState ==
  ASSUME SearchInv, NEW a \in todo
  PROVE  /\ head \in DOMAIN nodes /\ a \in Actions
         /\ nodes[head].state = StateOf(StateAt(head)) /\ StateAt(head) \subseteq Fluents
         /\ Counted(a).state = nodes[head].state
         /\ AfterPlan(Counted(a), a) = nodes[head].state
         /\ RoundTrip(nodes[head].state, a) = nodes[head].state
<1>1. head \in DOMAIN nodes /\ a \in Actions /\ HasState(head)
  BY DEF SearchInv, ListsInv
<1>2. nodes[head].state = StateOf(StateAt(head)) /\ StateAt(head) \subseteq Fluents
  BY <1>1 DEF SearchInv, StateInv
<1>3. RoundTrip(nodes[head].state, a) = nodes[head].state /\ ListedRoundTrip(nodes[head].state, a) = nodes[head].state
  BY <1>1, <1>2, RoundTripRestores, ListedRoundTripRestores
<1>4. Counted(a).state = nodes[head].state
  BY <1>3 DEF Counted
<1>5. AfterPlan(Counted(a), a) = nodes[head].state
  BY <1>3, <1>4 DEF AfterPlan
<1> QED
  BY <1>1, <1>2, <1>3, <1>4, <1>5

LEMMA GenerateEffect ==
  ASSUME SearchInv, NEW a \in todo, NEW node, DOMAIN node = Fields,
         nodes' = WithNode(nodes[head].state, a, node)
  PROVE  /\ Append(head, a) \in Seq(Actions) \ DOMAIN nodes
         /\ DOMAIN nodes' = DOMAIN nodes \cup {Append(head, a)}
         /\ \A m \in DOMAIN nodes : SameNode(m)
         /\ nodes'[Append(head, a)] = node
<1> DEFINE n == Append(head, a)
<1>1. head \in DOMAIN nodes /\ a \in Actions /\ DOMAIN nodes \subseteq Seq(Actions)
      /\ \A m \in DOMAIN nodes : DOMAIN nodes[m] = Fields
  BY HeadState DEF SearchInv, NodesInv
<1>2. n \in Seq(Actions) /\ n # Root /\ n # head /\ Parent(n) = head /\ LastAction(n) = a
  BY <1>1, ChildOf
<1>3. n \notin DOMAIN nodes
  BY <1>2 DEF SearchInv, TreeInv
<1> HIDE DEF n
<1>4. nodes' = [m \in DOMAIN nodes \cup {n} |->
                  IF m = n THEN node
                  ELSE IF m = head THEN [nodes[m] EXCEPT !.state = nodes[head].state] ELSE nodes[m]]
  BY DEF WithNode, n
<1>5. DOMAIN nodes' = DOMAIN nodes \cup {n} /\ nodes'[n] = node
  BY <1>4
<1>6. \A m \in DOMAIN nodes \ {head} : nodes'[m] = nodes[m]
  BY <1>3, <1>4
<1>7. nodes'[head] = [nodes[head] EXCEPT !.state = nodes[head].state]
  BY <1>1, <1>2, <1>4
<1>8. SameNode(head)
  BY <1>1, <1>5, <1>7 DEF SameNode, SameCount, Fields
<1>9. \A m \in DOMAIN nodes : SameNode(m)
  BY <1>1, <1>5, <1>6, <1>8 DEF SameNode, SameCount
<1> QED
  BY <1>2, <1>3, <1>5, <1>9 DEF n

LEMMA StateAtIsStable ==
  ASSUME NEW m, m = Root \/ nodes'[Parent(m)].state = nodes[Parent(m)].state
  PROVE  StateAt(m)' = StateAt(m)
  BY DEF StateAt

\* Nothing stands for another state when a node is retired: it has no children yet.
LEMMA RetireStates ==
  ASSUME SearchInv, NEW n \in open, NEW fate, nodes' = Retire(n, fate), NEW m \in DOMAIN nodes
  PROVE  StateAt(m)' = StateAt(m)
<1>1. CASE m = Root
  BY <1>1, StateAtIsStable
<1>2. CASE m # Root
  <2>1. Parent(m) \in DOMAIN nodes \ {n}
    BY <1>2 DEF SearchInv, TreeInv
  <2>2. SameNode(Parent(m))
    BY <2>1, RetireEffect
  <2> QED
    BY <2>2, StateAtIsStable DEF SameNode
<1> QED
  BY <1>1, <1>2

LEMMA GenerateStates ==
  ASSUME SearchInv, NEW a \in todo, NEW node, DOMAIN node = Fields,
         nodes' = WithNode(nodes[head].state, a, node), NEW n, n = Append(head, a)
  PROVE  /\ \A m \in DOMAIN nodes : StateAt(m)' = StateAt(m)
         /\ StateAt(n)' = Progress(StateAt(head), a)
<1>1. \A m \in DOMAIN nodes : SameNode(m)
  BY GenerateEffect
<1>2. ASSUME NEW m \in DOMAIN nodes PROVE StateAt(m)' = StateAt(m)
  <2>1. CASE m = Root
    BY <2>1, StateAtIsStable
  <2>2. CASE m # Root
    <3>1. Parent(m) \in DOMAIN nodes
      BY <2>2 DEF SearchInv, TreeInv
    <3> QED
      BY <1>1, <3>1, StateAtIsStable DEF SameNode
  <2> QED
    BY <2>1, <2>2
<1>3. StateAt(n)' = Progress(StateAt(head), a)
  <2>1. head \in DOMAIN nodes /\ a \in Actions /\ nodes[head].state.set = StateAt(head)
    BY HeadState, SetOfStateOf
  <2>2. n # Root /\ Parent(n) = head /\ LastAction(n) = a
    BY <2>1, ChildOf DEF SearchInv, NodesInv
  <2>3. nodes'[head].state.set = StateAt(head)
    BY <1>1, <2>1 DEF SameNode
  <2> QED
    BY <2>2, <2>3 DEF StateAt
<1> QED
  BY <1>2, <1>3

-----------------------------------------------------------------------------
(* SearchInv is inductive. *)

LEMMA RetireKeepsInv ==
  ASSUME SearchInv, Searching, NEW n \in open, NEW fate,
         nodes' = Retire(n, fate), open' = open \ {n}, closed' \subseteq closed \cup {n},
         phase' # "start",
         \/ head' = None /\ todo' = {}
         \/ head' = n /\ todo' \subseteq Actions /\ fate = "closed" /\ phase' = "search"
  PROVE  SearchInv'
<1>1. /\ n \in DOMAIN nodes /\ DOMAIN nodes' = DOMAIN nodes
      /\ \A m \in DOMAIN nodes \ {n} : SameNode(m)
      /\ DOMAIN nodes'[n] = Fields /\ nodes'[n].state = StateOf(StateAt(n))
      /\ nodes'[n].g = nodes[n].g /\ nodes'[n].fate = fate
  BY RetireEffect
<1>2. StateAt(n) \subseteq Fluents /\ nodes'[n].state # None
  BY <1>1, StateAtWithin, StateIsNotNone
<1>3. \A m \in DOMAIN nodes : HasState(m) => HasState(m)'
  BY <1>1, <1>2 DEF HasState, SameNode
<1>4. NodesInv'
  <2>1. Root \in DOMAIN nodes /\ HasState(Root)
    BY DEF SearchInv, NodesInv, Searching
  <2> QED
    BY <1>1, <1>3, <2>1 DEF SearchInv, NodesInv, SameNode
<1>5. ListsInv'
  <2>1. open' \subseteq DOMAIN nodes' /\ \A m \in open' : nodes'[m].fate = "open"
    BY <1>1 DEF SearchInv, ListsInv, SameNode
  <2>2. closed' \subseteq DOMAIN nodes' /\ \A m \in closed' : HasState(m)'
    BY <1>1, <1>2, <1>3 DEF SearchInv, ListsInv, HasState
  <2>3. n # None
    BY <1>1, NoneAssumption DEF SearchInv, NodesInv
  <2> QED
    BY <1>1, <1>2, <2>1, <2>2, <2>3 DEF ListsInv, HasState
<1>6. TreeInv'
  <2> SUFFICES ASSUME NEW m \in DOMAIN nodes \ {Root}
               PROVE  /\ Parent(m) \in DOMAIN nodes' \ open'
                      /\ HasState(Parent(m))'
                      /\ LastAction(m) \in Actions
                      /\ Parent(m) = head' => LastAction(m) \notin todo'
    BY <1>1 DEF TreeInv
  <2>1. Parent(m) \in DOMAIN nodes \ open /\ HasState(Parent(m)) /\ LastAction(m) \in Actions
    BY DEF SearchInv, TreeInv
  <2>2. Parent(m) # n
    BY <2>1
  <2> QED
    BY <1>1, <1>3, <2>1, <2>2
<1>7. StateInv'
  <2>1. \A m \in DOMAIN nodes : StateAt(m)' = StateAt(m)
    BY RetireStates
  <2>2. ASSUME NEW m \in DOMAIN nodes, HasState(m)'
        PROVE  nodes'[m].state = StateOf(StateAt(m)) /\ StateAt(m) \subseteq Fluents
    BY <1>1, <1>2, <2>2 DEF SearchInv, StateInv, HasState, SameNode
  <2> QED
    BY <1>1, <2>1, <2>2 DEF StateInv, HasState
<1> QED
  BY <1>4, <1>5, <1>6, <1>7 DEF SearchInv

LEMMA GenerateKeepsInv ==
  ASSUME SearchInv, NEW a \in todo, NEW node, DOMAIN node = Fields,
         node.g \in Nat, node.state = None,
         nodes' = WithNode(nodes[head].state, a, node), todo' = todo \ {a},
         NEW n, n = Append(head, a),
         open' = open \/ (open' = open \cup {n} /\ node.fate = "open"),
         UNCHANGED <<closed, head, phase>>
  PROVE  SearchInv'
<1>1. /\ n \in Seq(Actions) \ DOMAIN nodes
      /\ DOMAIN nodes' = DOMAIN nodes \cup {n}
      /\ \A m \in DOMAIN nodes : SameNode(m)
      /\ nodes'[n] = node
  BY GenerateEffect
<1>2. /\ head \in DOMAIN nodes /\ a \in Actions /\ HasState(head) /\ head \notin open
      /\ head # None /\ phase = "search"
  BY NoneAssumption DEF SearchInv, ListsInv
<1>3. n # Root /\ n # head /\ Parent(n) = head /\ LastAction(n) = a
  BY <1>2, ChildOf DEF SearchInv, NodesInv
<1>4. \A m \in DOMAIN nodes : StateAt(m)' = StateAt(m)
  BY GenerateStates
<1>5. \A m \in DOMAIN nodes : HasState(m)' <=> HasState(m)
  BY <1>1 DEF SameNode, HasState
<1>6. NodesInv'
  BY <1>1, <1>2, <1>5 DEF SearchInv, NodesInv, SameNode
<1>7. ListsInv'
  <2>1. open' \subseteq DOMAIN nodes' /\ \A m \in open' : nodes'[m].fate = "open"
    BY <1>1 DEF SearchInv, ListsInv, SameNode
  <2>2. closed' \subseteq DOMAIN nodes' /\ \A m \in closed' : HasState(m)'
    BY <1>1, <1>5 DEF SearchInv, ListsInv
  <2>3. head' \in DOMAIN nodes' \ open' /\ HasState(head)' /\ nodes'[head].fate = "closed"
    BY <1>1, <1>2, <1>3, <1>5 DEF SearchInv, ListsInv, SameNode
  <2> QED
    BY <1>2, <2>1, <2>2, <2>3 DEF SearchInv, ListsInv, HasState
<1>8. TreeInv'
  <2> SUFFICES ASSUME NEW m \in DOMAIN nodes' \ {Root}
               PROVE  /\ Parent(m) \in DOMAIN nodes' \ open'
                      /\ HasState(Parent(m))'
                      /\ LastAction(m) \in Actions
                      /\ Parent(m) = head' => LastAction(m) \notin todo'
    BY DEF TreeInv
  <2>1. CASE m = n
    BY <1>1, <1>2, <1>3, <1>5, <2>1
  <2>2. CASE m \in DOMAIN nodes
    <3>1. /\ Parent(m) \in DOMAIN nodes \ open /\ HasState(Parent(m)) /\ LastAction(m) \in Actions
          /\ Parent(m) = head => LastAction(m) \notin todo
      BY <2>2 DEF SearchInv, TreeInv
    <3> QED
      BY <1>1, <1>5, <3>1
  <2> QED
    BY <1>1, <2>1, <2>2
<1>9. StateInv'
  <2>1. ~HasState(n)'
    BY <1>1 DEF HasState
  <2>2. \A m \in DOMAIN nodes : HasState(m) =>
          nodes'[m].state = StateOf(StateAt(m)) /\ StateAt(m) \subseteq Fluents
    BY <1>1 DEF SearchInv, StateInv, SameNode
  <2> QED
    BY <1>1, <1>4, <1>5, <2>1, <2>2 DEF StateInv, HasState
<1> QED
  BY <1>6, <1>7, <1>8, <1>9 DEF SearchInv

-----------------------------------------------------------------------------
(* The actions in terms of what the invariants see. *)

\* A new node: a dead end, or one whose fluents enter the tables and that is kept if
\* one of them is new.
Generates(a, n, node) ==
  /\ n = Append(head, a) /\ DOMAIN node = Fields
  /\ node.state = None /\ node.g = nodes[head].g + ActionCost[a]
  /\ node.h2 = Counted(a).h2
  /\ node.consumed = Counted(a).lists.consumed /\ node.unconsumed = Counted(a).lists.unconsumed
  /\ nodes' = WithNode(nodes[head].state, a, node) /\ todo' = todo \ {a}
  /\ UNCHANGED <<closed, head, phase, plan>>
  /\ \/ /\ node.fate = "dead_end" /\ UNCHANGED <<open, table>>
        /\ IsRelaxedDeadEnd(Successor(Counted(a), a))
     \/ LET atoms == {node.partition} \X
                       Atoms(nodes[head].state, a, node.partition = nodes[head].partition)
        IN /\ table' = table \cup atoms
           /\ IF atoms \subseteq table THEN node.fate = "pruned" /\ open' = open
              ELSE node.fate = "open" /\ open' = open \cup {n}

\* GenerateNode for one action and one choice of the relaxed plan.
GeneratesWith(a, rp) ==
  LET c == Counted(a)
      state == AfterPlan(c, a)
      partition == Partition(c.h2, Achieved(Append(head, a), rp))
      atoms == {partition} \X Atoms(state, a, partition = nodes[head].partition)
      novel == ~(atoms \subseteq table)
  IN /\ table' = table \cup atoms
     /\ open' = IF IsKept(novel) THEN open \cup {Append(head, a)} ELSE open
     /\ nodes' = WithNode(RoundTrip(state, a), a,
                   NewNode(c, a, rp, IF novel THEN 1 ELSE 2,
                           IF IsKept(novel) THEN "open" ELSE "pruned"))
     /\ todo' = todo \ {a}

LEMMA NewNodeFields ==
  ASSUME NEW c, NEW a, NEW rp, NEW h1, NEW fate
  PROVE  LET node == NewNode(c, a, rp, h1, fate) IN
         /\ DOMAIN node = Fields /\ node.state = None
         /\ node.g = nodes[head].g + ActionCost[a] /\ node.fate = fate
         /\ node.partition = Partition(c.h2, Achieved(Append(head, a), rp))
         /\ node.h2 = c.h2
         /\ node.consumed = c.lists.consumed /\ node.unconsumed = c.lists.unconsumed
  BY DEF NewNode, Fields

LEMMA GenerateStep ==
  ASSUME SearchInv, GenerateDeadEnd \/ GenerateNode
  PROVE  \E a \in todo : \E n, node : Generates(a, n, node)
<1>1. CASE GenerateDeadEnd
  <2>1. PICK a \in todo :
          /\ IsRelaxedDeadEnd(Successor(Counted(a), a))
          /\ nodes' = WithNode(AfterPlan(Counted(a), a), a, NewNode(Counted(a), a, {}, 0, "dead_end"))
          /\ todo' = todo \ {a}
    BY <1>1 DEF GenerateDeadEnd
  <2> DEFINE node == NewNode(Counted(a), a, {}, 0, "dead_end")
  <2>2. nodes' = WithNode(nodes[head].state, a, node)
    BY <2>1, HeadState
  <2>3. UNCHANGED <<open, closed, head, table, phase, plan>>
    BY <1>1 DEF GenerateDeadEnd
  <2>4. /\ DOMAIN node = Fields /\ node.state = None /\ node.fate = "dead_end"
        /\ node.g = nodes[head].g + ActionCost[a]
        /\ node.h2 = Counted(a).h2
        /\ node.consumed = Counted(a).lists.consumed /\ node.unconsumed = Counted(a).lists.unconsumed
    BY NewNodeFields
  <2> HIDE DEF node
  <2>5. Generates(a, Append(head, a), node)
    BY <2>1, <2>2, <2>3, <2>4 DEF Generates
  <2> QED
    BY <2>5
<1>2. CASE GenerateNode
  <2>1. PICK a \in todo : \E rp : GeneratesWith(a, rp)
    BY <1>2 DEF GenerateNode, GeneratesWith
  <2>2. PICK rp : GeneratesWith(a, rp)
    BY <2>1
  <2> DEFINE partition == Partition(Counted(a).h2, Achieved(Append(head, a), rp))
             atoms == {partition} \X Atoms(nodes[head].state, a, partition = nodes[head].partition)
             novel == ~(atoms \subseteq table)
             node == NewNode(Counted(a), a, rp, IF novel THEN 1 ELSE 2,
                             IF IsKept(novel) THEN "open" ELSE "pruned")
  <2>3. AfterPlan(Counted(a), a) = nodes[head].state /\ RoundTrip(nodes[head].state, a) = nodes[head].state
    BY HeadState
  <2>4. /\ table' = table \cup atoms
        /\ open' = IF novel THEN open \cup {Append(head, a)} ELSE open
        /\ nodes' = WithNode(nodes[head].state, a, node)
        /\ todo' = todo \ {a}
    BY <2>2, <2>3 DEF IsKept, GeneratesWith
  <2>5. UNCHANGED <<closed, head, phase, plan>>
    BY <1>2 DEF GenerateNode
  <2>6. /\ DOMAIN node = Fields /\ node.state = None
        /\ node.g = nodes[head].g + ActionCost[a]
        /\ node.fate = IF novel THEN "open" ELSE "pruned"
        /\ node.partition = partition
        /\ node.h2 = Counted(a).h2
        /\ node.consumed = Counted(a).lists.consumed /\ node.unconsumed = Counted(a).lists.unconsumed
    BY NewNodeFields DEF IsKept
  <2> HIDE DEF node, partition
  <2>7. Generates(a, Append(head, a), node)
    BY <2>4, <2>5, <2>6 DEF Generates
  <2> QED
    BY <2>7
<1> QED
  BY <1>1, <1>2

LEMMA StartStep ==
  ASSUME SearchInv, Start
  PROVE  /\ phase = "start" /\ phase' = "search" /\ DOMAIN nodes = {}
         /\ DOMAIN nodes' = {Root} /\ DOMAIN nodes'[Root] = Fields
         /\ nodes'[Root].state = StateOf(InitialFluents) /\ nodes'[Root].g = 0
         /\ table' = {nodes'[Root].partition} \X InitialFluents
         /\ nodes'[Root].h2 = Count(nodes'[Root].consumed)
         /\ nodes'[Root].consumed = ConsumeAll(ConsumeAll({}, Init0), Init0)
         /\ nodes'[Root].unconsumed = {}
         /\ \/ open' = {} /\ nodes'[Root].fate = "dead_end" /\ IsRelaxedDeadEnd(InitialFluents)
            \/ open' = {Root} /\ nodes'[Root].fate = "open"
         /\ closed' = {} /\ head' = None /\ todo' = {}
<1>1. phase = "start" /\ phase' = "search" /\ closed' = closed /\ head' = head /\ todo' = todo
  BY DEF Start
<1>2. DOMAIN nodes = {} /\ open = {} /\ closed = {} /\ head = None /\ todo = {}
  BY <1>1 DEF SearchInv, NodesInv, ListsInv
<1>3. PICK rp, fate, h1, h2, consumed :
        /\ h2 = Count(consumed) /\ consumed = ConsumeAll(ConsumeAll({}, Init0), Init0)
        /\ nodes' = [n \in {Root} |-> RootNode(h1, h2, consumed, rp, fate)]
        /\ table' = {Partition(h2, 0)} \X InitialFluents
        /\ \/ open' = open /\ fate = "dead_end" /\ IsRelaxedDeadEnd(InitialFluents)
           \/ open' = {Root} /\ fate = "open"
  <2> DEFINE all == ConsumeAll(ConsumeAll({}, Init0), Init0)
             first == IF InitialFluents = {} THEN 2 ELSE 1
  <2>1. table' = {Partition(Count(all), 0)} \X InitialFluents
    BY DEF Start
  <2>2. CASE IsRelaxedDeadEnd(InitialFluents)
    <3>1. /\ nodes' = [n \in {Root} |-> RootNode(first, Count(all), all, {}, "dead_end")]
          /\ open' = open
      BY <2>2 DEF Start
    <3> QED
      BY <2>1, <2>2, <3>1
  <2>3. CASE ~IsRelaxedDeadEnd(InitialFluents)
    <3>1. PICK rp : /\ nodes' = [n \in {Root} |-> RootNode(first, Count(all), all, rp, "open")]
                    /\ open' = {Root}
      BY <2>3 DEF Start
    <3> QED
      BY <2>1, <3>1
  <2> QED
    BY <2>2, <2>3
<1>4. nodes'[Root] = RootNode(h1, h2, consumed, rp, fate) /\ DOMAIN nodes' = {Root}
  BY <1>3
<1>5. /\ DOMAIN nodes'[Root] = Fields
      /\ nodes'[Root].state = StateOf(InitialFluents) /\ nodes'[Root].g = 0
      /\ nodes'[Root].partition = Partition(h2, 0) /\ nodes'[Root].fate = fate
      /\ nodes'[Root].h2 = h2 /\ nodes'[Root].consumed = consumed /\ nodes'[Root].unconsumed = {}
  BY <1>4 DEF RootNode, Fields
<1> QED
  BY <1>1, <1>2, <1>3, <1>4, <1>5

-----------------------------------------------------------------------------
LEMMA SearchInvInitially == Init => SearchInv
  BY EmptySeq DEF Init, SearchInv, NodesInv, ListsInv, TreeInv, StateInv

LEMMA SearchInvIsKept == SearchInv /\ [Next]_vars => SearchInv'
<1> SUFFICES ASSUME SearchInv, [Next]_vars PROVE SearchInv'
  OBVIOUS
<1>1. CASE Start
  <2>1. /\ phase' = "search" /\ DOMAIN nodes' = {Root} /\ DOMAIN nodes'[Root] = Fields
        /\ nodes'[Root].state = StateOf(InitialFluents) /\ nodes'[Root].g = 0
        /\ open' = {} \/ (open' = {Root} /\ nodes'[Root].fate = "open")
        /\ closed' = {} /\ head' = None /\ todo' = {}
    BY <1>1, StartStep
  <2>2. nodes'[Root].state # None /\ InitialFluents \subseteq Fluents
    BY <2>1, StateIsNotNone, TaskFacts
  <2>3. NodesInv'
    BY <2>1, <2>2, EmptySeq DEF NodesInv, HasState, Root
  <2>4. ListsInv'
    BY <2>1 DEF ListsInv
  <2>5. TreeInv'
    BY <2>1 DEF TreeInv
  <2>6. StateInv'
    BY <2>1, <2>2 DEF StateInv, StateAt
  <2> QED
    BY <2>3, <2>4, <2>5, <2>6 DEF SearchInv
<1>2. CASE FindGoal
  <2>1. PICK n \in open :
          /\ open' = open \ {n} /\ closed' = closed \cup {n} /\ nodes' = Retire(n, "closed")
          /\ phase' = "solved" /\ head' = head /\ todo' = todo /\ Searching
    BY <1>2 DEF FindGoal
  <2>2. head' = None /\ todo' = {} /\ phase' # "start"
    BY <2>1 DEF SearchInv, ListsInv, Searching
  <2> QED
    BY <2>1, <2>2, RetireKeepsInv
<1>3. CASE SkipClosed
  <2>1. PICK n \in open :
          /\ open' = open \ {n} /\ closed' = closed /\ nodes' = Retire(n, "duplicate")
          /\ phase' = phase /\ head' = head /\ todo' = todo /\ Searching
    BY <1>3 DEF SkipClosed
  <2>2. head' = None /\ todo' = {} /\ phase' # "start"
    BY <2>1 DEF SearchInv, ListsInv, Searching
  <2> QED
    BY <2>1, <2>2, RetireKeepsInv
<1>4. CASE Expand
  <2>1. PICK n \in open :
          /\ open' = open \ {n} /\ closed' \subseteq closed /\ nodes' = Retire(n, "closed")
          /\ phase' = phase /\ head' = n /\ todo' \subseteq Actions /\ Searching
    BY <1>4 DEF Expand
  <2>2. phase' = "search"
    BY <2>1 DEF Searching
  <2> QED
    BY <2>1, <2>2, RetireKeepsInv
<1>5. CASE FinishExpansion
  <2>1. /\ head # None /\ todo = {} /\ head' = None /\ closed' = closed \cup {head}
        /\ UNCHANGED <<nodes, open, todo, phase>>
    BY <1>5 DEF FinishExpansion
  <2>2. head \in DOMAIN nodes /\ HasState(head) /\ phase = "search"
    BY <2>1 DEF SearchInv, ListsInv
  <2>3. NodesInv'
    BY <2>1, <2>2 DEF SearchInv, NodesInv, HasState
  <2>4. ListsInv'
    BY <2>1, <2>2 DEF SearchInv, ListsInv, HasState
  <2>5. TreeInv'
    BY <2>1 DEF SearchInv, TreeInv, HasState
  <2>6. StateInv'
    BY <2>1 DEF SearchInv, StateInv, HasState, StateAt
  <2> QED
    BY <2>3, <2>4, <2>5, <2>6 DEF SearchInv
<1>6. CASE Exhausted
  BY <1>6 DEF Exhausted, Searching, SearchInv, NodesInv, ListsInv, TreeInv, StateInv, HasState, StateAt
<1>7. CASE GenerateDeadEnd \/ GenerateNode
  <2>0. PICK a \in todo : \E n, node : Generates(a, n, node)
    BY <1>7, GenerateStep
  <2>1. PICK n, node : Generates(a, n, node)
    BY <2>0
  <2>2. nodes[head].g \in Nat /\ ActionCost[a] \in Nat
    BY HeadState, TaskAssumption DEF SearchInv, NodesInv
  <2>3. node.g \in Nat
    BY <2>1, <2>2 DEF Generates
  <2> QED
    BY <2>1, <2>3, GenerateKeepsInv DEF Generates
<1>8. CASE UNCHANGED vars
  BY <1>8 DEF vars, SearchInv, NodesInv, ListsInv, TreeInv, StateInv, HasState, StateAt
<1> QED
  BY <1>1, <1>2, <1>3, <1>4, <1>5, <1>6, <1>7, <1>8 DEF Next, Done

\* The inductive invariant of the search: every node but the root was generated once,
\* by an expanded node that has its state (bfws_2h.hxx, do_search and process).
THEOREM SearchInvariant == Spec => []SearchInv
  BY SearchInvInitially, SearchInvIsKept, PTL DEF Spec

\* Whatever was progressed and regressed in place, the state of a node is the successor
\* of its parent's, for every task, with conditional effects of any kind.
THEOREM StatesCorrect == Spec => []StatesAreRestored
<1>1. SearchInv => StatesAreRestored
  BY DEF SearchInv, StateInv, StatesAreRestored, HasState
<1> QED
  BY <1>1, SearchInvariant, PTL

-----------------------------------------------------------------------------
(* The novelty tables. *)

\* What is looked up of a new node, in a new partition and in that of the parent.
LEMMA AtomsOfSuccessor ==
  ASSUME NEW a \in Actions, NEW S \in SUBSET Fluents, NEW same \in BOOLEAN
  PROVE  /\ Atoms(StateOf(S), a, same) \subseteq Progress(S, a) \cup Added(a, S)
         /\ Atoms(StateOf(S), a, same) \subseteq Fluents
         /\ Added(a, S) \cap Deleted(a, S) = {} =>
              Progress(S, a) = Atoms(StateOf(S), a, same) \cup (IF same THEN Progress(S, a) \cap S ELSE {})
<1>1. Added(a, S) \subseteq Fluents
  BY AddedWithin
<1>2. CASE same = TRUE
  <2>1. Atoms(StateOf(S), a, same) = Added(a, S)
    BY <1>2, SetOfStateOf DEF Atoms
  <2> QED
    BY <1>1, <1>2, <2>1 DEF Progress
<1>3. CASE same = FALSE
  <2>1. Atoms(StateOf(S), a, same) = (S \ Deleted(a, S)) \cup (Added(a, S) \ S)
    BY <1>3 DEF Atoms, ProgressLazy, StateOf
  <2> QED
    BY <1>1, <1>3, <2>1 DEF Progress
<1> QED
  BY <1>2, <1>3

LEMMA RetireKeepsTables ==
  ASSUME SearchInv, NoveltyTablesAreExact, NEW n \in open, NEW fate, fate # "dead_end",
         nodes' = Retire(n, fate), table' = table
  PROVE  NoveltyTablesAreExact'
<1>1. /\ n \in DOMAIN nodes /\ DOMAIN nodes' = DOMAIN nodes
      /\ \A m \in DOMAIN nodes \ {n} : SameNode(m)
      /\ nodes'[n].partition = nodes[n].partition /\ nodes'[n].fate = fate
  BY RetireEffect
<1>2. nodes[n].fate = "open"
  BY DEF SearchInv, ListsInv
<1>3. EvaluatedNodes' = EvaluatedNodes
  BY <1>1, <1>2 DEF EvaluatedNodes, SameNode
<1>4. \A m \in EvaluatedNodes : SeenAt(m)' = SeenAt(m)
  <2> SUFFICES ASSUME NEW m \in EvaluatedNodes PROVE SeenAt(m)' = SeenAt(m)
    OBVIOUS
  <2>1. m \in DOMAIN nodes
    BY DEF EvaluatedNodes
  <2>2. StateAt(m)' = StateAt(m)
    BY <2>1, RetireStates
  <2>3. nodes'[m].partition = nodes[m].partition
    BY <1>1, <2>1 DEF SameNode
  <2> QED
    BY <2>2, <2>3 DEF SeenAt
<1> QED
  BY <1>3, <1>4 DEF NoveltyTablesAreExact

LEMMA GenerateKeepsTables ==
  ASSUME EffectsDoNotInterfere, SearchInv, NoveltyTablesAreExact,
         NEW a \in todo, NEW n, NEW node, Generates(a, n, node)
  PROVE  NoveltyTablesAreExact'
<1> DEFINE S == StateAt(head)
<1>1. /\ head \in DOMAIN nodes /\ a \in Actions /\ S \in SUBSET Fluents
      /\ nodes[head].state = StateOf(S)
  BY HeadState
<1>2. /\ n \notin DOMAIN nodes /\ DOMAIN nodes' = DOMAIN nodes \cup {n}
      /\ \A m \in DOMAIN nodes : SameNode(m)
      /\ nodes'[n] = node
  BY GenerateEffect DEF Generates
<1>3. \A m \in DOMAIN nodes : StateAt(m)' = StateAt(m)
  BY GenerateStates DEF Generates
<1>4. StateAt(n)' = Progress(S, a)
  BY GenerateStates DEF Generates
<1> HIDE DEF S
<1>5. \A m \in EvaluatedNodes : SeenAt(m)' = SeenAt(m)
  BY <1>2, <1>3 DEF SeenAt, EvaluatedNodes, SameNode
<1>6. n # Root
  BY <1>1, ChildOf DEF Generates, SearchInv, NodesInv
<1>7. CASE node.fate = "dead_end"
  <2>1. EvaluatedNodes' = EvaluatedNodes
    BY <1>2, <1>6, <1>7 DEF EvaluatedNodes, SameNode
  <2>2. table' = table
    BY <1>7 DEF Generates
  <2> QED
    BY <1>5, <2>1, <2>2 DEF NoveltyTablesAreExact
<1>8. CASE node.fate # "dead_end"
  <2> DEFINE same == (node.partition = nodes[head].partition)
             atoms == Atoms(StateOf(S), a, same)
  <2>1. table' = table \cup ({node.partition} \X atoms)
    BY <1>1, <1>8 DEF Generates
  <2>2. EvaluatedNodes' = EvaluatedNodes \cup {n}
    BY <1>2, <1>8 DEF EvaluatedNodes, SameNode
  <2>3. SeenAt(n)' = {node.partition} \X Progress(S, a)
    BY <1>2, <1>4 DEF SeenAt
  <2>4. Progress(S, a) = atoms \cup (IF same THEN Progress(S, a) \cap S ELSE {})
    BY <1>1, AtomsOfSuccessor DEF EffectsDoNotInterfere
  <2>5. same => {node.partition} \X S \subseteq table
    <3>1. head \in EvaluatedNodes
      BY <1>1, NoneAssumption DEF EvaluatedNodes, SearchInv, ListsInv, NodesInv
    <3>2. SeenAt(head) = {nodes[head].partition} \X S
      BY DEF SeenAt, S
    <3> QED
      BY <3>1, <3>2 DEF NoveltyTablesAreExact
  <2> HIDE DEF same, atoms
  <2>6. table' = table \cup SeenAt(n)'
    BY <2>1, <2>3, <2>4, <2>5
  <2> QED
    BY <1>5, <2>2, <2>6 DEF NoveltyTablesAreExact
<1> QED
  BY <1>7, <1>8

LEMMA TablesAreKept ==
  ASSUME EffectsDoNotInterfere
  PROVE  SearchInv /\ NoveltyTablesAreExact /\ [Next]_vars => NoveltyTablesAreExact'
<1> SUFFICES ASSUME SearchInv, NoveltyTablesAreExact, [Next]_vars PROVE NoveltyTablesAreExact'
  OBVIOUS
<1>1. CASE Start
  <2>1. /\ DOMAIN nodes' = {Root} /\ table' = {nodes'[Root].partition} \X InitialFluents
    BY <1>1, StartStep
  <2>2. EvaluatedNodes' = {Root} /\ SeenAt(Root)' = table'
    BY <2>1 DEF EvaluatedNodes, SeenAt, StateAt
  <2> QED
    BY <2>2 DEF NoveltyTablesAreExact
<1>2. CASE FindGoal \/ SkipClosed \/ Expand
  <2>1. PICK n \in open : nodes' = Retire(n, "closed") \/ nodes' = Retire(n, "duplicate")
    BY <1>2 DEF FindGoal, SkipClosed, Expand
  <2>2. table' = table
    BY <1>2 DEF FindGoal, SkipClosed, Expand
  <2>3. CASE nodes' = Retire(n, "closed")
    BY <2>2, <2>3, RetireKeepsTables
  <2>4. CASE nodes' = Retire(n, "duplicate")
    BY <2>2, <2>4, RetireKeepsTables
  <2> QED
    BY <2>1, <2>3, <2>4
<1>3. CASE GenerateDeadEnd \/ GenerateNode
  <2>1. PICK a \in todo : \E n, node : Generates(a, n, node)
    BY <1>3, GenerateStep
  <2>2. PICK n, node : Generates(a, n, node)
    BY <2>1
  <2> QED
    BY <2>2, GenerateKeepsTables
<1>4. CASE FinishExpansion \/ Exhausted \/ UNCHANGED vars
  <2>1. nodes' = nodes /\ table' = table
    BY <1>4 DEF FinishExpansion, Exhausted, vars
  <2> QED
    BY <2>1 DEF NoveltyTablesAreExact, EvaluatedNodes, SeenAt, StateAt
<1> QED
  BY <1>1, <1>2, <1>3, <1>4 DEF Next, Done

\* The novelty tables hold what the evaluated nodes made true and nothing else, for every
\* task whose effects do not undo each other (novelty_partition.hxx, compute).
THEOREM NoveltyTablesCorrect ==
  ASSUME EffectsDoNotInterfere
  PROVE  Spec => []NoveltyTablesAreExact
<1>1. Init => NoveltyTablesAreExact
  BY EmptySeq DEF Init, NoveltyTablesAreExact, EvaluatedNodes
<1>2. SearchInv /\ NoveltyTablesAreExact /\ [Next]_vars => NoveltyTablesAreExact'
  BY TablesAreKept
<1> QED
  BY <1>1, <1>2, SearchInvariant, PTL DEF Spec

-----------------------------------------------------------------------------
(* Every node that is kept brought an entry of its own. *)

LEMMA TableInvInitially == Init => TableInv
<1> SUFFICES ASSUME Init PROVE TableInv
  OBVIOUS
<1>1. KeptNodes = {}
  BY EmptySeq DEF Init, KeptNodes
<1> QED
  BY <1>1, FS_EmptySet DEF Init, TableInv, KeptNodesAreBounded

\* A node stays kept when it is taken off the open list.
LEMMA RetireKeepsKept ==
  ASSUME SearchInv, NEW n \in open, NEW fate, fate \in {"closed", "duplicate"},
         nodes' = Retire(n, fate)
  PROVE  KeptNodes' = KeptNodes
<1>1. /\ n \in DOMAIN nodes /\ DOMAIN nodes' = DOMAIN nodes
      /\ \A m \in DOMAIN nodes \ {n} : SameNode(m)
      /\ nodes'[n].fate = fate
  BY RetireEffect
<1>2. nodes[n].fate = "open"
  BY DEF SearchInv, ListsInv
<1> QED
  BY <1>1, <1>2 DEF KeptNodes, SameNode

LEMMA GenerateKeepsTableInv ==
  ASSUME SearchInv, TableInv, NEW a \in todo, NEW n, NEW node, Generates(a, n, node)
  PROVE  TableInv'
<1>1. /\ n \notin DOMAIN nodes /\ DOMAIN nodes' = DOMAIN nodes \cup {n}
      /\ \A m \in DOMAIN nodes : SameNode(m)
      /\ nodes'[n] = node
  BY GenerateEffect DEF Generates
<1>2. /\ head \in DOMAIN nodes /\ a \in Actions /\ StateAt(head) \in SUBSET Fluents
      /\ nodes[head].state = StateOf(StateAt(head))
  BY HeadState
<1>3. phase = "search" /\ phase' = "search"
  BY <1>2, NoneAssumption DEF SearchInv, ListsInv, NodesInv, Generates
<1>4. n # Root
  BY <1>2, ChildOf DEF Generates, SearchInv, NodesInv
<1>5. /\ IsFiniteSet(table) /\ IsFiniteSet(KeptNodes)
      /\ Cardinality(KeptNodes) + Cardinality(InitialFluents) <= Cardinality(table)
      /\ Cardinality(KeptNodes) \in Nat /\ Cardinality(table) \in Nat
      /\ Cardinality(InitialFluents) \in Nat
  <2>1. IsFiniteSet(InitialFluents)
    BY TaskAssumption, TaskFacts, FS_Subset
  <2> QED
    BY <1>3, <2>1, FS_CardinalityType DEF TableInv, KeptNodesAreBounded
<1>6. CASE node.fate \in {"dead_end", "pruned"} /\ table' = table
  <2>1. KeptNodes' = KeptNodes
    BY <1>1, <1>6 DEF KeptNodes, SameNode
  <2> QED
    BY <1>3, <1>5, <1>6, <2>1 DEF TableInv, KeptNodesAreBounded
<1>7. CASE node.fate = "open" /\ table' # table
  <2> DEFINE fluents == Atoms(nodes[head].state, a, node.partition = nodes[head].partition)
  <2>1. KeptNodes' = KeptNodes \cup {n} /\ n \notin KeptNodes
    BY <1>1, <1>4, <1>7 DEF KeptNodes, SameNode
  <2>2. Cardinality(KeptNodes') = Cardinality(KeptNodes) + 1 /\ IsFiniteSet(KeptNodes')
    BY <1>5, <2>1, FS_AddElement
  <2>3. table' = table \cup ({node.partition} \X fluents)
    BY <1>7 DEF Generates
  <2>4. fluents \subseteq Fluents
    BY <1>2, AtomsOfSuccessor
  <2> HIDE DEF fluents
  <2>5. IsFiniteSet({node.partition} \X fluents)
    BY <2>4, TaskAssumption, FS_Subset, FS_Singleton, FS_Product
  <2>6. IsFiniteSet(table')
    BY <1>5, <2>3, <2>5, FS_Union
  <2>7. Cardinality(table) < Cardinality(table')
    BY <1>5, <1>7, <2>3, <2>6, FS_Subset, FS_CardinalityType
  <2>8. Cardinality(table') \in Nat
    BY <2>6, FS_CardinalityType
  <2>9. Cardinality(KeptNodes') + Cardinality(InitialFluents) <= Cardinality(table')
    BY <1>5, <2>2, <2>7, <2>8
  <2> QED
    BY <1>3, <2>2, <2>6, <2>9 DEF TableInv, KeptNodesAreBounded
<1>8. \/ node.fate \in {"dead_end", "pruned"} /\ table' = table
      \/ node.fate = "open" /\ table' # table
  BY DEF Generates
<1> QED
  BY <1>6, <1>7, <1>8

LEMMA TableInvIsKept == SearchInv /\ TableInv /\ [Next]_vars => TableInv'
<1> SUFFICES ASSUME SearchInv, TableInv, [Next]_vars PROVE TableInv'
  OBVIOUS
<1>1. CASE Start
  <2> DEFINE p == nodes'[Root].partition
  <2>1. DOMAIN nodes' = {Root} /\ table' = {p} \X InitialFluents /\ phase' = "search"
    BY <1>1, StartStep
  <2> HIDE DEF p
  <2>2. KeptNodes' = {}
    BY <2>1 DEF KeptNodes
  <2>3. IsFiniteSet(InitialFluents) /\ IsFiniteSet({p}) /\ Cardinality({p}) = 1
    BY TaskAssumption, TaskFacts, FS_Subset, FS_Singleton
  <2>4. IsFiniteSet(table') /\ Cardinality(table') = 1 * Cardinality(InitialFluents)
    BY <2>1, <2>3, FS_Product
  <2>5. Cardinality(InitialFluents) \in Nat
    BY <2>3, FS_CardinalityType
  <2>6. IsFiniteSet(KeptNodes') /\ Cardinality(KeptNodes') = 0
    BY <2>2, FS_EmptySet
  <2> QED
    BY <2>1, <2>4, <2>5, <2>6 DEF TableInv, KeptNodesAreBounded
<1>2. CASE FindGoal \/ SkipClosed \/ Expand
  <2>1. PICK n \in open : nodes' = Retire(n, "closed") \/ nodes' = Retire(n, "duplicate")
    BY <1>2 DEF FindGoal, SkipClosed, Expand
  <2>2. KeptNodes' = KeptNodes
    BY <2>1, RetireKeepsKept
  <2>3. table' = table /\ phase = "search" /\ phase' # "start"
    BY <1>2 DEF FindGoal, SkipClosed, Expand, Searching
  <2> QED
    BY <2>2, <2>3 DEF TableInv, KeptNodesAreBounded
<1>3. CASE GenerateDeadEnd \/ GenerateNode
  <2>1. PICK a \in todo : \E n, node : Generates(a, n, node)
    BY <1>3, GenerateStep
  <2>2. PICK n, node : Generates(a, n, node)
    BY <2>1
  <2> QED
    BY <2>2, GenerateKeepsTableInv
<1>4. CASE FinishExpansion \/ Exhausted \/ UNCHANGED vars
  <2>1. /\ nodes' = nodes /\ table' = table
        /\ phase' = phase \/ (phase = "search" /\ phase' = "failed")
    BY <1>4 DEF FinishExpansion, Exhausted, Searching, vars
  <2> QED
    BY <2>1 DEF TableInv, KeptNodesAreBounded, KeptNodes
<1> QED
  BY <1>1, <1>2, <1>3, <1>4 DEF Next, Done

\* There are never more kept nodes than entries in the novelty tables, for every task:
\* the width of the search is bounded (bfws_2h.hxx, process).
THEOREM KeptNodesBounded == Spec => []KeptNodesAreBounded
<1>1. TableInv => KeptNodesAreBounded
  BY DEF TableInv
<1> QED
  BY <1>1, TableInvInitially, TableInvIsKept, SearchInvariant, PTL DEF Spec

-----------------------------------------------------------------------------
(* Duplicates. *)

LEMMA RetireKeepsStates ==
  ASSUME SearchInv, NEW n \in open, NEW fate, nodes' = Retire(n, fate), NEW m \in DOMAIN nodes
  PROVE  /\ nodes'[m].g = nodes[m].g
         /\ HasState(m) => nodes'[m].state = nodes[m].state
<1>1. /\ nodes'[n].state = StateOf(StateAt(n)) /\ nodes'[n].g = nodes[n].g
      /\ \A x \in DOMAIN nodes \ {n} : SameNode(x)
  BY RetireEffect
<1> QED
  BY <1>1 DEF SearchInv, StateInv, SameNode

Covers(m, n) == nodes[m].state.set = nodes[n].state.set /\ nodes[m].g <= nodes[n].g

LEMMA DuplicatesStayCovered ==
  SearchInv /\ DuplicatesAreCovered /\ [Next]_vars => DuplicatesAreCovered'
<1> SUFFICES ASSUME SearchInv, DuplicatesAreCovered, [Next]_vars,
                    NEW d \in DOMAIN nodes', nodes'[d].fate = "duplicate"
             PROVE  \E m \in closed' \cup ({head'} \ {None}) :
                      nodes'[m].state.set = nodes'[d].state.set /\ nodes'[m].g <= nodes'[d].g
  BY DEF DuplicatesAreCovered
<1>1. CASE Start
  BY <1>1, StartStep
<1>2. CASE FindGoal \/ SkipClosed \/ Expand
  <2>1. Searching /\ \A m \in closed : m \in DOMAIN nodes /\ HasState(m)
    BY <1>2 DEF FindGoal, SkipClosed, Expand, SearchInv, ListsInv
  <2>2. PICK n \in open, fate \in {"closed", "duplicate"} :
          /\ nodes' = Retire(n, fate)
          /\ \/ fate = "closed" /\ closed \subseteq closed'
             \/ fate = "duplicate" /\ IsClosed(n) /\ closed' = closed
             \/ /\ fate = "closed" /\ ~IsClosed(n) /\ head' = n
                /\ closed' = closed \ ClosedWith(Generated(n))
    BY <1>2 DEF FindGoal, SkipClosed, Expand
  <2>3. /\ n \in DOMAIN nodes /\ DOMAIN nodes' = DOMAIN nodes
        /\ \A m \in DOMAIN nodes \ {n} : SameNode(m)
        /\ nodes'[n].state = StateOf(StateAt(n)) /\ nodes'[n].g = nodes[n].g
        /\ nodes'[n].fate = fate /\ Generated(n) = StateAt(n)
    BY <2>2, RetireEffect
  <2>4. \A m \in DOMAIN nodes : nodes'[m].g = nodes[m].g /\ (HasState(m) => nodes'[m].state = nodes[m].state)
    BY <2>2, RetireKeepsStates
  <2>5. nodes'[n].state.set = Generated(n)
    BY <2>3, SetOfStateOf
  <2>6. CASE d = n
    <3>1. PICK m \in closed : nodes[m].state.set = Generated(n) /\ nodes[m].g <= nodes[n].g
      BY <2>2, <2>3, <2>6 DEF IsClosed, ClosedWith
    <3> QED
      BY <2>1, <2>2, <2>3, <2>4, <2>5, <2>6, <3>1
  <2>7. CASE d # n
    <3>1. d \in DOMAIN nodes /\ nodes[d].fate = "duplicate" /\ SameNode(d)
      BY <2>3, <2>7 DEF SameNode
    <3>2. PICK m \in closed : Covers(m, d)
      BY <2>1, <3>1 DEF DuplicatesAreCovered, Searching, Covers
    <3>3. m \in DOMAIN nodes /\ nodes'[m].state = nodes[m].state /\ nodes'[m].g = nodes[m].g
      BY <2>1, <2>4
    <3>4. CASE m \in closed'
      BY <3>1, <3>2, <3>3, <3>4 DEF SameNode, Covers
    <3>5. CASE m \notin closed'
      <4>1. head' = n /\ nodes[m].state.set = Generated(n) /\ ~IsClosed(n)
        BY <2>2, <3>5 DEF ClosedWith
      <4>2. ~(nodes[m].g <= nodes[n].g)
        BY <4>1 DEF IsClosed, ClosedWith
      <4>3. nodes[m].g \in Nat /\ nodes[n].g \in Nat /\ nodes[d].g \in Nat
        BY <2>3, <3>1, <3>3 DEF SearchInv, NodesInv
      <4>4. nodes[n].g <= nodes[d].g
        BY <3>2, <4>2, <4>3 DEF Covers
      <4>5. nodes'[n].state.set = nodes'[d].state.set
        BY <2>5, <3>1, <3>2, <4>1 DEF SameNode, Covers
      <4>6. n # None
        BY <2>3, NoneAssumption DEF SearchInv, NodesInv
      <4> QED
        BY <2>3, <3>1, <4>1, <4>4, <4>5, <4>6 DEF SameNode
    <3> QED
      BY <3>4, <3>5
  <2> QED
    BY <2>6, <2>7
<1>3. CASE GenerateDeadEnd \/ GenerateNode
  <2>1. PICK a \in todo : \E n, node : Generates(a, n, node)
    BY <1>3, GenerateStep
  <2>2. PICK n, node : Generates(a, n, node)
    BY <2>1
  <2>3. /\ DOMAIN nodes' = DOMAIN nodes \cup {n} /\ nodes'[n] = node
        /\ \A m \in DOMAIN nodes : SameNode(m)
    BY <2>2, GenerateEffect DEF Generates
  <2>4. node.fate # "duplicate" /\ closed' = closed /\ head' = head
    BY <2>2 DEF Generates
  <2>5. d \in DOMAIN nodes /\ nodes[d].fate = "duplicate" /\ SameNode(d)
    BY <2>3, <2>4 DEF SameNode
  <2>6. PICK m \in closed \cup ({head} \ {None}) : Covers(m, d)
    BY <2>5 DEF DuplicatesAreCovered, Covers
  <2>7. m \in DOMAIN nodes
    BY <2>6 DEF SearchInv, ListsInv
  <2> QED
    BY <2>3, <2>4, <2>5, <2>6, <2>7 DEF SameNode, Covers
<1>4. CASE FinishExpansion \/ Exhausted \/ UNCHANGED vars
  <2>1. nodes' = nodes /\ closed \cup ({head} \ {None}) \subseteq closed' \cup ({head'} \ {None})
    BY <1>4 DEF FinishExpansion, Exhausted, vars
  <2> QED
    BY <2>1 DEF DuplicatesAreCovered
<1> QED
  BY <1>1, <1>2, <1>3, <1>4 DEF Next, Done

\* No cheaper path is lost with a duplicate, for every task and every order in which
\* states are reached (bfws_2h.hxx, is_closed).
THEOREM DuplicatesCovered == Spec => []DuplicatesAreCovered
<1>1. Init => DuplicatesAreCovered
  BY EmptySeq DEF Init, DuplicatesAreCovered
<1> QED
  BY <1>1, DuplicatesStayCovered, SearchInvariant, PTL DEF Spec

-----------------------------------------------------------------------------
(* The plan. *)

LEMMA PrefixesOfChild ==
  ASSUME NEW n \in Seq(Actions), NEW a \in Actions, NEW i \in 1 .. Len(n) + 1
  PROVE  LET m == Append(n, a) IN
         /\ i \in 1 .. Len(n) => SubSeq(m, 1, i - 1) = SubSeq(n, 1, i - 1) /\ m[i] = n[i]
         /\ i = Len(n) + 1 => SubSeq(m, 1, i - 1) = n /\ m[i] = a
<1> DEFINE m == Append(n, a)
<1>1. /\ m \in Seq(Actions) /\ Len(m) = Len(n) + 1 /\ m[Len(n) + 1] = a
      /\ \A j \in 1 .. Len(n) : m[j] = n[j]
      /\ Len(n) \in Nat
  BY AppendProperties, LenProperties
<1>2. \A j \in 1 .. Len(n) : n[j] \in Actions
  BY ElementOfSeq
<1> HIDE DEF m
<1>3. /\ SubSeq(m, 1, i - 1) \in Seq(Actions) /\ Len(SubSeq(m, 1, i - 1)) = i - 1
      /\ \A j \in 1 .. i - 1 : SubSeq(m, 1, i - 1)[j] = n[j]
  <2>1. i - 1 \in Int /\ \A j \in 1 .. i - 1 : m[j] \in Actions /\ m[j] = n[j]
    BY <1>1, <1>2
  <2> QED
    BY <1>1, <2>1, SubSeqProperties
<1>4. CASE i \in 1 .. Len(n)
  <2>1. /\ SubSeq(n, 1, i - 1) \in Seq(Actions) /\ Len(SubSeq(n, 1, i - 1)) = i - 1
        /\ \A j \in 1 .. i - 1 : SubSeq(n, 1, i - 1)[j] = n[j]
    <3>1. i - 1 \in Int /\ \A j \in 1 .. i - 1 : n[j] \in Actions
      BY <1>1, <1>2, <1>4
    <3> QED
      BY <1>1, <1>4, <3>1, SubSeqProperties
  <2>2. SubSeq(m, 1, i - 1) = SubSeq(n, 1, i - 1)
    BY <1>3, <2>1, SeqEqual
  <2> QED
    BY <1>1, <1>4, <2>2 DEF m
<1>5. CASE i = Len(n) + 1
  <2>1. i - 1 = Len(n)
    BY <1>1, <1>5
  <2>2. SubSeq(m, 1, i - 1) = n
    BY <1>3, <2>1, SeqEqual
  <2> QED
    BY <1>1, <1>5, <2>2 DEF m
<1> QED
  BY <1>1, <1>4, <1>5

\* A step that keeps the nodes and what they stand for keeps their paths.
LEMMA PathsAreKept ==
  ASSUME PathInv, DOMAIN nodes' = DOMAIN nodes,
         \A m \in DOMAIN nodes : StateAt(m)' = StateAt(m)
  PROVE  \A n \in DOMAIN nodes' : \A i \in 1 .. Len(n) :
           /\ SubSeq(n, 1, i - 1) \in DOMAIN nodes'
           /\ Pre[n[i]] \subseteq StateAt(SubSeq(n, 1, i - 1))'
  BY DEF PathInv

LEMMA RetireKeepsPaths ==
  ASSUME SearchInv, PathInv, FindGoal \/ SkipClosed \/ Expand
  PROVE  PathInv'
<1>1. Searching /\ phase = "search" /\ todo = {}
  BY DEF FindGoal, SkipClosed, Expand, Searching, SearchInv, ListsInv
<1>2. PICK n \in open, fate \in {"closed", "duplicate"} :
        /\ nodes' = Retire(n, fate)
        /\ \/ /\ phase' = "solved" /\ plan' = n /\ todo' = todo /\ Goals \subseteq Generated(n)
           \/ phase' = phase /\ todo' = todo
           \/ /\ phase' = phase /\ head' = n
              /\ todo' = {a \in Actions : Pre[a] \subseteq Generated(n)}
  BY DEF FindGoal, SkipClosed, Expand
<1>3. n \in DOMAIN nodes /\ DOMAIN nodes' = DOMAIN nodes /\ Generated(n) = StateAt(n)
  BY <1>2, RetireEffect
<1>4. \A m \in DOMAIN nodes : StateAt(m)' = StateAt(m)
  BY <1>2, RetireStates
<1>5. \A m \in DOMAIN nodes' : \A i \in 1 .. Len(m) :
        /\ SubSeq(m, 1, i - 1) \in DOMAIN nodes'
        /\ Pre[m[i]] \subseteq StateAt(SubSeq(m, 1, i - 1))'
  BY <1>3, <1>4, PathsAreKept
<1>6. ASSUME NEW a \in todo' PROVE Pre[a] \subseteq StateAt(head)'
  <2>1. head' = n /\ Pre[a] \subseteq StateAt(n)
    BY <1>1, <1>2, <1>3
  <2>2. StateAt(n)' = StateAt(n)
    BY <1>3, <1>4
  <2>3. StateAt(head)' = StateAt(n)'
    BY <2>1 DEF StateAt
  <2> QED
    BY <2>1, <2>2, <2>3
<1>7. phase' = "solved" => plan' \in DOMAIN nodes' /\ Goals \subseteq StateAt(plan)'
  <2> SUFFICES ASSUME phase' = "solved" PROVE plan' \in DOMAIN nodes' /\ Goals \subseteq StateAt(plan)'
    OBVIOUS
  <2>1. plan' = n /\ Goals \subseteq StateAt(n)
    BY <1>1, <1>2, <1>3
  <2>2. StateAt(n)' = StateAt(n)
    BY <1>3, <1>4
  <2>3. StateAt(plan)' = StateAt(n)'
    BY <2>1 DEF StateAt
  <2> QED
    BY <1>3, <2>1, <2>2, <2>3
<1> QED
  BY <1>5, <1>6, <1>7 DEF PathInv

LEMMA GenerateKeepsPaths ==
  ASSUME SearchInv, PathInv, NEW a \in todo, NEW n, NEW node, Generates(a, n, node)
  PROVE  PathInv'
<1>1. DOMAIN nodes' = DOMAIN nodes \cup {n}
  BY GenerateEffect DEF Generates
<1>2. head \in DOMAIN nodes /\ a \in Actions /\ head \in Seq(Actions)
  BY HeadState DEF SearchInv, NodesInv
<1>3. \A m \in DOMAIN nodes : StateAt(m)' = StateAt(m)
  BY GenerateStates DEF Generates
<1>4. head' = head /\ todo' = todo \ {a} /\ phase' = phase /\ n = Append(head, a)
  BY DEF Generates
<1>5. phase = "search"
  BY <1>2, NoneAssumption DEF SearchInv, ListsInv
<1>6. ASSUME NEW m \in DOMAIN nodes', NEW i \in 1 .. Len(m)
      PROVE  /\ SubSeq(m, 1, i - 1) \in DOMAIN nodes'
             /\ Pre[m[i]] \subseteq StateAt(SubSeq(m, 1, i - 1))'
  <2>1. CASE m \in DOMAIN nodes
    <3>1. SubSeq(m, 1, i - 1) \in DOMAIN nodes /\ Pre[m[i]] \subseteq StateAt(SubSeq(m, 1, i - 1))
      BY <2>1 DEF PathInv
    <3> QED
      BY <1>1, <1>3, <3>1
  <2>2. CASE m = n
    <3>1. Len(m) = Len(head) + 1 /\ Len(head) \in Nat
      BY <1>2, <1>4, <2>2, AppendProperties, LenProperties
    <3>2. \/ /\ i \in 1 .. Len(head)
             /\ SubSeq(m, 1, i - 1) = SubSeq(head, 1, i - 1) /\ m[i] = head[i]
          \/ SubSeq(m, 1, i - 1) = head /\ m[i] = a
      <4>1. i \in 1 .. Len(head) \/ i = Len(head) + 1
        BY <3>1
      <4> QED
        BY <1>2, <1>4, <2>2, <3>1, <4>1, PrefixesOfChild
    <3>3. SubSeq(m, 1, i - 1) \in DOMAIN nodes /\ Pre[m[i]] \subseteq StateAt(SubSeq(m, 1, i - 1))
      BY <1>2, <3>2 DEF PathInv
    <3> QED
      BY <1>1, <1>3, <3>3
  <2> QED
    BY <1>1, <2>1, <2>2
<1>7. \A b \in todo' : Pre[b] \subseteq StateAt(head)'
  <2>1. StateAt(head)' = StateAt(head)
    <3>1. PICK h : h = head
      OBVIOUS
    <3>2. StateAt(head)' = StateAt(h)'
      BY <1>4, <3>1 DEF StateAt
    <3> QED
      BY <1>2, <1>3, <3>1, <3>2
  <2> QED
    BY <1>4, <2>1 DEF PathInv
<1> QED
  BY <1>4, <1>5, <1>6, <1>7 DEF PathInv

LEMMA PathInvIsKept == SearchInv /\ PathInv /\ [Next]_vars => PathInv'
<1> SUFFICES ASSUME SearchInv, PathInv, [Next]_vars PROVE PathInv'
  OBVIOUS
<1>1. CASE Start
  <2>1. DOMAIN nodes' = {Root} /\ phase' = "search" /\ todo' = {} /\ Len(Root) = 0
    BY <1>1, StartStep, EmptySeq DEF Root
  <2> QED
    BY <2>1 DEF PathInv
<1>2. CASE FindGoal \/ SkipClosed \/ Expand
  BY <1>2, RetireKeepsPaths
<1>3. CASE GenerateDeadEnd \/ GenerateNode
  <2>1. PICK a \in todo : \E n, node : Generates(a, n, node)
    BY <1>3, GenerateStep
  <2>2. PICK n, node : Generates(a, n, node)
    BY <2>1
  <2> QED
    BY <2>2, GenerateKeepsPaths
<1>4. CASE FinishExpansion \/ Exhausted \/ UNCHANGED vars
  <2>1. /\ nodes' = nodes /\ plan' = plan /\ todo' = todo
        /\ todo = {} \/ head' = head
        /\ phase' = phase \/ phase' = "failed"
    BY <1>4 DEF FinishExpansion, Exhausted, vars
  <2> QED
    BY <2>1 DEF PathInv, StateAt
<1> QED
  BY <1>1, <1>2, <1>3, <1>4 DEF Next, Done

\* The plan of 1-BFWS is executable and reaches the goal, for every task, although the
\* states along it were generated late (bfws_2h.hxx, extract_plan).
THEOREM PlanCorrect == Spec => []PlanIsValid
<1>1. Init => PathInv
  BY EmptySeq DEF Init, PathInv
<1>2. PathInv => PlanIsValid
  BY DEF PathInv, PlanIsValid
<1> QED
  BY <1>1, <1>2, PathInvIsKept, SearchInvariant, PTL DEF Spec

-----------------------------------------------------------------------------
(* The counter of goals. *)

\* Achieving fluents consumes no more than those.
LEMMA ConsumeAllAdds ==
  ASSUME NEW G, NEW fs \in Seq(Fluents)
  PROVE  G \subseteq ConsumeAll(G, fs) /\ ConsumeAll(G, fs) \subseteq G \cup ToSet(fs)
<1> DEFINE k == Len(fs)
           X == SUBSET (G \cup Goals)
           step == [i \in 1 .. k |-> [g \in X |-> Consume(g, fs[i])]]
           Rec(f) == f = [i \in 0 .. k |-> IF i = 0 THEN G ELSE Consume(f[i - 1], fs[i])]
           h == CHOOSE f : Rec(f)
<1>1. k \in Nat /\ \A i \in 1 .. k : fs[i] \in ToSet(fs)
  BY LenProperties DEF ToSet
<1>2. step \in [1 .. k -> [X -> X]] /\ G \in X
  BY DEF Consume
<1>3. \A i \in 1 .. k : \A g \in X : step[i][g] = Consume(g, fs[i])
  OBVIOUS
<1>4. ConsumeAll(G, fs) = h[k]
  BY Zenon DEF ConsumeAll
<1> HIDE DEF X, step, k
<1>5. PICK f \in [0 .. k -> X] : IteratesUpto(f, k, G, step)
  BY <1>1, <1>2, RecursionUpto
<1>6. Rec(f)
  <2>1. \A i \in 1 .. k : f[i - 1] \in X
    BY <1>1
  <2>2. \A i \in 0 .. k : (IF i = 0 THEN G ELSE step[i][f[i - 1]]) = (IF i = 0 THEN G ELSE Consume(f[i - 1], fs[i]))
    BY <1>1, <1>3, <2>1
  <2> QED
    BY <1>5, <2>2 DEF IteratesUpto
<1>7. Rec(h)
  BY <1>6, Zenon
<1> HIDE DEF h
<1>8. \A i \in 0 .. k : h[i] = IF i = 0 THEN G ELSE Consume(h[i - 1], fs[i])
  BY <1>7, Zenon
<1> DEFINE T == {n \in Nat : n <= k => G \subseteq h[n] /\ h[n] \subseteq G \cup ToSet(fs)}
<1>9. 0 \in T
  BY <1>1, <1>8
<1>10. ASSUME NEW n \in T PROVE n + 1 \in T
  <2>1. SUFFICES ASSUME n + 1 <= k PROVE G \subseteq h[n + 1] /\ h[n + 1] \subseteq G \cup ToSet(fs)
    OBVIOUS
  <2>2. n \in Nat /\ n + 1 \in 1 .. k /\ n + 1 \in 0 .. k /\ (n + 1) - 1 = n
    BY <1>1, <2>1
  <2>3. G \subseteq h[n] /\ h[n] \subseteq G \cup ToSet(fs)
    BY <1>1, <2>1, <2>2
  <2>4. h[n + 1] = Consume(h[n], fs[n + 1])
    BY <1>8, <2>2
  <2> QED
    BY <1>1, <2>2, <2>3, <2>4 DEF Consume
<1>11. T = Nat
  <2>1. T \in SUBSET Nat
    OBVIOUS
  <2> HIDE DEF T
  <2> QED
    BY <1>9, <1>10, <2>1, NatInductive
<1> QED
  BY <1>1, <1>4, <1>11

\* The effects of an action, the unconditional one first.
EffectList(a) == <<[pre |-> {}, add |-> Add[a], del |-> Del[a]]>> \o CondEffects[a]

FiringIn(a, S) == {n \in DOMAIN EffectList(a) : EffectList(a)[n].pre \subseteq S}

LEMMA FiringEffects ==
  ASSUME NEW a \in Actions, NEW S
  PROVE  /\ Len(EffectList(a)) \in Nat /\ DOMAIN EffectList(a) = 1 .. Len(EffectList(a))
         /\ \A n \in DOMAIN EffectList(a) : EffectList(a)[n].add \in Seq(Fluents)
         /\ \A n \in FiringIn(a, S) :
              /\ ToSet(EffectList(a)[n].add) \subseteq Added(a, S)
              /\ EffectList(a)[n].del \subseteq Deleted(a, S)
         /\ \A p \in Deleted(a, S) : \E n \in FiringIn(a, S) : p \in EffectList(a)[n].del
<1> DEFINE first == [pre |-> {}, add |-> Add[a], del |-> Del[a]]
           R == {first} \cup [pre : SUBSET Fluents, del : SUBSET Fluents, add : Seq(Fluents)]
           conds == CondEffects[a]
           L == EffectList(a)
<1>1. /\ first.pre = {} /\ first.add = Add[a] /\ first.del = Del[a]
      /\ Add[a] \in Seq(Fluents)
      /\ \A e \in R : e.add \in Seq(Fluents)
  BY TaskAssumption
<1>2. conds \in Seq(R)
  <2>1. conds \in Seq([pre : SUBSET Fluents, del : SUBSET Fluents, add : Seq(Fluents)])
    BY TaskAssumption
  <2> HIDE DEF conds
  <2>2. Len(conds) \in Nat /\ conds \in [1 .. Len(conds) -> R]
    BY <2>1, LenProperties
  <2> HIDE DEF R
  <2> QED
    BY <2>2
<1>3. <<first>> \in Seq(R) /\ Len(<<first>>) = 1 /\ <<first>>[1] = first
  OBVIOUS
<1>4. L = <<first>> \o conds
  BY DEF EffectList
<1> HIDE DEF first, R, conds, L
<1>5. /\ L \in Seq(R) /\ Len(L) = 1 + Len(conds) /\ Len(conds) \in Nat
      /\ \A i \in 1 .. 1 + Len(conds) : L[i] = IF i <= 1 THEN <<first>>[i] ELSE conds[i - 1]
  BY <1>2, <1>3, <1>4, ConcatProperties, LenProperties
<1>6. DOMAIN L = 1 .. Len(L) /\ DOMAIN conds = 1 .. Len(conds)
  BY <1>2, <1>5, LenProperties
<1>7. L[1] = first /\ \A i \in DOMAIN conds : i + 1 \in DOMAIN L /\ L[i + 1] = conds[i]
  BY <1>3, <1>5, <1>6
<1>8. \A n \in DOMAIN L : n = 1 \/ \E i \in DOMAIN conds : n = i + 1
  <2> SUFFICES ASSUME NEW n \in DOMAIN L, n # 1 PROVE \E i \in DOMAIN conds : n = i + 1
    OBVIOUS
  <2>1. n - 1 \in DOMAIN conds /\ n = (n - 1) + 1
    BY <1>5, <1>6
  <2> QED
    BY <2>1
<1>9. EffectsOf(a) = {conds[i] : i \in DOMAIN conds}
  BY DEF EffectsOf, ToSet, conds
<1>10. \A n \in DOMAIN L : L[n].add \in Seq(Fluents)
  BY <1>1, <1>5, <1>6, ElementOfSeq
<1>11. ASSUME NEW n \in FiringIn(a, S)
       PROVE  ToSet(L[n].add) \subseteq Added(a, S) /\ L[n].del \subseteq Deleted(a, S)
  <2>1. n \in DOMAIN L /\ L[n].pre \subseteq S
    BY DEF FiringIn, L
  <2>2. CASE n = 1
    BY <1>1, <1>7, <2>2 DEF Added, Deleted
  <2>3. CASE n # 1
    <3>1. PICK i \in DOMAIN conds : n = i + 1
      BY <1>8, <2>1, <2>3
    <3>2. L[n] \in Firing(a, S)
      BY <1>7, <1>9, <2>1, <3>1 DEF Firing
    <3> QED
      BY <3>2 DEF Added, Deleted, AddsOf, DelsOf
  <2> QED
    BY <2>2, <2>3
<1>12. ASSUME NEW p \in Deleted(a, S) PROVE \E n \in FiringIn(a, S) : p \in L[n].del
  <2>1. CASE p \in Del[a]
    <3>1. 1 \in DOMAIN L
      BY <1>5, <1>6
    <3>2. 1 \in FiringIn(a, S)
      BY <1>1, <1>7, <3>1 DEF FiringIn, L
    <3> QED
      BY <1>1, <1>7, <2>1, <3>2
  <2>2. CASE p \notin Del[a]
    <3>1. PICK e \in Firing(a, S) : p \in e.del
      BY <1>12, <2>2 DEF Deleted, DelsOf
    <3>2. PICK i \in DOMAIN conds : e = conds[i]
      BY <1>9 DEF Firing
    <3>3. e.pre \subseteq S
      BY DEF Firing
    <3>4. i + 1 \in FiringIn(a, S) /\ L[i + 1] = e
      BY <1>7, <3>2, <3>3 DEF FiringIn, L
    <3> QED
      BY <3>1, <3>4
  <2> QED
    BY <2>1, <2>2
<1> QED
  BY <1>5, <1>6, <1>10, <1>11, <1>12 DEF L

\* Applying an action whose effects do not undo each other: what it consumes and unconsumes
\* on the way makes up for all it does to the graph, which keeps no goal that is deleted.
LEMMA AppliedEffects ==
  ASSUME NEW a \in Actions, NEW G, NEW S, Added(a, S) \cap Deleted(a, S) = {}
  PROVE  LET lists == ApplyAction(G, S, a) IN
         /\ lists.graph = (G \cup lists.consumed) \ lists.unconsumed
         /\ lists.graph \subseteq (G \cup Added(a, S)) \ Deleted(a, S)
<1> DEFINE L == EffectList(a)
           k == Len(L)
           F == FiringIn(a, S)
           Rec(f) == f = [n \in 0 .. k |-> IF n = 0 THEN G
                                           ELSE IF n \in F THEN Unconsume(ConsumeAll(f[n - 1], L[n].add), L[n].del)
                                           ELSE f[n - 1]]
           h == CHOOSE f : Rec(f)
           Reached(n) == ConsumeAll(h[n - 1], L[n].add)
           C == UNION {Reached(n) \ h[n - 1] : n \in F}
           U == UNION {Reached(n) \ h[n] : n \in F}
           A == Added(a, S)
           D == Deleted(a, S)
<1>1. ApplyAction(G, S, a) = [consumed |-> C, unconsumed |-> U, graph |-> h[k]]
  BY Zenon DEF ApplyAction, EffectList, FiringIn
<1>2. /\ k \in Nat /\ F \subseteq 1 .. k
      /\ \A n \in 1 .. k : L[n].add \in Seq(Fluents)
      /\ \A n \in F : ToSet(L[n].add) \subseteq A /\ L[n].del \subseteq D
      /\ \A p \in D : \E n \in F : p \in L[n].del
      /\ A \cap D = {}
  BY FiringEffects DEF FiringIn
<1>3. Rec(h)
  <2> DEFINE X == SUBSET (G \cup Fluents)
             step == [n \in 1 .. k |->
                        [g \in X |-> IF n \in F THEN Unconsume(ConsumeAll(g, L[n].add), L[n].del) ELSE g]]
  <2>1. ASSUME NEW n \in 1 .. k, NEW g \in X
        PROVE  Unconsume(ConsumeAll(g, L[n].add), L[n].del) \in X
    <3>1. ConsumeAll(g, L[n].add) \subseteq g \cup ToSet(L[n].add)
      BY <1>2, ConsumeAllAdds
    <3>2. ToSet(L[n].add) \subseteq Fluents
      BY <1>2, ElementOfSeq DEF ToSet
    <3> HIDE DEF L
    <3> QED
      BY <3>1, <3>2 DEF Unconsume
  <2>2. step \in [1 .. k -> [X -> X]] /\ G \in X
    BY <2>1
  <2>3. \A n \in 1 .. k : \A g \in X :
          step[n][g] = IF n \in F THEN Unconsume(ConsumeAll(g, L[n].add), L[n].del) ELSE g
    OBVIOUS
  <2> HIDE DEF X, step, k, F, L
  <2>4. PICK f \in [0 .. k -> X] : IteratesUpto(f, k, G, step)
    BY <1>2, <2>2, RecursionUpto
  <2>5. \A n \in 1 .. k : f[n - 1] \in X
    BY <1>2
  <2>6. \A n \in 0 .. k : (IF n = 0 THEN G ELSE step[n][f[n - 1]]) =
          (IF n = 0 THEN G
           ELSE IF n \in F THEN Unconsume(ConsumeAll(f[n - 1], L[n].add), L[n].del) ELSE f[n - 1])
    BY <1>2, <2>3, <2>5
  <2>7. Rec(f)
    BY <2>4, <2>6 DEF IteratesUpto
  <2> QED
    BY <2>7, Zenon
<1> HIDE DEF h
<1>4. \A n \in 0 .. k : h[n] = IF n = 0 THEN G
                               ELSE IF n \in F THEN Unconsume(ConsumeAll(h[n - 1], L[n].add), L[n].del)
                               ELSE h[n - 1]
  BY <1>3, Zenon
<1>5. ASSUME NEW n \in F
      PROVE  /\ h[n] = Reached(n) \ L[n].del
             /\ h[n - 1] \subseteq Reached(n) /\ Reached(n) \subseteq h[n - 1] \cup A
  <2>1. n \in 1 .. k /\ n \in 0 .. k /\ n # 0
    BY <1>2
  <2>2. h[n] = Reached(n) \ L[n].del
    BY <1>4, <2>1 DEF Unconsume
  <2>3. h[n - 1] \subseteq Reached(n) /\ Reached(n) \subseteq h[n - 1] \cup ToSet(L[n].add)
    BY <1>2, <2>1, ConsumeAllAdds
  <2> QED
    BY <1>2, <2>2, <2>3
<1>6. \A n \in 1 .. k : n \notin F => h[n] = h[n - 1]
  BY <1>2, <1>4
<1>7. h[0] = G
  BY <1>2, <1>4
<1> DEFINE Ups(n, p) == p \in G \/ \E m \in F : m <= n /\ p \in Reached(m) \ h[m - 1]
           Downs(n, p) == \E m \in F : m <= n /\ p \in Reached(m) \ h[m]
           Good(n) == /\ \A p : p \in h[n] <=> Ups(n, p) /\ ~Downs(n, p)
                      /\ h[n] \subseteq G \cup A
                      /\ \A m \in F : m <= n => h[n] \cap L[m].del = {}
           T == {n \in Nat : n <= k => Good(n)}
<1> HIDE DEF L, k, F, A, D, Reached
<1>8. 0 \in T
  <2>1. \A m \in F : ~(m <= 0)
    BY <1>2
  <2> QED
    BY <1>7, <2>1
<1>9. ASSUME NEW n \in T PROVE n + 1 \in T
  <2>1. SUFFICES ASSUME n + 1 <= k PROVE Good(n + 1)
    OBVIOUS
  <2>2. n \in Nat /\ n + 1 \in 1 .. k /\ (n + 1) - 1 = n /\ n <= k
    BY <1>2, <2>1
  <2>3. Good(n)
    BY <2>2
  <2>4. \A m \in F : m <= n + 1 <=> m <= n \/ m = n + 1
    BY <1>2, <2>2
  <2>5. CASE n + 1 \notin F
    <3>1. h[n + 1] = h[n] /\ \A m \in F : m <= n + 1 <=> m <= n
      BY <1>6, <2>2, <2>4, <2>5
    <3> QED
      BY <2>3, <3>1
  <2>6. CASE n + 1 \in F
    <3> DEFINE N == Reached(n + 1)
               del == L[n + 1].del
    <3>1. h[n + 1] = N \ del /\ h[n] \subseteq N /\ N \subseteq h[n] \cup A /\ del \subseteq D
      BY <1>2, <1>5, <2>2, <2>6
    <3>2. \A p : Ups(n + 1, p) <=> Ups(n, p) \/ p \in N \ h[n]
      BY <2>2, <2>4, <2>6
    <3>3. \A p : Downs(n + 1, p) <=> Downs(n, p) \/ p \in N \ h[n + 1]
      BY <2>2, <2>4, <2>6
    <3>4. \A p : Downs(n, p) => p \in D
      <4>1. \A m \in F : Reached(m) \ h[m] \subseteq D
        BY <1>2, <1>5
      <4> QED
        BY <4>1
    <3> HIDE DEF N, del
    <3>5. h[n + 1] \subseteq G \cup A
      BY <2>3, <3>1
    <3>6. \A m \in F : m <= n + 1 => h[n + 1] \cap L[m].del = {}
      <4> SUFFICES ASSUME NEW m \in F, m <= n + 1 PROVE h[n + 1] \cap L[m].del = {}
        OBVIOUS
      <4>1. CASE m = n + 1
        BY <3>1, <4>1 DEF del
      <4>2. CASE m <= n
        <5>1. h[n] \cap L[m].del = {}
          BY <2>3, <4>2
        <5>2. L[m].del \cap A = {}
          BY <1>2
        <5> QED
          BY <3>1, <5>1, <5>2
      <4> QED
        BY <2>4, <4>1, <4>2
    <3>7. ASSUME NEW p PROVE p \in h[n + 1] <=> Ups(n + 1, p) /\ ~Downs(n + 1, p)
      <4>1. p \in h[n] <=> Ups(n, p) /\ ~Downs(n, p)
        BY <2>3
      <4>2. /\ Ups(n + 1, p) <=> Ups(n, p) \/ p \in N \ h[n]
            /\ Downs(n + 1, p) <=> Downs(n, p) \/ p \in N \ h[n + 1]
            /\ Downs(n, p) => p \in D
        BY <3>2, <3>3, <3>4
      <4> HIDE DEF Ups, Downs
      <4>3. p \in h[n + 1] <=> p \in N /\ p \notin del
        BY <3>1
      <4>4. p \in N \ h[n] => p \in A /\ p \notin D
        BY <1>2, <3>1
      <4>5. p \in h[n] => p \in N
        BY <3>1
      <4> QED
        BY <4>1, <4>2, <4>3, <4>4, <4>5
    <3> QED
      BY <3>5, <3>6, <3>7
  <2> QED
    BY <2>5, <2>6
<1>10. Good(k)
  <2>1. T \in SUBSET Nat
    OBVIOUS
  <2>2. T = Nat
    <3> HIDE DEF T
    <3> QED
      BY <1>8, <1>9, <2>1, NatInductive
  <2>3. k \in T /\ k <= k
    BY <1>2, <2>2
  <2> QED
    BY <2>3
<1>11. \A m \in F : m <= k
  BY <1>2
<1>12. h[k] = (G \cup C) \ U
  <2>1. \A p : p \in h[k] <=> Ups(k, p) /\ ~Downs(k, p)
    BY <1>10
  <2>2. \A p : (Ups(k, p) <=> p \in G \cup C) /\ (Downs(k, p) <=> p \in U)
    BY <1>11
  <2> HIDE DEF Ups, Downs, C, U
  <2> QED
    BY <2>1, <2>2
<1>13. h[k] \subseteq (G \cup A) \ D
  <2>1. h[k] \subseteq G \cup A /\ \A m \in F : h[k] \cap L[m].del = {}
    BY <1>10, <1>11
  <2> QED
    BY <1>2, <2>1
<1> HIDE DEF C, U
<1> QED
  BY <1>1, <1>12, <1>13 DEF A, D

-----------------------------------------------------------------------------
(* Replaying a path. *)

\* Replay, from what the nodes remember.
ReplayIn(ns, n) ==
  LET after[i \in 0 .. Len(n)] ==
        ((IF i = 0 THEN {} ELSE after[i - 1]) \cup ns[SubSeq(n, 1, i)].consumed)
          \ ns[SubSeq(n, 1, i)].unconsumed
  IN after[Len(n)]

LEMMA ReplayIsIn == \A g, n : Replay(g, n) = ReplayIn(nodes, n)
  BY Zenon DEF Replay, ReplayIn, ResetGraph

\* The graph after each node of the path.
Earlier(f, i) == IF i = 0 THEN {} ELSE f[i - 1]

After(g, node) == (g \cup node.consumed) \ node.unconsumed

Follows(f, ns, n) == \A i \in 0 .. Len(n) : f[i] = After(Earlier(f, i), ns[SubSeq(n, 1, i)])

LEMMA ReplayFollows ==
  ASSUME NEW ns, NEW n \in Seq(Actions)
  PROVE  \E f : Follows(f, ns, n) /\ ReplayIn(ns, n) = f[Len(n)]
<1> DEFINE k == Len(n)
           c(i) == ns[SubSeq(n, 1, i)].consumed
           u(i) == ns[SubSeq(n, 1, i)].unconsumed
           Rec(f) == f = [i \in 0 .. k |-> ((IF i = 0 THEN {} ELSE f[i - 1]) \cup c(i)) \ u(i)]
           h == CHOOSE f : Rec(f)
           X == SUBSET UNION {c(i) : i \in 0 .. k}
           base == c(0) \ u(0)
           step == [i \in 1 .. k |-> [g \in X |-> (g \cup c(i)) \ u(i)]]
<1>1. ReplayIn(ns, n) = h[k]
  BY Zenon DEF ReplayIn
<1>2. k \in Nat
  BY LenProperties
<1>3. step \in [1 .. k -> [X -> X]] /\ base \in X
  <2> HIDE DEF c, u, k
  <2>1. \A i \in 0 .. k : c(i) \subseteq UNION {c(j) : j \in 0 .. k}
    OBVIOUS
  <2>2. \A i \in 1 .. k : i \in 0 .. k
    BY <1>2
  <2>3. 0 \in 0 .. k
    BY <1>2
  <2> QED
    BY <2>1, <2>2, <2>3
<1>4. \A i \in 1 .. k : \A g \in X : step[i][g] = (g \cup c(i)) \ u(i)
  OBVIOUS
<1> HIDE DEF X, step, base, k, c, u
<1>5. PICK f \in [0 .. k -> X] : IteratesUpto(f, k, base, step)
  BY <1>2, <1>3, RecursionUpto
<1>6. \A i \in 1 .. k : f[i - 1] \in X
  BY <1>2
<1>7. \A i \in 0 .. k : (IF i = 0 THEN base ELSE step[i][f[i - 1]])
                          = ((IF i = 0 THEN {} ELSE f[i - 1]) \cup c(i)) \ u(i)
  BY <1>2, <1>4, <1>6 DEF base
<1>8. Rec(f)
  BY <1>5, <1>7 DEF IteratesUpto
<1>9. Rec(h)
  BY <1>8, Zenon
<1> HIDE DEF h
<1>10. \A i \in 0 .. k : h[i] = ((IF i = 0 THEN {} ELSE h[i - 1]) \cup c(i)) \ u(i)
  BY <1>9, Zenon
<1> QED
  BY <1>1, <1>10 DEF Follows, Earlier, After, k, c, u

\* Paths whose nodes remember the same have the same graphs.
SameMemory(ns, n, ms, m, k) ==
  \A i \in 0 .. k : /\ ns[SubSeq(n, 1, i)].consumed = ms[SubSeq(m, 1, i)].consumed
                     /\ ns[SubSeq(n, 1, i)].unconsumed = ms[SubSeq(m, 1, i)].unconsumed

LEMMA SameReplay ==
  ASSUME NEW f, NEW g, NEW ns, NEW ms, NEW n \in Seq(Actions), NEW m \in Seq(Actions),
         Follows(f, ns, n), Follows(g, ms, m), NEW k \in Nat, k <= Len(n), k <= Len(m),
         SameMemory(ns, n, ms, m, k)
  PROVE  f[k] = g[k]
<1>1. Len(n) \in Nat /\ Len(m) \in Nat
  BY LenProperties
<1>2. ASSUME NEW i \in 0 .. k
      PROVE  /\ f[i] = After(Earlier(f, i), ns[SubSeq(n, 1, i)])
             /\ g[i] = After(Earlier(g, i), ns[SubSeq(n, 1, i)])
  <2>1. i \in 0 .. Len(n) /\ i \in 0 .. Len(m)
    BY <1>1
  <2>2. f[i] = After(Earlier(f, i), ns[SubSeq(n, 1, i)]) /\ g[i] = After(Earlier(g, i), ms[SubSeq(m, 1, i)])
    BY <2>1 DEF Follows
  <2>3. \A x : After(x, ms[SubSeq(m, 1, i)]) = After(x, ns[SubSeq(n, 1, i)])
    BY Zenon DEF After, SameMemory
  <2> QED
    BY <2>2, <2>3
<1> DEFINE T == {i \in Nat : i <= k => f[i] = g[i]}
<1>3. 0 \in T
  <2>1. 0 \in 0 .. k /\ Earlier(f, 0) = Earlier(g, 0)
    BY DEF Earlier
  <2> QED
    BY <1>2, <2>1
<1>4. ASSUME NEW i \in T PROVE i + 1 \in T
  <2>1. SUFFICES ASSUME i + 1 <= k PROVE f[i + 1] = g[i + 1]
    OBVIOUS
  <2>2. i + 1 \in 0 .. k /\ i + 1 # 0 /\ (i + 1) - 1 = i /\ f[i] = g[i]
    BY <2>1
  <2>3. Earlier(f, i + 1) = Earlier(g, i + 1)
    BY <2>2 DEF Earlier
  <2> QED
    BY <1>2, <2>2, <2>3
<1>5. T = Nat
  <2>1. T \in SUBSET Nat
    OBVIOUS
  <2> HIDE DEF T
  <2> QED
    BY <1>3, <1>4, <2>1, NatInductive
<1> QED
  BY <1>5

LEMMA WholePath ==
  ASSUME NEW n \in Seq(Actions)
  PROVE  /\ Len(n) \in Nat /\ SubSeq(n, 1, Len(n)) = n /\ SubSeq(n, 1, 0) = Root
<1>1. Len(n) \in Nat /\ \A i \in 1 .. Len(n) : n[i] \in Actions
  BY LenProperties, ElementOfSeq
<1>2. /\ SubSeq(n, 1, Len(n)) \in Seq(Actions) /\ Len(SubSeq(n, 1, Len(n))) = Len(n)
      /\ \A i \in 1 .. Len(n) : SubSeq(n, 1, Len(n))[i] = n[i]
  BY <1>1, SubSeqProperties
<1>3. SubSeq(n, 1, Len(n)) = n
  BY <1>2, SeqEqual
<1>4. SubSeq(n, 1, 0) \in Seq(Actions) /\ Len(SubSeq(n, 1, 0)) = 0
  BY <1>1, SubSeqProperties
<1>5. SubSeq(n, 1, 0) = Root
  BY <1>4, EmptySeq DEF Root
<1> QED
  BY <1>1, <1>3, <1>5

LEMMA ReplayOfRoot ==
  ASSUME NEW ns
  PROVE  ReplayIn(ns, Root) = After({}, ns[Root])
<1>1. Root \in Seq(Actions) /\ Len(Root) = 0
  BY EmptySeq DEF Root
<1>2. PICK f : Follows(f, ns, Root) /\ ReplayIn(ns, Root) = f[Len(Root)]
  BY <1>1, ReplayFollows
<1>3. SubSeq(Root, 1, 0) = Root
  BY <1>1, WholePath
<1>4. f[0] = After(Earlier(f, 0), ns[SubSeq(Root, 1, 0)])
  <2>1. 0 \in 0 .. Len(Root)
    BY <1>1
  <2> QED
    BY <1>2, <2>1, Zenon DEF Follows
<1>5. Earlier(f, 0) = {}
  BY DEF Earlier
<1> QED
  BY <1>1, <1>2, <1>3, <1>4, <1>5, Zenon

LEMMA ReplayOfLonger ==
  ASSUME NEW ns, NEW n \in Seq(Actions), NEW m \in Seq(Actions), Len(m) = Len(n) + 1,
         SameMemory(ns, n, ns, m, Len(n))
  PROVE  ReplayIn(ns, m) = After(ReplayIn(ns, n), ns[m])
<1>1. Len(n) \in Nat /\ Len(n) <= Len(n) /\ Len(n) <= Len(m)
  BY LenProperties
<1>2. PICK f : Follows(f, ns, n) /\ ReplayIn(ns, n) = f[Len(n)]
  BY ReplayFollows
<1>3. PICK g : Follows(g, ns, m) /\ ReplayIn(ns, m) = g[Len(m)]
  BY ReplayFollows
<1>4. f[Len(n)] = g[Len(n)]
  BY <1>1, <1>2, <1>3, SameReplay
<1>5. SubSeq(m, 1, Len(m)) = m
  BY WholePath
<1>6. g[Len(m)] = After(Earlier(g, Len(m)), ns[SubSeq(m, 1, Len(m))])
  <2>1. Len(m) \in 0 .. Len(m)
    BY <1>1
  <2> QED
    BY <1>3, <2>1 DEF Follows
<1>7. Earlier(g, Len(m)) = g[Len(n)]
  BY <1>1 DEF Earlier
<1> QED
  BY <1>2, <1>3, <1>4, <1>5, <1>6, <1>7

LEMMA ReplayOfChild ==
  ASSUME NEW ns, NEW n \in Seq(Actions), NEW a \in Actions, NEW m, m = Append(n, a)
  PROVE  ReplayIn(ns, m) = After(ReplayIn(ns, n), ns[m])
<1>1. m \in Seq(Actions) /\ Len(m) = Len(n) + 1 /\ Len(n) \in Nat
  BY AppendProperties, LenProperties
<1>2. \A i \in 0 .. Len(n) : SubSeq(m, 1, i) = SubSeq(n, 1, i)
  <2> SUFFICES ASSUME NEW i \in 0 .. Len(n) PROVE SubSeq(m, 1, i) = SubSeq(n, 1, i)
    OBVIOUS
  <2>1. i + 1 \in 1 .. Len(n) + 1 /\ (i + 1) - 1 = i
    BY <1>1
  <2>2. CASE i < Len(n)
    <3>1. i + 1 \in 1 .. Len(n)
      BY <1>1, <2>2
    <3> QED
      BY <2>1, <3>1, PrefixesOfChild
  <2>3. CASE i = Len(n)
    <3>1. SubSeq(m, 1, i) = n
      BY <2>1, <2>3, PrefixesOfChild
    <3> QED
      BY <2>3, <3>1, WholePath
  <2> QED
    BY <1>1, <2>2, <2>3
<1>3. SameMemory(ns, n, ns, m, Len(n))
  BY <1>2 DEF SameMemory
<1> QED
  BY <1>1, <1>3, ReplayOfLonger

LEMMA ReplayIsStable ==
  ASSUME NEW ns, NEW ms, NEW n \in Seq(Actions),
         SameMemory(ns, n, ms, n, Len(n))
  PROVE  ReplayIn(ns, n) = ReplayIn(ms, n)
<1>1. PICK f : Follows(f, ns, n) /\ ReplayIn(ns, n) = f[Len(n)]
  BY ReplayFollows
<1>2. PICK g : Follows(g, ms, n) /\ ReplayIn(ms, n) = g[Len(n)]
  BY ReplayFollows
<1>3. Len(n) \in Nat /\ Len(n) <= Len(n)
  BY WholePath
<1>4. f[Len(n)] = g[Len(n)]
  BY <1>1, <1>2, <1>3, SameReplay
<1> QED
  BY <1>1, <1>2, <1>4

-----------------------------------------------------------------------------
(* The counts. *)

LEMMA PathsStayReplayed ==
  ASSUME SearchInv, PathInv, \A m \in DOMAIN nodes : SameCount(m), NEW n \in DOMAIN nodes
  PROVE  ReplayIn(nodes', n) = ReplayIn(nodes, n)
<1>1. n \in Seq(Actions) /\ Len(n) \in Nat /\ SubSeq(n, 1, Len(n)) = n
  BY WholePath DEF SearchInv, NodesInv
<1>2. ASSUME NEW i \in 0 .. Len(n) PROVE SubSeq(n, 1, i) \in DOMAIN nodes
  <2>1. CASE i = Len(n)
    BY <1>1, <2>1
  <2>2. CASE i # Len(n)
    <3>1. i + 1 \in 1 .. Len(n) /\ (i + 1) - 1 = i
      <4> DEFINE k == Len(n)
      <4>1. k \in Nat /\ i \in 0 .. k /\ i # k
        BY <1>1, <2>2
      <4> HIDE DEF k
      <4>2. i + 1 \in 1 .. k /\ (i + 1) - 1 = i
        BY <4>1
      <4> QED
        BY <4>2 DEF k
    <3>2. SubSeq(n, 1, (i + 1) - 1) \in DOMAIN nodes
      BY <3>1 DEF PathInv
    <3> QED
      BY <3>1, <3>2
  <2> QED
    BY <2>1, <2>2
<1>3. SameMemory(nodes', n, nodes, n, Len(n))
  BY <1>2 DEF SameMemory, SameCount
<1> QED
  BY <1>1, <1>3, ReplayIsStable

\* The counts in terms of what the nodes remember.
LEMMA CountsIn ==
  /\ CountsFollowPaths <=>
       \A n \in DOMAIN nodes :
         nodes[n].h2 = Count(ReplayIn(nodes, n)) /\ ReplayIn(nodes, n) \subseteq StateAt(n)
  /\ CountsFollowPaths' <=>
       \A n \in DOMAIN nodes' :
         nodes'[n].h2 = Count(ReplayIn(nodes', n)) /\ ReplayIn(nodes', n) \subseteq StateAt(n)'
<1>1. \A n : Replay(graph, n) = ReplayIn(nodes, n)
  BY ReplayIsIn
<1>2. \A n : Replay(graph, n)' = ReplayIn(nodes', n)
  BY Zenon DEF Replay, ReplayIn, ResetGraph
<1> QED
  BY <1>1, <1>2, Zenon DEF CountsFollowPaths

LEMMA SameCountsAreKept ==
  ASSUME SearchInv, PathInv, CountsFollowPaths, DOMAIN nodes' = DOMAIN nodes,
         \A m \in DOMAIN nodes : SameCount(m) /\ StateAt(m)' = StateAt(m)
  PROVE  CountsFollowPaths'
<1> SUFFICES ASSUME NEW n \in DOMAIN nodes
             PROVE  nodes'[n].h2 = Count(ReplayIn(nodes', n)) /\ ReplayIn(nodes', n) \subseteq StateAt(n)'
  BY CountsIn
<1>1. ReplayIn(nodes', n) = ReplayIn(nodes, n)
  BY PathsStayReplayed
<1>2. nodes[n].h2 = Count(ReplayIn(nodes, n)) /\ ReplayIn(nodes, n) \subseteq StateAt(n)
  BY CountsIn
<1> QED
  BY <1>1, <1>2 DEF SameCount

LEMMA GenerateKeepsCounts ==
  ASSUME EffectsDoNotInterfere, SearchInv, PathInv, CountsFollowPaths,
         NEW a \in todo, NEW n, NEW node, Generates(a, n, node)
  PROVE  CountsFollowPaths'
<1> DEFINE S == StateAt(head)
           R == ReplayIn(nodes, head)
           lists == ApplyAction(R, S, a)
<1>1. /\ head \in DOMAIN nodes /\ a \in Actions /\ S \in SUBSET Fluents
      /\ nodes[head].state.set = S
  BY HeadState, SetOfStateOf
<1>2. head \in Seq(Actions) /\ n = Append(head, a) /\ n \in Seq(Actions)
  BY <1>1, ChildOf DEF Generates, SearchInv, NodesInv
<1>3. /\ DOMAIN nodes' = DOMAIN nodes \cup {n} /\ n \notin DOMAIN nodes
      /\ \A m \in DOMAIN nodes : SameNode(m)
      /\ nodes'[n] = node
  BY GenerateEffect DEF Generates
<1>4. \A m \in DOMAIN nodes : StateAt(m)' = StateAt(m)
  BY GenerateStates DEF Generates
<1>5. StateAt(n)' = Progress(S, a)
  BY GenerateStates DEF Generates
<1>6. /\ Counted(a).lists = lists /\ Counted(a).h2 = Count(lists.graph)
  BY <1>1, ReplayIsIn DEF Counted
<1>7. node.h2 = Count(lists.graph) /\ node.consumed = lists.consumed /\ node.unconsumed = lists.unconsumed
  BY <1>6 DEF Generates
<1>8. /\ lists.graph = (R \cup lists.consumed) \ lists.unconsumed
      /\ lists.graph \subseteq (R \cup Added(a, S)) \ Deleted(a, S)
  BY <1>1, AppliedEffects DEF EffectsDoNotInterfere
<1> HIDE DEF lists, S
<1>9. \A m \in DOMAIN nodes : SameCount(m)
  BY <1>3 DEF SameNode, SameCount
<1>10. \A m \in DOMAIN nodes : ReplayIn(nodes', m) = ReplayIn(nodes, m)
  BY <1>9, PathsStayReplayed
<1>11. ReplayIn(nodes', n) = After(R, node)
  <2>1. ReplayIn(nodes', n) = After(ReplayIn(nodes', head), nodes'[n])
    BY <1>1, <1>2, ReplayOfChild
  <2> QED
    BY <1>1, <1>3, <1>10, <2>1
<1>12. R \subseteq S
  BY <1>1, CountsIn DEF S
<1> HIDE DEF R
<1>13. ReplayIn(nodes', n) = lists.graph
  BY <1>7, <1>8, <1>11 DEF After
<1>14. lists.graph \subseteq Progress(S, a)
  BY <1>8, <1>12 DEF Progress
<1>15. ASSUME NEW m \in DOMAIN nodes'
       PROVE  nodes'[m].h2 = Count(ReplayIn(nodes', m)) /\ ReplayIn(nodes', m) \subseteq StateAt(m)'
  <2>1. CASE m = n
    BY <1>3, <1>5, <1>7, <1>13, <1>14, <2>1
  <2>2. CASE m \in DOMAIN nodes
    <3>1. nodes[m].h2 = Count(ReplayIn(nodes, m)) /\ ReplayIn(nodes, m) \subseteq StateAt(m)
      BY <2>2, CountsIn
    <3> QED
      BY <1>4, <1>9, <1>10, <2>2, <3>1 DEF SameCount
  <2> QED
    BY <1>3, <2>1, <2>2
<1> QED
  BY <1>15, CountsIn

LEMMA CountsAreKept ==
  ASSUME EffectsDoNotInterfere
  PROVE  SearchInv /\ PathInv /\ CountsFollowPaths /\ [Next]_vars => CountsFollowPaths'
<1> SUFFICES ASSUME SearchInv, PathInv, CountsFollowPaths, [Next]_vars PROVE CountsFollowPaths'
  OBVIOUS
<1>1. CASE Start
  <2> DEFINE consumed == ConsumeAll(ConsumeAll({}, Init0), Init0)
  <2>1. /\ DOMAIN nodes' = {Root}
        /\ nodes'[Root].h2 = Count(consumed)
        /\ nodes'[Root].consumed = consumed /\ nodes'[Root].unconsumed = {}
    BY <1>1, StartStep
  <2>2. consumed \subseteq InitialFluents
    BY TaskAssumption, ConsumeAllAdds DEF InitialFluents
  <2> HIDE DEF consumed
  <2>3. ReplayIn(nodes', Root) = consumed
    BY <2>1, ReplayOfRoot DEF After
  <2>4. StateAt(Root)' = InitialFluents
    BY DEF StateAt
  <2> QED
    BY <2>1, <2>2, <2>3, <2>4, CountsIn
<1>2. CASE FindGoal \/ SkipClosed \/ Expand
  <2>1. PICK n \in open, fate \in {"closed", "duplicate"} : nodes' = Retire(n, fate)
    BY <1>2 DEF FindGoal, SkipClosed, Expand
  <2>2. DOMAIN nodes' = DOMAIN nodes /\ \A m \in DOMAIN nodes : SameCount(m)
    BY <2>1, RetireEffect DEF SameNode, SameCount
  <2>3. \A m \in DOMAIN nodes : StateAt(m)' = StateAt(m)
    BY <2>1, RetireStates
  <2> QED
    BY <2>2, <2>3, SameCountsAreKept
<1>3. CASE GenerateDeadEnd \/ GenerateNode
  <2>1. PICK a \in todo : \E n, node : Generates(a, n, node)
    BY <1>3, GenerateStep
  <2>2. PICK n, node : Generates(a, n, node)
    BY <2>1
  <2> QED
    BY <2>2, GenerateKeepsCounts
<1>4. CASE FinishExpansion \/ Exhausted \/ UNCHANGED vars
  <2>1. nodes' = nodes
    BY <1>4 DEF FinishExpansion, Exhausted, vars
  <2>2. \A m \in DOMAIN nodes : SameCount(m) /\ StateAt(m)' = StateAt(m)
    BY <2>1 DEF SameCount, StateAt
  <2> QED
    BY <2>1, <2>2, SameCountsAreKept
<1> QED
  BY <1>1, <1>2, <1>3, <1>4 DEF Next, Done

\* The count of a node is what the replay of its path gives, and the goals that count as
\* achieved are true in its state, for every task whose effects do not undo each other
\* (bfws_2h.hxx, update_land_graph; landmark_graph_manager.hxx, apply_action).
THEOREM CountsCorrect ==
  ASSUME EffectsDoNotInterfere
  PROVE  Spec => []CountsFollowPaths
<1>1. Init => CountsFollowPaths
  BY EmptySeq DEF Init, CountsFollowPaths
<1>2. SearchInv /\ PathInv /\ CountsFollowPaths /\ [Next]_vars => CountsFollowPaths'
  BY CountsAreKept
<1>3. Spec => []PathInv
  <2>1. Init => PathInv
    BY EmptySeq DEF Init, PathInv
  <2> QED
    BY <2>1, PathInvIsKept, SearchInvariant, PTL DEF Spec
<1> QED
  BY <1>1, <1>2, <1>3, SearchInvariant, PTL DEF Spec

-----------------------------------------------------------------------------
(* Relaxed reachability. *)

\* Fluents that no effect leads out of.
ClosedUnderEffects(C) ==
  \A p \in Fluents : (\E e \in AddingEffects(p) : Pre[e[1]] \cup Condition(e) \subseteq C) => p \in C

\* One round of the additive heuristic.
Improved(value) ==
  [p \in DOMAIN value \cup {q \in Fluents : Reachable(value, q) # {}} |->
     Lowest((IF p \in DOMAIN value THEN {value[p]} ELSE {}) \cup
            {EffectValue(value, e) : e \in Reachable(value, p)})]

\* The values after each round.
AddRounds(f, S, k) == f = [n \in 0 .. k |-> IF n = 0 THEN [p \in S |-> 0] ELSE Improved(f[n - 1])]

LEMMA AddRoundsExist ==
  ASSUME NEW S, NEW N \in Nat
  PROVE  \E f : AddRounds(f, S, N)
<1> DEFINE T == {k \in Nat : \E f : AddRounds(f, S, k)}
<1>1. 0 \in T
  <2> DEFINE f == [n \in 0 .. 0 |-> [p \in S |-> 0]]
  <2>1. AddRounds(f, S, 0)
    BY DEF AddRounds
  <2> QED
    BY <2>1
<1>2. ASSUME NEW k \in T PROVE k + 1 \in T
  <2>1. PICK f : AddRounds(f, S, k)
    OBVIOUS
  <2> DEFINE g == [n \in 0 .. k + 1 |-> IF n = k + 1 THEN Improved(f[k]) ELSE f[n]]
             base == [p \in S |-> 0]
  <2>2. \A n \in 0 .. k : f[n] = IF n = 0 THEN base ELSE Improved(f[n - 1])
    BY <2>1, Zenon DEF AddRounds
  <2>3. k \in Nat /\ \A n \in 0 .. k + 1 : g[n] = IF n = k + 1 THEN Improved(f[k]) ELSE f[n]
    OBVIOUS
  <2> HIDE DEF g, base
  <2>4. \A n \in 0 .. k + 1 : g[n] = IF n = 0 THEN base ELSE Improved(g[n - 1])
    BY <2>2, <2>3
  <2>5. g = [n \in 0 .. k + 1 |-> IF n = 0 THEN base ELSE Improved(g[n - 1])]
    BY <2>4 DEF g
  <2>6. AddRounds(g, S, k + 1)
    BY <2>5 DEF AddRounds, base
  <2> QED
    BY <2>3, <2>6
<1>3. T = Nat
  <2>1. T \in SUBSET Nat
    OBVIOUS
  <2> HIDE DEF T
  <2> QED
    BY <1>1, <1>2, <2>1, NatInductive
<1> QED
  BY <1>3

\* The fluents with a value after a round.
NextReached(D) ==
  D \cup {q \in Fluents : \E e \in AddingEffects(q) : Pre[e[1]] \cup Condition(e) \subseteq D}

\* The additive heuristic gives a value to whatever can be reached: as many rounds as there
\* are fluents are enough.
LEMMA ReachedIsClosed ==
  ASSUME NEW S \in SUBSET Fluents
  PROVE  S \subseteq DOMAIN H_Add(S) /\ ClosedUnderEffects(DOMAIN H_Add(S))
<1> DEFINE N == Cardinality(Fluents)
           h == CHOOSE f : AddRounds(f, S, N)
           D(n) == DOMAIN h[n]
           Fixed(n) == NextReached(D(n)) = D(n)
<1>1. H_Add(S) = h[N]
  BY Zenon DEF H_Add, AddRounds, Improved
<1>2. IsFiniteSet(Fluents) /\ N \in Nat
  BY TaskAssumption, FS_CardinalityType
<1> HIDE DEF N
<1>3. AddRounds(h, S, N)
  BY <1>2, AddRoundsExist, Zenon
<1> HIDE DEF h
<1>4. D(0) = S
  <2>1. 0 \in 0 .. N
    BY <1>2
  <2>2. h[0] = [p \in S |-> 0]
    BY <1>3, <2>1 DEF AddRounds
  <2> QED
    BY <2>2
<1>5. ASSUME NEW n \in Nat, n + 1 <= N PROVE D(n + 1) = NextReached(D(n))
  <2>1. n + 1 \in 0 .. N /\ n + 1 # 0 /\ (n + 1) - 1 = n
    BY <1>2, <1>5
  <2>2. h[n + 1] = Improved(h[n])
    BY <1>3, <2>1 DEF AddRounds
  <2>3. \A v : DOMAIN Improved(v) = NextReached(DOMAIN v)
    BY DEF Improved, NextReached, Reachable
  <2> QED
    BY <2>2, <2>3
<1> DEFINE T == {n \in Nat : n <= N =>
                   /\ S \subseteq D(n) /\ D(n) \subseteq Fluents
                   /\ Fixed(n) \/ Cardinality(D(n)) >= n}
<1> HIDE DEF D
<1>6. 0 \in T
  <2>1. IsFiniteSet(S) /\ Cardinality(S) \in Nat
    BY <1>2, FS_Subset, FS_CardinalityType
  <2> QED
    BY <1>4, <2>1
<1>7. ASSUME NEW n \in T PROVE n + 1 \in T
  <2>1. SUFFICES ASSUME n + 1 <= N
                 PROVE  /\ S \subseteq D(n + 1) /\ D(n + 1) \subseteq Fluents
                        /\ Fixed(n + 1) \/ Cardinality(D(n + 1)) >= n + 1
    OBVIOUS
  <2>2. /\ n \in Nat /\ S \subseteq D(n) /\ D(n) \subseteq Fluents
        /\ Fixed(n) \/ Cardinality(D(n)) >= n
    BY <1>2, <2>1
  <2>3. D(n + 1) = NextReached(D(n))
    BY <1>5, <2>1, <2>2
  <2>4. D(n) \subseteq D(n + 1) /\ D(n + 1) \subseteq Fluents
    BY <2>2, <2>3 DEF NextReached
  <2>5. CASE Fixed(n)
    <3>1. D(n + 1) = D(n)
      BY <2>3, <2>5
    <3>2. Fixed(n + 1)
      BY <2>5, <3>1
    <3> QED
      BY <2>2, <2>4, <3>2
  <2>6. CASE ~Fixed(n)
    <3>1. D(n) # D(n + 1) /\ Cardinality(D(n)) >= n
      BY <2>2, <2>3, <2>6
    <3>2. IsFiniteSet(D(n + 1))
      BY <1>2, <2>4, FS_Subset
    <3>3. Cardinality(D(n)) <= Cardinality(D(n + 1)) /\ Cardinality(D(n)) # Cardinality(D(n + 1))
      BY <2>4, <3>1, <3>2, FS_Subset
    <3>4. Cardinality(D(n)) \in Nat /\ Cardinality(D(n + 1)) \in Nat
      BY <2>4, <3>2, FS_Subset, FS_CardinalityType
    <3>5. Cardinality(D(n + 1)) >= n + 1
      BY <2>2, <3>1, <3>3, <3>4
    <3> QED
      BY <2>2, <2>4, <3>5
  <2> QED
    BY <2>5, <2>6
<1>8. S \subseteq D(N) /\ D(N) \subseteq Fluents /\ (Fixed(N) \/ Cardinality(D(N)) >= N)
  <2>1. T \in SUBSET Nat
    OBVIOUS
  <2>2. T = Nat
    <3> HIDE DEF T
    <3> QED
      BY <1>6, <1>7, <2>1, NatInductive
  <2>3. N \in T /\ N <= N
    BY <1>2, <2>2
  <2> QED
    BY <2>3
<1>9. Fixed(N)
  <2> SUFFICES ASSUME Cardinality(D(N)) >= N PROVE Fixed(N)
    BY <1>8
  <2>1. Cardinality(D(N)) <= N /\ Cardinality(D(N)) \in Nat
    BY <1>2, <1>8, FS_Subset, FS_CardinalityType DEF N
  <2>2. Cardinality(D(N)) = N
    BY <1>2, <2>1
  <2>3. D(N) = Fluents
    BY <1>2, <1>8, <2>2, FS_Subset DEF N
  <2> QED
    BY <2>3 DEF NextReached
<1>10. DOMAIN H_Add(S) = D(N)
  BY <1>1 DEF D
<1>11. ClosedUnderEffects(D(N))
  BY <1>9 DEF ClosedUnderEffects, NextReached
<1> QED
  BY <1>8, <1>10, <1>11

\* An action leads nowhere else from fluents that no effect leads out of.
LEMMA ProgressStaysWithin ==
  ASSUME NEW C, ClosedUnderEffects(C), NEW s \in SUBSET Fluents, s \subseteq C,
         NEW a \in Actions, Pre[a] \subseteq s
  PROVE  Progress(s, a) \subseteq C
<1> SUFFICES ASSUME NEW p \in Added(a, s) PROVE p \in C
  BY DEF Progress
<1>1. p \in Fluents
  BY AddedWithin
<1>2. CASE p \in ToSet(Add[a])
  <2> DEFINE e == <<a, 0>>
  <2>1. e \in AddingEffects(p)
    BY <1>2 DEF AddingEffects
  <2>2. Pre[e[1]] \cup Condition(e) \subseteq C
    BY DEF Condition
  <2> QED
    BY <1>1, <2>1, <2>2 DEF ClosedUnderEffects
<1>3. CASE p \notin ToSet(Add[a])
  <2>1. PICK f \in Firing(a, s) : p \in ToSet(f.add)
    BY <1>3 DEF Added, AddsOf
  <2>2. PICK i \in DOMAIN CondEffects[a] : f = CondEffects[a][i]
    BY DEF Firing, EffectsOf, ToSet
  <2> DEFINE e == <<a, i>>
  <2>3. e \in AddingEffects(p) /\ e[1] = a /\ e[2] = i
    BY <2>1, <2>2 DEF AddingEffects
  <2>4. i # 0
    <3>1. Len(CondEffects[a]) \in Nat /\ DOMAIN CondEffects[a] = 1 .. Len(CondEffects[a])
      BY TaskAssumption, LenProperties
    <3> QED
      BY <3>1
  <2>5. Condition(e) \subseteq s
    BY <2>2, <2>3, <2>4 DEF Condition, Firing
  <2> HIDE DEF e
  <2> QED
    BY <1>1, <2>3, <2>5 DEF ClosedUnderEffects
<1> QED
  BY <1>2, <1>3

\* The states that can be reached are finitely many states.
LEMMA ReachableStatesAreStates == ReachableStates \subseteq SUBSET Fluents /\ IsFiniteSet(ReachableStates)
<1> DEFINE X == SUBSET SUBSET Fluents
           N == Cardinality(SUBSET Fluents)
           All(states) == states \cup {Progress(t[1], t[2]) :
                            t \in {u \in states \X Actions : Pre[u[2]] \subseteq u[1]}}
           Rec(f) == f = [n \in 0 .. N |-> IF n = 0 THEN {InitialFluents} ELSE All(f[n - 1])]
           h == CHOOSE f : Rec(f)
           step == [n \in 1 .. N |-> [states \in X |-> All(states)]]
           base == {InitialFluents}
<1>1. ReachableStates = h[N]
  BY Zenon DEF ReachableStates
<1>2. IsFiniteSet(SUBSET Fluents) /\ N \in Nat
  BY TaskAssumption, FS_SUBSET, FS_CardinalityType
<1>3. ASSUME NEW states \in X PROVE All(states) \in X
  <2>1. \A s \in states, a \in Actions : Progress(s, a) \subseteq Fluents
    BY ProgressWithin
  <2> QED
    BY <2>1
<1>4. base \in X
  BY TaskFacts
<1>5. /\ step \in [1 .. N -> [X -> X]]
      /\ \A n \in 1 .. N : \A states \in X : step[n][states] = All(states)
  <2> HIDE DEF All, X
  <2> QED
    BY <1>3
<1> HIDE DEF X, step, base, All, N
<1>6. PICK f \in [0 .. N -> X] : IteratesUpto(f, N, base, step)
  BY <1>2, <1>4, <1>5, RecursionUpto
<1>7. \A n \in 1 .. N : f[n - 1] \in X
  BY <1>2
<1>8. \A n \in 0 .. N : (IF n = 0 THEN base ELSE step[n][f[n - 1]]) = (IF n = 0 THEN base ELSE All(f[n - 1]))
  BY <1>2, <1>5, <1>7
<1>9. Rec(f)
  BY <1>6, <1>8 DEF IteratesUpto, base
<1>10. Rec(h)
  BY <1>9, Zenon
<1> HIDE DEF h
<1>11. \A n \in 0 .. N : h[n] = IF n = 0 THEN base ELSE All(h[n - 1])
  BY <1>10, Zenon DEF base
<1> DEFINE T == {n \in Nat : n <= N => h[n] \in X}
<1>12. 0 \in T
  BY <1>2, <1>4, <1>11
<1>13. ASSUME NEW n \in T PROVE n + 1 \in T
  <2>1. SUFFICES ASSUME n + 1 <= N PROVE h[n + 1] \in X
    OBVIOUS
  <2>2. n + 1 \in 0 .. N /\ n + 1 # 0 /\ (n + 1) - 1 = n /\ h[n] \in X
    BY <1>2, <2>1
  <2>3. h[n + 1] = All(h[n])
    BY <1>11, <2>2
  <2> QED
    BY <1>3, <2>2, <2>3
<1>14. h[N] \in X
  <2>1. T \in SUBSET Nat
    OBVIOUS
  <2>2. T = Nat
    <3> HIDE DEF T
    <3> QED
      BY <1>12, <1>13, <2>1, NatInductive
  <2> QED
    BY <1>2, <2>2
<1> QED
  BY <1>1, <1>2, <1>14, FS_Subset DEF X

\* The goals are within whatever holds a state from which they can be reached and that no
\* effect leads out of.
LEMMA SolvableWithin ==
  ASSUME NEW s \in SolvableStates, NEW C, ClosedUnderEffects(C), s \subseteq C
  PROVE  Goals \subseteq C
<1> DEFINE X == SUBSET ReachableStates
           N == Cardinality(ReachableStates)
           Back(solvable) == {t \in ReachableStates :
              t \in solvable \/ \E a \in Actions : Pre[a] \subseteq t /\ Progress(t, a) \in solvable}
           base == {t \in ReachableStates : Goals \subseteq t}
           Rec(f) == f = [n \in 0 .. N |-> IF n = 0 THEN base ELSE Back(f[n - 1])]
           h == CHOOSE f : Rec(f)
           step == [n \in 1 .. N |-> [solvable \in X |-> Back(solvable)]]
<1>1. SolvableStates = h[N]
  BY Zenon DEF SolvableStates
<1>2. ReachableStates \subseteq SUBSET Fluents /\ N \in Nat
  BY ReachableStatesAreStates, FS_CardinalityType
<1>3. /\ step \in [1 .. N -> [X -> X]] /\ base \in X
      /\ \A n \in 1 .. N : \A solvable \in X : step[n][solvable] = Back(solvable)
  OBVIOUS
<1> HIDE DEF X, step, base, Back, N
<1>4. PICK f \in [0 .. N -> X] : IteratesUpto(f, N, base, step)
  BY <1>2, <1>3, RecursionUpto
<1>5. \A n \in 1 .. N : f[n - 1] \in X
  BY <1>2
<1>6. \A n \in 0 .. N : (IF n = 0 THEN base ELSE step[n][f[n - 1]]) = (IF n = 0 THEN base ELSE Back(f[n - 1]))
  BY <1>2, <1>3, <1>5
<1>7. Rec(f)
  BY <1>4, <1>6 DEF IteratesUpto
<1>8. Rec(h)
  BY <1>7, Zenon
<1> HIDE DEF h
<1>9. \A n \in 0 .. N : h[n] = IF n = 0 THEN base ELSE Back(h[n - 1])
  BY <1>8, Zenon
<1> DEFINE Leads(t) == t \in ReachableStates /\ (t \subseteq C => Goals \subseteq C)
           T == {n \in Nat : n <= N => \A t \in h[n] : Leads(t)}
<1>10. 0 \in T
  <2>1. h[0] = base
    BY <1>2, <1>9
  <2> QED
    BY <2>1 DEF base
<1>11. ASSUME NEW n \in T PROVE n + 1 \in T
  <2>1. SUFFICES ASSUME n + 1 <= N, NEW t \in h[n + 1] PROVE Leads(t)
    OBVIOUS
  <2>2. n + 1 \in 0 .. N /\ n + 1 # 0 /\ (n + 1) - 1 = n /\ n <= N
    BY <1>2, <2>1
  <2>3. t \in Back(h[n]) /\ \A u \in h[n] : Leads(u)
    BY <1>9, <2>1, <2>2
  <2>4. CASE t \in h[n]
    BY <2>3, <2>4
  <2>5. CASE t \notin h[n]
    <3>1. PICK a \in Actions : Pre[a] \subseteq t /\ Progress(t, a) \in h[n]
      BY <2>3, <2>5 DEF Back
    <3>2. t \in ReachableStates /\ t \in SUBSET Fluents
      BY <1>2, <2>3 DEF Back
    <3>3. t \subseteq C => Progress(t, a) \subseteq C
      BY <3>1, <3>2, ProgressStaysWithin
    <3>4. Progress(t, a) \subseteq C => Goals \subseteq C
      BY <2>3, <3>1
    <3> QED
      BY <3>2, <3>3, <3>4
  <2> QED
    BY <2>4, <2>5
<1>12. \A t \in h[N] : Leads(t)
  <2>1. T \in SUBSET Nat
    OBVIOUS
  <2>2. T = Nat
    <3> HIDE DEF T
    <3> QED
      BY <1>10, <1>11, <2>1, NatInductive
  <2> QED
    BY <1>2, <2>2
<1> QED
  BY <1>1, <1>12

\* No plan leads on from a state without a relaxed plan.
LEMMA RelaxedDeadEndsAreDeadEnds ==
  ASSUME NEW s \in SUBSET Fluents, IsRelaxedDeadEnd(s)
  PROVE  s \notin SolvableStates
<1>1. s \subseteq DOMAIN H_Add(s) /\ ClosedUnderEffects(DOMAIN H_Add(s))
  BY ReachedIsClosed
<1> QED
  BY <1>1, SolvableWithin DEF IsRelaxedDeadEnd

-----------------------------------------------------------------------------
(* Dead ends. *)

\* The successor that the relaxed plan is looked for in is the one the new node stands for.
LEMMA SuccessorIsProgress ==
  ASSUME EffectsDoNotInterfere, SearchInv, NEW a \in todo
  PROVE  Successor(Counted(a), a) = Progress(StateAt(head), a)
<1> DEFINE S == StateAt(head)
           deleted == S \cap Deleted(a, S)
           kept == S \ deleted
<1>1. a \in Actions /\ S \in SUBSET Fluents /\ Counted(a).state = StateOf(S)
  BY HeadState
<1>2. Successor(Counted(a), a) = kept \cup (Added(a, kept) \ kept)
  BY <1>1 DEF Successor, ProgressListed, ListedAdds, ListedDeletes, StateOf
<1>3. Firing(a, kept) = Firing(a, S)
  <2>1. \A e \in Firing(a, S) : e.pre \cap Deleted(a, S) = {}
    BY <1>1 DEF EffectsDoNotInterfere
  <2> QED
    BY <2>1 DEF Firing
<1>4. Added(a, kept) = Added(a, S)
  BY <1>3 DEF Added
<1>5. kept = S \ Deleted(a, S)
  OBVIOUS
<1> HIDE DEF S, kept
<1> QED
  BY <1>2, <1>4, <1>5 DEF Progress, S

LEMMA DeadInvIsKept ==
  ASSUME EffectsDoNotInterfere
  PROVE  SearchInv /\ DeadInv /\ [Next]_vars => DeadInv'
<1> SUFFICES ASSUME SearchInv, DeadInv, [Next]_vars PROVE DeadInv'
  OBVIOUS
<1>1. CASE Start
  <2>1. /\ DOMAIN nodes' = {Root}
        /\ nodes'[Root].fate = "dead_end" => IsRelaxedDeadEnd(InitialFluents)
    BY <1>1, StartStep
  <2> QED
    BY <2>1 DEF DeadInv, StateAt
<1>2. CASE FindGoal \/ SkipClosed \/ Expand
  <2>1. PICK n \in open, fate \in {"closed", "duplicate"} : nodes' = Retire(n, fate)
    BY <1>2 DEF FindGoal, SkipClosed, Expand
  <2>2. /\ DOMAIN nodes' = DOMAIN nodes /\ nodes'[n].fate # "dead_end"
        /\ \A m \in DOMAIN nodes \ {n} : nodes'[m].fate = nodes[m].fate
    BY <2>1, RetireEffect DEF SameNode
  <2>3. \A m \in DOMAIN nodes : StateAt(m)' = StateAt(m)
    BY <2>1, RetireStates
  <2> QED
    BY <2>2, <2>3 DEF DeadInv
<1>3. CASE GenerateDeadEnd \/ GenerateNode
  <2>1. PICK a \in todo : \E n, node : Generates(a, n, node)
    BY <1>3, GenerateStep
  <2>2. PICK n, node : Generates(a, n, node)
    BY <2>1
  <2>3. /\ DOMAIN nodes' = DOMAIN nodes \cup {n} /\ nodes'[n] = node
        /\ \A m \in DOMAIN nodes : nodes'[m].fate = nodes[m].fate
    BY <2>2, GenerateEffect DEF Generates, SameNode
  <2>4. /\ \A m \in DOMAIN nodes : StateAt(m)' = StateAt(m)
        /\ StateAt(n)' = Progress(StateAt(head), a)
    BY <2>2, GenerateStates DEF Generates
  <2>5. node.fate = "dead_end" => IsRelaxedDeadEnd(Progress(StateAt(head), a))
    BY <2>2, SuccessorIsProgress DEF Generates
  <2>6. ASSUME NEW m \in DOMAIN nodes', nodes'[m].fate = "dead_end" PROVE IsRelaxedDeadEnd(StateAt(m)')
    <3>1. CASE m = n
      BY <2>3, <2>4, <2>5, <2>6, <3>1
    <3>2. CASE m \in DOMAIN nodes
      BY <2>3, <2>4, <2>6, <3>2 DEF DeadInv
    <3> QED
      BY <2>3, <3>1, <3>2
  <2>7. \A m \in DOMAIN nodes' : nodes'[m].fate = "dead_end" => IsRelaxedDeadEnd(StateAt(m))'
    BY <2>6 DEF IsRelaxedDeadEnd
  <2> QED
    BY <2>7 DEF DeadInv
<1>4. CASE FinishExpansion \/ Exhausted \/ UNCHANGED vars
  <2>1. nodes' = nodes
    BY <1>4 DEF FinishExpansion, Exhausted, vars
  <2> QED
    BY <2>1 DEF DeadInv, StateAt
<1> QED
  BY <1>1, <1>2, <1>3, <1>4 DEF Next, Done

\* A node is only dropped as a dead end if no plan leads on from its state, for every task
\* whose effects do not undo each other: the relaxed plan is looked for in that state, and
\* the additive heuristic reaches all that can be reached (bfws_2h.hxx, eval and
\* set_relplan; h_1.hxx).
THEOREM DeadEndsCorrect ==
  ASSUME EffectsDoNotInterfere
  PROVE  Spec => []DeadEndsAreReal
<1>1. Init => DeadInv
  BY EmptySeq DEF Init, DeadInv
<1>2. SearchInv /\ DeadInv /\ [Next]_vars => DeadInv'
  BY DeadInvIsKept
<1>3. SearchInv /\ DeadInv => DeadEndsAreReal
  <2> SUFFICES ASSUME SearchInv, DeadInv, NEW n \in DOMAIN nodes, nodes[n].fate = "dead_end"
               PROVE  StateAt(n) \notin SolvableStates
    BY DEF DeadEndsAreReal
  <2>1. StateAt(n) \in SUBSET Fluents /\ IsRelaxedDeadEnd(StateAt(n))
    BY StateAtWithin DEF DeadInv
  <2> QED
    BY <2>1, RelaxedDeadEndsAreDeadEnds
<1> QED
  BY <1>1, <1>2, <1>3, SearchInvariant, PTL DEF Spec

=============================================================================
