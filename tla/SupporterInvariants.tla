------------------------ MODULE SupporterInvariants ------------------------
(***************************************************************************)
(* The inductive invariants behind the properties of an evaluation: what   *)
(* the relaxed plan needs is open or supported further on (PlanInv),       *)
(* whatever could be reached from what has been counted down is reached    *)
(* (CountInv, LayerInv), at the costs that define the functions (CmaxInv,  *)
(* SumInv, CaddInv).                                                       *)
(***************************************************************************)
EXTENDS SupporterProperties

\* What the theorems assume of a task, each where it is needed.
AddsNothingItRequires == \A a \in Actions : Pre[a] \cap Eff[a] = {}

RequiresNoMutex == \A a \in Actions : ~ContainsMutex(Pre[a])

\* The states are states, and the mutexes hold in them.
StatesAreConsistent == \A s \in EvaluatedStates : ~ContainsMutex(s)

-----------------------------------------------------------------------------
\* The heuristic between and in its evaluations.
DataInv ==
  /\ learned \in SUBSET Learnable /\ groups = CounterGroups(learned)
  /\ option \in Options /\ state \in EvaluatedStates
  /\ pc \in {"idle", "search", "extract"}
  /\ DOMAIN value = DOMAIN groups
  /\ DOMAIN supporters = Known_ /\ \A c \in Known_ : supporters[c] \subseteq Regressions(c)
  /\ pc = "extract" \/ Extracted => ~option.no_relaxed_plan_extraction

-----------------------------------------------------------------------------
(* The relaxed plan. *)

BsgNode ==
  [action : Actions \cup {END_ACTION}, supported : SUBSET Known_,
   preconditions : SUBSET (Known_ \cup {DummyPrecondition}), facts : SUBSET Facts]

\* One application of its action stands for all that a node supports.
IsApplication(node, a) ==
  /\ node \in BsgNode /\ node.action = a /\ a \in Actions
  /\ \A c \in node.supported : a \in Regressions(c) /\ Regression(a, c) \subseteq node.facts
  /\ \A c \in node.preconditions : c \subseteq node.facts
  /\ node.facts \cap Eff[a] \subseteq Pre[a]
  /\ RequiresNoMutex => ~ContainsMutex(node.facts)
  /\ option.cross_context => node.preconditions = Preconditions(node.facts, learned)

\* What is needed at the i-th node and does not hold from the start is open, or its
\* supporter is at a later position.
IsSupported(c, i) ==
  IF InitiallyTrue(c) THEN supporterPos[c] = NO_SUPPORTER
  ELSE \/ c \in openConjunctions
       \/ /\ supporterPos[c] > i /\ supporterPos[c] \in DOMAIN bsg
          /\ c \in bsg[supporterPos[c]].supported

GraphInv ==
  /\ bsg \in Seq(BsgNode) /\ bsg # <<>>
  /\ openConjunctions \subseteq {c \in Known_ : ~InitiallyTrue(c)}
  /\ supporterPos \in [Known_ -> Nat]
  /\ \A c \in Known_ : InitiallyTrue(c) => supporterPos[c] = NO_SUPPORTER
  /\ \A i \in DOMAIN bsg \ {1} : IsApplication(bsg[i], bsg[i].action)
  /\ Extracted => openConjunctions = {}

SupportInv == \A i \in DOMAIN bsg : \A c \in bsg[i].preconditions \cap Known_ : IsSupported(c, i)

PlanInv ==
  /\ pc = "search" => supporterPos = NoPositions(learned)
  /\ pc = "extract" \/ Extracted => GraphInv /\ (AddsNothingItRequires => SupportInv)

-----------------------------------------------------------------------------
(* The best supporter functions. *)

Reached(c) == cost[c] # UNREACHED

\* Reached, and counted down in every group that waits for it.
IsWaiting(c) == IF Additive THEN <<cost[c], c>> \in queue ELSE \E e \in queue : e[2] = c

Processed == {c \in DOMAIN cost : Reached(c) /\ ~IsWaiting(c)}

OpenGoals ==
  IF Additive THEN GoalConjunctions \ Processed ELSE {c \in GoalConjunctions : ~Reached(c)}

CostInv ==
  /\ cost \in [Known_ \cup {DummyPrecondition} -> Nat \cup {UNREACHED}]
  /\ groupCost \in [DOMAIN groups -> Nat]
  /\ h \in Nat
  /\ \A e \in queue : /\ e = <<e[1], e[2]>> /\ e[1] \in Nat
                      /\ e[2] \in Known_ \cup {DummyPrecondition}

\* The goals are not all reached: the groups are counted down for exactly what was
\* processed, those that wait for nothing else have been triggered, and in the queue
\* nothing is cheaper than what has left it.
CountInv ==
  pc = "search" /\ numOpenGoals > 0 =>
    /\ numOpenGoals = Cardinality(OpenGoals)
    /\ \A c \in DOMAIN cost : InitiallyTrue(c) => Reached(c)
    /\ \A e \in queue : Reached(e[2]) /\ (Additive => cost[e[2]] <= e[1])
    /\ Additive => \A c \in Processed : \A e \in queue : cost[c] <= e[1]
    /\ \A r \in DOMAIN groups :
         /\ value[r] = Cardinality(groups[r].waitsFor \ Processed)
         /\ groups[r].waitsFor \subseteq Processed => \A k \in groups[r].group : Reached(k[2])

\* What is reached is closed under the actions.
Closed ==
  /\ \A c \in DOMAIN cost : InitiallyTrue(c) => Reached(c)
  /\ \A r \in DOMAIN groups :
       (\A c \in groups[r].waitsFor : Reached(c)) => \A k \in groups[r].group : Reached(k[2])

\* From every state, the states within n actions.
Within[n \in Nat] ==
  IF n = 0 THEN [s \in EvaluatedStates |-> {s}]
  ELSE LET within == Within[n - 1]
       IN [s \in EvaluatedStates |->
             within[s] \cup {t \in EvaluatedStates :
                               \E p \in within[s], a \in Actions : Pre[a] \subseteq p /\ t = Successor(p, a)}]

Covered(s) == \A c \in Known_ : c \subseteq s => Reached(c)

\* The layers have reached what that many actions can reach, and fewer actions reach
\* no goal.
LayerInv ==
  /\ pc = "search" /\ ~Additive /\ numOpenGoals > 0 => \A s \in Within[h][state] : Covered(s)
  /\ pc = "search" /\ ~Additive => \A n \in 0 .. h - 1 : state \notin SolvedWithin[n]
  /\ pc # "search" /\ ~Additive /\ best # NONE =>
       \A n \in 0 .. best - 1 : state \notin SolvedWithin[n]

\* What was found of the state evaluated last.
ResultInv ==
  /\ best \in Nat \cup {DEAD_END, NONE} /\ (result # NONE \/ pc = "extract" => best # NONE)
  /\ result = DEAD_END /\ StatesAreConsistent => state \notin Solvable

-----------------------------------------------------------------------------
(* What the best supporter functions compute. *)

\* The layers have reached what the definition of h^Cmax reaches in as many rounds.
CmaxInv ==
  pc = "search" /\ ~Additive /\ numOpenGoals > 0 =>
    /\ h <= Cardinality({c \in Known_ : Reached(c)})
    /\ \A c \in Known_ : Reached(c) <=> c \in ReachedWithin(learned, state)[h]

\* The costs of what is processed are added up, of the goals and of what a group waits
\* for, and a group that waits for nothing else has offered its sum.
SumInv ==
  pc = "search" /\ Additive /\ numOpenGoals > 0 =>
    /\ h = SumFunctionOnSet(cost, GoalConjunctions \cap Processed)
    /\ \A c \in DOMAIN cost : InitiallyTrue(c) => cost[c] = 0
    /\ \A r \in DOMAIN groups :
         /\ groupCost[r] = SumFunctionOnSet(cost, groups[r].waitsFor \cap Processed)
         /\ groups[r].waitsFor \subseteq Processed =>
              \A k \in groups[r].group : cost[k[2]] <= groupCost[r] + ActionCost[k[1]]

\* A cost is one the definition of h^Cadd finds, in no more rounds than conjunctions were
\* processed before it.
RoundsFor(c) ==
  Cardinality(Processed \ {DummyPrecondition}) + (IF c \in Processed THEN 0 ELSE 1)

CaddInv ==
  pc = "search" /\ Additive /\ numOpenGoals > 0 =>
    \A c \in DOMAIN cost : Reached(c) =>
      \E n \in DOMAIN CaddWithin(learned, state) :
        /\ n <= RoundsFor(c)
        /\ c \in DOMAIN CaddWithin(learned, state)[n]
        /\ CaddWithin(learned, state)[n][c] <= cost[c]

\* The last goal is met with the value in h.
ExactInv ==
  /\ BestSupporterFunctionIsExact
  /\ pc = "search" => best = NONE
  /\ pc = "search" /\ numOpenGoals = 0 => h = ExactValue

=============================================================================
