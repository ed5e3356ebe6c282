----------------------- MODULE PreprocessorInvariants -----------------------
(***************************************************************************)
(* The inductive invariant of the preprocessor.  What it concludes about   *)
(* pairs of facts is sound for the states on the paths to the goal as long *)
(* as what it has concluded about operators is, and the other way round;   *)
(* the backward direction moreover relies on the forward one having        *)
(* written down the values that a variable may have before an operator.    *)
(***************************************************************************)
EXTENDS PreprocessorProperties

\* What the properties need of a task, and why: with conditional effects, or with a group
\* of the translator that is none, what is concluded is wrong.
NoConditionalEffects == \A op \in AllOps(task.ops) : ~HasConditionalEffects(op)

GroupsHold == \A s \in Useful : \A g \in task.groups : Cardinality(FactsOf(s) \cap g) <= 1

Important == ImportantVars(AllOps(task.ops), task.goal)

\* What an H2Mutexes object may hold about some facts.
VerdictsOn(facts) ==
  [facts : {facts}, unreachable : SUBSET facts, static : SUBSET facts,
   reached : SUBSET SUBSET facts, inconsistent : SUBSET SUBSET facts, spurious : SUBSET SUBSET facts]

\* What may be found out about an operator.
ExaminedOf(op, facts) ==
  [prevail : {op.prevail}, effects : {op.effects},
   spurious : BOOLEAN, augmented : SUBSET facts, potential : SUBSET facts]

\* The states and the operators keep the form they are given when the task is read.
PreprocessorType ==
  /\ task \in Tasks
  /\ options \in [include_augmented_preconditions : BOOLEAN, no_bw_h2 : BOOLEAN]
  /\ pc \in {"iterate", "compute", "conclude", "reduce", "done"}
  /\ LET important == Important
         facts == OfVariables(important)
     IN  /\ h \in VerdictsOn(facts)
         /\ \A g \in mutexes : g \subseteq facts
         /\ operators = [i \in {k \in DOMAIN task.ops : StripEffects(task.ops[k], important).effects # {}}
                          |-> operators[i]]
         /\ \A i \in DOMAIN operators :
              operators[i] \in ExaminedOf(StripEffects(task.ops[i], important), facts)
  /\ update \in [BOOLEAN -> BOOLEAN]
  /\ regression \in BOOLEAN

\* What has been added to an operator is about variables its preconditions leave open, one
\* value for each, and the operator does not need what is unreachable.
IsKnown(facts, op) ==
  /\ (Preconditions(op) \cup op.augmented) \cap facts = {}
  /\ \A p \in op.augmented : /\ \A q \in Preconditions(op) : p[1] # q[1]
                             /\ \A q \in op.augmented : p[1] = q[1] => p = q

KnownOfLiveOperators == \A i \in LiveOps : IsKnown(h.unreachable, operators[i])

\* Nothing of the initial state or the goal is unreachable: the program would have ended.
ProtectedAreReachable == Protected \cap h.unreachable = {}

\* While the fixpoint is computed, what it started with is reached, and it ends when a
\* round of all operators changes nothing.
ComputeIsStarted ==
  pc \in {"compute", "conclude"} =>
    IF regression THEN InitValuesRegression(h, task.goal).reached \subseteq h.reached
    ELSE InitValuesProgression(h, InitFacts).reached \subseteq h.reached

ComputeIsFixpoint == pc = "conclude" => Round(h, Edges, Len(task.ops)) = h

\* A file that is written is the one for the operators and mutexes that are left, and the
\* last that the program does.
OutputIsReduced == output.status = "written" => pc = "done" /\ output = Reduced

-----------------------------------------------------------------------------
(* What holds on the paths to the goal.                                    *)

\* No fact of a state is unreachable, and no two of them are mutex.
AgreesWith(hh, s) ==
  LET held == FactsOf(s) \cap hh.facts
  IN  /\ held \cap hh.unreachable = {}
      /\ \A p, q \in held : {p, q} \notin hh.spurious /\ {p, q} \notin hh.inconsistent

RespectsGroup(g, s) == \A p, q \in FactsOf(s) \cap g : p = q

\* The value that a variable has before an operator sets it is among the potential ones.
HasPotential(op, s) == \A e \in op.effects : e.pre = NONE => <<e.var, s[e.var]>> \in op.potential

AgreesWithOperator(op, s) ==
  /\ ~op.spurious
  /\ op.augmented \subseteq FactsOf(s)
  /\ op.potential # {} => HasPotential(op, s)
  /\ \A f \in op.potential : \E e \in op.effects : e.var = f[1] /\ e.pre = NONE

MutexesAreSound ==
  \A s \in Useful : AgreesWith(h, s) /\ \A g \in mutexes : RespectsGroup(g, s)

OperatorsAreSound ==
  \A step \in StepsWithin(Useful) :
    step[2] \in DOMAIN operators => AgreesWithOperator(operators[step[2]], step[1])

\* The first direction is the forward one, and its end examines every operator.
PotentialIsComplete ==
  regression \/ (pc = "iterate" /\ ~update[FALSE]) =>
    \A step \in StepsWithin(Useful) :
      step[2] \in DOMAIN operators => HasPotential(operators[step[2]], step[1])

Sound == NoConditionalEffects /\ GroupsHold => MutexesAreSound /\ OperatorsAreSound /\ PotentialIsComplete

\* A task whose initial state is a goal is declared unsolvable when all its goal variables
\* turn out to have one value: the empty plan is lost.
UnsolvableIsSound == NoConditionalEffects /\ GroupsHold /\ ~IsGoal(task.init) => UnsolvableMeansNoPlan

PreprocessorInv ==
  /\ PreprocessorType
  /\ KnownOfLiveOperators
  /\ ProtectedAreReachable
  /\ ComputeIsStarted
  /\ ComputeIsFixpoint
  /\ OutputIsReduced
  /\ Sound

=============================================================================
