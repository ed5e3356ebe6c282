---------------------------- MODULE StripsTask ----------------------------
(***************************************************************************)
(* The planning task as the BFWS planner sees it (strips_state.cxx,        *)
(* h_1.hxx, rp_heuristic_bfws.hxx): actions with conditional effects, the  *)
(* state object that is progressed to a successor and back again instead   *)
(* of copying it, and the relaxed plans of the additive heuristic.         *)
(*                                                                         *)
(* A state object holds its fluents twice: in a vector, of which the order *)
(* and the duplicates are left out, and in an inclusion set, which the     *)
(* membership tests read.                                                  *)
(***************************************************************************)
EXTENDS Integers, Sequences, FiniteSets, SequencesExt, TLC

CONSTANTS
  Fluents,
  Actions,
  Pre,          \* [Actions -> SUBSET Fluents]
  Add,          \* [Actions -> Seq(Fluents)], in the order of the action's vector
  Del,          \* [Actions -> SUBSET Fluents]
  CondEffects,  \* [Actions -> Seq([pre, del : SUBSET Fluents, add : Seq(Fluents)])]
  ActionCost,   \* [Actions -> Nat]
  Init0,        \* Seq(Fluents): the initial state, sorted by the fluents' indices
  Goal          \* Seq(Fluents)

Goals == ToSet(Goal)

InitialFluents == ToSet(Init0)

AddsOf(effects) == UNION {ToSet(e.add) : e \in effects}

DelsOf(effects) == UNION {e.del : e \in effects}

EffectsOf(a) == ToSet(CondEffects[a])

\* Everything the action can add, whether the conditions of its effects hold or not.
MayAdd(a) == ToSet(Add[a]) \cup AddsOf(EffectsOf(a))

ASSUME TaskAssumption ==
  /\ IsFiniteSet(Fluents)
  /\ ActionCost \in [Actions -> Nat]
  /\ Init0 \in Seq(Fluents)
  /\ Add \in [Actions -> Seq(Fluents)]
  /\ \A a \in Actions : CondEffects[a] \in Seq([pre : SUBSET Fluents, del : SUBSET Fluents, add : Seq(Fluents)])

\* The conditional effects of the action that fire in a set of fluents.
Firing(a, fluents) == {e \in EffectsOf(a) : e.pre \subseteq fluents}

Added(a, fluents) == ToSet(Add[a]) \cup AddsOf(Firing(a, fluents))

Deleted(a, fluents) == Del[a] \cup DelsOf(Firing(a, fluents))

StateOf(fluents) == [vec |-> fluents, set |-> fluents]

-----------------------------------------------------------------------------
\* What an action makes of a set of fluents.
Progress(fluents, a) == (fluents \ Deleted(a, fluents)) \cup Added(a, fluents)

\* State::progress_through, which makes a new state of the fluents of the vector;
\* the conditions are tested in the inclusion set.
ProgressThrough(state, a) == (state.vec \ Deleted(a, state.set)) \cup Added(a, state.set)

\* progress_lazy_state without lists: the inclusion set keeps the fluents of the
\* state the action is applied in.
ProgressLazy(state, a) ==
  [vec |-> (state.vec \ Deleted(a, state.set)) \cup (Added(a, state.set) \ state.set),
   set |-> state.set]

\* regress_lazy_state without lists
RegressLazy(state, a) ==
  [vec |-> {p \in state.vec : p \in state.set \/ p \notin Added(a, state.set)}
             \cup (Deleted(a, state.set) \cap state.set),
   set |-> state.set]

\* What progress_lazy_state returns in its two lists.  The deleted fluents leave the
\* inclusion set before the conditional effects are tested for what they add.
ListedDeletes(state, a) == state.vec \cap Deleted(a, state.set)

ListedAdds(state, a) ==
  LET kept == state.set \ ListedDeletes(state, a) IN Added(a, kept) \ kept

\* progress_lazy_state with lists: vector and inclusion set
ProgressListed(state, a) ==
  [vec |-> (state.vec \ ListedDeletes(state, a)) \cup ListedAdds(state, a),
   set |-> (state.set \ ListedDeletes(state, a)) \cup ListedAdds(state, a)]

\* Mutant: the inclusion set keeps what the action added.
RegressListed_KeepsAdds(state, a, added, deleted) ==
  RegressLazy([vec |-> state.vec, set |-> state.set \cup deleted], a)

\* Mutant: what the action deleted comes back into the inclusion set only.
RegressListed_KeepsDeletes(state, a, added, deleted) ==
  [vec |-> RegressLazy([vec |-> state.vec, set |-> state.set \ added], a).vec,
   set |-> (state.set \ added) \cup deleted]

\* regress_lazy_state with the lists of the step that is taken back
RegressListed(state, a, added, deleted) ==
  RegressLazy([vec |-> state.vec, set |-> (state.set \ added) \cup deleted], a)

\* The state object after one round trip to the successor and back.
RoundTrip(state, a) == RegressLazy(ProgressLazy(state, a), a)

ListedRoundTrip(state, a) ==
  RegressListed(ProgressListed(state, a), a, ListedAdds(state, a), ListedDeletes(state, a))

-----------------------------------------------------------------------------
\* The effects that add p: the unconditional one has number 0.
AddingEffects(p) ==
  {<<a, 0>> : a \in {b \in Actions : p \in ToSet(Add[b])}} \cup
  {e \in UNION {{a} \X DOMAIN CondEffects[a] : a \in Actions} :
     p \in ToSet(CondEffects[e[1]][e[2]].add)}

Condition(e) == IF e[2] = 0 THEN {} ELSE CondEffects[e[1]][e[2]].pre

SumOver(value, S) == MapThenSumSet(LAMBDA p : value[p], S)

EffectValue(value, e) ==
  ActionCost[e[1]] + SumOver(value, Pre[e[1]]) + SumOver(value, Condition(e))

\* The effects that can fire when the fluents with a value are reached.
Reachable(value, p) ==
  {e \in AddingEffects(p) : Pre[e[1]] \cup Condition(e) \subseteq DOMAIN value}

Lowest(S) == CHOOSE x \in S : \A y \in S : x <= y

\* H1_Heuristic with sums: the value of every fluent that is reached from a state.
H_Add(fluents) ==
  LET Better(value) ==
        [p \in DOMAIN value \cup {q \in Fluents : Reachable(value, q) # {}} |->
           Lowest((IF p \in DOMAIN value THEN {value[p]} ELSE {}) \cup
                  {EffectValue(value, e) : e \in Reachable(value, p)})]
      round[n \in 0 .. Cardinality(Fluents)] ==
        IF n = 0 THEN [p \in fluents |-> 0] ELSE Better(round[n - 1])
  IN round[Cardinality(Fluents)]

\* The best supporters of a reached fluent: ties may be broken in any way.
BestSupporters(value, p) ==
  {e \in Reachable(value, p) : \A f \in Reachable(value, p) : EffectValue(value, e) <= EffectValue(value, f)}

IsRelaxedDeadEnd(fluents) == ~(Goals \subseteq DOMAIN H_Add(fluents))

\* One best supporter for each of the fluents.
SupporterChoices(value, fluents) ==
  FoldSet(LAMBDA p, S : {c[1] @@ (p :> c[2]) : c \in S \X BestSupporters(value, p)},
          {<<>>}, fluents)

\* Relaxed_Plan_Extractor: the actions taken for the goals and, in turn, for what the
\* effects they are taken for need.  An action that is in the plan already is not taken
\* again, not even for another of its effects.
RelaxedPlans(fluents) ==
  LET value == H_Add(fluents)
      Taken(choice) ==
        LET Unmet(plan) ==
              {p \in UNION {Pre[e[1]] \cup Condition(e) : e \in plan} \ fluents :
                 \A e \in plan : e[1] # choice[p][1]}
            grow[n \in 0 .. Cardinality(Actions)] ==
              IF n = 0 THEN {{choice[p] : p \in Goals \ fluents}}
              ELSE UNION {IF Unmet(plan) = {} THEN {plan} ELSE {plan \cup {choice[p]} : p \in Unmet(plan)} :
                            plan \in grow[n - 1]}
        IN {{e[1] : e \in plan} : plan \in grow[Cardinality(Actions)]}
  IN UNION {Taken(choice) : choice \in SupporterChoices(value, DOMAIN value \ fluents)}

\* set_relplan: the fluents added by the actions of a relaxed plan, in any state.
RelevantFluents(fluents) ==
  {UNION {MayAdd(a) : a \in plan} : plan \in RelaxedPlans(fluents)}
=============================================================================
