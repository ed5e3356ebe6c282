---------------------------- MODULE Preprocessor ----------------------------
(***************************************************************************)
(* The preprocessor (src/preprocess/planner.cc): it reads the translated   *)
(* task, leaves out the variables that do not influence the goal, looks    *)
(* for mutexes forward from the initial state and backward from the goal   *)
(* in turns (compute_h2_mutexes), each time pruning and disambiguating     *)
(* operators with what it has found, and writes what is left of the task,  *)
(* or a dummy task without a plan.  The time limit may expire before any   *)
(* round of the fixpoint.  Tasks with axioms skip all of this.             *)
(***************************************************************************)
EXTENDS H2Mutexes

CONSTANTS
  Variables,
  Values,      \* [Variables -> sets of numbers]
  Tasks        \* [ops, init, goal, groups]: operators in their order, a state, facts, sets of facts

Facts == UNION {{v} \X Values[v] : v \in Variables}

\* What the translator writes (validate in sas_tasks.py): an effect on a variable is the
\* only one, apart from conditional ones, and what the variable must be is its pre.
IsOperator(op) ==
  /\ op \in [prevail : SUBSET Facts,
             effects : SUBSET [var : Variables, pre : Int, post : Int, conds : SUBSET Facts]]
  /\ \A e \in op.effects : /\ <<e.var, e.post>> \in Facts
                           /\ e.pre # NONE => <<e.var, e.pre>> \in Facts
  /\ \A e, f \in Unconditional(op) : e.var = f.var => e = f
  /\ \A p \in op.prevail : p[1] \notin EffectVars(op)

IsTask(t) ==
  /\ t.ops \in Seq({t.ops[i] : i \in DOMAIN t.ops})
  /\ \A i \in DOMAIN t.ops : IsOperator(t.ops[i])
  /\ t.init \in [Variables -> Nat] /\ FactsOf(t.init) \subseteq Facts
  /\ t.goal \subseteq Facts
  /\ \A g \in t.groups : g \subseteq Facts

ASSUME PreprocessorAssumption ==
  /\ IsFiniteSet(Variables)
  /\ Values \in [Variables -> SUBSET Nat]
  /\ \A v \in Variables : IsFiniteSet(Values[v])
  /\ \A t \in Tasks : IsTask(t)

VARIABLES
  task,        \* what was read
  options,     \* include_augmented_preconditions and disable_bw_h2
  pc,          \* iterate, compute, conclude, reduce, done
  operators,   \* what is left of the operators, by their position in the task
  mutexes,     \* mutex groups as sets of facts
  h,           \* the H2Mutexes object
  update,      \* update_progression and update_regression, by the value of regression
  regression,
  output       \* the file written

taskVars == <<task, options>>
loopVars == <<update, regression>>
vars == <<taskVars, pc, operators, mutexes, h, loopVars, output>>

OfVariables(variables) == UNION {{v} \X Values[v] : v \in variables}

AllOps(ops) == {ops[i] : i \in DOMAIN ops}

InitFacts == {f \in FactsOf(task.init) : f \in h.facts}

Protected == InitFacts \cup task.goal

\* strip_mutexes: groups that relate two variables.
StripMutexes(groups, variables) ==
  {g \in {{f \in group : f[1] \in variables} : group \in groups} : \E p, q \in g : p[1] # q[1]}

\* strip_operators, for operators that know what they are called.
StripOperators(ops, variables) ==
  LET stripped == [i \in DOMAIN ops |-> StripEffects(ops[i], variables)]
  IN  [i \in {k \in DOMAIN ops : stripped[k].effects # {} /\ ~stripped[k].spurious} |-> stripped[i]]

NoOutput == [status |-> "none"]

\* generate_unsolvable_cpp_input.
Unsolvable == [status |-> "unsolvable"]

Error == [status |-> "error"]

Fresh(op) == [prevail |-> op.prevail, effects |-> op.effects,
              spurious |-> FALSE, augmented |-> {}, potential |-> {}]

Init ==
  /\ task \in Tasks
  /\ options \in [include_augmented_preconditions : BOOLEAN, no_bw_h2 : BOOLEAN]
  /\ LET important == ImportantVars(AllOps(task.ops), task.goal)
     IN  /\ operators = StripOperators([i \in DOMAIN task.ops |-> Fresh(task.ops[i])], important)
         /\ mutexes = StripMutexes(task.groups, important)
         /\ h = Initialize(OfVariables(important), mutexes)
  /\ pc = "iterate"
  /\ update = [backward \in BOOLEAN |-> TRUE]
  /\ regression = FALSE
  /\ output = NoOutput

\* planner.cc:89-97.
DisableBackward == options.no_bw_h2 \/ \E op \in AllOps(operators) : HasConditionalEffects(op)

Finish(file) == pc' = "done" /\ output' = file

\* The condition of the loop, with the values the flags have then.
LoopWhile(flags) == pc' = IF flags[TRUE] \/ flags[FALSE] THEN "iterate" ELSE "reduce"

-----------------------------------------------------------------------------
(* compute_h2_mutexes.                                                     *)

\* Nothing changed for this direction: turn to the other one.
NothingToUpdate ==
  /\ pc = "iterate"
  /\ ~update[regression]
  /\ regression' = ~regression
  /\ LoopWhile(update)
  /\ UNCHANGED <<taskVars, operators, mutexes, h, update, output>>

\* The continue in the loop: the direction stays.
SkipBackward ==
  /\ pc = "iterate"
  /\ update[regression] /\ regression /\ DisableBackward
  /\ update' = [update EXCEPT ![regression] = FALSE]
  /\ LoopWhile(update')
  /\ UNCHANGED <<taskVars, operators, mutexes, h, regression, output>>

\* The beginning of H2Mutexes::compute.
StartCompute ==
  /\ pc = "iterate"
  /\ update[regression] /\ ~(regression /\ DisableBackward)
  /\ update' = [update EXCEPT ![regression] = FALSE]
  /\ IF HoldsSpurious(h, IF regression THEN task.goal ELSE InitFacts)
     THEN Finish(Unsolvable) /\ UNCHANGED h
     ELSE /\ h' = IF regression THEN InitValuesRegression(h, task.goal) ELSE InitValuesProgression(h, InitFacts)
          /\ pc' = "compute"
          /\ UNCHANGED output
  /\ UNCHANGED <<taskVars, operators, mutexes, regression>>

\* init_h2_operators; spurious operators are not looked at.
EdgeOf(op) == IF regression THEN BackwardOp(h, op) ELSE ForwardOp(h, op)

LiveOps == {i \in DOMAIN operators : ~operators[i].spurious}

Edges == [i \in LiveOps |-> EdgeOf(operators[i])]

ComputeRound ==
  /\ pc = "compute"
  /\ h' = Round(h, Edges, Len(task.ops))
  /\ pc' = IF h' = h THEN "conclude" ELSE "compute"
  /\ UNCHANGED <<taskVars, operators, mutexes, loopVars, output>>

\* time_exceeded, asked before the first operator of a round and every 10000
\* operators; what a round that is given up has reached is not read again.
TimeExceeded ==
  /\ pc = "compute"
  /\ DOMAIN operators # {}
  /\ pc' = "reduce"
  /\ UNCHANGED <<taskVars, operators, mutexes, h, loopVars, output>>

\* The end of compute, detect_unreachable_fluents and remove_spurious_operators.
ConcludeIteration ==
  /\ pc = "conclude"
  /\ LET untriggered == {i \in LiveOps : ~Triggered(h, EdgeOf(operators[i]).pre)}
         concluded == Conclude(h)
         detected == DetectUnreachable(concluded)
         examined(i) == IF i \in untriggered THEN [operators[i] EXCEPT !.spurious = TRUE]
                        ELSE IF operators[i].spurious THEN operators[i]
                        ELSE RemoveAmbiguity(detected, operators[i])
         mutexesDetected == NewMutexes(h) # {} \/ NewUnreachable(h) # {}
         spuriousDetected == \E i \in LiveOps \ untriggered : examined(i).spurious
         unreachableDetected == detected.unreachable # concluded.unreachable
     IN  IF (detected.unreachable \ h.unreachable) \cap Protected # {}
         THEN Finish(Unsolvable) /\ UNCHANGED <<operators, mutexes, h, loopVars>>
         ELSE /\ h' = detected
              /\ mutexes' = mutexes \cup NewMutexes(h)
              /\ operators' = [i \in DOMAIN operators |-> examined(i)]
              /\ update' = [backward \in BOOLEAN |->
                              \/ update[backward] \/ spuriousDetected \/ unreachableDetected
                              \/ mutexesDetected /\ backward # regression]
              /\ regression' = ~regression
              /\ LoopWhile(update')
              /\ UNCHANGED output
  /\ UNCHANGED taskVars

-----------------------------------------------------------------------------
(* The rest of main: unreachable values and variables with one value go,   *)
(* values are numbered again, the causal graph is built again.             *)

ReachableValues(v) == {d \in Values[v] : <<v, d>> \notin h.unreachable}

\* Mutant: a variable with two values left is taken for static.
Necessary_MoreThanTwo(v) == v \in {f[1] : f \in h.facts} /\ Cardinality(ReachableValues(v)) > 2

\* Variable::is_necessary.
Necessary(v) == v \in {f[1] : f \in h.facts} /\ Cardinality(ReachableValues(v)) > 1

OfNecessary(facts) == {f \in facts : Necessary(f[1])}

\* Variable::get_new_id, which ends the program if the fact is unreachable.
NewId(f) == <<f[1], Cardinality({d \in ReachableValues(f[1]) : d < f[2]})>>

Renumbered(facts) == {NewId(f) : f \in facts}

\* Every fact of an operator that gets a new number.
FactsToRenumber(op) ==
  OfNecessary(op.prevail \cup op.augmented \cup op.potential) \cup Pres(op) \cup Posts(op)

\* Mutant: the values that effects set keep their numbers.
RenumberOp_KeepsPosts(op) ==
  LET effect(e) == [var |-> e.var,
                    pre |-> IF e.pre = NONE THEN NONE ELSE NewId(<<e.var, e.pre>>)[2],
                    post |-> e.post,
                    conds |-> Renumbered(e.conds \ h.unreachable)]
  IN  [prevail |-> Renumbered(OfNecessary(op.prevail)),
       effects |-> {effect(e) : e \in op.effects},
       spurious |-> FALSE,
       augmented |-> Renumbered(OfNecessary(op.augmented)),
       potential |-> Renumbered(OfNecessary(op.potential))]

\* Operator::remove_unreachable_facts.  A condition that is unreachable is dropped.
RenumberOp(op) ==
  LET effect(e) == [var |-> e.var,
                    pre |-> IF e.pre = NONE THEN NONE ELSE NewId(<<e.var, e.pre>>)[2],
                    post |-> NewId(<<e.var, e.post>>)[2],
                    conds |-> Renumbered(e.conds \ h.unreachable)]
  IN  [prevail |-> Renumbered(OfNecessary(op.prevail)),
       effects |-> {effect(e) : e \in op.effects},
       spurious |-> FALSE,
       augmented |-> Renumbered(OfNecessary(op.augmented)),
       potential |-> Renumbered(OfNecessary(op.potential))]

\* include_augmented_preconditions.  The code looks at the first effect on the
\* variable only, which is the only one unless there are several conditional ones,
\* and takes it for an error if that has a precondition already.
IncludeAugmented(op) ==
  LET onEffect == {f \in op.augmented : f[1] \in EffectVars(op)}
      changes(e) == \E f \in onEffect : f[1] = e.var /\ f[2] # e.post
      already == {e \in op.effects : <<e.var, e.post>> \in onEffect}
      precondition(e) == [e EXCEPT !.pre = IF changes(e) THEN (CHOOSE f \in onEffect : f[1] = e.var)[2] ELSE @]
  IN  [op EXCEPT !.effects = {precondition(e) : e \in @ \ already},
                 !.prevail = @ \cup {f \in op.augmented : ~\E e \in op.effects : e.var = f[1] /\ changes(e)}]

\* What generate_cpp_input writes of an operator.
Written(op) == [prevail |-> op.prevail, effects |-> op.effects]

\* What main writes for what is left of the task.
Reduced ==
  LET live == [i \in LiveOps |-> operators[i]]
      renumbered == [i \in LiveOps |-> RenumberOp(operators[i])]
      goal == Renumbered(OfNecessary(task.goal))
      kept == {v \in ImportantVars(AllOps(renumbered), goal) : Necessary(v)}
      stripped == StripOperators(renumbered, kept)
  IN  IF \E i \in LiveOps : FactsToRenumber(live[i]) \cap h.unreachable # {} THEN Error
      ELSE IF InitFacts \cap h.unreachable # {} \/ kept = {} THEN Unsolvable
      ELSE [status |-> "written",
            variables |-> kept,
            init |-> [v \in kept |-> NewId(<<v, task.init[v]>>)[2]],
            goal |-> goal,
            operators |-> [i \in DOMAIN stripped |->
                             Written(IF options.include_augmented_preconditions
                                     THEN IncludeAugmented(stripped[i]) ELSE stripped[i])],
            mutexes |-> StripMutexes({Renumbered(OfNecessary(g \ h.unreachable)) : g \in mutexes}, kept)]

Reduce ==
  /\ pc = "reduce"
  /\ Finish(Reduced)
  /\ UNCHANGED <<taskVars, operators, mutexes, h, loopVars>>

Compute ==
  \/ NothingToUpdate
  \/ SkipBackward
  \/ StartCompute
  \/ ComputeRound
  \/ TimeExceeded
  \/ ConcludeIteration

Next ==
  \/ Compute
  \/ Reduce

Spec == Init /\ [][Next]_vars

\* The process goes on until it is done: weak fairness of Next, which is enabled exactly
\* as long as it is not, in a form that is quicker to check.
FairSpec == Spec /\ (<>[](pc = "done") \/ []<><<Next>>_vars)

=============================================================================
