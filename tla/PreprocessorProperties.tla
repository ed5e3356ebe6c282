----------------------- MODULE PreprocessorProperties -----------------------
(***************************************************************************)
(* What the preprocessor must keep of the task: everything that a plan can *)
(* go through.  The plans are those of the task as it was read, under the  *)
(* semantics of the search.                                                *)
(***************************************************************************)
EXTENDS Preprocessor

\* The states that agree with the initial one on what no operator changes.
StatesOf(ops, init) ==
  LET changed == UNION {EffectVars(op) : op \in ops}
  IN  {[v \in Variables |-> IF v \in changed THEN s[v] ELSE init[v]] :
         s \in {r \in [changed -> UNION {Values[v] : v \in Variables}] : \A v \in changed : r[v] \in Values[v]}}

AllStates == StatesOf(AllOps(task.ops), task.init)

Transitions(ops) ==
  LET states == AllStates
  IN  UNION {{<<s, Result(op, s)>> : s \in {r \in states : Applicable(op, r)}} : op \in ops}

IsGoal(s) == task.goal \subseteq FactsOf(s)

\* The states on the paths from the initial state to the goal.
Useful ==
  LET transitions == Transitions(AllOps(task.ops))
      reached == ReachableFrom({task.init}, transitions)
  IN  ReachableFrom({s \in reached : IsGoal(s)}, {<<e[2], e[1]>> : e \in {d \in transitions : d[1] \in reached}})

StepsWithin(states) ==
  {step \in states \X DOMAIN task.ops :
     Applicable(task.ops[step[2]], step[1]) /\ Result(task.ops[step[2]], step[1]) \in states}

Projection(s) == [v \in output.variables |-> NewId(<<v, s[v]>>)[2]]

\* No operator of the output mentions a variable that the output does not have.
WellFormed ==
  \A op \in AllOps(output.operators) :
    {f[1] : f \in Preconditions(op)} \cup UNION {{e.var} \cup {f[1] : f \in e.conds} : e \in op.effects}
      \subseteq output.variables

-----------------------------------------------------------------------------
\* What is pruned is on no path to the goal: no fact that was found unreachable, no pair
\* or group that was found mutex, forward or backward, and no operator that was found
\* spurious, however often the two directions built on each other's results.  And what
\* the disambiguation adds to an operator holds whenever a plan uses the operator, and
\* the potential values of a variable include the one it then has.
PrunedIsUseless ==
  pc \in {"iterate", "done"} =>
    LET useful == Useful
        steps == StepsWithin(Useful)
    IN  /\ \A s \in useful :
             /\ FactsOf(s) \cap h.unreachable = {}
             /\ ~HoldsSpurious(h, FactsOf(s) \cap h.facts)
             /\ \A g \in mutexes : Cardinality(FactsOf(s) \cap g) <= 1
        /\ \A step \in steps : step[2] \in DOMAIN operators =>
             LET s == step[1]
                 op == operators[step[2]]
             IN  /\ ~op.spurious
                 /\ op.augmented \subseteq FactsOf(s)
                 /\ \A f \in op.potential : <<f[1], s[f[1]]>> \in op.potential

\* The dummy task is only written for a task without a plan.
UnsolvableMeansNoPlan == output.status = "unsolvable" => Useful = {}

\* Every step of a plan that changes anything the output knows can be made in the output,
\* with the same effect, and goals are goals.
NoPlanIsLost ==
  output.status = "written" /\ (options.include_augmented_preconditions => WellFormed) =>
    LET steps == StepsWithin(Useful)
        useful == Useful
    IN  /\ output.init = Projection(task.init)
        /\ \A s \in useful : IsGoal(s) <=> output.goal \subseteq FactsOf(Projection(s))
        /\ \A step \in steps :
             LET before == Projection(step[1])
                 after == Projection(Result(task.ops[step[2]], step[1]))
             IN  \/ before = after
                 \/ /\ step[2] \in DOMAIN output.operators
                    /\ Applicable(output.operators[step[2]], before)
                    /\ Result(output.operators[step[2]], before) = after

\* A plan of the output is a plan of the task: the preconditions that were dropped hold
\* all along it, and it ends in a goal of the task.
OutputPlansArePlans ==
  output.status = "written" =>
    LET enabled(s) == {i \in DOMAIN output.operators : Applicable(output.operators[i], Projection(s))}
        followed == ReachableFrom({task.init}, UNION {{<<s, Result(task.ops[i], s)>> : i \in enabled(s)} : s \in AllStates})
    IN  \A s \in followed :
          /\ output.goal \subseteq FactsOf(Projection(s)) => IsGoal(s)
          /\ \A i \in enabled(s) :
               /\ Applicable(task.ops[i], s)
               /\ Result(output.operators[i], Projection(s)) = Projection(Result(task.ops[i], s))

\* The two directions come to an end.
Termination == <>(pc = "done")

=============================================================================
