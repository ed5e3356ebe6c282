------------------------------ MODULE SasTask ------------------------------
(***************************************************************************)
(* The finite-domain task that the preprocessor reads and writes           *)
(* (operator.h, causal_graph.cc), and what it means to the search          *)
(* (state_registry.cc).  A fact is a pair of a variable and a value; costs *)
(* and names, which the preprocessor hands through, are left out.          *)
(***************************************************************************)
EXTENDS Integers, FiniteSets

NONE == -1      \* the pre of an effect that has no precondition on its variable

\* An operator is [prevail : facts, effects : set of [var, pre, post, conds]].
Pres(op) == {<<e.var, e.pre>> : e \in {f \in op.effects : f.pre # NONE}}

Posts(op) == {<<e.var, e.post>> : e \in op.effects}

EffectVars(op) == {e.var : e \in op.effects}

Unconditional(op) == {e \in op.effects : e.conds = {}}

HasConditionalEffects(op) == Unconditional(op) # op.effects

Preconditions(op) == op.prevail \cup Pres(op)

FactsOf(state) == {<<v, state[v]>> : v \in DOMAIN state}

Applicable(op, state) == Preconditions(op) \subseteq FactsOf(state)

\* GlobalState StateRegistry::get_successor_state: the effects that fire, at once.
Result(op, state) ==
  LET Firing(v) == {e \in op.effects : e.var = v /\ e.conds \subseteq FactsOf(state)}
  IN  [v \in DOMAIN state |-> IF Firing(v) = {} THEN state[v] ELSE (CHOOSE e \in Firing(v) : TRUE).post]

\* All that can be reached from the nodes of a graph along its edges.
ReachableFrom(nodes, edges) ==
  LET all == nodes \cup {e[2] : e \in edges}
      closure[S \in SUBSET all] ==
        LET more == {e[2] : e \in {d \in edges : d[1] \in S}} \ S
        IN  IF more = {} THEN S ELSE closure[S \cup more]
  IN  closure[nodes]

\* The edges into a variable in the causal graph: what an effect on it depends on.
DependsOn(ops) ==
  LET edgesInto(op, e) == {<<e.var, f[1]>> : f \in Preconditions(op) \cup e.conds}
  IN  UNION {UNION {edgesInto(op, e) : e \in op.effects} : op \in ops}

\* calculate_important_vars and dfs: the goal variables and what influences them.
\* is_necessary is false of a variable with one value left, so dfs enters it again
\* whenever it meets it: it ends unless such variables influence each other in a
\* cycle, which the closure leaves out.
ImportantVars(ops, goal) == ReachableFrom({g[1] : g \in goal}, DependsOn(ops))

\* strip_unimportant_effects.
StripEffects(op, variables) == [op EXCEPT !.effects = {e \in @ : e.var \in variables}]

=============================================================================
