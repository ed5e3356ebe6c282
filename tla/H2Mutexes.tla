----------------------------- MODULE H2Mutexes -----------------------------
(***************************************************************************)
(* The reachability of pairs of facts (h2_mutexes.cc) and what it says     *)
(* about an operator (Operator::remove_ambiguity), as operators on what    *)
(* the class H2Mutexes holds:                                              *)
(*   h.facts         the facts of the variables that matter                *)
(*   h.spurious, h.reached   the pairs {p, q} with this verdict in         *)
(*                   m_values, {p} for p alone; the others are NOT_REACHED *)
(*   h.unreachable   the facts found unreachable                           *)
(*   h.static        static_fluents                                        *)
(*   h.inconsistent  inconsistent_facts: mutex pairs of two variables      *)
(* An operator also has what was found out about it: spurious, augmented   *)
(* (facts it has as preconditions without naming them) and potential (the  *)
(* values a variable that it sets without precondition may have before).   *)
(***************************************************************************)
EXTENDS SasTask, Sequences

Pairs(facts, others) == {{p, q} : p \in facts, q \in others}

SameVariable(h, p) == {q \in h.facts : q[1] = p[1] /\ q # p}

Inconsistent(h, p) == {q \in h.facts : {p, q} \in h.inconsistent}

\* What cannot hold together with one of the facts.
Rivals(h, facts) == UNION {SameVariable(h, p) \cup Inconsistent(h, p) : p \in facts}

AreMutex(h, p, q) == IF p[1] = q[1] THEN p # q ELSE {p, q} \in h.spurious

\* initialize: values of one variable and the mutex groups of the translator.
Initialize(facts, groups) ==
  LET known == {pair \in UNION {Pairs(g, g) : g \in groups} : \A p, q \in pair : p # q => p[1] # q[1]}
      mutex(pair) == \E p, q \in pair : p # q /\ (p[1] = q[1] \/ pair \in known)
  IN  [facts |-> facts, unreachable |-> {}, static |-> {}, reached |-> {},
       inconsistent |-> {pair \in known : Cardinality(pair) = 2},
       spurious |-> {pair \in Pairs(facts, facts) : mutex(pair)}]

Touching(pairs, facts) == {pair \in pairs : pair \cap facts # {}}

NotReached(h) == Pairs(h.facts, h.facts) \ (h.spurious \cup h.reached)

\* Whether facts that hold together cannot do so: check_goal_state_is_unreachable and
\* the return in the middle of init_values_progression.
HoldsSpurious(h, facts) == Pairs(facts, facts) \cap h.spurious # {}

InitValuesProgression(h, init) == [h EXCEPT !.reached = Pairs(init, init) \ h.spurious]

\* Whatever is not mutex with a goal, or another value of a goal variable.
InitValuesRegression(h, goal) ==
  LET pairs == Pairs(h.facts, h.facts)
  IN  [h EXCEPT !.reached = pairs \ (h.spurious \cup Touching(pairs, Rivals(h, goal)))]

-----------------------------------------------------------------------------
(* Op_h2: an operator as an edge between sets of facts.  Backward it is    *)
(* only built for operators without conditional effects (planner.cc:89-97).*)

ForwardOp(h, op) ==
  LET silent == {f \in op.augmented : f[1] \notin EffectVars(op)}
  IN  [pre |-> Preconditions(op) \cup op.augmented,
       add |-> Posts(op),
       del |-> Rivals(h, op.prevail \cup {<<e.var, e.post>> : e \in Unconditional(op)} \cup silent)]

\* Facts that every potential value excludes.  The code adds the value itself where it
\* means the other values of its variable; the fact is added by the operator anyway.
PotentialDeletes(h, potential) ==
  {q \in h.facts : \A p \in potential : q = p \/ q \in Inconsistent(h, p)}

\* Mutant: only the preconditions that are named are added backward.
BackwardOp_WithoutPotential(h, op) ==
  [pre |-> op.prevail \cup Posts(op) \cup {f \in op.augmented : f[1] \notin EffectVars(op)},
   add |-> Pres(op),
   del |-> Rivals(h, Preconditions(op) \cup op.augmented)]

BackwardOp(h, op) ==
  LET potentialOf(v) == {f \in op.potential : f[1] = v}
  IN  [pre |-> op.prevail \cup Posts(op) \cup {f \in op.augmented : f[1] \notin EffectVars(op)},
       add |-> Pres(op) \cup op.potential,
       del |-> Rivals(h, Preconditions(op) \cup op.augmented)
               \cup UNION {PotentialDeletes(h, potentialOf(f[1])) : f \in op.potential}]

\* eval_propositions: spurious pairs do not count against an operator.
Triggered(h, pre) == Pairs(pre, pre) \subseteq h.spurious \cup h.reached

\* The pairs that become reached by an operator: what it adds, together and with
\* what may have held before and is neither added nor deleted.
ReachedBy(h, edge) ==
  LET kept == {q \in h.facts \ (edge.add \cup edge.del) : Pairs({q}, {q} \cup edge.pre) \subseteq h.reached}
  IN  Pairs(edge.add, edge.add \cup kept)

ApplyOp(h, edge) ==
  IF Triggered(h, edge.pre) THEN [h EXCEPT !.reached = @ \cup (ReachedBy(h, edge) \ h.spurious)] ELSE h

\* One round of the fixpoint of compute: the edges of the operators in their order.
Round(h, edges, count) ==
  LET after[i \in 0 .. count] ==
        IF i = 0 THEN h
        ELSE IF i \in DOMAIN edges THEN ApplyOp(after[i - 1], edges[i])
        ELSE after[i - 1]
  IN  after[count]

-----------------------------------------------------------------------------
(* What compute and detect_unreachable_fluents conclude.                   *)

\* Mutant: the pairs that were spurious before count again.
NewMutexes_Again(h) ==
  {pair \in NotReached(h) \cup h.spurious : Cardinality(pair) = 2 /\ \A p \in pair : {p} \in h.reached}

NewMutexes(h) == {pair \in NotReached(h) : Cardinality(pair) = 2 /\ \A p \in pair : {p} \in h.reached}

NewUnreachable(h) == {p \in h.facts \ h.unreachable : {p} \in NotReached(h)}

\* The end of compute, when no new unreachable fact belongs to the initial state or the goal.
Conclude(h) ==
  [h EXCEPT !.spurious = @ \cup NotReached(h),
            !.unreachable = @ \cup NewUnreachable(h),
            !.inconsistent = @ \cup NewMutexes(h)]

\* The facts that are the only value left of their variable.
OnlyValues(h) == {p \in h.facts \ h.unreachable : SameVariable(h, p) \subseteq h.unreachable}

\* What a new static fact excludes is unreachable.
ExcludeByStatic(h) ==
  LET static == OnlyValues(h) \ h.static
      excluded == UNION {Inconsistent(h, p) : p \in static} \ h.unreachable
  IN  [h EXCEPT !.static = @ \cup static, !.unreachable = @ \cup excluded,
                !.reached = @ \ Touching(@, excluded)]

\* detect_unreachable_fluents with setPropositionNotReached: that may leave a fact of another
\* variable alone, and so on.  A round that excludes nothing is the last to change anything.
DetectUnreachable(h) ==
  LET after[k \in 0 .. Cardinality(h.facts) + 1] == IF k = 0 THEN h ELSE ExcludeByStatic(after[k - 1])
  IN  after[Cardinality(h.facts) + 1]

-----------------------------------------------------------------------------
(* Operator::remove_ambiguity.                                             *)

Contradictory(h, known) ==
  \E p \in known : p \in h.unreachable \/ \E q \in known : AreMutex(h, p, q)

\* Mutant: the effects exclude values also of the variables the operator sets.
Candidates_AfterEffects(h, op, known, v) ==
  {p \in h.facts : p[1] = v /\ p \notin h.unreachable
                   /\ \A q \in known \cup Posts(op) : ~AreMutex(h, p, q)}

\* The values a variable may have when the operator is applied: not mutex with what is
\* known, nor with an effect unless the operator sets the variable.
Candidates(h, op, known, v) ==
  {p \in h.facts : p[1] = v /\ p \notin h.unreachable
                   /\ \A q \in known \cup (IF v \in EffectVars(op) THEN {} ELSE Posts(op)) : ~AreMutex(h, p, q)}

\* A round of the disambiguation: single candidates are what the next round knows.
\* Each round starts from all values again, the candidates are not kept.
DisambiguationRound(h, op, r) ==
  LET candidates == [v \in r.unknown |-> Candidates(h, op, r.known, v)]
      single == UNION {candidates[v] : v \in {w \in r.unknown : Cardinality(candidates[w]) = 1}}
  IN  [possible |-> r.possible /\ \A v \in r.unknown : candidates[v] # {},
       unknown |-> {v \in r.unknown : candidates[v] \cap single = {}},
       known |-> single,
       found |-> r.found \cup single]

\* The rounds end with one that finds nothing, and another would find nothing either:
\* knowing less, it has more candidates.
Disambiguate(h, op, unknown, known) ==
  LET start == [possible |-> TRUE, unknown |-> unknown, known |-> known, found |-> {}]
      after[k \in 0 .. Cardinality(unknown)] ==
        IF k = 0 THEN start ELSE DisambiguationRound(h, op, after[k - 1])
  IN  after[Cardinality(unknown)]

\* The values before the operator of the variables that it sets without precondition.
PotentialPreconditions(h, op, known) ==
  {p \in h.facts : /\ \E e \in op.effects : e.var = p[1] /\ e.pre = NONE
                   /\ p \in known \/ \A q \in known : q[1] # p[1] /\ ~AreMutex(h, p, q)}

RemoveAmbiguity(h, op) ==
  LET known == Preconditions(op) \cup op.augmented
      unknown == {p[1] : p \in h.facts} \ {p[1] : p \in known}
      result == Disambiguate(h, op, unknown, known)
  IN  IF Contradictory(h, known) \/ ~result.possible THEN [op EXCEPT !.spurious = TRUE]
      ELSE [op EXCEPT !.augmented = @ \cup result.found,
                      !.potential = PotentialPreconditions(h, op, known \cup result.found)]

=============================================================================
