--------------------------- MODULE BestSupporters ---------------------------
(***************************************************************************)
(* How the conjunctions heuristic evaluates one state                      *)
(* (conjunctions_heuristic.cc): a best supporter function (h^Cadd, h^Cmax, *)
(* or its greedy variant) propagates costs from the conjunctions true in   *)
(* the state through the counter groups until the goal conjunctions are    *)
(* reached, and a relaxed plan, the best supporter graph, is extracted     *)
(* backwards from the goal along the supporters.                           *)
(*                                                                         *)
(* A counter group is identified with its regression.  Orders the code     *)
(* takes from addresses, vectors or a random number generator are choices: *)
(* the entry popped among the cheapest, the rest of a layer when the last  *)
(* goal is met, every tie breaking of select_conjunction_and_action, the   *)
(* order in which equally dear conjunctions are offered to an action.      *)
(***************************************************************************)
EXTENDS FactRegression, Sequences, SequencesExt

CONSTANTS
  Learnable,        \* the conjunctions a generation strategy may ask for
  MaxLearned,       \* bound on the conjunctions learned at a time
  EvaluatedStates,  \* the states (total fact sets) the heuristic may be asked for
  Options           \* a set of OptionSetting

\* The functions; compute_hcadd_alternative is compute_hcadd with another queue.
HCADD == "hcadd"
HCMAX == "hcmax"
HCMAX_GREEDY == "hcmax_greedy"

OptionSetting ==
  [best_supporter_function : {HCADD, HCMAX, HCMAX_GREEDY},
   cross_context : BOOLEAN,
   use_singleton_subgoals : BOOLEAN,
   no_relaxed_plan_extraction : BOOLEAN]

ASSUME SupporterAssumption ==
  /\ Learnable \subseteq SUBSET Facts /\ \A c \in Learnable : Cardinality(c) > 1
  /\ GoalFacts # {}
  /\ MaxLearned \in Nat
  /\ EvaluatedStates \subseteq SUBSET Facts
  /\ Options \subseteq OptionSetting
  /\ \A o \in Options : ~o.no_relaxed_plan_extraction => \A a \in Actions : ActionCost[a] > 0

VARIABLES
  learned,          \* the conjunctions after the singletons
  groups,           \* the counter_groups in use, by their regression
  option,
  pc,               \* idle, search (a best supporter function), extract
  state,            \* the state evaluated
  cost,             \* Conjunction::cost, UNREACHED where it is -1
  supporters,       \* Conjunction::supporters
  value,            \* CounterGroup::value
  groupCost,        \* CounterGroup::cost
  queue,            \* <<cost, conjunction>>: the queue; or the scheduled conjunctions and their layer
  numOpenGoals,
  h,                \* the sum compute_hcadd adds up
  openConjunctions,
  bsg,              \* current_bsg: the end node, and the nodes in the order they were added
  supporterPos,     \* Conjunction::supporter_pos
  preferred,        \* current_preferred_operators
  best,             \* what the best supporter function returned
  result            \* what compute_heuristic returned

searchVars == <<cost, supporters, value, groupCost, queue, numOpenGoals, h>>
planVars == <<openConjunctions, bsg, supporterPos, preferred>>
vars == <<learned, groups, option, pc, state, searchVars, planVars, best, result>>

UNREACHED == -1
DEAD_END == -1
NONE == -2          \* no value yet
NO_SUPPORTER == 0   \* supporter_pos -1; the positions of the nodes count from 1

END_ACTION == 0     \* end_action, of which the goal is the precondition

-----------------------------------------------------------------------------
(* The counters of a set of conjunctions, as ConjunctionCounters shows     *)
(* add_conjunctions and remove_conjunction to keep them.                   *)

Known(C) == Singletons \cup C

Regressions(c) == IF ContainsMutex(c) THEN {} ELSE ComputeRegressions(c)

\* Mutant: an empty regression waits for nothing, and is never triggered.
Preconditions_NoDummy(regression, C) == NonDominatedWithin(regression, Known(C))

Preconditions(regression, C) ==
  IF regression = {} THEN {DummyPrecondition} ELSE NonDominatedWithin(regression, Known(C))

\* regression -> the regression_conjunctions and the group
CounterGroups(C) ==
  LET counters == UNION {{<<a, c>> : a \in Regressions(c)} : c \in Known(C)}
  IN [r \in {Regression(k[1], k[2]) : k \in counters} |->
        [waitsFor |-> Preconditions(r, C),
         group |-> {k \in counters : Regression(k[1], k[2]) = r}]]

GoalConjunctions == {c \in Known(learned) : c \subseteq GoalFacts}

GroupOf(a, c) == groups[Regression(a, c)]

Greedy == option.best_supporter_function = HCMAX_GREEDY
Additive == option.best_supporter_function = HCADD

\* What the initially true conjunctions cost.
InitialCost == IF Greedy THEN 1 ELSE 0

InitiallyTrue(c) == c \subseteq state

-----------------------------------------------------------------------------
InitialCosts(C) == [c \in Known(C) \cup {DummyPrecondition} |-> UNREACHED]
NoSupporters(C) == [c \in Known(C) |-> {}]
NoPositions(C) == [c \in Known(C) |-> NO_SUPPORTER]
Zero(G) == [r \in DOMAIN G |-> 0]

Init ==
  /\ learned = {} /\ option \in Options /\ pc = "idle" /\ state \in EvaluatedStates
  /\ cost = InitialCosts({}) /\ supporters = NoSupporters({}) /\ supporterPos = NoPositions({})
  /\ groups = CounterGroups({})
  /\ value = Zero(groups) /\ groupCost = Zero(groups)
  /\ queue = {} /\ numOpenGoals = 0 /\ h = 0
  /\ openConjunctions = {} /\ bsg = <<>> /\ preferred = {}
  /\ best = NONE /\ result = NONE

\* Between two evaluations the conjunctions may change; what that does to the
\* counters is the subject of ConjunctionCounters.
Relearn ==
  /\ pc = "idle"
  /\ \E c \in Learnable :
       learned' = IF c \in learned THEN learned \ {c} ELSE learned \cup {c}
  /\ Cardinality(learned') <= MaxLearned
  /\ cost' = InitialCosts(learned') /\ supporters' = NoSupporters(learned')
  /\ supporterPos' = NoPositions(learned')
  /\ groups' = CounterGroups(learned')
  /\ value' = Zero(groups') /\ groupCost' = Zero(groups')
  /\ queue' = {} /\ numOpenGoals' = 0 /\ h' = 0
  /\ openConjunctions' = {} /\ bsg' = <<>> /\ preferred' = {}
  /\ best' = NONE /\ result' = NONE
  /\ UNCHANGED <<option, pc, state>>

\* extract_relaxed_plan up to its loop: the end node, and the goals to support
StartExtraction ==
  LET goals == NonDominated(GoalConjunctions)
      open == {c \in goals : ~InitiallyTrue(c)}
  IN /\ bsg' = <<[action |-> END_ACTION, supported |-> {}, preconditions |-> goals,
                  facts |-> GoalFacts]>>
     /\ openConjunctions' = open
     /\ UNCHANGED <<supporterPos, preferred>>
     /\ IF open = {}
        THEN pc' = "idle" /\ result' = 0
        ELSE pc' = "extract" /\ UNCHANGED result

\* The best supporter function returns: compute_heuristic returns its value too,
\* or goes on to the relaxed plan.
Return(v) ==
  /\ best' = v /\ queue' = {}
  /\ IF option.no_relaxed_plan_extraction \/ v = DEAD_END
     THEN pc' = "idle" /\ result' = v /\ UNCHANGED planVars
     ELSE StartExtraction
  /\ UNCHANGED <<learned, groups, option, state, cost, supporters, value, groupCost, numOpenGoals, h>>

\* reset_heuristic, of the counter groups
\* Mutant: the values start from where the last evaluation left them.
ResetValue_OnlyTriggered(r) == IF value[r] > 0 THEN value[r] ELSE Cardinality(groups[r].waitsFor)

ResetValue(r) == Cardinality(groups[r].waitsFor)

\* compute_heuristic, where the last graph is not valid for the state, up to the
\* initially true conjunctions in the queue or in the first layer.  The layers
\* count a goal when they set its cost, the queue when the goal leaves it.  (The
\* graph of an earlier state is not kept here: EhcNovelty says when the search
\* is served that one.)
Evaluate(s) ==
  LET true == {c \in DOMAIN cost : c \subseteq s}
      subgoals == GoalConjunctions \cap true
      last == ~Additive /\ subgoals = GoalConjunctions
  IN /\ pc = "idle" /\ pc' = "search" /\ state' = s
     /\ \E set \in (IF last THEN {subgoals \cup rest : rest \in SUBSET (true \ subgoals)} ELSE {true}) :
          cost' = [c \in DOMAIN cost |-> IF c \in set THEN InitialCost ELSE UNREACHED]
     /\ supporters' = NoSupporters(learned)
     /\ value' = [r \in DOMAIN value |-> ResetValue(r)]
     /\ groupCost' = Zero(groups)
     /\ queue' = {<<0, c>> : c \in true}
     /\ numOpenGoals' = Cardinality(GoalConjunctions \ (IF Additive THEN {} ELSE subgoals))
     /\ h' = 0
     /\ openConjunctions' = {} /\ bsg' = <<>> /\ preferred' = {}
     /\ supporterPos' = NoPositions(learned)
     /\ best' = NONE /\ result' = NONE
     /\ UNCHANGED <<learned, groups, option>>

\* The last goal was met, or nothing is left to trigger.
Finish ==
  /\ pc = "search"
  /\ \/ numOpenGoals = 0 /\ Return(h)
     \/ numOpenGoals > 0 /\ queue = {} /\ Return(DEAD_END)

-----------------------------------------------------------------------------
(* compute_hcadd *)

WaitingFor(c) == {r \in DOMAIN groups : c \in groups[r].waitsFor}

\* What the completed groups offer: <<conjunction, cost, supporter>>.
Offers(completed, additional) ==
  UNION {{<<k[2], groupCost[r] + additional + ActionCost[k[1]], k[1]>> : k \in groups[r].group} :
           r \in completed}

\* enqueue_if_necessary: the cost, and the supporters that achieve it
LowestCost(d, offered) ==
  Min({o[2] : o \in offered} \cup (IF cost[d] = UNREACHED THEN {} ELSE {cost[d]}))

BestActions(d, lowest, offered) ==
  (IF cost[d] = lowest THEN supporters[d] ELSE {})
    \cup {o[3] : o \in {p \in offered : p[2] = lowest}}

\* A conjunction leaves the queue at its cost: every group that waits for it adds
\* the cost, and one that waits for nothing else offers its sum plus the action's
\* cost to its members.  (Of several offers made at once the cheapest is queued.)
Trigger(c) ==
  LET triggered == WaitingFor(c)
      offers == Offers({r \in triggered : value[r] = 1}, cost[c])
      to == {o[1] : o \in offers}
      By(d) == {o \in offers : o[1] = d}
      improved == {d \in to : cost[d] = UNREACHED \/ cost[d] > LowestCost(d, By(d))}
  IN /\ value' = [r \in DOMAIN value |-> IF r \in triggered THEN value[r] - 1 ELSE value[r]]
     /\ groupCost' = [r \in DOMAIN groupCost |->
                        IF r \in triggered THEN groupCost[r] + cost[c] ELSE groupCost[r]]
     /\ cost' = [d \in DOMAIN cost |-> IF d \in improved THEN LowestCost(d, By(d)) ELSE cost[d]]
     /\ supporters' = [d \in DOMAIN supporters |->
                         IF d \in to THEN BestActions(d, LowestCost(d, By(d)), By(d)) ELSE supporters[d]]
     /\ queue' = (queue \ {<<cost[c], c>>}) \cup {<<LowestCost(d, By(d)), d>> : d \in improved}

\* One entry of the queue, one of the cheapest: it is dropped if the conjunction
\* was reached at a lower cost since; a goal adds to h, and the last one ends it.
PopEntry ==
  /\ pc = "search" /\ Additive /\ numOpenGoals > 0
  /\ \E e \in queue :
       LET c == e[2]
           isSubgoal == c \in GoalConjunctions
       IN /\ \A f \in queue : e[1] <= f[1]
          /\ IF cost[c] < e[1]
             THEN /\ queue' = queue \ {e}
                  /\ UNCHANGED <<cost, supporters, value, groupCost, numOpenGoals, h>>
             ELSE /\ h' = IF isSubgoal THEN h + cost[c] ELSE h
                  /\ numOpenGoals' = IF isSubgoal THEN numOpenGoals - 1 ELSE numOpenGoals
                  /\ IF numOpenGoals' = 0
                     THEN UNCHANGED <<cost, supporters, value, groupCost, queue>>
                     ELSE Trigger(c)
  /\ UNCHANGED <<learned, groups, option, pc, state, planVars, best, result>>

-----------------------------------------------------------------------------
(* compute_hcmax and compute_hcmax_greedy *)

\* The actions that lead from the completed groups to a conjunction.
Ways(c, completed) == {a \in Actions : \E r \in completed : <<a, c>> \in groups[r].group}

\* h^Cmax keeps every supporter of the layer, the greedy variant one, the first met.
SupporterChoices(new, completed) ==
  LET someWay == UNION {Ways(c, completed) : c \in new}
  IN {[c \in DOMAIN supporters |-> IF c \notin new THEN supporters[c]
                                   ELSE IF Greedy THEN {first[c]} ELSE Ways(c, completed)] :
        first \in {f \in [new -> someWay] : \A c \in new : f[c] \in Ways(c, completed)}}

\* One layer: the groups that wait for nothing else are completed, and the
\* unreached members of their groups make up the next layer.  If it holds the last
\* goals, only what comes before them gets its cost.
NextLayer ==
  /\ pc = "search" /\ ~Additive /\ numOpenGoals > 0 /\ queue # {}
  /\ LET scheduled == {e[2] : e \in queue}
         left == [r \in DOMAIN value |-> value[r] - Cardinality(groups[r].waitsFor \cap scheduled)]
         completed == {r \in DOMAIN value : left[r] = 0 /\ value[r] > 0}
         new == {c \in DOMAIN supporters : cost[c] = UNREACHED /\ Ways(c, completed) # {}}
         subgoals == new \cap GoalConjunctions
         last == Cardinality(subgoals) = numOpenGoals
     IN /\ value' = left
        /\ supporters' \in SupporterChoices(new, completed)
        /\ \E set \in (IF last THEN {subgoals \cup rest : rest \in SUBSET (new \ subgoals)} ELSE {new}) :
             cost' = [c \in DOMAIN cost |-> IF c \in set THEN h + 1 ELSE cost[c]]
        /\ queue' = {<<h + 1, c>> : c \in new}
        /\ numOpenGoals' = numOpenGoals - Cardinality(subgoals)
        /\ h' = IF new = {} THEN h ELSE h + 1
  /\ UNCHANGED <<learned, groups, option, pc, state, groupCost, planVars, best, result>>

-----------------------------------------------------------------------------
(* extract_relaxed_plan *)

\* Mutant: contexts are merged without a look at the mutexes between them.
Merge_IgnoreMutex(node, c, a, bound) ==
  [node EXCEPT !.facts = @ \cup Regression(a, c), !.supported = @ \cup {c},
               !.preconditions = @ \cup GroupOf(a, c).waitsFor]

\* An open conjunction the action best supports too joins the node, unless its
\* regression is mutex with the facts needed so far, or, with cross-context
\* preconditions, something over the facts of both is not reached in time.
Merge(node, c, a, bound) ==
  LET facts == node.facts \cup Regression(a, c)
      fresh == {d \in Known(learned) : d \subseteq facts /\ ~(d \subseteq node.facts)}
      needs == IF option.cross_context
               THEN NonDominated(node.preconditions \cup fresh)
               ELSE node.preconditions \cup GroupOf(a, c).waitsFor
  IN IF \/ ContainsMutex(facts)
        \/ option.cross_context /\ \E d \in needs : cost[d] < 0 \/ cost[d] >= bound
     THEN node
     ELSE [node EXCEPT !.facts = facts, !.preconditions = needs, !.supported = @ \cup {c}]

MergeAll(alone, order, a, bound) ==
  LET merged[i \in 0 .. Len(order)] == IF i = 0 THEN alone ELSE Merge(merged[i - 1], order[i], a, bound)
  IN  merged[Len(order)]

\* The orders in which the other open conjunctions are offered: by their cost.
MergeOrders(candidates) ==
  {order \in SetToSeqs(candidates) :
     \A i, j \in DOMAIN order : i < j => cost[order[i]] <= cost[order[j]]}

\* Mutant: a conjunction supported before keeps its position.
SupporterPos_First(node, position) ==
  [c \in DOMAIN supporterPos |->
     IF c \in node.supported /\ supporterPos[c] = NO_SUPPORTER THEN position ELSE supporterPos[c]]

SupporterPos(node, position) ==
  [c \in DOMAIN supporterPos |-> IF c \in node.supported THEN position ELSE supporterPos[c]]

\* Mutant: what the new node needs is supported by the nodes there are, if any does.
StillOpen_NoReopening(node) ==
  (openConjunctions \cup {c \in node.preconditions :
                            ~InitiallyTrue(c) /\ supporterPos[c] = NO_SUPPORTER}) \ node.supported

\* The preconditions of the new node are open, those it supports no longer.
StillOpen(node) ==
  (openConjunctions \cup {c \in node.preconditions : ~InitiallyTrue(c)}) \ node.supported

\* get_real_cost: of the nodes but the end node
RealCost(nodes) ==
  LET sum[i \in 1 .. Len(nodes)] == IF i = 1 THEN 0 ELSE sum[i - 1] + ActionCost[nodes[i].action]
  IN  sum[Len(nodes)]

\* One node: a conjunction of the highest cost (whatever the tie breaking), one of
\* its supporters, and the open conjunctions that join it.
AddNode ==
  /\ pc = "extract"
  /\ \E selected \in openConjunctions : \E a \in supporters[selected] :
       /\ \A c \in openConjunctions : cost[c] <= cost[selected]
       /\ \E order \in MergeOrders(IF option.use_singleton_subgoals THEN {}
                                   ELSE {c \in openConjunctions \ {selected} : a \in supporters[c]}) :
            LET alone == [action |-> a, supported |-> {selected},
                          preconditions |-> GroupOf(a, selected).waitsFor,
                          facts |-> Regression(a, selected)]
                node == [MergeAll(alone, order, a, cost[selected]) EXCEPT !.preconditions = NonDominated(@)]
            IN /\ bsg' = Append(bsg, node)
               /\ supporterPos' = SupporterPos(node, Len(bsg) + 1)
               /\ openConjunctions' = StillOpen(node)
               /\ preferred' = IF \A c \in node.preconditions : InitiallyTrue(c)
                               THEN preferred \cup {a} ELSE preferred
  /\ IF openConjunctions' = {}
     THEN pc' = "idle" /\ result' = RealCost(bsg')
     ELSE UNCHANGED <<pc, result>>
  /\ UNCHANGED <<learned, groups, option, state, searchVars, best>>

-----------------------------------------------------------------------------
Search == Finish \/ PopEntry \/ NextLayer

Next == Relearn \/ (\E s \in EvaluatedStates : Evaluate(s)) \/ Search \/ AddNode

Spec == Init /\ [][Next]_vars /\ WF_vars(Search \/ AddNode)

=============================================================================
