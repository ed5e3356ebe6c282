# Verification of the planner

The repository is a two-stage satisficing planner. This directory holds TLA+
models of its stateful parts, TLC configurations that check them on small
instances, and TLAPS proofs of what holds for every task and every option.

## 1. Inventory

The driver (`src/fast-downward-conjunctions/fast-downward.py --dual`) first runs
1-BFWS (`src/BFWS-public`, width-based search, incomplete). If that finds no
plan it preprocesses the task and runs a search with the conjunctions heuristic
(`src/fast-downward-conjunctions`); `src/Singularity` calls the engine `ehc_cn`.

| Component | State | Operations | Hard behaviour | What makes it correct |
|---|---|---|---|---|
| driver (`driver/*.py`) | files, plan manager, portfolio round, exit codes | components in order, `run_search`, `run_portfolio`, `process_new_plans`, `--cleanup` | leftovers of an earlier run, a component that dies, a search killed while it writes a plan | exit code 0 means a complete plan of this task; plans are not lost; the manager knows the files |
| h² preprocessor (`src/preprocess`) | mutexes, unreachable facts, operators with augmented and potential preconditions | `compute_h2_mutexes`, `remove_ambiguity`, renumbering | two directions feeding each other, time limit in the middle, values that vanish and are renumbered | nothing a plan needs is pruned; the task written has the plans of the task read |
| `ehc_cn` (`enforced_hill_climbing_novelty_search.cc`) | current context and `current_real_g`, global and per-phase search space, open list, heuristic cache, excluded states, unsafe dead ends, stagnation counter | `step`, `ehc`, `expand`, escaping, dead ends, exhaustion, restarts, back jumps | long sequences of learning, restarts and back jumps; values cached across learning; paths replayed over known states | the global space is a tree of real paths; only dead ends are marked; plans are paths; the search ends |
| search space (`search_space.cc`) | node per state: status, g, real g, parent | `open`, `reopen`, `close`, `mark_as_dead_end`, `trace_path` | opened twice, wrong parent | paths and costs agree |
| online learning (`online_learning_search_engine.cc`) | last plan, remaining bound | `generate_conjunctions`, `set_solution` | the bound handed down, plans put together from two sources | the plan executes |
| lazy search, iterated search (`lazy_search.cc`, `ipc18_iterated_search.cc`) | open list of edges, weights, bound, best plan, phase | `initialize`, `step`, next weight, next phase | reopening, bounds lowered by earlier plans, repetition, time limit | costs are upper bounds; plans improve; exhaustion proves what it claims; the iteration ends |
| generation strategies (`generation_strategy.cc`) | initial size, statistics | `modify_conjunctions` per event | growth bounds, removal | the heuristic only changes when it says so |
| conjunctions heuristic (`conjunctions_heuristic.cc`) | conjunctions, counter groups and their free list, `regression_of`, best supporter graph | evaluation, relaxed plan extraction, `add_conjunctions`, `remove_conjunction`, `remove_all_conjunctions` | incremental maintenance, indices reused, values left from earlier evaluations, contexts merged | counters are those of the conjunction set; values are those of h^Cadd and h^Cmax; relaxed plans reach the goal |
| novelty heuristic, contexts, caches, open list | novelty table, results, buckets | evaluation, `get_result`, `insert`, `remove_min` | staleness after learning | a cached value is the heuristic's |
| search engine base, `planner.cc` | status, plan | `search`, `step`, `set_plan` | time limit between steps | exit code agrees with the plan |
| 1-BFWS (`bfws_2h.hxx`, LAPKT) | nodes, open and closed list, novelty tables, shared goal graph | `start`, `process`, `eval`, `is_closed`, goal counter, relaxed plans | states progressed and regressed in place, one goal graph for all nodes, nodes replaced | states come back; novelty, counts and pruning are right; no cheaper path is lost |
| other engines and heuristics of Fast Downward, translator, option parser | | | upstream, not run or pure functions of files | not modelled |

The hazards of this code, each at its line and with the properties that cover
it, are listed in `PROJECT.json`.

## 2. Modules

| Module | What it is |
|---|---|
| `SearchSpace` | nodes and spaces of `search_space.cc`; the task as a transition system |
| `EhcNovelty` | `ehc_cn`: one action per function and exit; its properties |
| `EhcInvariants`, `EhcProofs` | the inductive invariants and the proofs: types; tree and paths; values, dead ends and outcome |
| `EhcTasks`, `MCEhcNovelty` | small tasks for TLC |
| `FactRegression` | facts, mutexes, action instances; `compute_regressions`, `get_non_dominated_conjunctions` |
| `ConjunctionSet` | abstract specification of the counters: recomputed from the set of conjunctions |
| `ConjunctionCounters` | the counter groups as the heuristic maintains them in place; implements `ConjunctionSet` |
| `ConjunctionInvariants`, `ConjunctionProofs` | the inductive invariant of the counters; the proofs, of the refinement and of what `compute_regressions` returns too |
| `SetLemmas` | finite sets, sums, cardinalities, induction and recursive functions, for all proofs |
| `BestSupporters` | the best supporter functions and the extraction of relaxed plans, step by step |
| `SupporterProperties` | h^Cadd, h^Cmax and perfect costs by definition, and what they are compared with |
| `SupporterInvariants`, `SupporterProofs` | the inductive invariants of relaxed plans, counters, layers and costs; the proofs |
| `LazySearch` | `lazy_search.cc` with iterated weights, as one engine |
| `IteratedSearch` | `ipc18_iterated_search.cc` over a list of such engines |
| `IterationProperties`, `IterationInvariants`, `IterationProofs` | properties of both, inductive invariants, proofs |
| `PlanManager` | plan files and `plan_manager.py` |
| `Portfolio` | `portfolio_runner.py` and `returncodes.py` as data the driver steps through |
| `Driver` | `main.py`, `run_components.py`: sessions one after another in one directory |
| `DriverProperties`, `DriverInvariants`, `DriverProofs` | properties, inductive invariants, proofs |
| `StripsTask` | LAPKT states: progressed, progressed in place, regressed |
| `GoalCounter` | the goal ordering and the graph that counts achieved goals |
| `Bfws` | `bfws_2h` with novelty 1, composed of the two |
| `BfwsProperties`, `BfwsInvariants`, `BfwsProofs` | properties, inductive invariants, proofs |
| `SasTask` | tasks as the preprocessor reads and the search executes them; which variables matter |
| `H2Mutexes` | `h2_mutexes.cc` and `Operator::remove_ambiguity` as operators |
| `Preprocessor` | `planner.cc` of the preprocessor: the loop over rounds, the time limit, the reduction |
| `PreprocessorProperties`, `PreprocessorInvariants`, `PreprocessorProofs` | what the reduction must keep; the inductive invariant; the proofs |
| `MC...` | the instances for TLC |

### `EhcNovelty`

The engine is one thread. `pc` names the function of the engine that runs next:
a tail call in the code (`return handle_safe_dead_end();`) is `Goto`, a `return`
of a final status is `Halt`. One iteration of the loop of `ehc()` is one action
of `PhaseLoop`, one iteration of the learning loop is `learn` followed by
`learned`; `trace_path` and the replay of its path go operator by operator.

| Model | Code |
|---|---|
| `node`, `loc` | `search_space`, `current_search_space` |
| `real_g` | `current_real_g` |
| `ctx` | `current_eval_context`: state, cached heuristic result, cached novelty result |
| `heur` | what the engine can see of `ConjunctionsHeuristic`: conjunctions learned, which states it has called finite or infinite since, the state of the last valid best supporter graph with its value and preferred operators |
| `cache` | `heuristic_cache`; `ver` is a ghost: the conjunctions the value was computed with |
| `marks` | `excluded_states`, `unsafe_dead_ends`, `current_unsafe_dead_ends`, `current_solved_unmodified` |
| `open`, `seen`, `phase` | `open_list`, the novelty table of the phase, the locals of `ehc()` |
| `trace`, `lres`, `sol` | `trace_path` in progress, the result of `generate_conjunctions`, the plan |

A state is an abstract value and the task an arbitrary transition system. A
heuristic value is any number in `MinH..MaxH` with any nonempty set of preferred
operators (0 in goals; elsewhere too if `MinH` is 0, as with operators that cost
nothing), or infinity for a state that really is a dead end, the
same each time until something is learned; that a dead end of the heuristic is
one is what `BestSupporters` checks (`DeadEndsAreSafe`). `PlanCosts[s]` holds
the costs of relaxed plans of `s` that execute. Learning adds any conjunction
not yet learned; it fails when there is none left.

### `ConjunctionCounters`

A conjunction is identified with its facts and an action with its id, whose order
stands for that of the pointers. What is observable of the data structure is
kept: which slot of `counter_groups` a group has (`add_counter_group` takes the
last unused one, `remove_counter_group` cuts unused ones off the end), what a
slot holds after its group is gone, the index `counter_groups_by_regression`
with `empty_counter_group_index` for the empty regression, and both copies of the
relation between groups and the conjunctions they wait for
(`regression_conjunctions` is `waitsFor`, `regression_of` is `regressionOf`). As in
the code the two copies are updated separately: what groups wait for is computed
or adjusted, and the conjunctions that gain or lose a link are computed per place
(`GainingLink`, `LosingLink`), so that they agree is a property.
Vectors whose order is never read are sets. Each action is one whole call:

| Action | Code | Called by |
|---|---|---|
| `Init` | the constructor with `add_all_singletons` | |
| `AddConjunctions` in `Learn` | `add_conjunctions`, with its two ways to update what groups wait for: recomputed for several conjunctions, adjusted for one | `modify_conjunctions_step`, `..._init`, `..._local_minimum` |
| `RemoveConjunction` in `Forget` | `remove_conjunction` | every removal strategy; the model lets it choose any |
| `RemoveAllConjunctions` in `ForgetAll` | `remove_all_conjunctions` | `initial_removal_mode=ALL` |

`ConjunctionSet` says what all this is for: at any time, whatever came and went,
each conjunction has a counter for each of its simplest supporting actions, which
waits for the conjunctions within its regression that no other one dominates.
The property `ImplementsConjunctionSet` is the refinement.

### `BestSupporters`

One evaluation after another of any state under any set of at most `MaxLearned`
conjunctions and any of the option settings. The priority queue of h^Cadd, the
layers of h^Cmax and the greedy variant are separate sets of actions, one per
iteration of their loops, then the extraction: conjunctions opened at a cost,
supported by a node of their own or by a context merged into another node,
opened again when a node nearer to the start needs them. Costs, counters and
best supporters stay from one evaluation to the next as the code leaves them;
every order among equals is possible.

### `LazySearch`, `IteratedSearch`

`LazySearch` is one engine and `IteratedSearch` the sequence. The open list is a
bag of edges of which any may be next: the properties hold whatever the
heuristic says. `search_space`, `current_state`, `current_g`, `current_real_g`,
`weight_index`, `repeat_last`, `reopen_closed_nodes` are those of the code.
A relaxed plan that executes may be found at the events at which the engine's
strategy learns (`solving_events`). `IteratedSearch` hands the cost of the best
plan on as the next bound (`NextBound`), continues an engine that has another
phase (`ContinueEngine`), skips phases and repeats the last one.

### `PlanManager`, `Portfolio`, `Driver`

A session is one call of the driver and solves another task. `pc` is the
component or the loop that runs next; `files` maps a prefix and a number
(0 for the plain name) to a plan of a session with its cost, to an incomplete
one, or to no file. `plan_ipc`, `output_sas`, `output` are the files components
talk through. `run_single_search` leaves any plans the search may have written,
the last one possibly incomplete; `collect_sat` is `process_new_plans`;
`Killed` ends a session at any step. Old plans are deleted one file per step.
`Portfolio` says which configuration runs next, when costs are switched and when
the final configuration takes over.

### `StripsTask`, `GoalCounter`, `Bfws`

A state is the pair of its vector and its inclusion set (both as sets of
fluents), because they are changed by different code: `ProgressLazy` and
`RegressLazy` are used where no lists are passed, `ProgressListed` and
`RegressListed` where the applied effects are recorded. A node is identified
with its path; `nodes[n]` keeps what the code stores in it, and what became of
it (`fate`). `Expand` takes a node off the open list, `GenerateNode` and
`GenerateDeadEnd` are one successor each: the parent's state progressed,
evaluated, counted, and regressed, and the successor compared with the closed
list, as `process` and `eval` do. `graph` is the one goal graph, replayed for
every node (`update_land_graph`). Ties between nodes
of equal keys are open.

### `SasTask`, `H2Mutexes`, `Preprocessor`

A task is variables with values, operators (prevail conditions and effects with
conditions), initial state, goal and the translator's mutex groups. `h` holds
what `H2Mutexes` does: the sets of pairs that are spurious or not reached, and
of unreachable facts. One round of `compute` (every operator to a fixpoint in
one direction) is one action, `ConcludeIteration` what follows it: new mutexes,
static facts, disambiguation of all operators, whether each direction is to run
again. Before a round the time limit may strike. `Reduce` is the rest of
`main`: variables and values that are gone, renumbering, what is written. The
meaning of tasks (`Applicable`, `Result`) is that of the search's
`global_operator.cc`; at most one effect per variable fires, as in the tasks
the model is run on.

## 3. Runs

| Run | Instance | Shows |
|---|---|---|
| `EhcDefault` | Corridor; the options of `src/Singularity`, stagnation threshold 1 | types, search tree, path costs, values fresh and preferred operators there, plans valid, no phase starts from a known dead end, nodes never revised, termination |
| `EhcForced` | Fork; back jumps, unsafe pruning forced complete | dead ends are sound, though solvable states are marked as unsafe ones |
| `EhcBounded` | Dear; cost bound, unsafe pruning on stagnation, growth limit | SOLVED iff there is a plan |
| `EhcBound` (violation) | Diamond; bound 3 | a plan dearer than the bound: the test uses the phase's path, the plan the older one of the global space |
| `Counters` | seven facts, six actions, six conjunctions | slots, links and counts are consistent, and the counters are those of `ConjunctionSet`, after any additions and removals |
| `BestSupporters` | three variables, five actions, five conjunctions | the functions compute h^Cadd and h^Cmax; dead ends are safe; h^Cmax is admissible; relaxed plans reach the goal, their nodes are applicable, supporters come later |
| `AnytimeSearch` | six states, nine operators; a repeating engine, and three engines in sequence | costs are upper bounds; every plan improves; exhausted means nothing better; the iteration ends |
| `AnytimeGivesUp` (violation) | the same task; a greedy engine, then iterated weights | under an inherited bound the greedy first search gives up the later phases that would find the better plan |
| `Driver` | two sessions, seven command lines | success means a plan; the manager matches the files; no bogus plan; the search reads its own task; plans are kept |
| `Bfws` | five fluents, five actions, three goals in an order | states restored; tables exact; counts follow paths; kept nodes bounded; dead ends real; duplicates covered |
| `Preprocessor` | three or four variables, 89 lists of operators, four goals | pruned is useless; unsolvable means no plan; no plan is lost; plans of the output are plans; the rounds end |
| `PreprocessorConditional` (violation) | a hand, two things, a bell that drops one of them | a task with a plan is declared unsolvable |

Bounds.
*Ehc*: in *Corridor* two successors share their only singleton, so a phase sees
one of them, and there are a way back and a trap; *Diamond* has two paths of
different length and cost to one state; *Dear* has a relaxed plan that executes
but is expensive, and a trap; in *Fork* one state that has a plan is marked as an
unsafe dead end when its phase is exhausted under pruning, and then a real trap is
found, which must not take it along. `MaxH` is 2, `MinH` 0 or 1 (below): smaller, equal and larger values
occur, and the comparison with the current value is all the engine does with
them. `MinH` is 0 in `EhcBounded` and `EhcBound`. One or two conjunctions can be learned, so that learning, learning again
and failing to learn all happen. All counters of the engine are bounded by these.
*Counters*: `MaxLearned` 4 of the six conjunctions are known at a time and
`MaxAtOnce` 2 are added at once, which is what tells the two paths of
`add_conjunctions` apart. Groups are created, joined, left and removed, several
slots are unused together, cut off and taken again. No action of the instance
lets a conjunction join an older group whose regression contains it (see
section 5).
*BestSupporters*: all eight states, every set of at most four of the five
conjunctions, six option settings; contexts merge, cannot merge because of a
mutex or an unreached condition, and conjunctions are supported a second time.
*AnytimeSearch*: the cheap way to the goal reopens a closed state, the greedy
one is dear, and there are a trap, a cycle and relaxed plans that execute; any
step may hit its time limit. Costs are exact, nothing else is bounded.
*Driver*: costs up to 2, so that a second plan can improve on a first one; two
sessions, so that one meets the leftovers of another one, which may have been
killed or have used another prefix; all files named `sas_plan` and `plan`.
`StrictBound`: searches keep below the bound they are given; sessions are not
killed between two removals (`InterruptedDeletion` FALSE, see section 5).
*Bfws*: conditional effects occur, but none that undoes another effect of the
same action (`EffectsDoNotInterfere`, which TLC evaluates).
*Preprocessor*: all lists of three operators out of nine, and four more, three
of them with a conditional effect, and one of seven operators over four variables
where disambiguation alone finds an operator spurious; with no mutex groups and
with all candidate groups that are invariant; both options on and off; time limit before any
round. Several rounds in both directions, static facts, augmented
preconditions, vanishing variables and unsolvable tasks all occur. The
tasks with conditional effects are ones where the finding of
`PreprocessorConditional` does not strike.

Fairness. `FairSpec` of `EhcNovelty` is weak fairness of `Run`: the engine is one
thread and the loop of `SearchEngine::search` calls `step` until it has a final
status. The timeout is not fair: termination does not depend on it. Termination
also rests on `Conjunctions` being finite and on `Threshold >= 1`: with
`learning_stagnation_threshold=0` and PROCEED or RESTART the engine can go around
without learning forever. `IteratedSearch` and `Preprocessor` are single-threaded
programs that go on until they end: weak fairness of `Next`. That the time limit
strikes is a disjunct of theirs that fairness does not force. The driver and
1-BFWS are checked for safety only.

## 4. Proofs

Every theorem is for all values of the constants that satisfy the assumptions
of the modules.

`EhcProofs`, first part: `Spec => []TypeOK`, under `TaskAssumption` and
`OptionAssumption` (any transition system with finitely many states and natural
costs, option values their parsers accept). `TypeOK` is not inductive: reusing a
best supporter graph returns its value, so a valid graph must have one
(`HeurInv`), and `proceed` reads the next best state (`ControlInv`).

Second part: `TreeInv` is inductive relative to `TypeInv` and implies
`SearchTree`, `CurrentCostIsPathCost`, `PlanIsValid`; with it every step
satisfies `NodesAreNeverRevised`. The difficulty is the replay of a phase's path
into the global space, where some of its states may be known already. It is
needed that (a) the roots of the phase's forest are opened globally; (b)
whatever a phase visits is new globally or opened there; (c) what the open list
holds starts in a state the phase visited, which needs that preferred operators
belong to the state they are used for (`PreferredApplicable`). `TraceSound`
carries this along the trace and the replay. There is a lemma per conjunct, and
in it a case per action.

The third part adds what depends on options, each theorem with the options it
needs as its hypothesis:

- `SolvedMeansPlanFound`: SOLVED iff there is a plan, as long as the remaining
  bound never is the -1 that stands for none (`BoundIsDistinct`; true without a
  bound). `OutcomeInv` follows the result of the learning from the function
  that sets the plan to the one that reports it.
- `ValuesStayFresh`: `FreshInv` says for every `pc` how many conjunctions each
  value in use lacks. The hard case is a cached value that survives the update
  of the cache after learning; it is the one of the state just evaluated.
- `SomethingStaysPreferred`, with the cache and without a bound: preferred
  operators are cleared by dead ends, so the invariant has to say when the graph
  they belong to is still the one of the current state.
- `DeadEndsStaySound`, where what unsafe pruning marks is undone and exhaustion is
  conclusive. `UnsafePruningIsUndone`: unsafe pruning is off, or forced to be complete
  and not combined with proceeding on stagnation. Then the states marked since the
  last improvement can be reached from the current one (`MarkedBehind`), so that they
  are dead ends if it is. `ExhaustionIsSafe`: no bound and no back jumps on stagnation,
  whose excluded states are skipped without a trace, or successors pruned, which the
  engine takes for inconclusive. As long as a phase runs, every transition out of a
  state it closed is still open, leads to a closed state or to a state without
  a plan (`PhaseCovers`). That an exhausted phase proves a dead end (line 439) happens
  only under `RANK_PREFERRED_FIRST`: this theorem covers it, no run does.
- `DeadEndsStayUnexpanded`, no phase starts from a state known to be a dead end, if
  the engine only ever restarts (`OnlyRestarts`): back jumps and leaving a dead end for
  its parent do expand known dead ends (section 5).

`ConjunctionProofs`: `RegressionsAreSimplest` characterizes the result of the loop
of `compute_regressions`, which drops and keeps actions as it meets them: the
minimal ones, the earlier of two equals; and a conjunction within a fact set is
always part of one that none dominates (`NonDominatedAbove`). For any finite set of
facts, any conjunctions and any regression, adjusting what a group waits for when one
conjunction is added or removed gives what recomputing it would.
`CountersInv` is inductive over the three operations (slots, members, index, first
slots, links, counts) and gives `SlotsAreConsistent` and `CountersAreAccounted` for all
constants. With `WaitsInv` (what groups wait for is what one would compute)
it gives the refinement `ImplementsConjunctionSet`. The refinement needs that
no conjunction is within its own regression (`WithinNoneOfItsRegressions`, which
follows if no action adds what it requires): the code is wrong otherwise
(section 5), and the proof stops exactly there.

`SupporterProofs`. `DataInv` ties what lasts between evaluations together. For the
relaxed plan, `PlanInv` says that what a node needs and the state does not have is
open or supported at a later position. A conjunction may be supported a second time,
by a node nearer to the start; that only moves its position up. The hard part is
`IsApplication`: a node many contexts were merged into is still one application of
its action, so none of its needs is one of the conjunctions it supports, and it never
opens what it has just closed (`NodeNeedsNothingItSupports`). This needs
`AddsNothingItRequires`, as the refinement of the counters does. `RequiresNoMutex`
is needed for the facts of a node to be consistent: a
conjunction's regression is that of a consistent one only together with the
precondition. The translator drops an effect that restates a precondition
(`build_sas_operator` in `translate.py`), and an action whose precondition is mutex is one
the preprocessor prunes and could never be applied.

For the functions, `CountInv` says, through all three loops, that a group's value
counts exactly the conjunctions it waits for that have not left the queue or been
scheduled, that a group which waits for none has reached its members, and that in the
queue nothing is cheaper than what has left it, so a conjunction that has left never
gets a better offer and is counted once (`TriggerImproves`). When nothing is left to trigger,
what is reached is `Closed`. A closed set that covers a consistent state covers its
successors (`ClosedCoversSuccessors`): of the actions that support a conjunction, one
whose counter was left out has a simpler one in its place (`KeptRegressions`).
So no goal is ahead: `DeadEndsAreAlwaysSafe`. `LayerInv` counts: after n layers every
state n actions away is covered (`Within`), so no plan is shorter than the layers without
all goals: `CmaxIsAlwaysAdmissible`. Both assume `StatesAreConsistent`: no state
evaluated is ruled out by a mutex, which is what a mutex is.

`BestSupportersAreExact` compares what the functions return with the definitions of
h^Cadd and h^Cmax in `SupporterProperties`, for every task, with no more assumed than `BestSupporters` does.
`CmaxInv`: after n layers what is reached is what n rounds of the fixpoint reach, over
every supporting action of every conjunction; the actions and the preconditions that
`compute_regressions` and the counters leave out change nothing (`CountersFollow`).
For h^Cadd the definition iterates over all counters at once, the code takes one
conjunction at a time and stops early. `SumInv`: a group's cost is the sum over what it
waits for that has left the queue, and `h` the sum over the goals that have. `CaddInv`:
no cost is below what the definition finds, in as many rounds as conjunctions left the
queue before, so as many rounds as there are conjunctions are enough. From the other
side, what the definition finds in any round has left the queue at no higher cost, or
waits for an entry that is no dearer (`CaddIsReached`); when the last goal leaves, as one of the
cheapest entries, the two meet (`CaddLastGoal`). The counters `CaddOf` iterates over are
computed from the conjunctions; that the code's, kept in place, are the same is
`ImplementsConjunctionSet`.

`IterationProofs`: `Spec => []CostsAreUpperBounds`. The strengthening
(`EdgesAreSound`) speaks of every edge on the open list and of the current
state: the cost an edge carries is at least the one its source has recorded now,
which reopening can only lower. `PathsCorrect` shows that what was opened is a tree.
That reopening cannot close a cycle is the difficulty: acyclicity is stated as "no set
of states is closed under parents", and a node is only given a new parent when
that is cheaper, while along parents costs do not rise. So the path
that is traced costs no more than its last node has recorded, a plan is within
the bound its engine searched under, and each is better than the best one
(`PlansImprove`). Two hypotheses: costs are real (`CostsAreReal`; under ONE and
PLUSONE reopening can raise real costs), and no plan is free (`EveryPlanCosts`; after
a plan of cost 0 the bound is -1, which the learning takes for none), and that the
sequence passes its bound on.

`ExhaustionIsConclusive` is the completeness of the lazy search: exhausted, it leaves no
plan within its bound (`ExhaustedMeansNothingBetter`) if it reopens states, or if its bound
has cut nothing off (`NothingIsBeyondBound`). Without either this is false, as
`AnytimeGivesUp` shows. The invariant (`Explored`) speaks of the states from which a
goal can be reached: each is new or closed, and every edge that leads from one that was
expanded to another, within the bound, was followed or is on the list or in hand;
a closed goal costs more than the bound, which is what finding the plan did to it.
Reopening lowers costs under edges that were followed before; then the edges are put on
the list again, which is why the claim about costs survives. It holds
across a search that goes on under a lower bound, on one more hypothesis,
`ResumesWhereItExpanded`: an engine that repeats its last phase is not stopped by relaxed
plans. One that is (an engine with one weight that repeats and learns in steps) opens the
state the relaxed plan solves, never expands it, and finds it known when
the search goes on: TLC finds such a search giving up too early in the first repetition.

`DriverProofs`: `SearchReadsThisTask`, `SuccessMeansAPlan`, `PlansAreKept`, with
kills between removals and searches that break their bound included. `FilesInv`
says whose files there are at every step and which plans are counted;
`SuccessInv` where the plan is that the exit code speaks of. `ManagerMatchesFiles`
and `NoBogusPlan` hold under `StrictBound` and `~InterruptedDeletion`: numbers have
no gap (`NumbersInv`) and the plans of a portfolio get strictly better, so there are
at most as many as costs (`ManagerInv`), which is why the model's numbers suffice.

`BfwsProofs`: `SearchInv` (lists, tree and states) gives `StatesAreRestored`
for every task, conditional effects of any kind included, since a state is
restored from the lists of what was changed; `NoveltyTablesAreExact` holds under
`EffectsDoNotInterfere`; `KeptNodesAreBounded` (with finiteness in `TableInv`),
`DuplicatesAreCovered`, and `PlanIsValid`: the plan executes and reaches the
goal (`PathInv`). `CountsCorrect` shows, under `EffectsDoNotInterfere`, that the
lists of consumed and unconsumed goals a node keeps make up for the graph it
shares with all others: replayed along a path they give the goals that counting
along the path from the start would. `DeadEndsCorrect`: the rounds of the additive
heuristic are at most as many as there are fluents, what they have reached then
is closed under the actions, and a closed set that covers a state covers
everything a plan from it goes through.

`PreprocessorProofs`: `PreprocessorInv` is inductive, and the four safety properties of
the preprocessor follow for every task in the form the translator validates
(`PreprocessorAssumption`), all options, and the time limit striking before any round.
`Useful` are the states on the paths from the initial state to a goal.

- `PruningIsSound`. No useful state and no step between two of them contradicts what is
  known of facts, pairs of facts and operators (`Sound`). Verdicts on pairs
  make verdicts on operators and these make the next round's pairs, so neither is
  inductive without the other. A round of h² keeps reached every pair of a useful
  state: from the initial state on, forward; from the goals on, backward
  (`ComputeIsStarted`, `ComputeIsFixpoint`). Backward, what an operator overwrites is only
  known through its potential preconditions, which must have been computed before:
  the first direction is the forward one and its end examines all operators
  (`PotentialIsComplete`). Hypotheses: the translator's groups hold (`GroupsHold`), and
  no operator has conditional effects (`NoConditionalEffects`): the operators are examined
  as if all effects fired, and run `PreprocessorConditional` shows what that leads to.
- `UnsolvableHasNoPlan`, with the same hypotheses and unless the initial state is
  already a goal: then all goal variables may turn out to have one value, no variable
  is left, and the dummy task is written although the empty plan is one.
- `PlansAreKept`, with the same hypotheses: each step of a plan is in the
  file, applicable there and with the same effect on what the file knows, or changes
  nothing there. The operators that disappear are spurious or have lost all effects
  that matter; renumbering is injective on the values that are left.
- `OutputIsCorrect`, with `NoConditionalEffects` alone: plans of the file are plans of the
  task, whatever was pruned and even if the groups were wrong. Dropped preconditions
  are those on variables with one value left; no operator in the file leads to a
  value that was pruned, so they hold all along. An effect is left out only where a
  precondition that was added has it hold already.

Recursion. Where the code iterates, the models use recursive functions; that such a
function exists and satisfies its equation is proved from induction over a set
of numbers (`NatInductive`, `RecursionUpto`, `IteratesUpto` in `SetLemmas`), which takes
no operator as a parameter.

Only model-checked: all liveness (beyond the prover), and the cases of the theorems
above that their hypotheses leave out, in the runs whose options allow them.

## 5. Not modelled, and noticed

Not modelled. Of `ehc_cn`: `check_relaxed_plans`, novelty heuristics that are not
basic, strategies that remove conjunctions while the engine runs, learning events
other than LOCAL_MINIMUM. Of the conjunctions heuristic: `conjunction_statistics`,
counts of unregressable and unreachable conjunctions, rankings of the removal
strategies, conflict extraction (what it assumes of the best supporter graph is
`SupportersComeLater`). Of the lazy and iterated search: randomized and preferred
successors, `delete_after_phase`. Of the driver: command line parsing, calls of
single components, resource limits. Of BFWS: novelty above 1, search without
pruning, landmarks that are not goals, `bfws_4h` and the variants with
consistency. Of the preprocessor: axioms, `--no_rel`, the order of the variables,
transition graphs, successor generator, file formats. Everything else is
upstream code the planner's configurations do not run (merge-and-shrink, CEGAR,
landmarks, LP heuristics, most of LAPKT), or parsing and generic support code.

Noticed while modelling, beyond the findings in `PROJECT.json`.

*ehc_cn.* After back jumps on stagnation, successors that lead to excluded states
are skipped (line 347) without `bfs_cutoff`, and a solvable state is called a safe
dead end (439-441). The assertions at 225/234 fail when an evaluation that found a
dead end cleared the preferred operators. Leaving a dead end for its parent (746)
does not look at the parent: with `restart_in_dead_ends=false` and
`RANK_PREFERRED_FIRST` it expands one that line 683 has marked (TLC finds this after
about fifty steps). `current_unsafe_dead_ends` (683) can mark states that have a
plan: on *Fork* without `ForceComplete`, `DeadEndsAreSound` is violated with back jumps
as well as with restarts. The assertion `!force_unsafe_pruning_complete` (702) stands behind a
condition that lets it through exactly when the option is set (714-716).
`src/Singularity:75` gives `learning_stagnation` twice where the threshold was
probably meant: the parser takes the first, and the threshold keeps its default,
infinity. `EhcDefault` takes 1.

*Conjunctions heuristic.* At 1628 a conjunction added alone is not waited for in
the group it has just joined, which matters for an action that requires what it
adds. `get_num_influenced_counters` (1933) sums the groups that are not
influenced. The assertion at 2273 does not know the dummy precondition.
`remove_all_conjunctions` leaves the deleted conjunctions in
`conjunction_statistics`; `num_unregressable_conjunctions` is never counted down;
`get_num_unique_actions` counts the end action. A `modify_conjunctions` that
changes the heuristic without returning MODIFIED (`generation_strategy.cc:783`)
leaves `heuristic_cache` stale.

*Lazy and iterated search.* A state solved by its relaxed plan stays OPEN
and is never expanded when `repeat_last` goes on. `lazy_wastar_c` continues
after an initialization that solved the task and may overwrite the plan by a worse
one. With cost type ONE or PLUSONE reopening can raise the real cost, so a traced
plan can exceed the bound, and the assertion in `lazy_search.cc:233` (a state beyond
the bound only while repeating) fails for an edge that was put on the list before its
source was reopened; the models follow the release build. After a plan of cost 0 the bound is -1, which
`generate_conjunctions` takes for none. The conjunctions engines treat the bound
inclusively, so a satisficing portfolio of them makes `process_new_plans` raise
its error; that is why `StrictBound` is assumed.

*Driver.* `run_1_bfws` renames the first phase's plan to `sas_plan` whatever
`--plan-file` says (`run_components.py:106` against `arguments.py:351`). If a
portfolio has no final configuration, its second round runs on arguments where
`portfolio_runner.py` expects pairs: a ValueError where they are unpacked (116) or a
TypeError where their times are summed (83). A kill between two removals leaves a gap in the
numbers, and the plans behind it survive (`plan_manager.py:107-108`). Errors in a
portfolio's options are found only after old plans have been deleted.

*1-BFWS.* With conditional effects that undo other effects of the same action:
the relaxed plan may start in a wrong state, and a solvable one be pruned; novelty
tables miss a fact that is deleted and added at once; the order in which goals
are consumed and unconsumed differs from that of the effects. A goal that is
true initially behind a chain of more than two orderings stays unconsumed. The
goal ordering can be cyclic. Partitions collide for 1000 relevant fluents or more.
`bfws_options` converts an infinite float to unsigned for tasks that are
unsolvable when relaxed.

*Preprocessor.* With `--augmented_pre` a precondition on a variable that leaves the
task is counted but not written (`operator.cc:104-108`; `NoPlanIsLost` is asked
of well-formed output only). Potential preconditions are not filtered by
reachability, so that `Variable::get_new_id` may meet an unreachable value and
exit (`variable.cc:86-90`; the model's status "error"). An unreachable condition
of an effect is dropped instead of the effect. A condition on a variable that
became static is written with variable number -1. A goal that is true
initially over static variables only gives the unsolvable dummy task.
The `continue` of `compute_h2_mutexes` leaves the direction as it was.
With several conditional effects on one variable `--augmented_pre` looks at the first
only, and exits if that has a precondition (`operator.cc:316-332`); the model changes
all of them. The search for important variables (`causal_graph.cc:319-327`) asserts or
does not return on a cycle of variables with one value left; the model takes the
closure. The time limit is also tested within a round, every 10000 operators; nothing
of an interrupted round is used, so the model tests it before each.

## 6. Plan

1. `ehc_cn`, search space, their proofs: done.
2. Conjunctions heuristic: counters and best supporters done; next conflict
   extraction, and the statistics that removal strategies rank by.
3. Anytime search: done for lazy search; the predecessor engine without novelty
   would reuse `EhcNovelty` with another phase.
4. Driver: done; next resource limits, and a search that outlives its driver.
5. 1-BFWS: done for novelty 1; next novelty 2 (`novelty_partition_2.hxx`) and
   the second phase of DUAL-BFWS.
6. Preprocessor: done without axioms.
7. Proofs: every safety property the passing runs check has one.
