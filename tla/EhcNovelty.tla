----------------------------- MODULE EhcNovelty -----------------------------
(***************************************************************************)
(* ehc_cn: enforced hill climbing with novelty pruning and online learning *)
(* of conjunctions (enforced_hill_climbing_novelty_search.cc), the search  *)
(* engine of the planner's second phase.                                   *)
(*                                                                         *)
(* The engine alternates breadth-first PHASES around a current state with  *)
(* learning.  A phase owns a search space (loc) and an open list; the      *)
(* global space (node) keeps the path from the initial state to the        *)
(* current one and the dead ends.  Every function of the engine is an      *)
(* action (or a group of actions, one per exit), and pc names the function *)
(* that runs next, so a tail call of the code is a change of pc.           *)
(*                                                                         *)
(* The conjunctions heuristic is abstracted to what the engine can see: a  *)
(* finite value with preferred operators, or infinity; infinity only for   *)
(* states that really are dead ends, and consistently so while the set of  *)
(* learned conjunctions stands.                                            *)
(***************************************************************************)
EXTENDS SearchSpace, Sequences

CONSTANTS
  NoState,             \* StateID::no_state
  NoBound,             \* "infinity" of an option
  Bound,               \* option bound: real plan cost
  BfsBound,            \* option bfs_bound: depth of a phase
  MinH,                \* the least finite value outside the goals: 0 with operators of cost 0
  MaxH,                \* the largest finite value (model bound)
  Facts,               \* the singleton conjunctions of the novelty table
  Conjunctions,        \* what can be learned (model bound)
  Holds,               \* [Facts \cup Conjunctions -> SUBSET States]
  PlanCosts,           \* [States -> SUBSET Nat]: real costs of relaxed plans that execute
  PreferredUsage,      \* "PRUNE_BY_PREFERRED", "RANK_PREFERRED_FIRST", or "none": not use_preferred
  EnableCache,         \* option enable_heuristic_cache
  NoLearning,          \* option no_learning
  RestartInDeadEnds,   \* option restart_in_dead_ends
  AlwaysReevaluate,    \* option always_reevaluate
  Threshold,           \* option learning_stagnation_threshold
  StagnationRestart,   \* option learning_stagnation_restart
  Exhaustion,          \* option search_space_exhaustion: CONTINUE, RESTART, BACKJUMP
  Stagnation,          \* option learning_stagnation: RESTART, BACKJUMP, PROCEED
  UnsafeSse,           \* option unsafe_pruning_sse
  UnsafeLs,            \* option unsafe_pruning_ls
  ForceComplete,       \* option force_unsafe_pruning_complete
  MaxGrowth            \* option max_growth, in learned conjunctions

ASSUME OptionAssumption ==
  /\ NoState \notin States
  /\ NoBound \notin Nat
  /\ Bound \in Nat \cup {NoBound}
  /\ BfsBound \in Nat \cup {NoBound}
  /\ Threshold \in Nat \cup {NoBound}
  /\ MaxGrowth \in Nat \cup {NoBound}
  /\ MinH \in {0, 1}
  /\ MaxH \in Nat \ {0}
  /\ Facts \cap Conjunctions = {}
  /\ Holds \in [Facts \cup Conjunctions -> SUBSET States]
  /\ \A s \in States : \E f \in Facts : s \in Holds[f]
  /\ PlanCosts \in [States -> SUBSET Nat]
  /\ \A s \in States : PlanCosts[s] # {} => s \in Solvable
  /\ PreferredUsage \in {"none", "PRUNE_BY_PREFERRED", "RANK_PREFERRED_FIRST"}
  /\ {EnableCache, NoLearning, RestartInDeadEnds, AlwaysReevaluate, StagnationRestart,
      UnsafeSse, UnsafeLs, ForceComplete} \subseteq BOOLEAN
  /\ EnableCache => PreferredUsage # "none"
  /\ Exhaustion \in {"CONTINUE", "RESTART", "BACKJUMP"}
  /\ Stagnation \in {"RESTART", "BACKJUMP", "PROCEED"}

VARIABLES
  pc,       \* the function of the engine that runs next
  status,   \* SearchEngine::status
  node,     \* search_space, the global one
  real_g,   \* current_real_g
  ctx,      \* current_eval_context: a state and the results cached for it
  stagn,    \* learning_stagnation_counter
  heur,     \* the conjunctions heuristic: learned conjunctions, last best supporter graph
  cache,    \* heuristic_cache; h = -1 where there is no entry
  marks,    \* excluded_states, unsafe_dead_ends, current_unsafe_dead_ends, current_solved_unmodified
  loc,      \* current_search_space, the phase's own
  open,     \* open_list
  seen,     \* conjunctions the novelty heuristic has seen in this phase
  phase,    \* bfs_cutoff, dead_end_unsafe, next_best_state_id, bfs_lowest_h_value, modified
  trace,    \* trace_path in progress: path collected, state it stands at, what follows
  lres,     \* result of the last generate_conjunctions
  sol       \* solution_found and plan

vars == <<pc, status, node, real_g, ctx, stagn, heur, cache, marks, loc, open, seen,
          phase, trace, lres, sol>>

-----------------------------------------------------------------------------
(* Types. *)

Infty == MaxH + 1     \* EvaluationResult::INFTY, and the int maximum above it

Result == [h : -1 .. Infty, pref : SUBSET Transitions, ver : SUBSET Conjunctions]

NoResult == [h |-> -1, pref |-> {}, ver |-> {}]

Context == [state : States, res : Result, nov : BOOLEAN]

Entry == [t : Transitions, g : Int, pref : {0, 1}, h : -1 .. Infty, batch : Nat]

Locations == {"init", "step", "loop", "trace", "replay", "escape_local_minimum",
              "learn", "learned", "proceed", "safe_dead_end", "exhaustion",
              "escape_dead_end", "escape_potential", "restart", "restart_in_parent",
              "done"}

TypeOK ==
  /\ pc \in Locations
  /\ status \in {"IN_PROGRESS", "SOLVED", "FAILED", "TIMEOUT", "UNSOLVABLE"}
  /\ node \in [States -> Node]
  /\ real_g \in Int
  /\ ctx \in Context
  /\ stagn \in Nat
  /\ heur \in [learned : SUBSET Conjunctions, inf : SUBSET States, finite : SUBSET States,
               bsg : States \cup {NoState}, h : -1 .. MaxH, pref : SUBSET Transitions]
  /\ cache \in [States -> Result]
  /\ marks \in [excluded : SUBSET States, unsafe : SUBSET States,
                current : SUBSET States, unmodified : SUBSET States]
  /\ loc \in [States -> Node]
  /\ open \subseteq Entry
  /\ seen \subseteq Facts \cup Conjunctions
  /\ phase \in [cutoff : BOOLEAN, deadEndUnsafe : BOOLEAN, nextBest : States \cup {NoState},
                lowestH : 0 .. Infty, modified : BOOLEAN]
  /\ trace \in [path : Seq(Transitions), at : States, after : {"solved", "learned", "replay"}]
  /\ lres \in [result : {"SOLVED", "MODIFIED", "DEAD_END"}, cost : Nat]
  /\ sol \in [found : BOOLEAN, ops : Seq(Transitions), at : States, suffix : Nat]

-----------------------------------------------------------------------------
(* The heuristic. *)

\* What one evaluation of s may return under the learned conjunctions.  When
\* the last best supporter graph is that of s it is used again, with whatever
\* preferred operators are remembered at that moment.
FiniteResults(s) ==
  IF heur.bsg = s THEN {[h |-> heur.h, pref |-> heur.pref, ver |-> heur.learned]}
  ELSE IF s \in heur.inf THEN {}
  ELSE IF s \in Goals THEN {[h |-> 0, pref |-> {}, ver |-> heur.learned]}
  ELSE [h : MinH .. MaxH, pref : (SUBSET OpsOf(s)) \ {{}}, ver : {heur.learned}]

InfiniteResults(s) ==
  IF heur.bsg = s \/ s \in heur.finite \/ s \in Solvable THEN {}
  ELSE {[h |-> Infty, pref |-> {}, ver |-> heur.learned]}

\* Mutant: the graph of a dead end counts as the last valid one.
AfterEvaluation_KeepsDeadEndGraph(s, r) ==
  IF heur.bsg = s THEN heur
  ELSE IF r.h = Infty THEN [heur EXCEPT !.inf = @ \cup {s}, !.bsg = s, !.h = r.h, !.pref = {}]
  ELSE [heur EXCEPT !.finite = @ \cup {s}, !.bsg = s, !.h = r.h, !.pref = r.pref]

\* A dead end clears the preferred operators but leaves the graph of the last
\* finite evaluation valid.
AfterEvaluation(s, r) ==
  IF heur.bsg = s THEN heur
  ELSE IF r.h = Infty THEN [heur EXCEPT !.inf = @ \cup {s}, !.pref = {}]
  ELSE [heur EXCEPT !.finite = @ \cup {s}, !.bsg = s, !.h = r.h, !.pref = r.pref]

EvaluationsOf(s) == FiniteResults(s) \cup InfiniteResults(s)

CacheHit(s) == EnableCache /\ cache[s].h # -1

Store(s, r) == IF EnableCache THEN [cache EXCEPT ![s] = r] ELSE cache

\* Both overloads of evaluate_if_neccessary: the result comes from the cache, or
\* it is computed and, when finite, stored.
ResultsOf(s) == IF CacheHit(s) THEN {cache[s]} ELSE EvaluationsOf(s)

EvaluateIfNecessary(s, r) ==
  /\ heur' = IF CacheHit(s) THEN heur ELSE AfterEvaluation(s, r)
  /\ cache' = IF CacheHit(s) \/ r.h = Infty THEN cache ELSE Store(s, r)

\* Mutant: the graph survives, the preferred operators found with it do not.
WithConjunction_KeepsGraph(c, hs) ==
  [hs EXCEPT !.learned = @ \cup {c}, !.finite = {}, !.pref = {}]

\* add_conjunctions: what was finite may become infinite, never the reverse,
\* and no best supporter graph is valid any more.
WithConjunction(c, hs) ==
  [hs EXCEPT !.learned = @ \cup {c}, !.finite = {}, !.bsg = NoState]

FreshContext(s, r) == [state |-> s, res |-> r, nov |-> FALSE]

Growth == Cardinality(heur.learned)

GrowthExceeded == MaxGrowth # NoBound /\ Growth > MaxGrowth

-----------------------------------------------------------------------------
(* Novelty, bounds, successors and the open list. *)

Features(s) == {f \in Facts \cup heur.learned : s \in Holds[f]}

Novel(s) == ~(Features(s) \subseteq seen)

ExceedsBound(cost) == Bound # NoBound /\ cost > Bound

\* Mutant: the cost of the path so far is forgotten.
WithinRemainingBound_ForgetsPath(cost) == Bound = NoBound \/ cost <= Bound

\* The bound handed to generate_conjunctions is Bound - real_g, where -1 means
\* that there is none.
WithinRemainingBound(cost) ==
  Bound = NoBound \/ Bound - real_g = -1 \/ cost <= Bound - real_g

Preferred(s, r) == IF EnableCache THEN cache[s].pref ELSE r.pref

Successors(s, pref) == IF PreferredUsage = "PRUNE_BY_PREFERRED" THEN pref ELSE OpsOf(s)

RankOf(t, pref) ==
  IF PreferredUsage = "RANK_PREFERRED_FIRST" /\ t \notin pref THEN 1 ELSE 0

WithinDepth(space, s) == BfsBound = NoBound \/ space[s].g < BfsBound

\* The number of the expansion that inserted an entry: entries with the same
\* key leave in insertion order, those of one expansion in any order (shuffle).
Batch(space) == Cardinality({s \in States : space[s].status = "CLOSED"})

Entries(space, s, h, pref) ==
  {[t |-> t, g |-> space[s].g + AdjustedCost(t), pref |-> RankOf(t, pref), h |-> h,
    batch |-> Batch(space)] : t \in Successors(s, pref)}

\* expand: nothing is inserted beyond the depth bound, and that is a cutoff.
Expand(space, s, h, pref) ==
  /\ open' = IF WithinDepth(space, s) THEN open \cup Entries(space, s, h, pref) ELSE open
  /\ loc' = Close(space, s)

CutoffByDepth(space, s, pref) == ~WithinDepth(space, s) /\ Successors(s, pref) # {}

Before(e, f) ==
  \/ e.g < f.g
  \/ e.g = f.g /\ e.pref < f.pref
  \/ e.g = f.g /\ e.pref = f.pref /\ e.h < f.h
  \/ e.g = f.g /\ e.pref = f.pref /\ e.h = f.h /\ e.batch < f.batch

IsMin(e) == \A f \in open : ~Before(f, e)

-----------------------------------------------------------------------------
(* Control. *)

engineVars == <<node, real_g, ctx, stagn, heur, cache, marks>>
phaseVars == <<loc, open, seen, phase, trace>>
outputVars == <<lres, sol>>

Goto(l) == pc' = l /\ UNCHANGED status

Halt(s) == pc' = "done" /\ status' = s

AtInitialState == ctx.state = InitialState

TracePath(s, next) ==
  /\ trace' = [path |-> <<>>, at |-> s, after |-> next]
  /\ Goto("trace")

-----------------------------------------------------------------------------
(* initialize() *)

NoPhase == [cutoff |-> FALSE, deadEndUnsafe |-> FALSE, nextBest |-> NoState,
            lowestH |-> Infty, modified |-> FALSE]

Init ==
  /\ pc = "init"
  /\ status = "IN_PROGRESS"
  /\ node = EmptySpace
  /\ real_g = 0
  /\ ctx = [state |-> InitialState, res |-> NoResult, nov |-> FALSE]
  /\ stagn = 0
  /\ heur = [learned |-> {}, inf |-> {}, finite |-> {}, bsg |-> NoState, h |-> -1, pref |-> {}]
  /\ cache = [s \in States |-> NoResult]
  /\ marks = [excluded |-> {}, unsafe |-> {}, current |-> {}, unmodified |-> {}]
  /\ loc = EmptySpace
  /\ open = {}
  /\ seen = {}
  /\ phase = NoPhase
  /\ trace = [path |-> <<>>, at |-> InitialState, after |-> "solved"]
  /\ lres = [result |-> "MODIFIED", cost |-> 0]
  /\ sol = [found |-> FALSE, ops |-> <<>>, at |-> InitialState, suffix |-> 0]

\* The initial state is opened and evaluated; infinity ends the search.
Initialize ==
  /\ pc = "init"
  /\ node' = OpenInitial(node, InitialState)
  /\ \E r \in ResultsOf(InitialState) :
       /\ EvaluateIfNecessary(InitialState, r)
       /\ ctx' = FreshContext(InitialState, r)
       /\ IF r.h = Infty THEN Halt("UNSOLVABLE") ELSE Goto("step")
  /\ UNCHANGED <<real_g, stagn, marks, phaseVars, outputVars>>

-----------------------------------------------------------------------------
(* step(), and the part of ehc() before its loop. *)

\* check_goal_and_set_plan
StepSolved ==
  /\ pc = "step"
  /\ ctx.state \in Goals
  /\ TracePath(ctx.state, "solved")
  /\ UNCHANGED <<engineVars, loc, open, seen, phase, outputVars>>

StepGrowthExceeded ==
  /\ pc = "step"
  /\ ctx.state \notin Goals
  /\ GrowthExceeded
  /\ Halt("FAILED")
  /\ UNCHANGED <<engineVars, phaseVars, outputVars>>

\* The phase's space holds the current state and the excluded ones, closed; the
\* novelty table is reset, and the current state counted into it unless its
\* context still caches the novelty result of the previous phase.
PhaseRoots ==
  [s \in States |-> IF s = ctx.state THEN RootNode
                   ELSE IF s \in marks.excluded THEN [RootNode EXCEPT !.status = "CLOSED"]
                   ELSE NewNode]

StartPhase ==
  /\ pc = "step"
  /\ ctx.state \notin Goals
  /\ ~GrowthExceeded
  /\ LET pref == Preferred(ctx.state, ctx.res) IN
       /\ Expand(PhaseRoots, ctx.state, ctx.res.h, pref)
       /\ phase' = [NoPhase EXCEPT !.cutoff = CutoffByDepth(PhaseRoots, ctx.state, pref)]
  /\ seen' = IF ctx.nov THEN {} ELSE Features(ctx.state)
  /\ ctx' = [ctx EXCEPT !.nov = TRUE]
  /\ Goto("loop")
  /\ UNCHANGED <<node, real_g, stagn, heur, cache, marks, trace, outputVars>>

-----------------------------------------------------------------------------
(* The loop of ehc(): one entry of the open list per iteration. *)

Pop(e) ==
  /\ pc = "loop"
  /\ e \in open
  /\ IsMin(e)

PathCost(e) == real_g + loc[Source[e.t]].real_g + Cost[e.t]

\* Mutant: known dead ends are visited again.
Pruned_NotDeadEnds(e) ==
  \/ ExceedsBound(PathCost(e))
  \/ Target[e.t] \in marks.unsafe
  \/ ~IsNew(loc, Target[e.t])

Pruned(e) ==
  \/ ExceedsBound(PathCost(e))
  \/ IsDeadEnd(node, Target[e.t])
  \/ Target[e.t] \in marks.unsafe
  \/ ~IsNew(loc, Target[e.t])

UnsafelySkipped(e) ==
  /\ ~ExceedsBound(PathCost(e))
  /\ ~IsDeadEnd(node, Target[e.t])
  /\ Target[e.t] \in marks.unsafe

\* The continue statements before the state is looked at; of those only the
\* unsafe dead end is remembered.
Skip(e) ==
  /\ Pop(e)
  /\ Pruned(e)
  /\ open' = open \ {e}
  /\ phase' = [phase EXCEPT !.deadEndUnsafe = @ \/ UnsafelySkipped(e)]
  /\ UNCHANGED <<pc, status, engineVars, loc, seen, trace, outputVars>>

\* Novelty pruning is a cutoff.
PruneByNovelty(e) ==
  /\ Pop(e)
  /\ ~Pruned(e)
  /\ ~Novel(Target[e.t])
  /\ open' = open \ {e}
  /\ phase' = [phase EXCEPT !.cutoff = TRUE]
  /\ UNCHANGED <<pc, status, engineVars, loc, seen, trace, outputVars>>

Visit(e) ==
  /\ Pop(e)
  /\ ~Pruned(e)
  /\ Novel(Target[e.t])
  /\ seen' = seen \cup Features(Target[e.t])

VisitDeadEnd(e) ==
  /\ Visit(e)
  /\ \E r \in ResultsOf(Target[e.t]) :
       /\ r.h = Infty
       /\ EvaluateIfNecessary(Target[e.t], r)
  /\ open' = open \ {e}
  /\ loc' = MarkDeadEnd(loc, Target[e.t])
  /\ node' = MarkDeadEnd(node, Target[e.t])
  /\ UNCHANGED <<pc, status, real_g, ctx, stagn, marks, phase, trace, outputVars>>

Improves(s, r) == r.h < ctx.res.h \/ (r.h = 0 /\ s \in Goals)

\* A better state becomes the current one; its path is replayed into the
\* global space by Trace and Replay.
VisitBetter(e) ==
  LET s == Target[e.t] IN
  /\ Visit(e)
  /\ \E r \in ResultsOf(s) :
       /\ r.h # Infty
       /\ Improves(s, r)
       /\ EvaluateIfNecessary(s, r)
       /\ ctx' = [state |-> s, res |-> r, nov |-> ~CacheHit(s)]
  /\ stagn' = 0
  /\ marks' = [marks EXCEPT !.current = {}, !.excluded = {}]
  /\ loc' = OpenFrom(loc, e.t)
  /\ open' = {}
  /\ TracePath(s, "replay")
  /\ UNCHANGED <<node, real_g, phase, outputVars>>

VisitNotBetter(e) ==
  LET s == Target[e.t] IN
  /\ Visit(e)
  /\ \E r \in ResultsOf(s) :
       /\ r.h # Infty
       /\ ~Improves(s, r)
       /\ EvaluateIfNecessary(s, r)
       /\ LET opened == OpenFrom(loc, e.t)
              pref == IF EnableCache THEN cache'[s].pref ELSE r.pref
              lowest == r.h < phase.lowestH
          IN
          /\ open' = (open \ {e}) \cup
                       IF WithinDepth(opened, s) THEN Entries(opened, s, r.h, pref) ELSE {}
          /\ loc' = Close(opened, s)
          /\ phase' = [phase EXCEPT
                         !.cutoff = @ \/ CutoffByDepth(opened, s, pref),
                         !.nextBest = IF lowest THEN s ELSE @,
                         !.lowestH = IF lowest THEN r.h ELSE @]
  /\ UNCHANGED <<pc, status, node, real_g, ctx, stagn, marks, trace, outputVars>>

\* After the loop: an exhausted phase that pruned nothing unsafely makes the
\* current state a safe dead end.  Without preferred operators the option keeps
\* its default, PRUNE_BY_PREFERRED, so the test fails (line 439).
SafelyExhausted ==
  ~phase.cutoff /\ PreferredUsage = "RANK_PREFERRED_FIRST" /\ ~phase.deadEndUnsafe

EndPhase ==
  /\ pc = "loop"
  /\ open = {}
  /\ LET potential == marks.current # {} /\ ~phase.cutoff IN
       /\ Goto(IF SafelyExhausted THEN "safe_dead_end"
               ELSE IF NoLearning THEN "exhaustion"
               ELSE IF potential THEN "escape_potential"
               ELSE "escape_local_minimum")
       /\ marks' = IF SafelyExhausted \/ NoLearning \/ potential THEN marks
                   ELSE [marks EXCEPT !.current = {}]
  /\ UNCHANGED <<node, real_g, ctx, stagn, heur, cache, phaseVars, outputVars>>

-----------------------------------------------------------------------------
(* trace_path, and the replay of a phase's path into the global space. *)

\* Mutant: the phase's own space is traced, whatever is traced for.
TraceSpace_Local == loc

TraceSpace == IF trace.after = "replay" THEN loc ELSE node

TraceBack ==
  /\ pc = "trace"
  /\ HasParent(TraceSpace, trace.at)
  /\ trace' = [trace EXCEPT !.path = <<TraceSpace[trace.at].op>> \o @,
                            !.at = ParentOf(TraceSpace, trace.at)]
  /\ UNCHANGED <<pc, status, engineVars, loc, open, seen, phase, outputVars>>

Traced(next) ==
  /\ pc = "trace"
  /\ ~HasParent(TraceSpace, trace.at)
  /\ trace.after = next

\* set_plan, or set_solution with the relaxed plan of the current state behind
\* the path that leads to it.
PlanTraced ==
  \/ /\ Traced("solved")
     /\ sol' = [found |-> TRUE, ops |-> trace.path, at |-> ctx.state, suffix |-> 0]
     /\ Halt("SOLVED")
     /\ UNCHANGED <<engineVars, phaseVars, lres>>
  \/ /\ Traced("learned")
     /\ sol' = [found |-> TRUE, ops |-> trace.path, at |-> ctx.state, suffix |-> lres.cost]
     /\ Goto("learned")
     /\ UNCHANGED <<engineVars, phaseVars, lres>>

ReplayStart ==
  /\ Traced("replay")
  /\ Goto("replay")
  /\ UNCHANGED <<engineVars, phaseVars, outputVars>>

\* Mutant: the costs along the replayed path are added up.
ReplayedCost_Accumulated(space, t) == real_g + Cost[t]

ReplayedCost(space, t) == space[Target[t]].real_g

\* A state that is already known keeps its node, with its old path and cost.
Replay ==
  /\ pc = "replay"
  /\ trace.path # <<>>
  /\ LET t == Head(trace.path) IN
       /\ node' = IF IsNew(node, Target[t]) THEN OpenFrom(node, t) ELSE node
       /\ real_g' = ReplayedCost(node', t)
       /\ trace' = [trace EXCEPT !.path = Tail(@), !.at = Target[t]]
  /\ UNCHANGED <<pc, status, ctx, stagn, heur, cache, marks, loc, open, seen, phase, outputVars>>

ReplayEnd ==
  /\ pc = "replay"
  /\ trace.path = <<>>
  /\ Goto("step")
  /\ UNCHANGED <<engineVars, phaseVars, outputVars>>

-----------------------------------------------------------------------------
(* escape_local_minimum() *)

\* Mutant: the counter is not looked at.
Stagnated_Always == Threshold # NoBound

Stagnated == Threshold # NoBound /\ stagn >= Threshold

\* Unsafe pruning on stagnation: the current state is given up for good.
StagnationPrunes ==
  /\ pc = "escape_local_minimum"
  /\ Stagnated
  /\ UnsafeLs /\ ~ForceComplete
  /\ IF AtInitialState
       THEN Halt("FAILED") /\ UNCHANGED node
       ELSE /\ node' = MarkDeadEnd(node, ctx.state)
            /\ Goto(IF Stagnation = "RESTART" THEN "restart" ELSE "escape_dead_end")
  /\ UNCHANGED <<real_g, ctx, stagn, heur, cache, marks, phaseVars, outputVars>>

MarkCurrentUnsafe(m) ==
  [m EXCEPT !.current = @ \cup {ctx.state}, !.unsafe = @ \cup {ctx.state}]

MarksOnStagnation ==
  LET m == IF UnsafeLs THEN MarkCurrentUnsafe(marks) ELSE marks IN
  IF StagnationRestart THEN m ELSE [m EXCEPT !.excluded = {}]

LeavesOnStagnation ==
  ~AtInitialState /\ (Stagnation = "PROCEED" => phase.nextBest # NoState)

StagnationLeaves ==
  /\ pc = "escape_local_minimum"
  /\ Stagnated
  /\ ~(UnsafeLs /\ ~ForceComplete)
  /\ LeavesOnStagnation
  /\ marks' = MarksOnStagnation
  /\ Goto(CASE Stagnation = "RESTART" -> "restart"
            [] Stagnation = "BACKJUMP" -> "restart_in_parent"
            [] Stagnation = "PROCEED" -> "proceed")
  /\ UNCHANGED <<node, real_g, ctx, stagn, heur, cache, phaseVars, outputVars>>

BeginLearning ==
  /\ pc = "escape_local_minimum"
  /\ Stagnated => ~(UnsafeLs /\ ~ForceComplete) /\ ~LeavesOnStagnation
  /\ marks' = IF Stagnated THEN MarksOnStagnation ELSE marks
  /\ stagn' = stagn + 1
  /\ phase' = [phase EXCEPT !.modified = FALSE]
  /\ Goto("learn")
  /\ UNCHANGED <<node, real_g, ctx, heur, cache, loc, open, seen, trace, outputVars>>

\* generate_conjunctions at a local minimum.  The current state is evaluated
\* only if the last best supporter graph is not its own; that evaluation stays
\* in the context and so predates the conjunction learned from it.
EvaluatedForLearning(r) == IF heur.bsg = ctx.state THEN NoResult ELSE r

LearnDeadEnd ==
  /\ pc = "learn"
  /\ \E r \in InfiniteResults(ctx.state) :
       /\ heur' = AfterEvaluation(ctx.state, r)
       /\ ctx' = FreshContext(ctx.state, r)
  /\ lres' = [result |-> "DEAD_END", cost |-> 0]
  /\ Goto("learned")
  /\ UNCHANGED <<node, real_g, stagn, cache, marks, phaseVars, sol>>

\* The relaxed plan executes: it is the solution if it is within the bound.
LearnSolved ==
  /\ pc = "learn"
  /\ \E r \in FiniteResults(ctx.state) :
       /\ heur' = AfterEvaluation(ctx.state, r)
       /\ ctx' = FreshContext(ctx.state, EvaluatedForLearning(r))
  /\ \E c \in PlanCosts[ctx.state] :
       /\ lres' = [result |-> "SOLVED", cost |-> c]
       /\ IF WithinRemainingBound(c)
            THEN TracePath(ctx.state, "learned")
            ELSE Goto("learned") /\ UNCHANGED trace
  /\ UNCHANGED <<node, real_g, stagn, cache, marks, loc, open, seen, phase, sol>>

LearnConjunction ==
  /\ pc = "learn"
  /\ \E r \in FiniteResults(ctx.state), c \in Conjunctions \ heur.learned :
       /\ heur' = WithConjunction(c, AfterEvaluation(ctx.state, r))
       /\ ctx' = FreshContext(ctx.state, EvaluatedForLearning(r))
  /\ lres' = [result |-> "MODIFIED", cost |-> 0]
  /\ Goto("learned")
  /\ UNCHANGED <<node, real_g, stagn, cache, marks, phaseVars, sol>>

\* No candidate conjunction is left (in the model: none of Conjunctions).
LearnFailed ==
  /\ pc = "learn"
  /\ FiniteResults(ctx.state) # {}
  /\ Conjunctions \subseteq heur.learned
  /\ Halt("FAILED")
  /\ UNCHANGED <<engineVars, phaseVars, outputVars>>

\* The rest of the learning loop's body, on the result of generate_conjunctions.
SolvedInBound == lres.result = "SOLVED" /\ ~ExceedsBound(real_g + lres.cost)

LearnedSolution ==
  /\ pc = "learned"
  /\ SolvedInBound
  /\ Halt("SOLVED")
  /\ UNCHANGED <<engineVars, phaseVars, outputVars>>

\* The result the context holds, computed now if it holds none.
ContextResults == IF ctx.res.h = -1 THEN EvaluationsOf(ctx.state) ELSE {ctx.res}

EvaluateContext(r) ==
  /\ r \in ContextResults
  /\ heur' = IF ctx.res.h = -1 THEN AfterEvaluation(ctx.state, r) ELSE heur
  /\ ctx' = [ctx EXCEPT !.res = r]

Modified == lres.result = "MODIFIED"

\* Mutant: the cache survives the new conjunction.
KeptCache_Always == cache

KeptCache == IF Modified THEN [s \in States |-> NoResult] ELSE cache

CacheAfterLearning(r) ==
  IF EnableCache THEN [KeptCache EXCEPT ![ctx.state] = r] ELSE KeptCache

LearnedDeadEnd ==
  /\ pc = "learned"
  /\ ~SolvedInBound
  /\ \E r \in ContextResults : r.h = Infty /\ EvaluateContext(r)
  /\ cache' = KeptCache
  /\ marks' = IF Modified THEN [marks EXCEPT !.unmodified = {}] ELSE marks
  /\ phase' = [phase EXCEPT !.modified = @ \/ Modified]
  /\ Goto("safe_dead_end")
  /\ UNCHANGED <<node, real_g, stagn, loc, open, seen, trace, outputVars>>

LearnAgain(r) ==
  /\ Modified
  /\ ~AlwaysReevaluate
  /\ ~GrowthExceeded
  /\ r.h <= phase.lowestH

\* The relaxed plan executes but is too expensive: the second time in the same
\* state, with nothing learned in between, the search gives up.
Repeated == ~Modified /\ ~phase.modified /\ ctx.state \in marks.unmodified

LearnedFiniteValue ==
  /\ pc = "learned"
  /\ ~SolvedInBound
  /\ \E r \in ContextResults :
       /\ r.h # Infty
       /\ EvaluateContext(r)
       /\ cache' = CacheAfterLearning(r)
       /\ IF Repeated THEN Halt("FAILED")
          ELSE Goto(IF ~phase.cutoff THEN "exhaustion"
                    ELSE IF LearnAgain(r) THEN "learn"
                    ELSE "step")
  /\ marks' = [marks EXCEPT !.unmodified =
                 IF Modified THEN {}
                 ELSE IF phase.modified THEN @
                 ELSE @ \cup {ctx.state}]
  /\ phase' = [phase EXCEPT !.modified = @ \/ Modified]
  /\ UNCHANGED <<node, real_g, stagn, loc, open, seen, trace, outputVars>>

-----------------------------------------------------------------------------
(* proceed_with_no_better_state() *)

ProceedExhausted ==
  /\ pc = "proceed"
  /\ ~phase.cutoff
  /\ Goto("exhaustion")
  /\ UNCHANGED <<engineVars, phaseVars, outputVars>>

\* Should the next best state be a dead end by now, the CURRENT one is marked.
Proceed ==
  /\ pc = "proceed"
  /\ phase.cutoff
  /\ stagn' = 0
  /\ \E r \in ResultsOf(phase.nextBest) :
       /\ EvaluateIfNecessary(phase.nextBest, r)
       /\ IF r.h = Infty
            THEN Goto("safe_dead_end") /\ UNCHANGED <<ctx, open, trace>>
            ELSE /\ ctx' = FreshContext(phase.nextBest, r)
                 /\ open' = {}
                 /\ TracePath(phase.nextBest, "replay")
  /\ UNCHANGED <<node, real_g, marks, loc, seen, phase, outputVars>>

-----------------------------------------------------------------------------
(* handle_safe_dead_end() and handle_search_space_exhaustion() *)

\* Mutant: whatever is marked unsafe follows, since the last improvement or not.
FollowingDeadEnds_AllUnsafe == marks.unsafe

\* The states marked as unsafe dead ends since the last improvement follow the
\* current state into the dead ends.
FollowingDeadEnds == marks.current

HandleSafeDeadEnd ==
  /\ pc = "safe_dead_end"
  /\ node' = MarkAllDeadEnd(node, FollowingDeadEnds \cup {ctx.state})
  /\ marks' = [marks EXCEPT !.current = {}]
  /\ IF AtInitialState THEN Halt("UNSOLVABLE")
     ELSE Goto(IF RestartInDeadEnds THEN "restart" ELSE "escape_dead_end")
  /\ UNCHANGED <<real_g, ctx, stagn, heur, cache, phaseVars, outputVars>>

ContinueOnExhaustion ==
  /\ pc = "exhaustion"
  /\ Exhaustion = "CONTINUE"
  /\ IF NoLearning THEN Halt("FAILED") ELSE Goto("step")
  /\ UNCHANGED <<engineVars, phaseVars, outputVars>>

LeaveOnExhaustion ==
  /\ pc = "exhaustion"
  /\ Exhaustion # "CONTINUE"
  /\ marks' = IF UnsafeSse /\ ForceComplete THEN MarkCurrentUnsafe(marks) ELSE marks
  /\ node' = IF UnsafeSse /\ ~ForceComplete THEN MarkDeadEnd(node, ctx.state) ELSE node
  /\ Goto(IF Exhaustion = "RESTART" THEN "restart"
          ELSE IF UnsafeSse /\ ~ForceComplete THEN "escape_dead_end"
          ELSE "escape_potential")
  /\ UNCHANGED <<real_g, ctx, stagn, heur, cache, phaseVars, outputVars>>

-----------------------------------------------------------------------------
(* escape_dead_end(), escape_potential_dead_end(), restart(), restart_in_parent() *)

Parent == ParentOf(node, ctx.state)

EscapeDeadEnd ==
  /\ pc = "escape_dead_end"
  /\ stagn' = 0
  /\ IF ~HasParent(node, ctx.state)
       THEN /\ Halt(IF (UnsafeSse \/ UnsafeLs) /\ ~ForceComplete
                     THEN "FAILED" ELSE "UNSOLVABLE")
            /\ UNCHANGED <<node, real_g, ctx, heur, cache>>
       ELSE \E r \in ResultsOf(Parent) :
              /\ EvaluateIfNecessary(Parent, r)
              /\ ctx' = FreshContext(Parent, r)
              /\ real_g' = node[Parent].real_g
              /\ node' = IF r.h = Infty THEN MarkDeadEnd(node, Parent) ELSE node
              /\ Goto(IF r.h = Infty THEN "escape_dead_end" ELSE "step")
  /\ UNCHANGED <<marks, phaseVars, outputVars>>

EscapePotentialDeadEnd ==
  /\ pc = "escape_potential"
  /\ stagn' = 0
  /\ IF ~HasParent(node, ctx.state)
       THEN /\ marks' = [marks EXCEPT !.current = {}, !.unsafe = {}]
            /\ Goto("step")
            /\ UNCHANGED <<node, real_g, ctx, heur, cache>>
       ELSE /\ \E r \in ResultsOf(Parent) :
                 /\ EvaluateIfNecessary(Parent, r)
                 /\ ctx' = FreshContext(Parent, r)
                 /\ real_g' = IF r.h = Infty THEN real_g ELSE node[Parent].real_g
                 /\ node' = IF r.h = Infty THEN MarkDeadEnd(node, ctx.state) ELSE node
                 /\ Goto(IF r.h = Infty THEN "safe_dead_end" ELSE "step")
            /\ UNCHANGED marks
  /\ UNCHANGED <<phaseVars, outputVars>>

Restart ==
  /\ pc = "restart"
  /\ stagn' = 0
  /\ real_g' = 0
  /\ \E r \in ResultsOf(InitialState) :
       /\ EvaluateIfNecessary(InitialState, r)
       /\ ctx' = FreshContext(InitialState, r)
       /\ IF r.h = Infty THEN Halt("UNSOLVABLE") ELSE Goto("step")
  /\ UNCHANGED <<node, marks, phaseVars, outputVars>>

MarksOnBackjump == [marks EXCEPT !.excluded = @ \cup {ctx.state}]

RestartInParent ==
  /\ pc = "restart_in_parent"
  /\ HasParent(node, ctx.state)
  /\ stagn' = 0
  /\ marks' = MarksOnBackjump
  /\ \E r \in ResultsOf(Parent) :
       /\ EvaluateIfNecessary(Parent, r)
       /\ ctx' = FreshContext(Parent, r)
       /\ real_g' = IF r.h = Infty THEN real_g ELSE node[Parent].real_g
       /\ Goto(IF r.h = Infty THEN "safe_dead_end" ELSE "step")
  /\ UNCHANGED <<node, phaseVars, outputVars>>

-----------------------------------------------------------------------------
\* The time limit expires: it is looked at in both loops and after every step.
Timeout ==
  /\ pc \in {"step", "loop", "learn"}
  /\ Halt("TIMEOUT")
  /\ UNCHANGED <<engineVars, phaseVars, outputVars>>

Terminated == pc = "done" /\ UNCHANGED vars

PhaseLoop ==
  \/ \E e \in open : \/ Skip(e)
                     \/ PruneByNovelty(e)
                     \/ VisitDeadEnd(e)
                     \/ VisitBetter(e)
                     \/ VisitNotBetter(e)
  \/ EndPhase

Tracing == TraceBack \/ PlanTraced \/ ReplayStart \/ Replay \/ ReplayEnd

Learning ==
  \/ StagnationPrunes \/ StagnationLeaves \/ BeginLearning
  \/ LearnDeadEnd \/ LearnSolved \/ LearnConjunction \/ LearnFailed
  \/ LearnedSolution \/ LearnedDeadEnd \/ LearnedFiniteValue

Escaping ==
  \/ ProceedExhausted \/ Proceed
  \/ HandleSafeDeadEnd \/ ContinueOnExhaustion \/ LeaveOnExhaustion
  \/ EscapeDeadEnd \/ EscapePotentialDeadEnd \/ Restart \/ RestartInParent

Run ==
  \/ Initialize
  \/ StepSolved \/ StepGrowthExceeded \/ StartPhase
  \/ PhaseLoop \/ Tracing \/ Learning \/ Escaping

Next == Run \/ Timeout \/ Terminated

Spec == Init /\ [][Next]_vars

\* The engine is one thread that runs until it halts.
FairSpec == Spec /\ WF_vars(Run)

-----------------------------------------------------------------------------
(* Properties. *)

Opened(s) == node[s].real_g # -1

\* The global space is a tree of real paths: an opened state other than the
\* initial one was reached from an opened state, by an operator that leads to
\* it, at its parent's real cost plus the operator's (replay in ehc and in
\* proceed_with_no_better_state, lines 412-422 and 655-664).
SearchTree ==
  /\ pc # "init" => Opened(InitialState)
  /\ \A s \in States :
       Opened(s) =>
         \/ s = InitialState /\ node[s].op = NoTransition /\ node[s].real_g = 0
         \/ /\ node[s].op \in Transitions
            /\ Target[node[s].op] = s
            /\ Opened(ParentOf(node, s))
            /\ node[s].real_g = node[ParentOf(node, s)].real_g + Cost[node[s].op]

\* Whenever a phase begins, the current state has a path in the global space
\* and current_real_g is the cost of that path, however the engine got there:
\* replay over known nodes, restart, back jump or escape from a dead end.
CurrentCostIsPathCost ==
  pc \in {"step", "loop"} => Opened(ctx.state) /\ real_g = node[ctx.state].real_g

\* A state is marked as a dead end, and the task reported unsolvable, only if
\* no goal can be reached (lines 435-440, 678-699, 731-745).
DeadEndsAreSound ==
  /\ \A s \in States : IsDeadEnd(node, s) => s \notin Solvable
  /\ status = "UNSOLVABLE" => InitialState \notin Solvable

\* Where every way out of a dead end leads back to the initial state, a state that
\* is known to be a dead end is never taken up again as the current state of a
\* phase, though the phases, the next best states and the paths that are replayed
\* lead past it (the assertion at the start of expand, line 246).
DeadEndsAreNotExpanded == pc = "step" => ~IsDeadEnd(node, ctx.state)

\* Under pruning by preferred operators a state that is expanded has at least
\* one (the assertions at lines 221 and 231).
SomethingIsPreferred ==
  pc = "step" /\ PreferredUsage = "PRUNE_BY_PREFERRED" /\ ctx.state \notin Goals =>
    Preferred(ctx.state, ctx.res) # {}

\* Learning clears the heuristic cache and then stores the value of the current
\* state, which may predate the new conjunction: when a phase begins at most
\* one cached value is behind the heuristic, by one conjunction, and so is at
\* most the value the phase compares with (lines 583-610).  And the cache has an
\* entry for the current state (the assertions at lines 219, 674, 793 and 813).
CurrentIsCached == pc = "step" /\ EnableCache => CacheHit(ctx.state)

LagsByAtMostOne(r) == Cardinality(heur.learned \ r.ver) <= 1

ValuesAreFresh ==
  /\ CurrentIsCached
  /\ pc \in {"step", "loop"} =>
       LET stale == {s \in States : cache[s].h # -1 /\ cache[s].ver # heur.learned} IN
       /\ ctx.res.h # -1 /\ LagsByAtMostOne(ctx.res)
       /\ Cardinality(stale) <= 1
       /\ \A s \in stale : LagsByAtMostOne(cache[s])

IsPath(ops, from, to) ==
  /\ ops = <<>> => from = to
  /\ ops # <<>> => Source[ops[1]] = from /\ Target[ops[Len(ops)]] = to
  /\ \A i \in 1 .. Len(ops) - 1 : Target[ops[i]] = Source[ops[i + 1]]

\* A solution is a path from the initial state to a goal, or to the state whose
\* relaxed plan executes (set_plan, set_solution).
PlanIsValid ==
  sol.found =>
    /\ IsPath(sol.ops, InitialState, sol.at)
    /\ sol.at \in Goals \/ sol.suffix \in PlanCosts[sol.at]

\* The planner writes a plan exactly when the engine reports SOLVED.
SolvedMeansPlan ==
  pc = "done" => (status = "SOLVED" <=> sol.found)

\* The cost of the plan found is within the option bound.
PlanIsWithinBound ==
  sol.found /\ Bound # NoBound => node[sol.at].real_g + sol.suffix <= Bound

\* Paths in the global space are never revised, and a dead end stays one.
NodesAreNeverRevised ==
  [][\A s \in States :
       /\ Opened(s) => node'[s].op = node[s].op /\ node'[s].real_g = node[s].real_g
       /\ IsDeadEnd(node, s) => IsDeadEnd(node', s)]_node

\* The search ends: every way around without improvement learns something.
Termination == <>(pc = "done")

=============================================================================
