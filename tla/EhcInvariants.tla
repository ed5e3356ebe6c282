--------------------------- MODULE EhcInvariants ---------------------------
(***************************************************************************)
(* The inductive invariants of ehc_cn: what type correctness rests on      *)
(* (TypeInv), what keeps the search tree and the plan right (TreeInv), what   *)
(* keeps the values fresh (FreshInv) and the dead ends sound (DeadEndInv).  *)
(***************************************************************************)
EXTENDS EhcNovelty

HeurType == [learned : SUBSET Conjunctions, inf : SUBSET States, finite : SUBSET States,
             bsg : States \cup {NoState}, h : -1 .. MaxH, pref : SUBSET Transitions]

\* A valid best supporter graph has a value.
HeurInv(hs) == hs \in HeurType /\ (hs.bsg # NoState => hs.h # -1)

MarksType == [excluded : SUBSET States, unsafe : SUBSET States,
              current : SUBSET States, unmodified : SUBSET States]

PhaseType == [cutoff : BOOLEAN, deadEndUnsafe : BOOLEAN, nextBest : States \cup {NoState},
              lowestH : 0 .. Infty, modified : BOOLEAN]

TraceType == [path : Seq(Transitions), at : States, after : {"solved", "learned", "replay"}]

ResultSort == [result : {"SOLVED", "MODIFIED", "DEAD_END"}, cost : Nat]

SolutionType == [found : BOOLEAN, ops : Seq(Transitions), at : States, suffix : Nat]

\* There is a next best state whenever the search proceeds to it.
ControlInv ==
  /\ pc \in Locations
  /\ status \in {"IN_PROGRESS", "SOLVED", "FAILED", "TIMEOUT", "UNSOLVABLE"}
  /\ pc = "proceed" => phase.nextBest # NoState

EngineInv ==
  /\ node \in [States -> Node]
  /\ real_g \in Int
  /\ ctx \in Context
  /\ stagn \in Nat
  /\ HeurInv(heur)
  /\ cache \in [States -> Result]
  /\ marks \in MarksType

PhaseInv ==
  /\ loc \in [States -> Node]
  /\ open \subseteq Entry
  /\ seen \subseteq Facts \cup Conjunctions
  /\ phase \in PhaseType
  /\ trace \in TraceType

OutputInv == lres \in ResultSort /\ sol \in SolutionType

\* What type correctness rests on: TypeOK with two facts about the heuristic
\* and about the way into proceed, in parts that many steps leave alone.
TypeInv == ControlInv /\ EngineInv /\ PhaseInv /\ OutputInv

-----------------------------------------------------------------------------
(* The search tree. *)

OpenedIn(space, s) == space[s].real_g # -1

Visited(space, s) == space[s].status \in {"OPEN", "CLOSED"}

\* A global space in which every opened state hangs below the initial one.
IsTree(space) ==
  /\ space[InitialState].op = NoTransition /\ space[InitialState].real_g = 0
  /\ \A s \in States : IsNew(space, s) => ~OpenedIn(space, s)
  /\ \A s \in States : Visited(space, s) => OpenedIn(space, s)
  /\ \A s \in States :
       OpenedIn(space, s) =>
         /\ space[s].real_g \in Nat
         /\ \/ s = InitialState
            \/ /\ space[s].op \in Transitions
               /\ Target[space[s].op] = s
               /\ OpenedIn(space, Source[space[s].op])
               /\ space[s].real_g = space[Source[space[s].op]].real_g + Cost[space[s].op]

GlobalTree ==
  /\ pc = "init" => node = EmptySpace
  /\ pc # "init" => IsTree(node)

Replaying == pc = "replay" \/ (pc = "trace" /\ trace.after = "replay")

\* Where the current state stands in the tree, and from where current_real_g
\* counts; on the way into a dead end it may still be that of the child.
CurrentOnTree ==
  /\ pc = "init" => real_g = 0
  /\ pc # "init" /\ ~Replaying => Opened(ctx.state)
  /\ pc \notin {"init", "safe_dead_end", "restart", "escape_dead_end", "done"} /\ ~Replaying =>
       real_g = node[ctx.state].real_g
  /\ \A s \in marks.excluded : Opened(s)

\* Preferred operators belong to the state they are remembered for.
PreferredApplicable ==
  /\ \A s \in States : cache[s].pref \subseteq OpsOf(s)
  /\ ctx.res.pref \subseteq OpsOf(ctx.state)
  /\ heur.bsg # NoState => heur.pref \subseteq OpsOf(heur.bsg)

\* Roots are opened globally; nothing visited is a mere dead end globally.
IsForest(space, global) ==
  /\ \A s \in States : Visited(space, s) => IsNew(global, s) \/ OpenedIn(global, s)
  /\ \A s \in States : Visited(space, s) /\ ~HasParent(space, s) => OpenedIn(global, s)
  /\ \A s \in States : HasParent(space, s) =>
       /\ Visited(space, s)
       /\ Target[space[s].op] = s
       /\ Visited(space, ParentOf(space, s))

LocalForest ==
  /\ IsForest(loc, node)
  /\ \A e \in open : Visited(loc, Source[e.t])
  /\ phase.nextBest # NoState => HasParent(loc, phase.nextBest)

\* The search may still go into the phase's own space.
InPhase ==
  \/ pc \in {"loop", "escape_local_minimum", "proceed"}
  \/ pc = "trace" /\ trace.after = "replay"

LocalTree ==
  /\ InPhase => LocalForest
  /\ pc \notin {"loop", "done"} => open = {}

\* The path collected so far leads from where the trace stands to its end.
TraceSound ==
  /\ pc \in {"trace", "replay"} => IsPath(trace.path, trace.at, ctx.state)
  /\ pc = "trace" /\ trace.after # "replay" => Opened(trace.at)
  /\ pc = "trace" /\ trace.after = "replay" =>
       Visited(loc, trace.at) /\ (trace.path = <<>> => HasParent(loc, trace.at))
  /\ pc = "replay" =>
       Opened(trace.at) /\ (trace.path = <<>> => real_g = node[trace.at].real_g)
  /\ Replaying =>
       \A i \in 1 .. Len(trace.path) :
         IsNew(node, Target[trace.path[i]]) \/ Opened(Target[trace.path[i]])

SolutionSound ==
  /\ pc = "trace" /\ trace.after = "solved" => ctx.state \in Goals
  /\ pc = "trace" /\ trace.after = "learned" => lres.cost \in PlanCosts[ctx.state]
  /\ PlanIsValid

\* A phase's own space is a forest whose roots are opened globally and whose
\* other states are globally new or opened, so that the path traced through it
\* can be replayed; the global space is a tree of real paths below the initial
\* state, and current_real_g is the cost of the path to the current state (step,
\* ehc, trace_path and the replays, lines 262-449 and 630-676).
TreeInv ==
  /\ GlobalTree
  /\ CurrentOnTree
  /\ PreferredApplicable
  /\ LocalTree
  /\ TraceSound
  /\ SolutionSound

-----------------------------------------------------------------------------
(* The outcome. *)

\* The relaxed plan of the current state is being traced; generate_conjunctions
\* has run and its result has not been acted on.
TracingLearned == pc = "trace" /\ trace.after = "learned"

Generated == pc = "learned" \/ TracingLearned

\* The current state is about to be left for another one, or the search ends.
Leaving == pc \in {"init", "safe_dead_end", "restart", "escape_dead_end",
                   "restart_in_parent", "done"}

\* The value that stands for "no bound" is not the remaining bound, Bound - real_g
\* (generate_conjunctions is handed the difference, line 583).
BoundIsDistinct == Bound # NoBound => real_g # Bound + 1

\* A plan is set just before the search ends with it.
OutcomeInv ==
  /\ pc \notin {"learned", "done"} => ~sol.found
  /\ TracingLearned => SolvedInBound
  /\ pc = "learned" => (sol.found <=> SolvedInBound)
  /\ SolvedMeansPlan

-----------------------------------------------------------------------------
(* Values. *)

\* The last best supporter graph is that of a state known to be finite, goals
\* have value 0, and infinity is kept for states without a plan and never cached.
ValueInv ==
  /\ heur.bsg # NoState => heur.bsg \in heur.finite /\ (heur.bsg \in Goals => heur.h = 0)
  /\ \A s \in States : cache[s].h # Infty /\ (s \in Goals => cache[s].h <= 0)
  /\ ctx.res.h = Infty => ctx.state \notin Solvable
  /\ ctx.state \in Goals => ctx.res.h <= 0

\* The learned conjunctions are not yet accounted for in the cache.
CacheOutdated == pc = "learned" /\ Modified

\* A value with these versions lacks at most one of the learned conjunctions.
AtMostOneBehind(r) == \E c \in Conjunctions : heur.learned \subseteq r.ver \cup {c}

ContextFresh ==
  /\ pc \notin {"init", "done"} /\ ~Generated => ctx.res.h # -1
  /\ ctx.res.h # -1 => ctx.res.ver = heur.learned \/ AtMostOneBehind(ctx.res)
  /\ Generated /\ ~Modified /\ ctx.res.h # -1 => ctx.res.ver = heur.learned
  /\ TracingLearned => ~Modified

CachedFresh(s) ==
  cache[s].h # -1 => cache[s].ver = heur.learned \/ AtMostOneBehind(cache[s])

CacheFresh ==
  ~CacheOutdated =>
    \E z \in States : \A s \in States :
      CachedFresh(s) /\ (s # z /\ cache[s].h # -1 => cache[s].ver = heur.learned)

\* The current state is cached wherever the search may go on with it.
CurrentCached ==
  EnableCache /\ ~Leaving /\ ~CacheOutdated => CacheHit(ctx.state)

\* All that the values the search compares can lag behind is one conjunction, and
\* all but one of the cached values do not (lines 583-610).
FreshInv == ContextFresh /\ CacheFresh /\ CurrentCached

\* Finite values of states that are not goals come with preferred operators; the
\* preferred operators of the last best supporter graph, which a dead end may
\* have cleared, are asked for only when that graph's state is cached.
PreferredInv ==
  /\ \A s \in States \ Goals : cache[s].h # -1 => cache[s].pref # {}
  /\ ctx.state \notin Goals /\ ctx.res.h \notin {-1, Infty} => ctx.res.pref # {}
  /\ heur.bsg # NoState => CacheHit(heur.bsg)
  /\ CacheOutdated => heur.bsg = NoState
  /\ Generated /\ lres.result = "DEAD_END" => ctx.res.h = Infty

-----------------------------------------------------------------------------
(* Dead ends. *)

NoUnsafePruning == ~UnsafeSse /\ ~UnsafeLs

\* Unsafe pruning marks a state until the next improvement, and what it marks lies
\* behind the current state: the search only ever goes back from there.
UnsafePruningIsUndone ==
  /\ UnsafeSse \/ UnsafeLs => ForceComplete
  /\ UnsafeLs => Stagnation # "PROCEED"

\* With these options an exhausted phase has looked at everything it can reach:
\* nothing is cut off by a bound, and no state is excluded.
ExhaustionIsSafe ==
  PreferredUsage # "RANK_PREFERRED_FIRST" \/ (Bound = NoBound /\ Stagnation # "BACKJUMP")

\* What remains to be looked at before the phase has seen a transition's target.
Covered(t) ==
  \/ loc[Target[t]].status = "CLOSED"
  \/ Target[t] \notin Solvable
  \/ \E e \in open : e.t = t

PhaseCovers ==
  /\ loc[ctx.state].status = "CLOSED"
  /\ \A s \in States :
       /\ loc[s].status # "OPEN"
       /\ loc[s].status = "CLOSED" => s \notin Goals
       /\ loc[s].status = "DEAD_END" => s \notin Solvable
  /\ ~phase.cutoff /\ ~phase.deadEndUnsafe =>
       \A t \in Transitions : loc[Source[t]].status = "CLOSED" => Covered(t)

ExcludedByBackjumps ==
  Stagnation # "BACKJUMP" => marks.excluded = {} /\ pc # "restart_in_parent"

\* The states marked since the last improvement can be reached from the current
\* one, so that they are dead ends if it is; proceeding without an improvement
\* leaves none behind.
MarkedBehind ==
  /\ \A s \in marks.current : s \in Solvable => ctx.state \in Solvable
  /\ pc \in {"init", "escape_local_minimum", "proceed"} => marks.current = {}

\* Whatever has a node was reached from the initial state.
InitialIsFirst == \A s \in States : Opened(s) /\ s \in Solvable => InitialState \in Solvable

\* The next best state is known to be no dead end.
NextBestFinite ==
  pc \in {"loop", "escape_local_minimum", "proceed"} /\ phase.nextBest # NoState =>
    phase.nextBest \in heur.finite \/ CacheHit(phase.nextBest)

LoopCovers == pc = "loop" /\ PreferredUsage = "RANK_PREFERRED_FIRST" => PhaseCovers

DeadEndInv ==
  /\ ExcludedByBackjumps
  /\ MarkedBehind
  /\ InitialIsFirst
  /\ NextBestFinite
  /\ LoopCovers
  /\ DeadEndsAreSound
  /\ pc \in {"safe_dead_end", "escape_dead_end"} => ctx.state \notin Solvable

\* Nothing is marked unsafe, and only back jumps exclude states.
MarksUnused ==
  /\ marks.unsafe = {} /\ marks.current = {}
  /\ ExcludedByBackjumps

\* The options of the planner's second phase, as far as they matter for the way
\* the current state changes: always back to the initial state.
OnlyRestarts ==
  /\ NoUnsafePruning
  /\ RestartInDeadEnds
  /\ Exhaustion # "BACKJUMP"
  /\ Stagnation # "BACKJUMP"

\* The initial state is known to be a dead end but has not yet been evaluated again.
InitialIsLost ==
  /\ InitialState \in heur.inf
  /\ ~CacheHit(InitialState)
  /\ heur.bsg # InitialState

\* The current state and the next best one are no dead ends, and the phase has
\* looked at both, so it does not come across them again.
NoDeadEndAhead ==
  /\ pc \notin {"init", "safe_dead_end", "restart", "done"} => ~IsDeadEnd(node, ctx.state)
  /\ pc \in {"loop", "escape_local_minimum", "proceed"} /\ phase.nextBest # NoState =>
       ~IsDeadEnd(node, phase.nextBest) /\ ~IsNew(loc, phase.nextBest)
  /\ pc = "loop" => ~IsNew(loc, ctx.state)

NotExpandedInv ==
  /\ pc \notin {"escape_dead_end", "escape_potential", "restart_in_parent"}
  /\ MarksUnused
  /\ NoDeadEndAhead
  /\ pc # "done" /\ IsDeadEnd(node, InitialState) => InitialIsLost
=============================================================================
