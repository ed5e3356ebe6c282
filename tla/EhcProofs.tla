----------------------------- MODULE EhcProofs -----------------------------
(***************************************************************************)
(* ehc_cn, for every planning task.  First what holds under every setting  *)
(* of the options: the types; the global search space is a tree of real    *)
(* paths, current_real_g is the cost of the path to the current state      *)
(* whenever a phase begins, paths are never revised, and a solution is a   *)
(* path of operators from the initial state.  Then what the engine         *)
(* compares, prunes and reports, some of it under some options only: the   *)
(* values it compares are fresh, an expanded state has preferred           *)
(* operators, dead ends are real and never taken up again, and SOLVED      *)
(* means that there is a plan.                                             *)
(***************************************************************************)
EXTENDS EhcInvariants, FiniteSetTheorems, TLAPS

-----------------------------------------------------------------------------
(* The operators of the search space. *)

\* Opening, closing and marking nodes (search_space.cc) keep a space a space.
LEMMA SpaceTypes ==
  ASSUME NEW space \in [States -> Node], NEW s \in States
  PROVE  /\ EmptySpace \in [States -> Node]
         /\ OpenInitial(space, s) \in [States -> Node]
         /\ Close(space, s) \in [States -> Node]
         /\ MarkDeadEnd(space, s) \in [States -> Node]
<1>1. NewNode \in Node /\ RootNode \in Node
  BY DEF NewNode, RootNode, Node, Status
<1>2. EmptySpace \in [States -> Node]
  BY <1>1 DEF EmptySpace
<1>3. OpenInitial(space, s) \in [States -> Node]
  BY <1>1 DEF OpenInitial
<1>4. \A st \in Status : [space EXCEPT ![s].status = st] \in [States -> Node]
  BY DEF Node
<1>5. Close(space, s) \in [States -> Node] /\ MarkDeadEnd(space, s) \in [States -> Node]
  BY <1>4 DEF Close, MarkDeadEnd, Status
<1> QED
  BY <1>2, <1>3, <1>5

\* A dead end's ancestors are marked together (handle_safe_dead_end).
LEMMA MarkAllType ==
  ASSUME NEW space \in [States -> Node], NEW S
  PROVE  MarkAllDeadEnd(space, S) \in [States -> Node]
<1>1. \A s \in States : [space[s] EXCEPT !.status = "DEAD_END"] \in Node
  BY DEF Node, Status
<1> QED
  BY <1>1 DEF MarkAllDeadEnd

\* Adjusted operator costs are numbers, whatever the cost type (get_adjusted_action_cost).
LEMMA AdjustedCostType ==
  ASSUME NEW t \in Transitions
  PROVE  AdjustedCost(t) \in Nat
BY TaskAssumption DEF AdjustedCost

\* A node opened from its parent (SearchNode::open).
LEMMA OpenFromType ==
  ASSUME NEW space \in [States -> Node], NEW t \in Transitions
  PROVE  OpenFrom(space, t) \in [States -> Node] /\ Target[t] \in States /\ Source[t] \in States
<1>1. Target[t] \in States /\ Source[t] \in States /\ Cost[t] \in Nat
  BY TaskAssumption
<1>2. space[Source[t]].g \in Int /\ space[Source[t]].real_g \in Int
  BY <1>1 DEF Node
<1>3. ChildNode(space, t) \in Node
  BY <1>1, <1>2, AdjustedCostType DEF ChildNode, Node, Status
<1> QED
  BY <1>1, <1>3 DEF OpenFrom

\* A state with a parent has it among the states (get_parent_state_id).
LEMMA ParentType ==
  ASSUME NEW space \in [States -> Node], NEW s \in States, HasParent(space, s)
  PROVE  ParentOf(space, s) \in States /\ space[s].op \in Transitions
BY TaskAssumption DEF HasParent, ParentOf, Node

-----------------------------------------------------------------------------
(* Evaluations. *)

\* Every result, cached or computed, has a value from 0 up and preferred
\* operators among the operators (both overloads of evaluate_if_neccessary).
LEMMA ResultTypes ==
  ASSUME TypeInv, NEW s \in States
  PROVE  /\ FiniteResults(s) \subseteq {r \in Result : r.h \in 0 .. MaxH}
         /\ InfiniteResults(s) \subseteq {r \in Result : r.h = Infty}
         /\ EvaluationsOf(s) \subseteq {r \in Result : r.h \in 0 .. Infty}
         /\ ResultsOf(s) \subseteq {r \in Result : r.h \in 0 .. Infty}
<1>1. MaxH \in Nat \ {0} /\ Infty = MaxH + 1 /\ NoState \notin States
  BY OptionAssumption DEF Infty
<1>2. /\ heur.learned \in SUBSET Conjunctions /\ heur.pref \in SUBSET Transitions
      /\ heur.bsg = s => heur.h \in 0 .. MaxH
  BY <1>1 DEF TypeInv, EngineInv, HeurInv, HeurType
<1>3. FiniteResults(s) \subseteq {r \in Result : r.h \in 0 .. MaxH}
  <2>1. CASE heur.bsg = s
    BY <1>1, <1>2, <2>1 DEF FiniteResults, Result
  <2>2. CASE heur.bsg # s /\ s \notin heur.inf /\ s \in Goals
    BY <1>1, <1>2, <2>2 DEF FiniteResults, Result
  <2>3. CASE heur.bsg # s /\ s \notin heur.inf /\ s \notin Goals
    <3>1. (SUBSET OpsOf(s)) \ {{}} \subseteq SUBSET Transitions
      BY DEF OpsOf
    <3>2. FiniteResults(s) = [h : MinH .. MaxH, pref : (SUBSET OpsOf(s)) \ {{}}, ver : {heur.learned}]
      BY <2>3 DEF FiniteResults
    <3> QED
      BY <1>1, <1>2, <3>1, <3>2, OptionAssumption DEF Result
  <2>4. CASE heur.bsg # s /\ s \in heur.inf
    BY <2>4 DEF FiniteResults
  <2> QED
    BY <2>1, <2>2, <2>3, <2>4
<1>4. InfiniteResults(s) \subseteq {r \in Result : r.h = Infty}
  BY <1>1, <1>2 DEF InfiniteResults, Result
<1>5. EvaluationsOf(s) \subseteq {r \in Result : r.h \in 0 .. Infty}
  BY <1>1, <1>3, <1>4 DEF EvaluationsOf
<1>6. CacheHit(s) => cache[s] \in Result /\ cache[s].h \in 0 .. Infty
  BY <1>1 DEF CacheHit, TypeInv, EngineInv, Result
<1> QED
  BY <1>3, <1>4, <1>5, <1>6 DEF ResultsOf

\* compute_heuristic keeps what the heuristic remembers well typed.
LEMMA AfterEvaluationType ==
  ASSUME TypeInv, NEW s \in States, NEW r \in Result, r.h \in 0 .. Infty
  PROVE  HeurInv(AfterEvaluation(s, r))
<1>1. HeurInv(heur) /\ MaxH \in Nat \ {0} /\ Infty = MaxH + 1
  BY OptionAssumption DEF TypeInv, EngineInv, Infty
<1>2. r.pref \in SUBSET Transitions /\ (r.h # Infty => r.h \in 0 .. MaxH)
  BY <1>1 DEF Result
<1>3. CASE heur.bsg = s
  BY <1>1, <1>3 DEF AfterEvaluation
<1>4. CASE heur.bsg # s /\ r.h = Infty
  BY <1>1, <1>4 DEF AfterEvaluation, HeurInv, HeurType
<1>5. CASE heur.bsg # s /\ r.h # Infty
  <2>1. AfterEvaluation(s, r) = [heur EXCEPT !.finite = @ \cup {s}, !.bsg = s, !.h = r.h, !.pref = r.pref]
    BY <1>5 DEF AfterEvaluation
  <2>2. heur \in HeurType /\ heur.finite \cup {s} \in SUBSET States /\ r.h \in -1 .. MaxH /\ r.h # -1
    BY <1>1, <1>2, <1>5 DEF HeurInv, HeurType
  <2>3. AfterEvaluation(s, r) \in HeurType /\ AfterEvaluation(s, r).h = r.h
    BY <1>2, <2>1, <2>2 DEF HeurType
  <2> QED
    BY <2>2, <2>3 DEF HeurInv
<1> QED
  BY <1>3, <1>4, <1>5

\* evaluate_if_neccessary keeps the heuristic and its cache well typed.
LEMMA EvaluationType ==
  ASSUME TypeInv, NEW s \in States, NEW r \in ResultsOf(s),
         EvaluateIfNecessary(s, r)
  PROVE  HeurInv(heur') /\ cache' \in [States -> Result]
<1>1. r \in Result /\ r.h \in 0 .. Infty
  BY ResultTypes
<1>2. HeurInv(heur) /\ cache \in [States -> Result]
  BY DEF TypeInv, EngineInv
<1>3. HeurInv(heur')
  BY <1>1, <1>2, AfterEvaluationType DEF EvaluateIfNecessary
<1>4. cache' \in [States -> Result]
  BY <1>1, <1>2 DEF EvaluateIfNecessary, Store
<1> QED
  BY <1>3, <1>4

-----------------------------------------------------------------------------
(* Records and the open list. *)

LEMMA MarksTypes ==
  ASSUME NEW m \in MarksType, NEW S \in SUBSET States
  PROVE  /\ [m EXCEPT !.excluded = S] \in MarksType
         /\ [m EXCEPT !.unsafe = S] \in MarksType
         /\ [m EXCEPT !.current = S] \in MarksType
         /\ [m EXCEPT !.unmodified = S] \in MarksType
         /\ m.excluded \in SUBSET States /\ m.unsafe \in SUBSET States
         /\ m.current \in SUBSET States /\ m.unmodified \in SUBSET States
BY DEF MarksType

LEMMA PhaseTypes ==
  ASSUME NEW p \in PhaseType, NEW b \in BOOLEAN, NEW s \in States, NEW h \in 0 .. Infty
  PROVE  /\ [p EXCEPT !.cutoff = b] \in PhaseType
         /\ [p EXCEPT !.deadEndUnsafe = b] \in PhaseType
         /\ [p EXCEPT !.modified = b] \in PhaseType
         /\ [p EXCEPT !.nextBest = s] \in PhaseType
         /\ [p EXCEPT !.lowestH = h] \in PhaseType
         /\ p.cutoff \in BOOLEAN /\ p.deadEndUnsafe \in BOOLEAN /\ p.modified \in BOOLEAN
BY DEF PhaseType

\* A context made for a state and its evaluation (EvaluationContext).
LEMMA ContextTypes ==
  ASSUME NEW s \in States, NEW r \in Result, NEW b \in BOOLEAN
  PROVE  /\ [state |-> s, res |-> r, nov |-> b] \in Context
         /\ FreshContext(s, r) \in Context
         /\ NoResult \in Result
<1>1. Infty \in Nat
  BY OptionAssumption DEF Infty
<1> QED
  BY <1>1 DEF Context, FreshContext, NoResult, Result

\* The entries that an expansion inserts (expand).
LEMMA EntriesType ==
  ASSUME NEW space \in [States -> Node], NEW s \in States,
         NEW h \in -1 .. Infty, NEW pref \in SUBSET Transitions
  PROVE  Entries(space, s, h, pref) \subseteq Entry
<1>1. Batch(space) \in Nat
  <2>1. {q \in States : space[q].status = "CLOSED"} \subseteq States
    OBVIOUS
  <2>2. IsFiniteSet({q \in States : space[q].status = "CLOSED"})
    BY <2>1, FS_Subset, TaskAssumption
  <2> QED
    BY <2>2, FS_CardinalityType DEF Batch
<1>2. Successors(s, pref) \subseteq Transitions
  BY DEF Successors, OpsOf
<1>3. ASSUME NEW t \in Transitions
      PROVE  [t |-> t, g |-> space[s].g + AdjustedCost(t), pref |-> RankOf(t, pref),
              h |-> h, batch |-> Batch(space)] \in Entry
  <2>1. space[s].g + AdjustedCost(t) \in Int
    BY AdjustedCostType DEF Node
  <2>2. RankOf(t, pref) \in {0, 1}
    BY DEF RankOf
  <2> QED
    BY <1>1, <2>1, <2>2 DEF Entry
<1> QED
  BY <1>2, <1>3 DEF Entries

\* The preferred operators an expansion uses are operators.
LEMMA PreferredType ==
  ASSUME TypeInv, NEW s \in States, NEW r \in Result
  PROVE  Preferred(s, r) \in SUBSET Transitions
BY DEF Preferred, TypeInv, EngineInv, Result

LEMMA CutoffType ==
  ASSUME NEW space, NEW s, NEW pref
  PROVE  CutoffByDepth(space, s, pref) \in BOOLEAN
BY DEF CutoffByDepth

\* What a step leaves unchanged stays well typed.
LEMMA TypeUnchanged ==
  ASSUME TypeInv
  PROVE  /\ UNCHANGED engineVars => EngineInv'
         /\ UNCHANGED phaseVars => PhaseInv'
         /\ UNCHANGED outputVars => OutputInv'
BY DEF TypeInv, EngineInv, PhaseInv, OutputInv, engineVars, phaseVars, outputVars

-----------------------------------------------------------------------------
(* initialize(), step() and the loop of ehc(). *)

LEMMA TypeInitialize == TypeInv /\ Initialize => TypeInv'
<1> SUFFICES ASSUME TypeInv, Initialize PROVE TypeInv'
  OBVIOUS
<1>1. PICK r \in ResultsOf(InitialState) :
        /\ EvaluateIfNecessary(InitialState, r)
        /\ ctx' = FreshContext(InitialState, r)
        /\ IF r.h = Infty THEN Halt("UNSOLVABLE") ELSE Goto("step")
  BY DEF Initialize
<1>2. HeurInv(heur') /\ cache' \in [States -> Result] /\ r \in Result
  BY <1>1, EvaluationType, ResultTypes, TaskAssumption
<1>3. ctx' \in Context
  BY <1>1, <1>2, ContextTypes, TaskAssumption
<1>4. node' \in [States -> Node]
  BY SpaceTypes, TaskAssumption DEF TypeInv, EngineInv, Initialize
<1>5. EngineInv'
  BY <1>2, <1>3, <1>4 DEF TypeInv, EngineInv, Initialize
<1>6. ControlInv'
  BY <1>1 DEF TypeInv, ControlInv, Goto, Halt, Locations
<1> QED
  BY <1>5, <1>6, TypeUnchanged DEF TypeInv, Initialize

LEMMA TypeStepSolved == TypeInv /\ StepSolved => TypeInv'
<1> SUFFICES ASSUME TypeInv, StepSolved PROVE TypeInv'
  OBVIOUS
<1>1. trace' \in TraceType
  BY DEF TypeInv, EngineInv, Context, StepSolved, TracePath, TraceType
<1>2. PhaseInv'
  BY <1>1 DEF TypeInv, PhaseInv, StepSolved
<1>3. ControlInv'
  BY DEF TypeInv, ControlInv, StepSolved, TracePath, Goto, Locations
<1> QED
  BY <1>2, <1>3, TypeUnchanged DEF TypeInv, StepSolved

LEMMA TypeStartPhase == TypeInv /\ StartPhase => TypeInv'
<1> SUFFICES ASSUME TypeInv, StartPhase PROVE TypeInv'
  OBVIOUS
<1> DEFINE pref == Preferred(ctx.state, ctx.res)
<1>1. ctx.state \in States /\ ctx.res \in Result /\ ctx.res.h \in -1 .. Infty
  BY DEF TypeInv, EngineInv, Context, Result
<1>2. pref \in SUBSET Transitions
  BY <1>1, PreferredType
<1>3. PhaseRoots \in [States -> Node]
  BY DEF PhaseRoots, RootNode, NewNode, Node, Status
<1>4. loc' \in [States -> Node]
  BY <1>1, <1>3, SpaceTypes DEF StartPhase, Expand
<1>5. open' \subseteq Entry
  BY <1>1, <1>2, <1>3, EntriesType DEF StartPhase, Expand, TypeInv, PhaseInv
<1>6. phase' \in PhaseType
  <2>1. NoPhase \in PhaseType
    BY OptionAssumption DEF NoPhase, PhaseType, Infty
  <2>2. phase' = [NoPhase EXCEPT !.cutoff = CutoffByDepth(PhaseRoots, ctx.state, pref)]
    BY DEF StartPhase
  <2> QED
    BY <2>1, <2>2, CutoffType DEF PhaseType
<1>7. seen' \subseteq Facts \cup Conjunctions
  BY DEF StartPhase, Features, TypeInv, EngineInv, HeurInv, HeurType
<1>8. PhaseInv'
  BY <1>4, <1>5, <1>6, <1>7 DEF StartPhase, TypeInv, PhaseInv
<1>9. EngineInv'
  BY DEF StartPhase, TypeInv, EngineInv, Context
<1>10. ControlInv'
  BY DEF StartPhase, TypeInv, ControlInv, Goto, Locations
<1> QED
  BY <1>8, <1>9, <1>10, TypeUnchanged DEF TypeInv, StartPhase

\* The part that all ways of taking an entry from the open list share.
LEMMA TypePop ==
  ASSUME TypeInv, NEW e \in open
  PROVE  e.t \in Transitions /\ Target[e.t] \in States /\ open \ {e} \subseteq Entry
BY TaskAssumption DEF TypeInv, PhaseInv, Entry

LEMMA FeaturesType ==
  ASSUME TypeInv, NEW s
  PROVE  Features(s) \subseteq Facts \cup Conjunctions
BY DEF Features, TypeInv, EngineInv, HeurInv, HeurType

LEMMA TypeSkip == ASSUME NEW e \in open PROVE TypeInv /\ (Skip(e) \/ PruneByNovelty(e)) => TypeInv'
<1> SUFFICES ASSUME TypeInv, Skip(e) \/ PruneByNovelty(e) PROVE TypeInv'
  OBVIOUS
<1>1. phase \in PhaseType /\ UnsafelySkipped(e) \in BOOLEAN
  BY DEF TypeInv, PhaseInv, UnsafelySkipped
<1>2. phase' \in PhaseType
  <2>1. CASE Skip(e)
    BY <1>1, <2>1 DEF Skip, PhaseType
  <2>2. CASE PruneByNovelty(e)
    BY <1>1, <2>2 DEF PruneByNovelty, PhaseType
  <2> QED
    BY <2>1, <2>2
<1>3. open' \subseteq Entry
  BY TypePop DEF Skip, PruneByNovelty
<1>4. PhaseInv' /\ ControlInv'
  BY <1>2, <1>3 DEF TypeInv, PhaseInv, ControlInv, Skip, PruneByNovelty, Pop
<1> QED
  BY <1>4, TypeUnchanged DEF TypeInv, Skip, PruneByNovelty

LEMMA TypeVisitDeadEnd == ASSUME NEW e \in open PROVE TypeInv /\ VisitDeadEnd(e) => TypeInv'
<1> SUFFICES ASSUME TypeInv, VisitDeadEnd(e) PROVE TypeInv'
  OBVIOUS
<1>1. PICK r \in ResultsOf(Target[e.t]) : EvaluateIfNecessary(Target[e.t], r)
  BY DEF VisitDeadEnd
<1>2. HeurInv(heur') /\ cache' \in [States -> Result]
  BY <1>1, TypePop, EvaluationType
<1>3. node' \in [States -> Node] /\ loc' \in [States -> Node]
  BY TypePop, SpaceTypes DEF VisitDeadEnd, TypeInv, EngineInv, PhaseInv
<1>4. open' \subseteq Entry /\ seen' \subseteq Facts \cup Conjunctions
  BY TypePop, FeaturesType DEF VisitDeadEnd, Visit, TypeInv, PhaseInv
<1>5. EngineInv' /\ PhaseInv' /\ ControlInv'
  BY <1>2, <1>3, <1>4 DEF VisitDeadEnd, Visit, Pop, TypeInv, EngineInv, PhaseInv, ControlInv
<1> QED
  BY <1>5, TypeUnchanged DEF TypeInv, VisitDeadEnd

LEMMA TypeVisitBetter == ASSUME NEW e \in open PROVE TypeInv /\ VisitBetter(e) => TypeInv'
<1> SUFFICES ASSUME TypeInv, VisitBetter(e) PROVE TypeInv'
  OBVIOUS
<1> DEFINE s == Target[e.t]
<1>1. PICK r \in ResultsOf(s) :
        /\ EvaluateIfNecessary(s, r)
        /\ ctx' = [state |-> s, res |-> r, nov |-> ~CacheHit(s)]
  BY DEF VisitBetter
<1>2. s \in States /\ e.t \in Transitions
  BY TypePop
<1>3. HeurInv(heur') /\ cache' \in [States -> Result] /\ r \in Result
  BY <1>1, <1>2, EvaluationType, ResultTypes
<1>4. ctx' \in Context
  BY <1>1, <1>2, <1>3, ContextTypes DEF CacheHit
<1>5. marks' \in MarksType
  BY DEF VisitBetter, TypeInv, EngineInv, MarksType
<1>6. EngineInv'
  BY <1>3, <1>4, <1>5 DEF VisitBetter, TypeInv, EngineInv
<1>7. loc' \in [States -> Node]
  BY <1>2, OpenFromType DEF VisitBetter, TypeInv, PhaseInv
<1>8. trace' \in TraceType
  BY <1>2 DEF VisitBetter, TracePath, TraceType
<1>9. PhaseInv'
  BY <1>7, <1>8, FeaturesType DEF VisitBetter, Visit, TypeInv, PhaseInv
<1>10. ControlInv'
  BY DEF VisitBetter, TypeInv, ControlInv, TracePath, Goto, Locations
<1> QED
  BY <1>6, <1>9, <1>10, TypeUnchanged DEF TypeInv, VisitBetter

LEMMA TypeVisitNotBetter == ASSUME NEW e \in open PROVE TypeInv /\ VisitNotBetter(e) => TypeInv'
<1> SUFFICES ASSUME TypeInv, VisitNotBetter(e) PROVE TypeInv'
  OBVIOUS
<1> DEFINE s == Target[e.t]
           opened == OpenFrom(loc, e.t)
<1>1. PICK r \in ResultsOf(s) :
        /\ r.h # Infty
        /\ EvaluateIfNecessary(s, r)
        /\ LET pref == IF EnableCache THEN cache'[s].pref ELSE r.pref
               lowest == r.h < phase.lowestH
           IN
           /\ open' = (open \ {e}) \cup
                        IF WithinDepth(opened, s) THEN Entries(opened, s, r.h, pref) ELSE {}
           /\ loc' = Close(opened, s)
           /\ phase' = [phase EXCEPT
                          !.cutoff = @ \/ CutoffByDepth(opened, s, pref),
                          !.nextBest = IF lowest THEN s ELSE @,
                          !.lowestH = IF lowest THEN r.h ELSE @]
  BY DEF VisitNotBetter
<1> DEFINE pref == IF EnableCache THEN cache'[s].pref ELSE r.pref
<1>2. s \in States /\ e.t \in Transitions /\ open \ {e} \subseteq Entry
  BY TypePop
<1>3. HeurInv(heur') /\ cache' \in [States -> Result] /\ r \in Result /\ r.h \in 0 .. Infty
  BY <1>1, <1>2, EvaluationType, ResultTypes
<1>4. pref \in SUBSET Transitions
  BY <1>2, <1>3 DEF Result
<1>5. opened \in [States -> Node]
  BY <1>2, OpenFromType DEF TypeInv, PhaseInv
<1>6. loc' \in [States -> Node]
  BY <1>1, <1>2, <1>5, SpaceTypes
<1>7. Entries(opened, s, r.h, pref) \subseteq Entry
  <2>1. r.h \in -1 .. Infty
    BY <1>3, OptionAssumption DEF Infty
  <2> HIDE DEF pref, opened
  <2> QED
    BY <1>2, <1>4, <1>5, <2>1, EntriesType
<1>8. open' \subseteq Entry
  BY <1>1, <1>2, <1>7
<1>9. phase' \in PhaseType
  <2>1. phase \in PhaseType
    BY DEF TypeInv, PhaseInv
  <2>2. CutoffByDepth(opened, s, pref) \in BOOLEAN
    BY CutoffType
  <2> HIDE DEF pref, opened
  <2> QED
    BY <1>1, <1>2, <1>3, <2>1, <2>2 DEF PhaseType, pref
<1>10. PhaseInv'
  BY <1>6, <1>8, <1>9, FeaturesType DEF VisitNotBetter, Visit, TypeInv, PhaseInv
<1>11. EngineInv'
  BY <1>3 DEF VisitNotBetter, TypeInv, EngineInv
<1>12. ControlInv'
  BY DEF VisitNotBetter, Visit, Pop, TypeInv, ControlInv
<1> QED
  BY <1>10, <1>11, <1>12, TypeUnchanged DEF TypeInv, VisitNotBetter

LEMMA TypeEndPhase == TypeInv /\ EndPhase => TypeInv'
<1> SUFFICES ASSUME TypeInv, EndPhase PROVE TypeInv'
  OBVIOUS
<1>1. marks' \in MarksType
  BY DEF EndPhase, TypeInv, EngineInv, MarksType
<1>2. EngineInv'
  BY <1>1 DEF EndPhase, TypeInv, EngineInv
<1>3. ControlInv'
  BY DEF EndPhase, TypeInv, ControlInv, Goto, Locations
<1> QED
  BY <1>2, <1>3, TypeUnchanged DEF TypeInv, EndPhase

-----------------------------------------------------------------------------
(* trace_path and the replay of a path. *)

\* Where every trace starts (trace_path).
LEMMA TraceStartType ==
  ASSUME NEW s \in States, NEW next \in {"solved", "learned", "replay"}
  PROVE  [path |-> <<>>, at |-> s, after |-> next] \in TraceType
<1>1. <<>> \in Seq(Transitions)
  OBVIOUS
<1> QED
  BY <1>1 DEF TraceType

LEMMA TypeTraceBack == TypeInv /\ TraceBack => TypeInv'
<1> SUFFICES ASSUME TypeInv, TraceBack PROVE TypeInv'
  OBVIOUS
<1>1. TraceSpace \in [States -> Node] /\ trace \in TraceType /\ trace.at \in States
  BY DEF TypeInv, EngineInv, PhaseInv, TraceSpace, TraceType
<1>2. /\ ParentOf(TraceSpace, trace.at) \in States
      /\ TraceSpace[trace.at].op \in Transitions
  BY <1>1, ParentType DEF TraceBack
<1>3. <<TraceSpace[trace.at].op>> \o trace.path \in Seq(Transitions)
  BY <1>1, <1>2 DEF TraceType
<1>4. trace' \in TraceType
  BY <1>1, <1>2, <1>3 DEF TraceBack, TraceType
<1>5. PhaseInv' /\ ControlInv'
  BY <1>4 DEF TraceBack, TypeInv, PhaseInv, ControlInv
<1> QED
  BY <1>5, TypeUnchanged DEF TypeInv, TraceBack

LEMMA TypePlanTraced == TypeInv /\ PlanTraced => TypeInv'
<1> SUFFICES ASSUME TypeInv, PlanTraced PROVE TypeInv'
  OBVIOUS
<1>1. trace.path \in Seq(Transitions) /\ ctx.state \in States /\ lres.cost \in Nat /\ 0 \in Nat
  BY DEF TypeInv, EngineInv, PhaseInv, OutputInv, TraceType, Context, ResultSort
<1>2. \A n \in Nat : [found |-> TRUE, ops |-> trace.path, at |-> ctx.state, suffix |-> n]
                       \in SolutionType
  BY <1>1 DEF SolutionType
<1>3. sol' \in SolutionType
  BY <1>1, <1>2 DEF PlanTraced
<1>4. OutputInv' /\ ControlInv'
  BY <1>3 DEF PlanTraced, Goto, Halt, phaseVars, TypeInv, OutputInv, ControlInv, Locations
<1> QED
  BY <1>4, TypeUnchanged DEF TypeInv, PlanTraced

LEMMA TypeReplay == TypeInv /\ Replay => TypeInv'
<1> SUFFICES ASSUME TypeInv, Replay PROVE TypeInv'
  OBVIOUS
<1> DEFINE t == Head(trace.path)
<1>1. trace \in TraceType /\ trace.path \in Seq(Transitions) /\ trace.path # <<>>
  BY DEF TypeInv, PhaseInv, TraceType, Replay
<1>2. t \in Transitions /\ Tail(trace.path) \in Seq(Transitions)
  BY <1>1
<1>3. node \in [States -> Node] /\ Target[t] \in States
  BY <1>2, TaskAssumption DEF TypeInv, EngineInv
<1>4. node' \in [States -> Node]
  BY <1>2, <1>3, OpenFromType DEF Replay
<1>5. real_g' \in Int
  BY <1>3, <1>4 DEF Replay, ReplayedCost, Node
<1>6. trace' \in TraceType
  BY <1>1, <1>2, <1>3 DEF Replay, TraceType
<1>7. EngineInv' /\ PhaseInv' /\ ControlInv'
  BY <1>4, <1>5, <1>6 DEF Replay, TypeInv, EngineInv, PhaseInv, ControlInv
<1> QED
  BY <1>7, TypeUnchanged DEF TypeInv, Replay

-----------------------------------------------------------------------------
(* escape_local_minimum(): stagnation and learning. *)

LEMMA MarkCurrentType == TypeInv => MarkCurrentUnsafe(marks) \in MarksType
<1> SUFFICES ASSUME TypeInv PROVE MarkCurrentUnsafe(marks) \in MarksType
  OBVIOUS
<1>1. marks \in MarksType /\ ctx.state \in States
  BY DEF TypeInv, EngineInv, Context
<1> QED
  BY <1>1 DEF MarkCurrentUnsafe, MarksType

LEMMA StagnationMarksType == TypeInv => MarksOnStagnation \in MarksType
<1> SUFFICES ASSUME TypeInv PROVE MarksOnStagnation \in MarksType
  OBVIOUS
<1>1. marks \in MarksType
  BY DEF TypeInv, EngineInv
<1> QED
  BY <1>1, MarkCurrentType, MarksTypes DEF MarksOnStagnation

LEMMA TypeStagnation == TypeInv /\ (StagnationPrunes \/ StagnationLeaves) => TypeInv'
<1> SUFFICES ASSUME TypeInv, StagnationPrunes \/ StagnationLeaves PROVE TypeInv'
  OBVIOUS
<1>1. node' \in [States -> Node]
  BY SpaceTypes DEF StagnationPrunes, StagnationLeaves, TypeInv, EngineInv, Context
<1>2. marks' \in MarksType
  BY StagnationMarksType DEF StagnationPrunes, StagnationLeaves, TypeInv, EngineInv
<1>3. EngineInv'
  BY <1>1, <1>2 DEF StagnationPrunes, StagnationLeaves, TypeInv, EngineInv
<1>4. ControlInv'
  <2>1. CASE StagnationPrunes
    BY <2>1 DEF StagnationPrunes, TypeInv, ControlInv, Goto, Halt, Locations
  <2>2. CASE StagnationLeaves
    <3>1. Stagnation \in {"RESTART", "BACKJUMP", "PROCEED"}
      BY OptionAssumption
    <3> QED
      BY <2>2, <3>1
         DEF StagnationLeaves, LeavesOnStagnation, TypeInv, ControlInv, Goto, Locations, phaseVars
  <2> QED
    BY <2>1, <2>2
<1> QED
  BY <1>3, <1>4, TypeUnchanged DEF TypeInv, StagnationPrunes, StagnationLeaves

LEMMA TypeBeginLearning == TypeInv /\ BeginLearning => TypeInv'
<1> SUFFICES ASSUME TypeInv, BeginLearning PROVE TypeInv'
  OBVIOUS
<1>1. marks' \in MarksType
  BY StagnationMarksType DEF BeginLearning, TypeInv, EngineInv
<1>2. stagn' \in Nat
  BY DEF BeginLearning, TypeInv, EngineInv
<1>3. phase' \in PhaseType
  BY DEF BeginLearning, TypeInv, PhaseInv, PhaseType
<1>4. EngineInv' /\ PhaseInv' /\ ControlInv'
  BY <1>1, <1>2, <1>3
     DEF BeginLearning, TypeInv, EngineInv, PhaseInv, ControlInv, Goto, Locations
<1> QED
  BY <1>4, TypeUnchanged DEF TypeInv, BeginLearning

\* A new conjunction invalidates the best supporter graph.
LEMMA WithConjunctionType ==
  ASSUME NEW hs, HeurInv(hs), NEW c \in Conjunctions
  PROVE  HeurInv(WithConjunction(c, hs))
BY DEF WithConjunction, HeurInv, HeurType

LEMMA TypeGenerate ==
  TypeInv /\ (LearnDeadEnd \/ LearnSolved \/ LearnConjunction) => TypeInv'
<1> SUFFICES ASSUME TypeInv, LearnDeadEnd \/ LearnSolved \/ LearnConjunction PROVE TypeInv'
  OBVIOUS
<1>1. ctx.state \in States /\ MaxH \in Nat /\ Infty = MaxH + 1
  BY OptionAssumption DEF TypeInv, EngineInv, Context, Infty
<1>2. ASSUME NEW r \in FiniteResults(ctx.state) \cup InfiniteResults(ctx.state)
      PROVE  /\ r \in Result /\ HeurInv(AfterEvaluation(ctx.state, r))
             /\ FreshContext(ctx.state, r) \in Context
             /\ FreshContext(ctx.state, EvaluatedForLearning(r)) \in Context
  <2>1. r \in Result /\ r.h \in 0 .. Infty
    BY <1>1, ResultTypes DEF EvaluationsOf
  <2>2. HeurInv(AfterEvaluation(ctx.state, r))
    BY <1>1, <2>1, AfterEvaluationType
  <2> QED
    BY <1>1, <2>1, <2>2, ContextTypes DEF EvaluatedForLearning
<1>3. HeurInv(heur') /\ ctx' \in Context
  <2>1. CASE LearnDeadEnd
    BY <1>2, <2>1 DEF LearnDeadEnd
  <2>2. CASE LearnSolved
    BY <1>2, <2>2 DEF LearnSolved
  <2>3. CASE LearnConjunction
    BY <1>2, <2>3, WithConjunctionType DEF LearnConjunction
  <2> QED
    BY <2>1, <2>2, <2>3
<1>4. EngineInv'
  BY <1>3 DEF LearnDeadEnd, LearnSolved, LearnConjunction, TypeInv, EngineInv
<1>5. lres' \in ResultSort
  <2>1. \A c \in PlanCosts[ctx.state] : c \in Nat
    BY <1>1, OptionAssumption
  <2> QED
    BY <2>1 DEF LearnDeadEnd, LearnSolved, LearnConjunction, ResultSort
<1>6. trace' \in TraceType
  BY <1>1, TraceStartType
     DEF LearnDeadEnd, LearnSolved, LearnConjunction, TracePath, phaseVars, TypeInv, PhaseInv
<1>7. PhaseInv' /\ OutputInv'
  BY <1>5, <1>6 DEF LearnDeadEnd, LearnSolved, LearnConjunction, phaseVars, TypeInv,
              PhaseInv, OutputInv
<1>8. ControlInv'
  BY DEF LearnDeadEnd, LearnSolved, LearnConjunction, TracePath, Goto, phaseVars, TypeInv,
              ControlInv, Locations
<1> QED
  BY <1>4, <1>7, <1>8 DEF TypeInv

\* The result of the context is evaluated on demand (get_heuristic_value).
LEMMA ContextResultType ==
  ASSUME TypeInv, NEW r, EvaluateContext(r)
  PROVE  HeurInv(heur') /\ ctx' \in Context /\ r \in Result
<1>1. ctx \in Context /\ ctx.state \in States /\ ctx.res \in Result /\ HeurInv(heur)
  BY DEF TypeInv, EngineInv, Context
<1>2. r \in Result
  BY <1>1, ResultTypes DEF EvaluateContext, ContextResults
<1>3. ctx.res.h = -1 => r.h \in 0 .. Infty
  BY <1>1, ResultTypes DEF EvaluateContext, ContextResults
<1>4. HeurInv(heur')
  BY <1>1, <1>2, <1>3, AfterEvaluationType DEF EvaluateContext
<1>5. ctx' \in Context
  BY <1>1, <1>2 DEF EvaluateContext, Context
<1> QED
  BY <1>2, <1>4, <1>5

LEMMA KeptCacheType == TypeInv => KeptCache \in [States -> Result]
<1>1. NoResult \in Result
  BY OptionAssumption DEF NoResult, Result, Infty
<1> QED
  BY <1>1 DEF KeptCache, TypeInv, EngineInv

LEMMA TypeLearnedDeadEnd == TypeInv /\ LearnedDeadEnd => TypeInv'
<1> SUFFICES ASSUME TypeInv, LearnedDeadEnd PROVE TypeInv'
  OBVIOUS
<1>1. HeurInv(heur') /\ ctx' \in Context
  BY ContextResultType DEF LearnedDeadEnd
<1>2. cache' \in [States -> Result]
  BY KeptCacheType DEF LearnedDeadEnd
<1>3. marks' \in MarksType
  BY MarksTypes DEF LearnedDeadEnd, TypeInv, EngineInv
<1>4. phase' \in PhaseType
  BY DEF LearnedDeadEnd, TypeInv, PhaseInv, PhaseType, Modified
<1>5. EngineInv' /\ PhaseInv' /\ ControlInv'
  BY <1>1, <1>2, <1>3, <1>4
     DEF LearnedDeadEnd, TypeInv, EngineInv, PhaseInv, ControlInv, Goto, Locations
<1> QED
  BY <1>5, TypeUnchanged DEF TypeInv, LearnedDeadEnd

LEMMA TypeLearnedFiniteValue == TypeInv /\ LearnedFiniteValue => TypeInv'
<1> SUFFICES ASSUME TypeInv, LearnedFiniteValue PROVE TypeInv'
  OBVIOUS
<1>1. PICK r : EvaluateContext(r) /\ cache' = CacheAfterLearning(r)
  BY DEF LearnedFiniteValue
<1>2. HeurInv(heur') /\ ctx' \in Context /\ r \in Result
  BY <1>1, ContextResultType
<1>3. cache' \in [States -> Result]
  BY <1>1, <1>2, KeptCacheType DEF CacheAfterLearning
<1>4. marks' \in MarksType
  <2>1. ctx.state \in States /\ marks \in MarksType
    BY DEF TypeInv, EngineInv, Context
  <2> QED
    BY <2>1 DEF LearnedFiniteValue, MarksType
<1>5. phase' \in PhaseType
  BY DEF LearnedFiniteValue, TypeInv, PhaseInv, PhaseType, Modified
<1>6. EngineInv' /\ PhaseInv'
  BY <1>2, <1>3, <1>4, <1>5 DEF LearnedFiniteValue, TypeInv, EngineInv, PhaseInv
<1>7. ControlInv'
  BY DEF LearnedFiniteValue, TypeInv, ControlInv, Goto, Halt, Locations
<1> QED
  BY <1>6, <1>7, TypeUnchanged DEF TypeInv, LearnedFiniteValue

-----------------------------------------------------------------------------
(* proceeding, dead ends, restarts. *)

LEMMA TypeProceed == TypeInv /\ Proceed => TypeInv'
<1> SUFFICES ASSUME TypeInv, Proceed PROVE TypeInv'
  OBVIOUS
<1>1. phase.nextBest \in States
  BY DEF TypeInv, ControlInv, PhaseInv, PhaseType, Proceed
<1>2. PICK r \in ResultsOf(phase.nextBest) :
        /\ EvaluateIfNecessary(phase.nextBest, r)
        /\ IF r.h = Infty
             THEN Goto("safe_dead_end") /\ UNCHANGED <<ctx, open, trace>>
             ELSE /\ ctx' = FreshContext(phase.nextBest, r)
                  /\ open' = {}
                  /\ TracePath(phase.nextBest, "replay")
  BY DEF Proceed
<1>3. HeurInv(heur') /\ cache' \in [States -> Result] /\ r \in Result
  BY <1>1, <1>2, EvaluationType, ResultTypes
<1>4. ctx' \in Context
  BY <1>1, <1>2, <1>3, ContextTypes DEF TypeInv, EngineInv
<1>5. EngineInv'
  BY <1>3, <1>4 DEF Proceed, TypeInv, EngineInv
<1>6. trace' \in TraceType
  BY <1>1, <1>2, TraceStartType DEF TracePath, TypeInv, PhaseInv
<1>7. PhaseInv'
  BY <1>2, <1>6 DEF Proceed, TypeInv, PhaseInv
<1>8. ControlInv'
  BY <1>2 DEF Proceed, TypeInv, ControlInv, TracePath, Goto, Locations
<1> QED
  BY <1>5, <1>7, <1>8, TypeUnchanged DEF TypeInv, Proceed

LEMMA TypeGiveUp ==
  TypeInv /\ (HandleSafeDeadEnd \/ ContinueOnExhaustion \/ LeaveOnExhaustion) => TypeInv'
<1> SUFFICES ASSUME TypeInv, HandleSafeDeadEnd \/ ContinueOnExhaustion \/ LeaveOnExhaustion
             PROVE  TypeInv'
  OBVIOUS
<1>1. node' \in [States -> Node]
  BY MarkAllType, SpaceTypes
     DEF HandleSafeDeadEnd, ContinueOnExhaustion, LeaveOnExhaustion, engineVars, TypeInv,
         EngineInv, Context
<1>2. marks' \in MarksType
  BY MarkCurrentType, MarksTypes
     DEF HandleSafeDeadEnd, ContinueOnExhaustion, LeaveOnExhaustion, engineVars, TypeInv,
         EngineInv
<1>3. EngineInv'
  BY <1>1, <1>2
     DEF HandleSafeDeadEnd, ContinueOnExhaustion, LeaveOnExhaustion, engineVars, TypeInv,
         EngineInv
<1>4. ControlInv'
  BY DEF HandleSafeDeadEnd, ContinueOnExhaustion, LeaveOnExhaustion, TypeInv, ControlInv,
         Goto, Halt, Locations
<1> QED
  BY <1>3, <1>4, TypeUnchanged
     DEF TypeInv, HandleSafeDeadEnd, ContinueOnExhaustion, LeaveOnExhaustion

\* What every move to the parent of the current state has in common.
LEMMA ParentEvaluation ==
  ASSUME TypeInv, HasParent(node, ctx.state), NEW r \in ResultsOf(Parent),
         EvaluateIfNecessary(Parent, r)
  PROVE  /\ HeurInv(heur') /\ cache' \in [States -> Result]
         /\ FreshContext(Parent, r) \in Context
         /\ node[Parent].real_g \in Int
         /\ MarkDeadEnd(node, Parent) \in [States -> Node]
         /\ MarkDeadEnd(node, ctx.state) \in [States -> Node]
<1>1. node \in [States -> Node] /\ ctx.state \in States
  BY DEF TypeInv, EngineInv, Context
<1>2. Parent \in States
  BY <1>1, ParentType DEF Parent
<1>3. HeurInv(heur') /\ cache' \in [States -> Result] /\ r \in Result
  BY <1>2, EvaluationType, ResultTypes
<1>4. node[Parent].real_g \in Int
  BY <1>1, <1>2 DEF Node
<1> QED
  BY <1>1, <1>2, <1>3, <1>4, ContextTypes, SpaceTypes

LEMMA TypeEscapeDeadEnd == TypeInv /\ EscapeDeadEnd => TypeInv'
<1> SUFFICES ASSUME TypeInv, EscapeDeadEnd PROVE TypeInv'
  OBVIOUS
<1>1. EngineInv'
  <2>1. CASE ~HasParent(node, ctx.state)
    BY <2>1 DEF EscapeDeadEnd, TypeInv, EngineInv
  <2>2. CASE HasParent(node, ctx.state)
    BY <2>2, ParentEvaluation DEF EscapeDeadEnd, TypeInv, EngineInv
  <2> QED
    BY <2>1, <2>2
<1>2. ControlInv'
  BY DEF EscapeDeadEnd, TypeInv, ControlInv, Goto, Halt, Locations
<1> QED
  BY <1>1, <1>2, TypeUnchanged DEF TypeInv, EscapeDeadEnd

LEMMA TypeEscapePotential == TypeInv /\ EscapePotentialDeadEnd => TypeInv'
<1> SUFFICES ASSUME TypeInv, EscapePotentialDeadEnd PROVE TypeInv'
  OBVIOUS
<1>1. EngineInv'
  <2>1. CASE ~HasParent(node, ctx.state)
    BY <2>1 DEF EscapePotentialDeadEnd, TypeInv, EngineInv, MarksType
  <2>2. CASE HasParent(node, ctx.state)
    BY <2>2, ParentEvaluation DEF EscapePotentialDeadEnd, TypeInv, EngineInv
  <2> QED
    BY <2>1, <2>2
<1>2. ControlInv'
  BY DEF EscapePotentialDeadEnd, TypeInv, ControlInv, Goto, Locations
<1> QED
  BY <1>1, <1>2, TypeUnchanged DEF TypeInv, EscapePotentialDeadEnd

LEMMA TypeRestart == TypeInv /\ Restart => TypeInv'
<1> SUFFICES ASSUME TypeInv, Restart PROVE TypeInv'
  OBVIOUS
<1>1. PICK r \in ResultsOf(InitialState) :
        /\ EvaluateIfNecessary(InitialState, r)
        /\ ctx' = FreshContext(InitialState, r)
        /\ IF r.h = Infty THEN Halt("UNSOLVABLE") ELSE Goto("step")
  BY DEF Restart
<1>2. HeurInv(heur') /\ cache' \in [States -> Result] /\ r \in Result
  BY <1>1, EvaluationType, ResultTypes, TaskAssumption
<1>3. ctx' \in Context
  BY <1>1, <1>2, ContextTypes, TaskAssumption
<1>4. EngineInv'
  BY <1>2, <1>3 DEF Restart, TypeInv, EngineInv
<1>5. ControlInv'
  BY <1>1 DEF TypeInv, ControlInv, Goto, Halt, Locations
<1> QED
  BY <1>4, <1>5, TypeUnchanged DEF TypeInv, Restart

LEMMA TypeRestartInParent == TypeInv /\ RestartInParent => TypeInv'
<1> SUFFICES ASSUME TypeInv, RestartInParent PROVE TypeInv'
  OBVIOUS
<1>1. marks' \in MarksType
  BY MarksTypes DEF RestartInParent, MarksOnBackjump, TypeInv, EngineInv, Context
<1>2. EngineInv'
  BY <1>1, ParentEvaluation DEF RestartInParent, TypeInv, EngineInv
<1>3. ControlInv'
  BY DEF RestartInParent, TypeInv, ControlInv, Goto, Locations
<1> QED
  BY <1>2, <1>3, TypeUnchanged DEF TypeInv, RestartInParent

\* The steps that only move on or halt.
LEMMA TypeMoves ==
  TypeInv /\ (\/ StepGrowthExceeded \/ ReplayStart \/ ReplayEnd \/ LearnFailed
              \/ LearnedSolution \/ ProceedExhausted \/ Timeout \/ UNCHANGED vars)
    => TypeInv'
<1> SUFFICES ASSUME TypeInv,
                    \/ StepGrowthExceeded \/ ReplayStart \/ ReplayEnd \/ LearnFailed
                    \/ LearnedSolution \/ ProceedExhausted \/ Timeout \/ UNCHANGED vars
             PROVE  TypeInv'
  OBVIOUS
<1> USE DEF StepGrowthExceeded, ReplayStart, ReplayEnd, LearnFailed, LearnedSolution,
            ProceedExhausted, Timeout, vars, engineVars, phaseVars, outputVars
<1>1. UNCHANGED engineVars /\ UNCHANGED phaseVars /\ UNCHANGED outputVars
  OBVIOUS
<1>2. ControlInv'
  BY DEF TypeInv, ControlInv, Goto, Halt, Locations
<1> QED
  BY <1>1, <1>2, TypeUnchanged DEF TypeInv

-----------------------------------------------------------------------------
(* The theorem. *)

LEMMA TypeInit == Init => TypeInv
<1> SUFFICES ASSUME Init PROVE TypeInv
  OBVIOUS
<1>1. /\ NoResult \in Result /\ NoPhase \in PhaseType /\ EmptySpace \in [States -> Node]
      /\ MaxH \in Nat /\ InitialState \in States
  BY OptionAssumption, TaskAssumption
     DEF NoResult, Result, NoPhase, PhaseType, EmptySpace, NewNode, Node, Status, Infty
<1>2. ctx \in Context /\ cache \in [States -> Result]
  BY <1>1 DEF Init, Context
<1>3. HeurInv(heur) /\ marks \in MarksType
  BY <1>1 DEF Init, HeurInv, HeurType, MarksType
<1>4. trace \in TraceType /\ lres \in ResultSort /\ sol \in SolutionType
  BY <1>1 DEF Init, TraceType, ResultSort, SolutionType
<1>5. ControlInv
  BY DEF Init, ControlInv, Locations
<1> QED
  BY <1>1, <1>2, <1>3, <1>4, <1>5 DEF Init, TypeInv, EngineInv, PhaseInv, OutputInv

LEMMA TypeNext == TypeInv /\ [Next]_vars => TypeInv'
BY TypeInitialize, TypeStepSolved, TypeStartPhase, TypeSkip, TypeVisitDeadEnd, TypeVisitBetter,
   TypeVisitNotBetter, TypeEndPhase, TypeTraceBack, TypePlanTraced, TypeReplay, TypeStagnation,
   TypeBeginLearning, TypeGenerate, TypeLearnedDeadEnd, TypeLearnedFiniteValue, TypeProceed,
   TypeGiveUp, TypeEscapeDeadEnd, TypeEscapePotential, TypeRestart, TypeRestartInParent, TypeMoves
   DEF Next, Run, PhaseLoop, Tracing, Learning, Escaping, Terminated

\* The strengthened invariant, for the proofs that build on it.
THEOREM TypeInvariant == Spec => []TypeInv
BY TypeInit, TypeNext, PTL DEF Spec

\* The engine never leaves its types, whatever the task and the options: every
\* index, cost, cached result and state id has the range the code relies on, and
\* proceed_with_no_better_state always finds a next best state.
THEOREM TypeCorrect == Spec => []TypeOK
<1>1. TypeInv => TypeOK
  BY DEF TypeInv, ControlInv, EngineInv, PhaseInv, OutputInv, TypeOK, HeurInv, HeurType,
         MarksType, PhaseType, TraceType, ResultSort, SolutionType
<1> QED
  BY <1>1, TypeInvariant, PTL

-----------------------------------------------------------------------------
(* Paths. *)

LEMMA EmptyPath == ASSUME NEW s PROVE IsPath(<<>>, s, s)
BY DEF IsPath

\* trace_path puts an operator in front of the path collected so far.
LEMMA PathPrepend ==
  ASSUME NEW p \in Seq(Transitions), NEW t \in Transitions, NEW b,
         IsPath(p, Target[t], b)
  PROVE  IsPath(<<t>> \o p, Source[t], b)
<1> DEFINE q == <<t>> \o p
<1>1. q \in Seq(Transitions) /\ Len(q) = Len(p) + 1 /\ q # <<>> /\ q[1] = t /\ Len(p) \in Nat
  OBVIOUS
<1>2. \A i \in 1 .. Len(p) : q[i + 1] = p[i]
  OBVIOUS
<1>3. CASE p = <<>>
  BY <1>3 DEF IsPath
<1>4. CASE p # <<>>
  <2>1. Len(p) > 0
    BY <1>4
  <2>2. q[Len(q)] = p[Len(p)]
    BY <1>1, <1>2, <2>1
  <2>3. Target[q[Len(q)]] = b
    BY <1>4, <2>2 DEF IsPath
  <2>4. ASSUME NEW i \in 1 .. Len(q) - 1
        PROVE  Target[q[i]] = Source[q[i + 1]]
    <3>1. CASE i = 1
      <4>1. q[i] = t /\ q[i + 1] = p[1]
        BY <1>1, <1>2, <2>1, <3>1
      <4> QED
        BY <1>4, <4>1 DEF IsPath
    <3>2. CASE i # 1
      <4> DEFINE j == i - 1
      <4>1. j \in 1 .. Len(p) - 1 /\ j + 1 \in 1 .. Len(p) /\ j \in 1 .. Len(p) /\ i = j + 1
        BY <1>1, <3>2
      <4>2. q[i] = p[j] /\ q[i + 1] = p[j + 1]
        BY <1>2, <4>1
      <4>3. Target[p[j]] = Source[p[j + 1]]
        BY <4>1 DEF IsPath
      <4> QED
        BY <4>2, <4>3
    <3> QED
      BY <3>1, <3>2
  <2> HIDE DEF q
  <2> QED
    BY <1>1, <2>3, <2>4 DEF IsPath, q
<1> QED
  BY <1>3, <1>4

\* The replay takes an operator from the front.
LEMMA PathTail ==
  ASSUME NEW p \in Seq(Transitions), p # <<>>, NEW a, NEW b, IsPath(p, a, b)
  PROVE  /\ Head(p) \in Transitions /\ Source[Head(p)] = a
         /\ Tail(p) \in Seq(Transitions)
         /\ IsPath(Tail(p), Target[Head(p)], b)
<1> DEFINE q == Tail(p)
<1>1. q \in Seq(Transitions) /\ Len(q) = Len(p) - 1 /\ Len(p) \in Nat \ {0} /\ Head(p) = p[1]
  OBVIOUS
<1>2. \A i \in 1 .. Len(q) : q[i] = p[i + 1]
  OBVIOUS
<1>3. Head(p) \in Transitions /\ Source[Head(p)] = a
  BY <1>1 DEF IsPath
<1>4. CASE q = <<>>
  <2>1. Len(q) = 0
    <3>1. Len(<<>>) = 0
      OBVIOUS
    <3> HIDE DEF q
    <3> QED
      BY <1>4, <3>1
  <2>2. Len(p) = 1
    <3> HIDE DEF q
    <3> QED
      BY <1>1, <2>1
  <2> QED
    BY <1>1, <1>3, <1>4, <2>2 DEF IsPath
<1>5. CASE q # <<>>
  <2>1. Len(q) \in Nat \ {0}
    BY <1>1, <1>5
  <2>2. q[1] = p[2] /\ q[Len(q)] = p[Len(p)]
    BY <1>1, <1>2, <2>1
  <2>3. Source[q[1]] = Target[Head(p)]
    <3>1. 1 \in 1 .. Len(p) - 1
      BY <1>1, <2>1
    <3> QED
      BY <1>1, <2>2, <3>1 DEF IsPath
  <2>4. Target[q[Len(q)]] = b
    BY <2>2 DEF IsPath
  <2>5. ASSUME NEW i \in 1 .. Len(q) - 1
        PROVE  Target[q[i]] = Source[q[i + 1]]
    <3> DEFINE j == i + 1
    <3>1. i \in 1 .. Len(q) /\ i + 1 \in 1 .. Len(q) /\ j \in 1 .. Len(p) - 1
      BY <1>1, <2>1
    <3>2. q[i] = p[j] /\ q[i + 1] = p[j + 1]
      BY <1>2, <3>1
    <3>3. Target[p[j]] = Source[p[j + 1]]
      BY <3>1 DEF IsPath
    <3> QED
      BY <3>2, <3>3
  <2> HIDE DEF q
  <2>6. IsPath(q, Target[Head(p)], b)
    BY <1>5, <2>3, <2>4, <2>5 DEF IsPath
  <2> QED
    BY <1>1, <1>3, <2>6 DEF q
<1> QED
  BY <1>4, <1>5

-----------------------------------------------------------------------------
(* Nodes. *)

\* Two spaces that tell the same paths; the second may know more dead ends.
SamePaths(a, b) ==
  \A s \in States :
    /\ b[s].op = a[s].op
    /\ b[s].real_g = a[s].real_g
    /\ b[s].status = "NEW" => a[s].status = "NEW"
    /\ Visited(b, s) => Visited(a, s)
    /\ a[s].status = "DEAD_END" => b[s].status = "DEAD_END"

\* Marking dead ends keeps every path (SearchNode::mark_as_dead_end).
LEMMA MarkSame ==
  ASSUME NEW space \in [States -> Node]
  PROVE  /\ SamePaths(space, space)
         /\ \A s \in States : SamePaths(space, MarkDeadEnd(space, s))
         /\ \A S : SamePaths(space, MarkAllDeadEnd(space, S))
<1>1. ASSUME NEW s \in States, NEW q \in States
      PROVE  MarkDeadEnd(space, s)[q]
               = IF q = s THEN [space[q] EXCEPT !.status = "DEAD_END"] ELSE space[q]
  BY DEF MarkDeadEnd
<1>2. \A q \in States : space[q] \in Node
  OBVIOUS
<1>3. ASSUME NEW q \in States
      PROVE  LET n == [space[q] EXCEPT !.status = "DEAD_END"] IN
             n.op = space[q].op /\ n.real_g = space[q].real_g /\ n.status = "DEAD_END"
  BY <1>2 DEF Node
<1>4. \A s \in States : SamePaths(space, MarkDeadEnd(space, s))
  BY <1>1, <1>3 DEF SamePaths, Visited
<1>5. \A S : SamePaths(space, MarkAllDeadEnd(space, S))
  BY <1>3 DEF SamePaths, MarkAllDeadEnd, Visited
<1> QED
  BY <1>4, <1>5 DEF SamePaths

LEMMA TreeSame ==
  ASSUME NEW a \in [States -> Node], NEW b \in [States -> Node], SamePaths(a, b), IsTree(a)
  PROVE  IsTree(b)
<1>1. InitialState \in States /\ \A t \in Transitions : Source[t] \in States
  BY TaskAssumption
<1> QED
  BY <1>1 DEF SamePaths, IsTree, OpenedIn, IsNew

\* A new state is opened below an opened one (SearchNode::open).
LEMMA TreeOpenFrom ==
  ASSUME NEW space \in [States -> Node], NEW t \in Transitions,
         IsTree(space), OpenedIn(space, Source[t]), IsNew(space, Target[t])
  PROVE  /\ IsTree(OpenFrom(space, t))
         /\ OpenedIn(OpenFrom(space, t), Target[t])
         /\ \A s \in States : s # Target[t] => OpenFrom(space, t)[s] = space[s]
<1> DEFINE new == OpenFrom(space, t)
<1>1. /\ Source[t] \in States /\ Target[t] \in States /\ Cost[t] \in Nat
      /\ InitialState \in States /\ \A u \in Transitions : Source[u] \in States
  BY TaskAssumption
<1>2. space[InitialState].real_g = 0 /\ ~OpenedIn(space, Target[t])
  BY <1>1 DEF IsTree, IsNew
<1>3. Target[t] # InitialState /\ Target[t] # Source[t]
  BY <1>2 DEF OpenedIn
<1>4. /\ new[Target[t]].status = "OPEN" /\ new[Target[t]].op = t
      /\ new[Target[t]].real_g = space[Source[t]].real_g + Cost[t]
  BY <1>1 DEF OpenFrom, ChildNode
<1>5. \A s \in States : s # Target[t] => new[s] = space[s]
  BY DEF OpenFrom
<1>6. space[Source[t]].real_g \in Nat
  BY <1>1 DEF IsTree
<1>7. new[Target[t]].real_g \in Nat
  BY <1>1, <1>4, <1>6
<1>8. OpenedIn(new, Target[t])
  BY <1>7 DEF OpenedIn
<1> HIDE DEF new
<1>9. ASSUME NEW s \in States, OpenedIn(new, s)
      PROVE  /\ new[s].real_g \in Nat
             /\ \/ s = InitialState
                \/ /\ new[s].op \in Transitions
                   /\ Target[new[s].op] = s
                   /\ OpenedIn(new, Source[new[s].op])
                   /\ new[s].real_g = new[Source[new[s].op]].real_g + Cost[new[s].op]
  <2>1. CASE s = Target[t]
    BY <1>1, <1>3, <1>4, <1>5, <1>7, <2>1 DEF OpenedIn
  <2>2. CASE s # Target[t]
    <3>1. new[s] = space[s] /\ OpenedIn(space, s)
      BY <1>5, <1>9, <2>2 DEF OpenedIn
    <3>2. CASE s = InitialState
      BY <3>1, <3>2 DEF IsTree
    <3>3. CASE s # InitialState
      <4> DEFINE p == Source[space[s].op]
      <4>1. /\ space[s].real_g \in Nat /\ space[s].op \in Transitions
            /\ Target[space[s].op] = s /\ OpenedIn(space, p)
            /\ space[s].real_g = space[p].real_g + Cost[space[s].op]
        BY <3>1, <3>3 DEF IsTree
      <4>2. p \in States /\ p # Target[t]
        BY <1>1, <1>2, <4>1
      <4>3. new[p] = space[p]
        BY <1>5, <4>2
      <4> QED
        BY <3>1, <4>1, <4>3 DEF OpenedIn
    <3> QED
      BY <3>2, <3>3
  <2> QED
    BY <2>1, <2>2
<1>10. /\ \A s \in States : IsNew(new, s) => ~OpenedIn(new, s)
       /\ \A s \in States : Visited(new, s) => OpenedIn(new, s)
  BY <1>4, <1>5, <1>8 DEF IsTree, OpenedIn, IsNew, Visited
<1>11. new[InitialState].op = NoTransition /\ new[InitialState].real_g = 0
  BY <1>1, <1>3, <1>5 DEF IsTree
<1>12. IsTree(new)
  BY <1>9, <1>10, <1>11 DEF IsTree
<1> QED
  BY <1>5, <1>8, <1>12 DEF new

-----------------------------------------------------------------------------
(* The global space. *)

\* The step of the replay that opens a state (ehc, lines 412-422).
ReplayOpens ==
  /\ Replay
  /\ IsNew(node, Target[Head(trace.path)])
  /\ node' = OpenFrom(node, Head(trace.path))

\* After initialize() no step touches a path in the global space, but for the
\* replay, which opens a new state.
LEMMA NodeChange ==
  ASSUME TypeInv, [Next]_vars, pc # "init"
  PROVE  SamePaths(node, node') \/ ReplayOpens
<1> USE DEF engineVars
<1>1. /\ node \in [States -> Node] /\ ctx.state \in States
      /\ SamePaths(node, node)
      /\ \A s \in States : SamePaths(node, MarkDeadEnd(node, s))
      /\ \A S : SamePaths(node, MarkAllDeadEnd(node, S))
  BY MarkSame DEF TypeInv, EngineInv, Context
<1>2. UNCHANGED node => SamePaths(node, node')
  BY <1>1
<1>3. CASE \/ Initialize \/ StepSolved \/ StepGrowthExceeded \/ StartPhase
           \/ Timeout \/ Terminated \/ UNCHANGED vars
  BY <1>2, <1>3 DEF Initialize, StepSolved, StepGrowthExceeded, StartPhase, Timeout, Terminated, vars
<1>4. CASE PhaseLoop
  <2>1. ASSUME NEW e \in open, VisitDeadEnd(e)
        PROVE  SamePaths(node, node')
    BY <1>1, <2>1, TypePop DEF VisitDeadEnd
  <2>2. ASSUME NEW e \in open,
               Skip(e) \/ PruneByNovelty(e) \/ VisitBetter(e) \/ VisitNotBetter(e)
        PROVE  SamePaths(node, node')
    BY <1>2, <2>2 DEF Skip, PruneByNovelty, VisitBetter, VisitNotBetter
  <2>3. CASE EndPhase
    BY <1>2, <2>3 DEF EndPhase
  <2> QED
    BY <1>4, <2>1, <2>2, <2>3 DEF PhaseLoop
<1>5. CASE Tracing
  <2>1. CASE Replay
    BY <1>2, <2>1 DEF Replay, ReplayOpens
  <2>2. CASE TraceBack \/ PlanTraced \/ ReplayStart \/ ReplayEnd
    BY <1>2, <2>2 DEF TraceBack, PlanTraced, ReplayStart, ReplayEnd
  <2> QED
    BY <1>5, <2>1, <2>2 DEF Tracing
<1>6. CASE Learning
  <2>1. CASE StagnationPrunes
    BY <1>1, <2>1 DEF StagnationPrunes
  <2>2. CASE \/ StagnationLeaves \/ BeginLearning \/ LearnDeadEnd \/ LearnSolved
             \/ LearnConjunction \/ LearnFailed
             \/ LearnedSolution \/ LearnedDeadEnd \/ LearnedFiniteValue
    BY <1>2, <2>2 DEF StagnationLeaves, BeginLearning, LearnDeadEnd, LearnSolved,
       LearnConjunction, LearnFailed, LearnedSolution, LearnedDeadEnd, LearnedFiniteValue
  <2> QED
    BY <1>6, <2>1, <2>2 DEF Learning
<1>7. CASE Escaping
  <2>1. CASE HandleSafeDeadEnd
    BY <1>1, <2>1 DEF HandleSafeDeadEnd
  <2>2. CASE LeaveOnExhaustion
    BY <1>1, <2>2 DEF LeaveOnExhaustion
  <2>3. CASE EscapeDeadEnd \/ EscapePotentialDeadEnd
    <3>1. HasParent(node, ctx.state) => Parent \in States
      BY <1>1, ParentType DEF Parent
    <3> QED
      BY <1>1, <2>3, <3>1 DEF EscapeDeadEnd, EscapePotentialDeadEnd
  <2>4. CASE \/ ProceedExhausted \/ Proceed \/ ContinueOnExhaustion \/ Restart \/ RestartInParent
    BY <1>2, <2>4 DEF ProceedExhausted, Proceed, ContinueOnExhaustion, Restart, RestartInParent
  <2> QED
    BY <1>7, <2>1, <2>2, <2>3, <2>4 DEF Escaping
<1> QED
  BY <1>3, <1>4, <1>5, <1>6, <1>7 DEF Next, Run

\* What the replay opens hangs below an opened state.
LEMMA ReplayOpensTree ==
  ASSUME TypeInv, TreeInv, ReplayOpens
  PROVE  /\ IsTree(node')
         /\ OpenedIn(node', Target[Head(trace.path)])
         /\ \A s \in States : s # Target[Head(trace.path)] => node'[s] = node[s]
<1>1. node \in [States -> Node] /\ trace.path \in Seq(Transitions) /\ trace.path # <<>>
  BY DEF TypeInv, EngineInv, PhaseInv, TraceType, ReplayOpens, Replay
<1>2. IsPath(trace.path, trace.at, ctx.state) /\ Opened(trace.at) /\ IsTree(node)
  BY DEF TreeInv, TraceSound, GlobalTree, ReplayOpens, Replay
<1>3. Head(trace.path) \in Transitions /\ Source[Head(trace.path)] = trace.at
  BY <1>1, <1>2, PathTail
<1> QED
  BY <1>1, <1>2, <1>3, TreeOpenFrom DEF ReplayOpens, Opened, OpenedIn

LEMMA InitOnly ==
  ASSUME TypeInv, [Next]_vars, pc = "init"
  PROVE  Initialize \/ UNCHANGED vars
BY DEF Next, Run, StepSolved, StepGrowthExceeded, StartPhase, PhaseLoop, Skip, PruneByNovelty,
       VisitDeadEnd, VisitBetter, VisitNotBetter, Visit, Pop, EndPhase, Tracing, TraceBack,
       PlanTraced, Traced, ReplayStart, Replay, ReplayEnd, Learning, StagnationPrunes,
       StagnationLeaves, BeginLearning, LearnDeadEnd, LearnSolved, LearnConjunction, LearnFailed,
       LearnedSolution, LearnedDeadEnd, LearnedFiniteValue, Escaping, ProceedExhausted, Proceed,
       HandleSafeDeadEnd, ContinueOnExhaustion, LeaveOnExhaustion, EscapeDeadEnd,
       EscapePotentialDeadEnd, Restart, RestartInParent, Timeout, Terminated

\* No step leads back to initialize().
LEMMA NeverInit ==
  ASSUME TypeInv, [Next]_vars, pc # "init"
  PROVE  pc' # "init"
BY OptionAssumption
   DEF Next, Run, Initialize, StepSolved, StepGrowthExceeded, StartPhase, PhaseLoop, Skip,
       PruneByNovelty, VisitDeadEnd, VisitBetter, VisitNotBetter, Visit, Pop, EndPhase, Tracing,
       TraceBack, PlanTraced, Traced, ReplayStart, Replay, ReplayEnd, Learning, StagnationPrunes,
       StagnationLeaves, BeginLearning, LearnDeadEnd, LearnSolved, LearnConjunction, LearnFailed,
       LearnedSolution, LearnedDeadEnd, LearnedFiniteValue, Escaping, ProceedExhausted, Proceed,
       HandleSafeDeadEnd, ContinueOnExhaustion, LeaveOnExhaustion, EscapeDeadEnd,
       EscapePotentialDeadEnd, Restart, RestartInParent, Timeout, Terminated, vars,
       Goto, Halt, TracePath, engineVars, phaseVars, outputVars

LEMMA GlobalTreeStep ==
  ASSUME TypeInv, TypeInv', TreeInv, [Next]_vars
  PROVE  GlobalTree'
<1>1. node \in [States -> Node] /\ node' \in [States -> Node]
  BY DEF TypeInv, EngineInv
<1>2. CASE pc = "init"
  <2>1. CASE Initialize
    <3>1. node' = OpenInitial(EmptySpace, InitialState)
      BY <1>2, <2>1 DEF Initialize, TreeInv, GlobalTree
    <3>2. IsTree(node')
      BY <3>1, TaskAssumption DEF OpenInitial, EmptySpace, NewNode, RootNode, IsTree,
         OpenedIn, IsNew, Visited
    <3>3. pc' # "init"
      BY <2>1 DEF Initialize, Halt, Goto
    <3> QED
      BY <3>2, <3>3 DEF GlobalTree
  <2>2. CASE UNCHANGED vars
    BY <1>2, <2>2 DEF vars, TreeInv, GlobalTree
  <2> QED
    BY <1>2, <2>1, <2>2, InitOnly
<1>3. CASE pc # "init"
  <2>1. IsTree(node) /\ pc' # "init"
    BY <1>3, NeverInit DEF TreeInv, GlobalTree
  <2>2. IsTree(node')
    BY <1>1, <1>3, <2>1, NodeChange, TreeSame, ReplayOpensTree
  <2> QED
    BY <2>1, <2>2 DEF GlobalTree
<1> QED
  BY <1>2, <1>3

\* An opened state stays opened at the same cost.
LEMMA OpenedStays ==
  ASSUME TypeInv, TreeInv, [Next]_vars, pc # "init", NEW s \in States, Opened(s)
  PROVE  Opened(s)' /\ node'[s].real_g = node[s].real_g /\ node'[s].op = node[s].op
<1>1. CASE SamePaths(node, node')
  BY <1>1 DEF SamePaths, Opened
<1>2. CASE ReplayOpens
  <2>1. IsTree(node)
    BY DEF TreeInv, GlobalTree
  <2>2. s # Target[Head(trace.path)]
    BY <1>2, <2>1 DEF ReplayOpens, IsNew, IsTree, OpenedIn, Opened
  <2> QED
    BY <1>2, <2>2, ReplayOpensTree DEF Opened
<1> QED
  BY <1>1, <1>2, NodeChange

-----------------------------------------------------------------------------
(* Preferred operators. *)

\* Results, computed or cached, have preferred operators that apply.
LEMMA ResultApplicable ==
  ASSUME TypeInv, PreferredApplicable, NEW s \in States
  PROVE  /\ \A r \in FiniteResults(s) \cup InfiniteResults(s) : r.pref \subseteq OpsOf(s)
         /\ \A r \in ResultsOf(s) : r.pref \subseteq OpsOf(s)
<1>1. s # NoState
  BY OptionAssumption
<1>2. ASSUME NEW r \in FiniteResults(s) PROVE r.pref \subseteq OpsOf(s)
  BY <1>1, <1>2 DEF FiniteResults, PreferredApplicable
<1>3. ASSUME NEW r \in InfiniteResults(s) PROVE r.pref \subseteq OpsOf(s)
  BY <1>3 DEF InfiniteResults
<1> QED
  BY <1>2, <1>3 DEF ResultsOf, EvaluationsOf, PreferredApplicable

GraphApplicable(hs) == hs.bsg # NoState => hs.pref \subseteq OpsOf(hs.bsg)

LEMMA AfterEvaluationApplicable ==
  ASSUME TypeInv, GraphApplicable(heur), NEW s \in States, NEW r \in Result,
         r.pref \subseteq OpsOf(s)
  PROVE  GraphApplicable(AfterEvaluation(s, r))
<1>1. heur \in HeurType
  BY DEF TypeInv, EngineInv, HeurInv
<1>2. CASE heur.bsg = s
  BY <1>2 DEF AfterEvaluation
<1>3. CASE heur.bsg # s /\ r.h = Infty
  BY <1>1, <1>3 DEF AfterEvaluation, GraphApplicable, HeurType
<1>4. CASE heur.bsg # s /\ r.h # Infty
  BY <1>1, <1>4 DEF AfterEvaluation, GraphApplicable, HeurType
<1> QED
  BY <1>2, <1>3, <1>4

\* evaluate_if_neccessary keeps them applicable, in the heuristic and the cache.
LEMMA EvaluationApplicable ==
  ASSUME TypeInv, PreferredApplicable, NEW s \in States, NEW r \in ResultsOf(s),
         EvaluateIfNecessary(s, r)
  PROVE  /\ GraphApplicable(heur')
         /\ \A q \in States : cache'[q].pref \subseteq OpsOf(q)
         /\ r.pref \subseteq OpsOf(s)
         /\ FreshContext(s, r).res.pref \subseteq OpsOf(FreshContext(s, r).state)
<1>1. r \in Result /\ r.pref \subseteq OpsOf(s) /\ cache \in [States -> Result]
  BY ResultTypes, ResultApplicable DEF TypeInv, EngineInv
<1>2. GraphApplicable(heur')
  BY <1>1, AfterEvaluationApplicable DEF EvaluateIfNecessary, PreferredApplicable, GraphApplicable
<1>3. \A q \in States : cache'[q].pref \subseteq OpsOf(q)
  BY <1>1 DEF EvaluateIfNecessary, Store, PreferredApplicable
<1> QED
  BY <1>1, <1>2, <1>3 DEF FreshContext

LEMMA EvaluateContextApplicable ==
  ASSUME TypeInv, PreferredApplicable, NEW r, EvaluateContext(r)
  PROVE  /\ GraphApplicable(heur')
         /\ r.pref \subseteq OpsOf(ctx.state)
         /\ ctx'.res.pref \subseteq OpsOf(ctx'.state)
<1>1. ctx \in Context /\ ctx.state \in States /\ ctx.res \in Result
  BY DEF TypeInv, EngineInv, Context
<1>2. r \in Result /\ r.pref \subseteq OpsOf(ctx.state)
  BY <1>1, ContextResultType, ResultApplicable
     DEF EvaluateContext, ContextResults, EvaluationsOf, PreferredApplicable
<1>3. GraphApplicable(heur')
  BY <1>1, <1>2, AfterEvaluationApplicable
     DEF EvaluateContext, PreferredApplicable, GraphApplicable
<1>4. ctx'.res = r /\ ctx'.state = ctx.state
  BY <1>1 DEF EvaluateContext, Context
<1> QED
  BY <1>2, <1>3, <1>4

LEMMA PreferredStep ==
  ASSUME TypeInv, TypeInv', PreferredApplicable, [Next]_vars
  PROVE  PreferredApplicable'
<1> USE DEF engineVars
<1>1. /\ ctx \in Context /\ ctx.state \in States /\ heur \in HeurType
      /\ GraphApplicable(heur) /\ InitialState \in States
  BY TaskAssumption DEF TypeInv, EngineInv, HeurInv, Context, PreferredApplicable, GraphApplicable
<1>2. \/ GraphApplicable(heur') /\ UNCHANGED <<cache, ctx>>
      \/ /\ GraphApplicable(heur')
         /\ \A q \in States : cache'[q].pref \subseteq OpsOf(q)
         /\ ctx'.res.pref \subseteq OpsOf(ctx'.state)
      => PreferredApplicable'
  BY DEF PreferredApplicable, GraphApplicable
<1>3. UNCHANGED <<heur, cache, ctx>> => PreferredApplicable'
  BY DEF PreferredApplicable
<1>4. CASE \/ StepSolved \/ StepGrowthExceeded \/ Timeout \/ Terminated \/ UNCHANGED vars
           \/ EndPhase \/ Tracing \/ StagnationPrunes \/ StagnationLeaves \/ BeginLearning
           \/ LearnFailed \/ LearnedSolution
           \/ ProceedExhausted \/ HandleSafeDeadEnd \/ ContinueOnExhaustion \/ LeaveOnExhaustion
  BY <1>3, <1>4 DEF StepSolved, StepGrowthExceeded, Timeout, Terminated, vars, EndPhase,
     Tracing, TraceBack, PlanTraced, ReplayStart, Replay, ReplayEnd, StagnationPrunes,
     StagnationLeaves, BeginLearning, LearnFailed, LearnedSolution,
     ProceedExhausted, HandleSafeDeadEnd, ContinueOnExhaustion, LeaveOnExhaustion
<1>5. CASE Initialize \/ Restart
  BY <1>1, <1>2, <1>5, EvaluationApplicable DEF Initialize, Restart
<1>6. CASE StartPhase
  <2>1. ctx'.res = ctx.res /\ ctx'.state = ctx.state
    BY <1>1, <1>6 DEF StartPhase, Context
  <2> QED
    BY <1>6, <2>1 DEF StartPhase, PreferredApplicable
<1>7. ASSUME NEW e \in open,
             Skip(e) \/ PruneByNovelty(e) \/ VisitDeadEnd(e) \/ VisitNotBetter(e)
      PROVE  PreferredApplicable'
  <2>1. CASE Skip(e) \/ PruneByNovelty(e)
    BY <1>3, <2>1 DEF Skip, PruneByNovelty
  <2>2. CASE VisitDeadEnd(e)
    BY <2>2, TypePop, EvaluationApplicable
       DEF VisitDeadEnd, PreferredApplicable, GraphApplicable
  <2>3. CASE VisitNotBetter(e)
    BY <2>3, TypePop, EvaluationApplicable
       DEF VisitNotBetter, PreferredApplicable, GraphApplicable
  <2> QED
    BY <1>7, <2>1, <2>2, <2>3
<1>8. ASSUME NEW e \in open, VisitBetter(e)
      PROVE  PreferredApplicable'
  <2> DEFINE s == Target[e.t]
  <2>1. PICK r \in ResultsOf(s) :
          EvaluateIfNecessary(s, r) /\ ctx' = [state |-> s, res |-> r, nov |-> ~CacheHit(s)]
    BY <1>8 DEF VisitBetter
  <2>2. s \in States
    BY TypePop
  <2> HIDE DEF s
  <2> QED
    BY <1>2, <2>1, <2>2, EvaluationApplicable
<1>9. CASE LearnDeadEnd \/ LearnSolved \/ LearnConjunction
  <2>1. ASSUME NEW r \in FiniteResults(ctx.state) \cup InfiniteResults(ctx.state)
        PROVE  /\ GraphApplicable(AfterEvaluation(ctx.state, r))
               /\ FreshContext(ctx.state, r).res.pref \subseteq OpsOf(FreshContext(ctx.state, r).state)
               /\ LET c == FreshContext(ctx.state, EvaluatedForLearning(r)) IN
                    c.res.pref \subseteq OpsOf(c.state)
    <3>1. r \in Result /\ r.pref \subseteq OpsOf(ctx.state)
      BY <1>1, ResultTypes, ResultApplicable DEF EvaluationsOf
    <3>2. GraphApplicable(AfterEvaluation(ctx.state, r))
      BY <1>1, <3>1, AfterEvaluationApplicable
    <3> QED
      BY <3>1, <3>2 DEF FreshContext, EvaluatedForLearning, NoResult
  <2>2. CASE LearnDeadEnd
    BY <2>1, <2>2 DEF LearnDeadEnd, PreferredApplicable, GraphApplicable
  <2>3. CASE LearnSolved
    BY <2>1, <2>3 DEF LearnSolved, PreferredApplicable, GraphApplicable
  <2>4. CASE LearnConjunction
    <3>1. ASSUME NEW c, NEW hs, HeurInv(hs) PROVE GraphApplicable(WithConjunction(c, hs))
      BY <3>1 DEF WithConjunction, GraphApplicable, HeurInv, HeurType
    <3>2. PICK r \in FiniteResults(ctx.state), c \in Conjunctions :
            /\ heur' = WithConjunction(c, AfterEvaluation(ctx.state, r))
            /\ ctx' = FreshContext(ctx.state, EvaluatedForLearning(r))
      BY <2>4 DEF LearnConjunction
    <3>3. r \in Result /\ r.h \in 0 .. Infty
      BY <1>1, <3>2, ResultTypes DEF EvaluationsOf
    <3>4. GraphApplicable(heur')
      BY <1>1, <3>1, <3>2, <3>3, AfterEvaluationType
    <3> QED
      BY <2>1, <2>4, <3>2, <3>4 DEF LearnConjunction, PreferredApplicable, GraphApplicable
  <2> QED
    BY <1>9, <2>2, <2>3, <2>4
<1>10. CASE LearnedDeadEnd \/ LearnedFiniteValue
  <2>1. PICK r : /\ EvaluateContext(r)
                 /\ cache' = KeptCache \/ cache' = CacheAfterLearning(r)
    BY <1>10 DEF LearnedDeadEnd, LearnedFiniteValue
  <2>2. r \in Result /\ r.pref \subseteq OpsOf(ctx.state)
    BY <2>1, ContextResultType, EvaluateContextApplicable
  <2>3. KeptCache \in [States -> Result] /\ \A q \in States : KeptCache[q].pref \subseteq OpsOf(q)
    BY KeptCacheType DEF KeptCache, NoResult, PreferredApplicable
  <2>4. \A q \in States : cache'[q].pref \subseteq OpsOf(q)
    BY <2>1, <2>2, <2>3 DEF CacheAfterLearning
  <2> QED
    BY <1>2, <2>1, <2>4, EvaluateContextApplicable
<1>11. CASE Proceed
  <2>1. phase.nextBest \in States
    BY <1>11 DEF TypeInv, ControlInv, PhaseInv, PhaseType, Proceed
  <2>2. PICK r \in ResultsOf(phase.nextBest) :
          /\ EvaluateIfNecessary(phase.nextBest, r)
          /\ UNCHANGED ctx \/ ctx' = FreshContext(phase.nextBest, r)
    BY <1>11 DEF Proceed
  <2> QED
    BY <2>1, <2>2, EvaluationApplicable DEF PreferredApplicable, GraphApplicable
<1>12. CASE EscapeDeadEnd \/ EscapePotentialDeadEnd \/ RestartInParent
  <2>1. CASE ~HasParent(node, ctx.state)
    BY <1>3, <1>12, <2>1 DEF EscapeDeadEnd, EscapePotentialDeadEnd, RestartInParent
  <2>2. CASE HasParent(node, ctx.state)
    <3>1. Parent \in States
      BY <1>1, <2>2, ParentType DEF Parent, TypeInv, EngineInv
    <3>2. PICK r \in ResultsOf(Parent) :
            EvaluateIfNecessary(Parent, r) /\ ctx' = FreshContext(Parent, r)
      BY <1>12, <2>2 DEF EscapeDeadEnd, EscapePotentialDeadEnd, RestartInParent
    <3> QED
      BY <1>2, <3>1, <3>2, EvaluationApplicable
  <2> QED
    BY <2>1, <2>2
<1> QED
  BY <1>4, <1>5, <1>6, <1>7, <1>8, <1>9, <1>10, <1>11, <1>12
     DEF Next, Run, PhaseLoop, Learning, Escaping

-----------------------------------------------------------------------------
(* The current state. *)

\* The parent of the current state is opened too (get_parent_state_id).
LEMMA ParentOpened ==
  ASSUME TypeInv, TreeInv, pc # "init", ~Replaying, HasParent(node, ctx.state)
  PROVE  Parent \in States /\ Opened(Parent)
<1>1. ctx.state \in States /\ node \in [States -> Node]
  BY DEF TypeInv, EngineInv, Context
<1>2. IsTree(node) /\ Opened(ctx.state)
  BY DEF TreeInv, GlobalTree, CurrentOnTree
<1>3. ctx.state # InitialState
  BY <1>2 DEF HasParent, IsTree
<1> QED
  BY <1>1, <1>2, <1>3, ParentType DEF Parent, ParentOf, IsTree, OpenedIn, Opened

\* Where current_real_g counts from the current state.
CostPCs == Locations \ {"init", "safe_dead_end", "restart", "escape_dead_end", "done"}

LEMMA ExcludedStay ==
  ASSUME TypeInv, TreeInv, [Next]_vars, pc # "init",
         \A s \in marks'.excluded : s \in marks.excluded \/ (s = ctx.state /\ Opened(s))
  PROVE  \A s \in marks'.excluded : Opened(s)'
<1>1. marks.excluded \subseteq States /\ ctx.state \in States
  BY DEF TypeInv, EngineInv, MarksType, Context
<1>2. \A s \in marks.excluded : Opened(s)
  BY DEF TreeInv, CurrentOnTree
<1> QED
  BY <1>1, <1>2, OpenedStays

\* A step that stays in the current state.
LEMMA CurrentStays ==
  ASSUME TypeInv, TypeInv', TreeInv, [Next]_vars, pc # "init", ~Replaying,
         ctx'.state = ctx.state, UNCHANGED real_g,
         marks'.excluded \subseteq marks.excluded,
         pc' \in CostPCs => pc \in CostPCs
  PROVE  CurrentOnTree'
<1>1. ctx.state \in States /\ Opened(ctx.state)
  BY DEF TypeInv, EngineInv, Context, TreeInv, CurrentOnTree
<1>2. Opened(ctx.state)' /\ node'[ctx.state].real_g = node[ctx.state].real_g
  <2>1. ASSUME NEW s \in States, Opened(s)
        PROVE  node'[s].real_g = node[s].real_g
    BY <2>1, OpenedStays
  <2> QED
    BY <1>1, <2>1 DEF Opened
<1>3. pc \in CostPCs => real_g = node[ctx.state].real_g
  BY DEF TreeInv, CurrentOnTree, CostPCs
<1>4. \A s \in marks'.excluded : Opened(s)'
  BY ExcludedStay
<1>5. pc' \in Locations /\ pc' # "init"
  BY NeverInit DEF TypeInv, ControlInv
<1> QED
  BY <1>2, <1>3, <1>4, <1>5 DEF CurrentOnTree, CostPCs, Opened

\* A step to an opened state, at its real cost.
LEMMA CurrentMoves ==
  ASSUME TypeInv, TypeInv', TreeInv, [Next]_vars, pc # "init",
         Opened(ctx.state)',
         pc' \in CostPCs => real_g' = node'[ctx'.state].real_g,
         \A s \in marks'.excluded : Opened(s)'
  PROVE  CurrentOnTree'
<1>1. pc' \in Locations /\ pc' # "init"
  BY NeverInit DEF TypeInv, ControlInv
<1> QED
  BY <1>1 DEF CurrentOnTree, CostPCs

LEMMA ContextStateStays ==
  ASSUME TypeInv
  PROVE  /\ \A r : EvaluateContext(r) => ctx'.state = ctx.state
         /\ \A r : FreshContext(ctx.state, r).state = ctx.state
         /\ MarkCurrentUnsafe(marks).excluded = marks.excluded
         /\ MarksOnStagnation.excluded \subseteq marks.excluded
<1>1. ctx \in Context /\ marks \in MarksType
  BY DEF TypeInv, EngineInv
<1>2. MarkCurrentUnsafe(marks).excluded = marks.excluded /\ MarkCurrentUnsafe(marks) \in MarksType
  BY <1>1, MarkCurrentType DEF MarkCurrentUnsafe, MarksType
<1>3. MarksOnStagnation.excluded \subseteq marks.excluded
  BY <1>1, <1>2 DEF MarksOnStagnation, MarksType
<1> QED
  BY <1>1, <1>2, <1>3 DEF EvaluateContext, FreshContext, Context

LEMMA CurrentStep ==
  ASSUME TypeInv, TypeInv', TreeInv, [Next]_vars
  PROVE  CurrentOnTree'
<1> USE DEF engineVars
<1>1. /\ ctx \in Context /\ ctx.state \in States /\ marks \in MarksType
      /\ node \in [States -> Node] /\ node' \in [States -> Node] /\ InitialState \in States
  BY TaskAssumption DEF TypeInv, EngineInv, Context
<1>2. CASE pc = "init"
  <2>1. CASE Initialize
    <3>1. ctx'.state = InitialState
      BY <2>1 DEF Initialize, FreshContext
    <3>2. node'[InitialState] = RootNode /\ real_g' = 0 /\ marks.excluded = {}
      <4>1. node = EmptySpace /\ real_g = 0
        BY <1>2 DEF TreeInv, GlobalTree, CurrentOnTree
      <4>2. \A s \in marks.excluded : s \in States /\ Opened(s)
        BY <1>1 DEF TreeInv, CurrentOnTree, MarksType
      <4>3. \A s \in States : ~Opened(s)
        BY <4>1 DEF EmptySpace, NewNode, Opened
      <4> QED
        BY <1>1, <2>1, <4>1, <4>2, <4>3 DEF Initialize, OpenInitial
    <3>3. pc' # "init" /\ marks'.excluded = {}
      BY <2>1, <3>2 DEF Initialize, Goto, Halt
    <3> QED
      BY <3>1, <3>2, <3>3 DEF CurrentOnTree, RootNode, Opened
  <2>2. CASE UNCHANGED vars
    BY <2>2 DEF vars, TreeInv, CurrentOnTree, Opened, Replaying
  <2> QED
    BY <1>2, <2>1, <2>2, InitOnly
<1>3. CASE pc # "init" /\ UNCHANGED vars
  BY <1>3 DEF vars, TreeInv, CurrentOnTree, Opened, Replaying
<1>4. CASE pc # "init" /\ (StepSolved \/ StepGrowthExceeded \/ StartPhase \/ Timeout)
  <2>1. ctx'.state = ctx.state /\ UNCHANGED <<real_g, marks>> /\ ~Replaying /\ pc \in CostPCs
    BY <1>1, <1>4 DEF StepSolved, StepGrowthExceeded, StartPhase, Timeout, Context, Replaying,
       CostPCs, Locations
  <2> QED
    BY <1>4, <2>1, CurrentStays
<1>5. ASSUME pc # "init", NEW e \in open,
             Skip(e) \/ PruneByNovelty(e) \/ VisitDeadEnd(e) \/ VisitNotBetter(e)
      PROVE  CurrentOnTree'
  <2>1. UNCHANGED <<ctx, real_g, marks>> /\ ~Replaying /\ pc \in CostPCs
    BY <1>5 DEF Skip, PruneByNovelty, VisitDeadEnd, VisitNotBetter, Visit, Pop, Replaying,
       CostPCs, Locations
  <2> QED
    BY <1>5, <2>1, CurrentStays
<1>6. ASSUME pc # "init", NEW e \in open, VisitBetter(e)
      PROVE  CurrentOnTree'
  <2>1. marks'.excluded = {} /\ Replaying'
    BY <1>1, <1>6 DEF VisitBetter, TracePath, Goto, Replaying, MarksType
  <2> QED
    BY <1>6, <2>1, NeverInit DEF CurrentOnTree
<1>7. CASE pc # "init" /\ EndPhase
  <2>1. /\ UNCHANGED <<ctx, real_g>> /\ marks'.excluded \subseteq marks.excluded
        /\ ~Replaying /\ pc \in CostPCs
    BY <1>1, <1>7 DEF EndPhase, Replaying, CostPCs, Locations, MarksType
  <2> QED
    BY <1>7, <2>1, CurrentStays
<1>8. CASE pc # "init" /\ Tracing
  <2>1. UNCHANGED <<ctx, marks>>
    BY <1>8 DEF Tracing, TraceBack, PlanTraced, ReplayStart, Replay, ReplayEnd
  <2>2. \A s \in marks'.excluded : Opened(s)'
    BY <1>8, <2>1, ExcludedStay
  <2>3. CASE TraceBack /\ ~Replaying
    BY <1>8, <2>1, <2>3, CurrentStays DEF TraceBack
  <2>4. CASE (TraceBack /\ Replaying) \/ ReplayStart \/ Replay
    <3>1. Replaying'
      BY <1>1, <2>4 DEF TraceBack, ReplayStart, Replay, Traced, Goto, Replaying, TypeInv, PhaseInv,
         TraceType
    <3> QED
      BY <1>8, <2>2, <3>1, NeverInit DEF CurrentOnTree
  <2>5. CASE PlanTraced
    <3>1. ~Replaying /\ UNCHANGED real_g /\ pc \in CostPCs
      BY <2>5 DEF PlanTraced, Traced, Replaying, CostPCs, Locations
    <3> QED
      BY <1>8, <2>1, <3>1, CurrentStays
  <2>6. CASE ReplayEnd
    <3>1. trace.at = ctx.state /\ Opened(trace.at) /\ real_g = node[trace.at].real_g
      BY <2>6 DEF ReplayEnd, TreeInv, TraceSound, IsPath
    <3>2. UNCHANGED <<node, real_g, ctx>>
      BY <2>6 DEF ReplayEnd
    <3> QED
      BY <1>8, <2>2, <3>1, <3>2, CurrentMoves DEF Opened
  <2> QED
    BY <1>8, <2>3, <2>4, <2>5, <2>6 DEF Tracing
<1>9. CASE pc # "init" /\ Learning
  <2>1. ctx'.state = ctx.state /\ UNCHANGED real_g /\ ~Replaying /\ pc \in CostPCs
    BY <1>9, ContextStateStays
       DEF Learning, StagnationPrunes, StagnationLeaves, BeginLearning, LearnDeadEnd,
       LearnSolved, LearnConjunction, LearnFailed, LearnedSolution, LearnedDeadEnd,
       LearnedFiniteValue, Replaying, CostPCs, Locations
  <2>2. marks'.excluded \subseteq marks.excluded
    BY <1>1, <1>9, ContextStateStays
       DEF Learning, StagnationPrunes, StagnationLeaves, BeginLearning, LearnDeadEnd,
       LearnSolved, LearnConjunction, LearnFailed, LearnedSolution, LearnedDeadEnd,
       LearnedFiniteValue, MarksType
  <2> QED
    BY <1>9, <2>1, <2>2, CurrentStays
<1>10. CASE pc # "init" /\ Proceed
  <2>1. UNCHANGED marks /\ UNCHANGED real_g /\ ~Replaying /\ pc \in CostPCs
    BY <1>10 DEF Proceed, Replaying, CostPCs, Locations
  <2>2. \A s \in marks'.excluded : Opened(s)'
    BY <1>10, <2>1, ExcludedStay
  <2>3. UNCHANGED ctx \/ Replaying'
    BY <1>10 DEF Proceed, TracePath, Goto, Replaying
  <2>4. CASE UNCHANGED ctx
    BY <1>10, <2>1, <2>4, CurrentStays
  <2>5. CASE Replaying'
    BY <1>10, <2>2, <2>5, NeverInit DEF CurrentOnTree
  <2> QED
    BY <2>3, <2>4, <2>5
<1>11. CASE pc # "init" /\ (\/ ProceedExhausted \/ HandleSafeDeadEnd \/ ContinueOnExhaustion
                            \/ LeaveOnExhaustion)
  <2>1. /\ UNCHANGED <<ctx, real_g>> /\ ~Replaying
        /\ pc' \in CostPCs => pc \in CostPCs
    BY <1>11 DEF ProceedExhausted, HandleSafeDeadEnd, ContinueOnExhaustion, LeaveOnExhaustion,
       Goto, Halt, Replaying, CostPCs, Locations
  <2>2. marks'.excluded \subseteq marks.excluded
    BY <1>1, <1>11, ContextStateStays
       DEF ProceedExhausted, HandleSafeDeadEnd, ContinueOnExhaustion, LeaveOnExhaustion, MarksType
  <2> QED
    BY <1>11, <2>1, <2>2, CurrentStays
<1>12. CASE pc # "init" /\ Restart
  <2>1. ctx'.state = InitialState /\ real_g' = 0 /\ UNCHANGED <<node, marks>>
    BY <1>12 DEF Restart, FreshContext
  <2>2. node[InitialState].real_g = 0 /\ Opened(InitialState)
    BY <1>12 DEF TreeInv, GlobalTree, IsTree, Opened
  <2>3. \A s \in marks'.excluded : Opened(s)'
    BY <2>1 DEF TreeInv, CurrentOnTree, Opened
  <2> QED
    BY <1>12, <2>1, <2>2, <2>3, CurrentMoves DEF Opened
<1>13. CASE pc # "init" /\ (EscapeDeadEnd \/ EscapePotentialDeadEnd \/ RestartInParent)
  <2>1. ~Replaying /\ Opened(ctx.state)
    BY <1>13 DEF EscapeDeadEnd, EscapePotentialDeadEnd, RestartInParent, Replaying, TreeInv,
       CurrentOnTree
  <2>2. \A s \in marks'.excluded : Opened(s)'
    <3>1. \A s \in marks'.excluded : s \in marks.excluded \/ s = ctx.state
      <4>1. CASE EscapeDeadEnd
        BY <4>1 DEF EscapeDeadEnd
      <4>2. CASE EscapePotentialDeadEnd
        BY <1>1, <4>2 DEF EscapePotentialDeadEnd, MarksType
      <4>3. CASE RestartInParent
        BY <1>1, <4>3 DEF RestartInParent, MarksOnBackjump, MarksType
      <4> QED
        BY <1>13, <4>1, <4>2, <4>3
    <3> QED
      BY <1>13, <2>1, <3>1, ExcludedStay
  <2>3. CASE HasParent(node, ctx.state)
    <3>1. Parent \in States /\ Opened(Parent)
      BY <1>13, <2>1, <2>3, ParentOpened
    <3>2. ctx'.state = Parent
      BY <1>13, <2>3 DEF EscapeDeadEnd, EscapePotentialDeadEnd, RestartInParent, FreshContext
    <3>3. node'[Parent].real_g = node[Parent].real_g
      BY <1>13, <3>1, OpenedStays
    <3>4. pc' \in CostPCs => real_g' = node[Parent].real_g
      BY <1>13, <2>3 DEF EscapeDeadEnd, EscapePotentialDeadEnd, RestartInParent, Goto, CostPCs
    <3> QED
      BY <1>13, <2>2, <3>1, <3>2, <3>3, <3>4, CurrentMoves DEF Opened
  <2>4. CASE ~HasParent(node, ctx.state)
    <3>1. UNCHANGED <<ctx, real_g, node>> /\ (pc' \in CostPCs => pc \in CostPCs)
      BY <1>13, <2>4 DEF EscapeDeadEnd, EscapePotentialDeadEnd, RestartInParent, Goto, Halt,
         CostPCs, Locations
    <3>2. pc \in CostPCs => real_g = node[ctx.state].real_g
      BY <2>1 DEF TreeInv, CurrentOnTree, CostPCs
    <3> QED
      BY <1>13, <2>1, <2>2, <3>1, <3>2, CurrentMoves DEF Opened
  <2> QED
    BY <2>3, <2>4
<1> QED
  BY <1>2, <1>3, <1>4, <1>5, <1>6, <1>7, <1>8, <1>9, <1>10, <1>11, <1>12, <1>13
     DEF Next, Run, PhaseLoop, Escaping, Terminated, Initialize

-----------------------------------------------------------------------------
(* The phase's own space. *)

\* What is inserted by an expansion starts in the expanded state.
LEMMA EntriesFrom ==
  ASSUME NEW space, NEW s, NEW h, NEW pref, pref \subseteq OpsOf(s)
  PROVE  \A e \in Entries(space, s, h, pref) : Source[e.t] = s
BY DEF Entries, Successors, OpsOf

\* A state new to the phase is opened below a visited one.
LEMMA ForestOpen ==
  ASSUME NEW space \in [States -> Node], NEW global, NEW t \in Transitions,
         IsForest(space, global), Visited(space, Source[t]), IsNew(space, Target[t]),
         IsNew(global, Target[t]) \/ OpenedIn(global, Target[t])
  PROVE  /\ IsForest(OpenFrom(space, t), global)
         /\ Visited(OpenFrom(space, t), Target[t]) /\ HasParent(OpenFrom(space, t), Target[t])
         /\ \A s \in States : Visited(space, s) => Visited(OpenFrom(space, t), s)
         /\ \A s \in States : HasParent(space, s) => HasParent(OpenFrom(space, t), s)
<1> DEFINE new == OpenFrom(space, t)
           u == Target[t]
<1>1. u \in States /\ Source[t] \in States /\ t # NoTransition
  BY TaskAssumption
<1>2. new[u].status = "OPEN" /\ new[u].op = t /\ \A s \in States : s # u => new[s] = space[s]
  BY <1>1 DEF OpenFrom, ChildNode
<1>3. ~Visited(space, u) /\ ~HasParent(space, u)
  BY <1>1 DEF IsForest, IsNew, Visited
<1>4. \A s \in States : HasParent(space, s) => ParentOf(space, s) \in States
  BY ParentType
<1> HIDE DEF new, u
<1>5. \A s \in States : Visited(space, s) => Visited(new, s)
  BY <1>2, <1>3 DEF Visited
<1>6. \A s \in States : HasParent(space, s) => HasParent(new, s)
  BY <1>2, <1>3 DEF HasParent
<1>7. ASSUME NEW s \in States
      PROVE  /\ Visited(new, s) => IsNew(global, s) \/ OpenedIn(global, s)
             /\ Visited(new, s) /\ ~HasParent(new, s) => OpenedIn(global, s)
             /\ HasParent(new, s) =>
                  Visited(new, s) /\ Target[new[s].op] = s /\ Visited(new, ParentOf(new, s))
  <2>1. CASE s = u
    BY <1>1, <1>2, <1>5, <2>1 DEF u, Visited, HasParent, ParentOf
  <2>2. CASE s # u
    BY <1>2, <1>4, <1>5, <2>2 DEF IsForest, Visited, HasParent, ParentOf
  <2> QED
    BY <2>1, <2>2
<1>8. IsForest(new, global)
  BY <1>7 DEF IsForest
<1> QED
  BY <1>1, <1>2, <1>5, <1>6, <1>8 DEF new, u, Visited, HasParent

\* Spaces that differ only in statuses, and visit the same states.
LEMMA ForestStatus ==
  ASSUME NEW a \in [States -> Node], NEW b \in [States -> Node], NEW g, NEW h,
         IsForest(a, g),
         \A s \in States : b[s].op = a[s].op /\ (Visited(b, s) <=> Visited(a, s)),
         \A s \in States : Visited(a, s) => (IsNew(h, s) <=> IsNew(g, s)) /\ (OpenedIn(h, s) <=> OpenedIn(g, s))
  PROVE  IsForest(b, h)
<1>1. \A s \in States : HasParent(a, s) => ParentOf(a, s) \in States
  BY ParentType
<1>2. \A s \in States : (HasParent(b, s) <=> HasParent(a, s)) /\ ParentOf(b, s) = ParentOf(a, s)
  BY DEF HasParent, ParentOf
<1> QED
  BY <1>1, <1>2 DEF IsForest

\* Expanding a visited state closes it.
LEMMA ForestClose ==
  ASSUME NEW space \in [States -> Node], NEW global, NEW s \in States,
         IsForest(space, global), Visited(space, s)
  PROVE  /\ IsForest(Close(space, s), global)
         /\ \A q \in States : Visited(space, q) => Visited(Close(space, s), q)
         /\ \A q \in States : HasParent(space, q) => HasParent(Close(space, s), q)
<1>1. Close(space, s) \in [States -> Node]
  BY SpaceTypes
<1>2. space[s] \in Node
  OBVIOUS
<1>3. /\ \A q \in States : q # s => Close(space, s)[q] = space[q]
      /\ Close(space, s)[s].status = "CLOSED" /\ Close(space, s)[s].op = space[s].op
  BY <1>2 DEF Close, Node
<1>4. \A q \in States : Close(space, s)[q].op = space[q].op
                         /\ (Visited(Close(space, s), q) <=> Visited(space, q))
  BY <1>3 DEF Visited
<1>5. IsForest(Close(space, s), global)
  BY <1>1, <1>4, ForestStatus
<1> QED
  BY <1>4, <1>5 DEF HasParent

\* A dead end met by the phase was new to it (ehc, lines 365-370).
LEMMA ForestDead ==
  ASSUME NEW space \in [States -> Node], NEW global \in [States -> Node], NEW s \in States,
         IsForest(space, global), IsNew(space, s)
  PROVE  /\ IsForest(MarkDeadEnd(space, s), MarkDeadEnd(global, s))
         /\ \A q \in States : Visited(space, q) => Visited(MarkDeadEnd(space, s), q)
         /\ \A q \in States : HasParent(space, q) => HasParent(MarkDeadEnd(space, s), q)
<1>1. MarkDeadEnd(space, s) \in [States -> Node]
  BY SpaceTypes
<1>2. space[s] \in Node
  OBVIOUS
<1>3. /\ \A q \in States : q # s => MarkDeadEnd(space, s)[q] = space[q]
                                   /\ MarkDeadEnd(global, s)[q] = global[q]
      /\ MarkDeadEnd(space, s)[s].status = "DEAD_END"
      /\ MarkDeadEnd(space, s)[s].op = space[s].op
  BY <1>2 DEF MarkDeadEnd, Node
<1>4. ~Visited(space, s)
  BY DEF IsNew, Visited
<1>5. \A q \in States : MarkDeadEnd(space, s)[q].op = space[q].op
                         /\ (Visited(MarkDeadEnd(space, s), q) <=> Visited(space, q))
  BY <1>3, <1>4 DEF Visited
<1>6. \A q \in States : Visited(space, q) =>
         /\ IsNew(MarkDeadEnd(global, s), q) <=> IsNew(global, q)
         /\ OpenedIn(MarkDeadEnd(global, s), q) <=> OpenedIn(global, q)
  BY <1>3, <1>4 DEF IsNew, OpenedIn
<1>7. IsForest(MarkDeadEnd(space, s), MarkDeadEnd(global, s))
  BY <1>1, <1>5, <1>6, ForestStatus
<1> QED
  BY <1>5, <1>7 DEF HasParent

\* Leaving the phase: nothing of its space is used any more.
LEMMA LocalLeft ==
  ASSUME ~InPhase', pc' \notin {"loop", "done"} => open' = {}
  PROVE  LocalTree'
BY DEF LocalTree

\* A forest looks at the global space only for what is new and what is opened.
LEMMA ForestSame ==
  ASSUME TypeInv, LocalForest, UNCHANGED <<node, loc>>, open' \subseteq open,
         phase'.nextBest = phase.nextBest
  PROVE  LocalForest'
BY DEF LocalForest

LEMMA StartPhaseLocal ==
  ASSUME TypeInv, TreeInv, StartPhase
  PROVE  LocalTree'
<1> DEFINE pref == Preferred(ctx.state, ctx.res)
<1>1. /\ ctx.state \in States /\ cache \in [States -> Result] /\ marks.excluded \subseteq States
      /\ pc = "step" /\ pc' = "loop" /\ open = {} /\ Opened(ctx.state)
  BY DEF TypeInv, EngineInv, Context, MarksType, StartPhase, Goto, TreeInv, LocalTree,
     CurrentOnTree, Replaying
<1>2. pref \subseteq OpsOf(ctx.state)
  BY <1>1 DEF Preferred, TreeInv, PreferredApplicable
<1>3. \A e \in open' : Source[e.t] = ctx.state
  <2>1. open' = IF WithinDepth(PhaseRoots, ctx.state)
                  THEN open \cup Entries(PhaseRoots, ctx.state, ctx.res.h, pref) ELSE open
    BY DEF StartPhase, Expand
  <2> HIDE DEF pref
  <2> QED
    BY <1>1, <1>2, <2>1, EntriesFrom
<1>4. loc' = Close(PhaseRoots, ctx.state)
  BY DEF StartPhase, Expand
<1>5. \A s \in States : PhaseRoots[s].op = NoTransition
  BY DEF PhaseRoots, RootNode, NewNode
<1>6. \A s \in States : PhaseRoots[s].status \in {"OPEN", "CLOSED"}
                          => s = ctx.state \/ s \in marks.excluded
  BY DEF PhaseRoots, RootNode, NewNode
<1>7. /\ \A s \in States : loc'[s].op = NoTransition
      /\ loc'[ctx.state].status = "CLOSED"
      /\ \A s \in States : loc'[s].status \in {"OPEN", "CLOSED"}
                             => s = ctx.state \/ s \in marks.excluded
  <2>1. PhaseRoots \in [States -> Node]
    BY DEF PhaseRoots, RootNode, NewNode, Node, Status
  <2>2. PhaseRoots[ctx.state] \in Node
    BY <1>1, <2>1
  <2> HIDE DEF PhaseRoots
  <2> QED
    BY <1>1, <1>4, <1>5, <1>6, <2>1, <2>2 DEF Close, Node
<1>8. \A s \in marks.excluded : Opened(s)
  BY DEF TreeInv, CurrentOnTree
<1>9. phase'.nextBest = NoState
  BY DEF StartPhase, NoPhase
<1>10. UNCHANGED node
  BY DEF StartPhase
<1>11. LocalForest'
  BY <1>1, <1>3, <1>7, <1>8, <1>9, <1>10
     DEF LocalForest, IsForest, Visited, OpenedIn, Opened, HasParent
<1> QED
  BY <1>1, <1>11 DEF LocalTree

\* A visit opens its state below the source of the entry (ehc, line 374).
LEMMA VisitOpens ==
  ASSUME TypeInv, TreeInv, NEW e \in open, Visit(e)
  PROVE  /\ pc = "loop" /\ LocalForest /\ loc \in [States -> Node] /\ node \in [States -> Node]
         /\ e.t \in Transitions /\ Target[e.t] \in States /\ IsNew(loc, Target[e.t])
         /\ IsForest(OpenFrom(loc, e.t), node)
         /\ Visited(OpenFrom(loc, e.t), Target[e.t])
         /\ HasParent(OpenFrom(loc, e.t), Target[e.t])
         /\ \A s \in States : Visited(loc, s) => Visited(OpenFrom(loc, e.t), s)
         /\ \A s \in States : HasParent(loc, s) => HasParent(OpenFrom(loc, e.t), s)
         /\ \A f \in open : Source[f.t] \in States
<1>1. pc = "loop" /\ LocalForest /\ IsNew(loc, Target[e.t]) /\ ~IsDeadEnd(node, Target[e.t])
  BY DEF Visit, Pop, Pruned, TreeInv, LocalTree, InPhase
<1>2. e.t \in Transitions /\ Target[e.t] \in States /\ \A f \in open : Source[f.t] \in States
  BY TypePop, TaskAssumption DEF TypeInv, PhaseInv, Entry
<1>3. loc \in [States -> Node] /\ node \in [States -> Node]
  BY DEF TypeInv, EngineInv, PhaseInv
<1>4. IsNew(node, Target[e.t]) \/ OpenedIn(node, Target[e.t])
  BY <1>1, <1>2, <1>3 DEF TreeInv, GlobalTree, IsTree, IsDeadEnd, IsNew, Visited, Node, Status
<1>5. Visited(loc, Source[e.t]) /\ IsForest(loc, node)
  BY <1>1 DEF LocalForest
<1> HIDE DEF Visit
<1> QED
  BY <1>1, <1>2, <1>3, <1>4, <1>5, ForestOpen

LEMMA VisitLocal ==
  ASSUME TypeInv, TypeInv', TreeInv, NEW e \in open,
         VisitDeadEnd(e) \/ VisitBetter(e) \/ VisitNotBetter(e)
  PROVE  LocalTree'
<1> DEFINE s == Target[e.t]
           opened == OpenFrom(loc, e.t)
<1>1. Visit(e)
  BY DEF VisitDeadEnd, VisitBetter, VisitNotBetter
<1>2. /\ pc = "loop" /\ loc \in [States -> Node] /\ node \in [States -> Node]
      /\ e.t \in Transitions /\ s \in States /\ IsNew(loc, s)
      /\ IsForest(loc, node)
      /\ \A f \in open : Source[f.t] \in States /\ Visited(loc, Source[f.t])
      /\ phase \in PhaseType
      /\ phase.nextBest # NoState => phase.nextBest \in States /\ HasParent(loc, phase.nextBest)
  BY <1>1, VisitOpens DEF LocalForest, TypeInv, PhaseInv, PhaseType
<1>3. /\ IsForest(opened, node) /\ Visited(opened, s) /\ HasParent(opened, s)
      /\ \A q \in States : Visited(loc, q) => Visited(opened, q)
      /\ \A q \in States : HasParent(loc, q) => HasParent(opened, q)
  BY <1>1, VisitOpens
<1> HIDE DEF s, opened
<1>4. CASE VisitDeadEnd(e)
  <2>1. /\ open' \subseteq open /\ loc' = MarkDeadEnd(loc, s) /\ node' = MarkDeadEnd(node, s)
        /\ UNCHANGED <<pc, phase>>
    BY <1>4 DEF VisitDeadEnd, s
  <2>2. /\ IsForest(loc', node')
        /\ \A q \in States : Visited(loc, q) => Visited(loc', q)
        /\ \A q \in States : HasParent(loc, q) => HasParent(loc', q)
    BY <1>2, <2>1, ForestDead
  <2> QED
    BY <1>2, <2>1, <2>2 DEF LocalTree, LocalForest
<1>5. CASE VisitBetter(e)
  <2>1. open' = {} /\ loc' = opened /\ UNCHANGED <<node, phase>> /\ pc' = "trace"
    BY <1>5 DEF VisitBetter, opened, TracePath, Goto
  <2> QED
    BY <1>2, <1>3, <2>1 DEF LocalTree, LocalForest
<1>6. CASE VisitNotBetter(e)
  <2>1. PICK r \in ResultsOf(s) :
          /\ EvaluateIfNecessary(s, r)
          /\ LET pref == IF EnableCache THEN cache'[s].pref ELSE r.pref IN
             open' = (open \ {e}) \cup
                       IF WithinDepth(opened, s) THEN Entries(opened, s, r.h, pref) ELSE {}
          /\ loc' = Close(opened, s)
          /\ phase'.nextBest \in {s, phase.nextBest}
    BY <1>2, <1>6 DEF VisitNotBetter, s, opened, PhaseType
  <2>2. UNCHANGED <<pc, node>>
    BY <1>6 DEF VisitNotBetter
  <2>3. ASSUME NEW f \in open', f \notin open
        PROVE  Source[f.t] = s
    <3> DEFINE pref == IF EnableCache THEN cache'[s].pref ELSE r.pref
    <3>1. pref \subseteq OpsOf(s)
      BY <1>2, <2>1, EvaluationApplicable DEF TreeInv
    <3>2. f \in Entries(opened, s, r.h, pref)
      BY <2>1, <2>3
    <3> HIDE DEF pref
    <3> QED
      BY <3>1, <3>2, EntriesFrom
  <2>4. opened \in [States -> Node]
    BY <1>2, OpenFromType DEF opened
  <2>5. /\ IsForest(loc', node)
        /\ \A q \in States : Visited(opened, q) => Visited(loc', q)
        /\ \A q \in States : HasParent(opened, q) => HasParent(loc', q)
    BY <1>2, <1>3, <2>1, <2>4, ForestClose
  <2>6. \A f \in open' : Visited(loc', Source[f.t])
    BY <1>2, <1>3, <2>3, <2>5
  <2>7. phase'.nextBest # NoState => HasParent(loc', phase'.nextBest)
    BY <1>2, <1>3, <2>1, <2>5
  <2> QED
    BY <1>2, <2>2, <2>5, <2>6, <2>7 DEF LocalTree, LocalForest
<1> QED
  BY <1>4, <1>5, <1>6

LEMMA LocalStep ==
  ASSUME TypeInv, TypeInv', TreeInv, [Next]_vars
  PROVE  LocalTree'
<1> USE DEF engineVars, phaseVars, outputVars, Goto, Halt, TracePath
<1>1. LocalTree /\ phase \in PhaseType /\ trace \in TraceType
  BY DEF TreeInv, TypeInv, PhaseInv
<1>2. CASE UNCHANGED vars
  BY <1>1, <1>2 DEF vars, LocalTree, LocalForest, InPhase
<1>3. CASE \/ Initialize \/ StepSolved \/ StepGrowthExceeded \/ Timeout \/ Terminated
  BY <1>1, <1>2, <1>3
     DEF Initialize, StepSolved, StepGrowthExceeded, Timeout, Terminated, LocalTree, InPhase
<1>4. CASE StartPhase
  BY <1>4, StartPhaseLocal
<1>5. CASE PhaseLoop
  <2>1. ASSUME NEW e \in open, Skip(e) \/ PruneByNovelty(e)
        PROVE  LocalTree'
    <3>1. /\ pc = "loop" /\ UNCHANGED <<pc, node, loc>> /\ open' \subseteq open
          /\ phase'.nextBest = phase.nextBest
      BY <1>1, <2>1 DEF Skip, PruneByNovelty, Pop, PhaseType
    <3> QED
      BY <1>1, <3>1, ForestSame DEF LocalTree, InPhase
  <2>2. ASSUME NEW e \in open, VisitDeadEnd(e) \/ VisitBetter(e) \/ VisitNotBetter(e)
        PROVE  LocalTree'
    BY <2>2, VisitLocal
  <2>3. CASE EndPhase
    <3>1. pc = "loop" /\ open = {} /\ UNCHANGED <<node, loc, open, phase>>
      BY <2>3 DEF EndPhase
    <3> QED
      BY <1>1, <3>1, ForestSame DEF LocalTree, InPhase
  <2> QED
    BY <1>5, <2>1, <2>2, <2>3 DEF PhaseLoop
<1>6. CASE Tracing
  <2>1. CASE TraceBack
    <3>1. trace'.after = trace.after /\ pc = "trace" /\ UNCHANGED <<pc, node, loc, open, phase>>
      BY <1>1, <2>1 DEF TraceBack, TraceType
    <3> QED
      BY <1>1, <3>1, ForestSame DEF LocalTree, InPhase
  <2>2. CASE PlanTraced \/ ReplayStart \/ Replay \/ ReplayEnd
    BY <1>1, <2>2 DEF PlanTraced, ReplayStart, Replay, ReplayEnd, Traced, LocalTree, InPhase
  <2> QED
    BY <1>6, <2>1, <2>2 DEF Tracing
<1>7. CASE Learning
  <2>1. CASE StagnationLeaves
    <3>1. pc = "escape_local_minimum" /\ UNCHANGED <<node, loc, open, phase>> /\ pc' # "done"
      BY <2>1, OptionAssumption DEF StagnationLeaves
    <3> QED
      BY <1>1, <3>1, ForestSame DEF LocalTree, InPhase
  <2>2. CASE StagnationPrunes \/ BeginLearning \/ LearnFailed \/ LearnedSolution
             \/ LearnedDeadEnd \/ LearnedFiniteValue
    BY <1>1, <2>2 DEF StagnationPrunes, BeginLearning, LearnFailed, LearnedSolution,
       LearnedDeadEnd, LearnedFiniteValue, LocalTree, InPhase
  <2>3. CASE LearnDeadEnd \/ LearnSolved \/ LearnConjunction
    BY <1>1, <2>3 DEF LearnDeadEnd, LearnSolved, LearnConjunction, LocalTree, InPhase
  <2> QED
    BY <1>7, <2>1, <2>2, <2>3 DEF Learning
<1>8. CASE Escaping
  <2>1. CASE Proceed
    <3>1. /\ pc = "proceed" /\ UNCHANGED <<node, loc, phase>> /\ open' \subseteq open
          /\ open = {} /\ LocalForest
      BY <1>1, <2>1 DEF Proceed, LocalTree, InPhase
    <3> QED
      BY <3>1, ForestSame DEF LocalTree, InPhase
  <2>2. CASE \/ ProceedExhausted \/ HandleSafeDeadEnd \/ ContinueOnExhaustion
             \/ LeaveOnExhaustion
    BY <1>1, <2>2 DEF ProceedExhausted, HandleSafeDeadEnd, ContinueOnExhaustion,
       LeaveOnExhaustion, LocalTree, InPhase
  <2>3. CASE EscapeDeadEnd \/ EscapePotentialDeadEnd \/ Restart \/ RestartInParent
    BY <1>1, <2>3 DEF EscapeDeadEnd, EscapePotentialDeadEnd, Restart, RestartInParent,
       LocalTree, InPhase
  <2> QED
    BY <1>8, <2>1, <2>2, <2>3 DEF Escaping
<1> QED
  BY <1>2, <1>3, <1>4, <1>5, <1>6, <1>7, <1>8 DEF Next, Run

-----------------------------------------------------------------------------
(* Tracing and replaying. *)

\* The steps after which a trace or a replay is in progress.
LEMMA TracingOnly ==
  ASSUME TypeInv, [Next]_vars, pc' \in {"trace", "replay"}
  PROVE  \/ UNCHANGED vars \/ StepSolved \/ LearnSolved \/ Proceed
         \/ TraceBack \/ ReplayStart \/ Replay
         \/ \E e \in open : VisitBetter(e)
<1> USE DEF Goto, Halt
<1>1. CASE PhaseLoop
  BY <1>1 DEF PhaseLoop, Skip, PruneByNovelty, VisitDeadEnd, VisitNotBetter, Visit, Pop, EndPhase
<1>2. CASE Tracing
  BY <1>2 DEF Tracing, PlanTraced, ReplayEnd
<1>3. CASE Learning
  BY <1>3, OptionAssumption
     DEF Learning, StagnationPrunes, StagnationLeaves, BeginLearning, LearnDeadEnd,
         LearnConjunction, LearnFailed, LearnedSolution, LearnedDeadEnd, LearnedFiniteValue
<1>4. CASE Escaping
  BY <1>4 DEF Escaping, ProceedExhausted, HandleSafeDeadEnd, ContinueOnExhaustion,
     LeaveOnExhaustion, EscapeDeadEnd, EscapePotentialDeadEnd, Restart, RestartInParent
<1> QED
  BY <1>1, <1>2, <1>3, <1>4
     DEF Next, Run, Initialize, StepGrowthExceeded, StartPhase, Timeout, Terminated

\* trace_path in the phase's space or in the global one.
LEMMA TraceBackSound ==
  ASSUME TypeInv, TypeInv', TreeInv, TraceBack
  PROVE  TraceSound'
<1> DEFINE t == TraceSpace[trace.at].op
<1>1. /\ trace.path \in Seq(Transitions) /\ trace.at \in States /\ trace \in TraceType
      /\ loc \in [States -> Node] /\ node \in [States -> Node]
  BY DEF TypeInv, EngineInv, PhaseInv, TraceType
<1>2. /\ pc = "trace" /\ HasParent(TraceSpace, trace.at)
      /\ UNCHANGED <<pc, ctx, loc, node, real_g>>
      /\ trace'.path = <<t>> \o trace.path /\ trace'.at = Source[t] /\ trace'.after = trace.after
  BY <1>1 DEF TraceBack, TraceType, ParentOf, engineVars
<1>3. t \in Transitions
  BY <1>1, <1>2 DEF HasParent, TraceSpace, Node
<1>4. IsPath(trace.path, trace.at, ctx.state)
  BY <1>2 DEF TreeInv, TraceSound
<1>5. CASE trace.after = "replay"
  <2>1. LocalForest /\ Visited(loc, trace.at) /\ TraceSpace = loc
    BY <1>2, <1>5 DEF TreeInv, LocalTree, InPhase, TraceSound, TraceSpace
  <2>2. Target[t] = trace.at /\ Visited(loc, Source[t])
    BY <1>1, <1>2, <2>1 DEF LocalForest, IsForest, ParentOf
  <2>3. IsNew(node, Target[t]) \/ Opened(Target[t])
    BY <1>1, <2>1, <2>2 DEF LocalForest, IsForest, OpenedIn, Opened
  <2>4. \A i \in 1 .. Len(trace.path) :
          IsNew(node, Target[trace.path[i]]) \/ Opened(Target[trace.path[i]])
    BY <1>2, <1>5 DEF TreeInv, TraceSound, Replaying
  <2> HIDE DEF t
  <2>5. trace'.path # <<>>
    BY <1>1, <1>2, <1>3
  <2>6. ASSUME NEW i \in 1 .. Len(trace'.path)
        PROVE  trace'.path[i] = t \/ \E j \in 1 .. Len(trace.path) : trace'.path[i] = trace.path[j]
    <3>1. CASE i = 1
      BY <1>1, <1>2, <1>3, <3>1
    <3>2. CASE i # 1
      <4>1. i - 1 \in 1 .. Len(trace.path) /\ trace'.path[i] = trace.path[i - 1]
        BY <1>1, <1>2, <1>3, <3>2
      <4> QED
        BY <4>1
    <3> QED
      BY <3>1, <3>2
  <2>7. \A i \in 1 .. Len(trace'.path) :
          IsNew(node, Target[trace'.path[i]]) \/ Opened(Target[trace'.path[i]])
    BY <2>3, <2>4, <2>6
  <2>8. IsPath(trace'.path, trace'.at, ctx'.state)
    BY <1>1, <1>2, <1>3, <1>4, <2>2, PathPrepend
  <2> QED
    BY <1>2, <1>5, <2>2, <2>5, <2>7, <2>8 DEF TraceSound, Opened
<1>6. CASE trace.after # "replay"
  <2>1. IsTree(node) /\ Opened(trace.at) /\ TraceSpace = node
    BY <1>2, <1>6 DEF TreeInv, GlobalTree, TraceSound, TraceSpace
  <2>2. Target[t] = trace.at /\ Opened(Source[t])
    BY <1>1, <1>2, <2>1 DEF IsTree, OpenedIn, Opened, HasParent
  <2> HIDE DEF t
  <2>3. IsPath(trace'.path, trace'.at, ctx'.state)
    BY <1>1, <1>2, <1>3, <1>4, <2>2, PathPrepend
  <2> QED
    BY <1>2, <1>6, <2>2, <2>3 DEF TraceSound, Opened, Replaying
<1> QED
  BY <1>5, <1>6

\* One operator is replayed (ehc, lines 412-422, and proceed_with_no_better_state).
LEMMA ReplaySound ==
  ASSUME TypeInv, TypeInv', TreeInv, Replay, [Next]_vars
  PROVE  TraceSound'
<1> DEFINE t == Head(trace.path)
           u == Target[t]
           rest == Tail(trace.path)
<1>1. /\ trace \in TraceType /\ trace.path \in Seq(Transitions)
      /\ pc = "replay" /\ trace.path # <<>> /\ UNCHANGED <<pc, ctx>>
      /\ real_g' = node'[u].real_g
  BY DEF TypeInv, PhaseInv, TraceType, Replay, ReplayedCost
<1>2. trace'.path = rest /\ trace'.at = u
  BY <1>1 DEF Replay, TraceType
<1>3. IsPath(trace.path, trace.at, ctx.state)
  BY <1>1 DEF TreeInv, TraceSound
<1>4. t \in Transitions /\ IsPath(rest, u, ctx.state)
  BY <1>1, <1>3, PathTail
<1>5. \A i \in 1 .. Len(trace.path) :
        IsNew(node, Target[trace.path[i]]) \/ Opened(Target[trace.path[i]])
  BY <1>1 DEF TreeInv, TraceSound, Replaying
<1>6. \A i \in 1 .. Len(rest) : i + 1 \in 1 .. Len(trace.path) /\ rest[i] = trace.path[i + 1]
                                  /\ rest[i] \in Transitions
  BY <1>1
<1>7. 1 \in 1 .. Len(trace.path) /\ t = trace.path[1]
  BY <1>1
<1>8. \A q \in Transitions : Target[q] \in States
  BY TaskAssumption
<1> HIDE DEF t, rest
<1>9. OpenedIn(node', u)
  <2>1. CASE IsNew(node, u)
    <3>1. ReplayOpens
      BY <2>1 DEF Replay, ReplayOpens, t
    <3> QED
      BY <3>1, ReplayOpensTree DEF t
  <2>2. CASE ~IsNew(node, u)
    BY <1>5, <1>7, <2>2 DEF Replay, OpenedIn, Opened, t
  <2> QED
    BY <2>1, <2>2
<1>10. ASSUME NEW q \in States, IsNew(node, q) \/ Opened(q)
       PROVE  IsNew(node', q) \/ OpenedIn(node', q)
  <2>1. CASE Opened(q)
    BY <1>1, <2>1, OpenedStays DEF OpenedIn, Opened
  <2>2. CASE IsNew(node, q) /\ ~IsNew(node, u)
    BY <2>2 DEF Replay, t
  <2>3. CASE IsNew(node, q) /\ IsNew(node, u)
    <3>1. ReplayOpens
      BY <2>3 DEF Replay, ReplayOpens, t
    <3>2. CASE q = u
      BY <1>9, <3>2
    <3>3. CASE q # u
      <4>1. node'[q] = node[q]
        BY <3>1, <3>3, ReplayOpensTree DEF t
      <4> QED
        BY <2>3, <4>1 DEF IsNew
    <3> QED
      BY <3>2, <3>3
  <2> QED
    BY <1>10, <2>1, <2>2, <2>3
<1>11. \A i \in 1 .. Len(rest) : IsNew(node', Target[rest[i]]) \/ OpenedIn(node', Target[rest[i]])
  BY <1>5, <1>6, <1>8, <1>10
<1> HIDE DEF u
<1> QED
  BY <1>1, <1>2, <1>4, <1>9, <1>11 DEF TraceSound, OpenedIn, Opened

LEMMA TraceSoundStep ==
  ASSUME TypeInv, TypeInv', TreeInv, [Next]_vars
  PROVE  TraceSound'
<1> USE DEF engineVars, phaseVars, outputVars
<1>1. CASE pc' \notin {"trace", "replay"}
  BY <1>1 DEF TraceSound, Replaying
<1>2. CASE UNCHANGED vars
  BY <1>2 DEF vars, TreeInv, TraceSound, Opened, Replaying
<1>3. ctx \in Context /\ ctx.state \in States
  BY DEF TypeInv, EngineInv, Context
<1>4. CASE StepSolved
  <2>1. trace' = [path |-> <<>>, at |-> ctx.state, after |-> "solved"] /\ pc' = "trace"
        /\ UNCHANGED <<ctx, node>> /\ Opened(ctx.state)
    BY <1>4 DEF StepSolved, TracePath, Goto, TreeInv, CurrentOnTree, Replaying
  <2> QED
    BY <2>1, EmptyPath DEF TraceSound, Opened, Replaying
<1>5. CASE LearnSolved /\ pc' \in {"trace", "replay"}
  <2>1. trace' = [path |-> <<>>, at |-> ctx.state, after |-> "learned"] /\ pc' = "trace"
        /\ ctx'.state = ctx.state /\ UNCHANGED node /\ Opened(ctx.state)
    BY <1>5, ContextStateStays
       DEF LearnSolved, TracePath, Goto, TreeInv, CurrentOnTree, Replaying
  <2> QED
    BY <2>1, EmptyPath DEF TraceSound, Opened, Replaying
<1>6. ASSUME NEW e \in open, VisitBetter(e)
      PROVE  TraceSound'
  <2> DEFINE s == Target[e.t]
  <2>1. trace' = [path |-> <<>>, at |-> s, after |-> "replay"] /\ pc' = "trace"
        /\ ctx'.state = s /\ UNCHANGED node /\ loc' = OpenFrom(loc, e.t)
    BY <1>6 DEF VisitBetter, TracePath, Goto
  <2>2. Visited(loc', s) /\ HasParent(loc', s)
    BY <1>6, <2>1, VisitOpens DEF VisitBetter
  <2> HIDE DEF s
  <2> QED
    BY <2>1, <2>2, EmptyPath DEF TraceSound
<1>7. CASE Proceed /\ pc' \in {"trace", "replay"}
  <2> DEFINE s == phase.nextBest
  <2>1. trace' = [path |-> <<>>, at |-> s, after |-> "replay"] /\ pc' = "trace"
        /\ ctx'.state = s /\ UNCHANGED <<node, loc>>
    BY <1>7 DEF Proceed, TracePath, Goto, FreshContext
  <2>2. s \in States /\ LocalForest
    BY <1>7 DEF TypeInv, ControlInv, PhaseInv, PhaseType, Proceed, TreeInv, LocalTree, InPhase
  <2>3. Visited(loc, s) /\ HasParent(loc, s)
    BY <2>2, OptionAssumption DEF LocalForest, IsForest
  <2> HIDE DEF s
  <2> QED
    BY <2>1, <2>3, EmptyPath DEF TraceSound
<1>8. CASE TraceBack
  BY <1>8, TraceBackSound
<1>9. CASE ReplayStart
  <2>1. /\ pc = "trace" /\ trace.after = "replay" /\ ~HasParent(loc, trace.at)
        /\ pc' = "replay" /\ UNCHANGED <<ctx, node, trace>>
    BY <1>9 DEF ReplayStart, Traced, TraceSpace, Goto
  <2>2. LocalForest /\ Visited(loc, trace.at) /\ trace.path # <<>>
    BY <2>1 DEF TreeInv, LocalTree, InPhase, TraceSound
  <2>3. Opened(trace.at)
    BY <2>1, <2>2 DEF TypeInv, PhaseInv, TraceType, LocalForest, IsForest, OpenedIn, Opened
  <2> QED
    BY <2>1, <2>2, <2>3 DEF TreeInv, TraceSound, Opened, Replaying
<1>10. CASE Replay
  BY <1>10, ReplaySound
<1> QED
  BY <1>1, <1>2, <1>4, <1>5, <1>6, <1>7, <1>8, <1>9, <1>10, TracingOnly

-----------------------------------------------------------------------------
(* The plan. *)

LEMMA SolutionChanges ==
  ASSUME [Next]_vars
  PROVE  UNCHANGED sol \/ PlanTraced
<1> USE DEF outputVars
<1>1. CASE Learning \/ Escaping
  BY <1>1 DEF Learning, StagnationPrunes, StagnationLeaves, BeginLearning, LearnDeadEnd,
     LearnSolved, LearnConjunction, LearnFailed, LearnedSolution, LearnedDeadEnd,
     LearnedFiniteValue, Escaping, ProceedExhausted, Proceed, HandleSafeDeadEnd,
     ContinueOnExhaustion, LeaveOnExhaustion, EscapeDeadEnd, EscapePotentialDeadEnd,
     Restart, RestartInParent
<1>2. CASE PhaseLoop \/ Tracing
  BY <1>2 DEF PhaseLoop, Skip, PruneByNovelty, VisitDeadEnd, VisitBetter, VisitNotBetter, EndPhase,
     Tracing, TraceBack, ReplayStart, Replay, ReplayEnd
<1> QED
  BY <1>1, <1>2 DEF Next, Run, Initialize, StepSolved, StepGrowthExceeded, StartPhase,
     Timeout, Terminated, vars

\* trace_path ends in the initial state (set_plan, set_solution).
LEMMA PlanTracedValid ==
  ASSUME TypeInv, TreeInv, PlanTraced
  PROVE  PlanIsValid'
<1>1. node \in [States -> Node] /\ trace.at \in States
  BY DEF TypeInv, EngineInv, PhaseInv, TraceType
<1>2. pc = "trace" /\ trace.after \in {"solved", "learned"} /\ ~HasParent(node, trace.at)
  BY DEF PlanTraced, Traced, TraceSpace
<1>3. IsTree(node) /\ Opened(trace.at) /\ IsPath(trace.path, trace.at, ctx.state)
  BY <1>2 DEF TreeInv, GlobalTree, TraceSound
<1>4. trace.at = InitialState
  BY <1>1, <1>2, <1>3, TaskAssumption DEF IsTree, OpenedIn, Opened, HasParent
<1>5. /\ trace.after = "solved" => ctx.state \in Goals
      /\ trace.after = "learned" => lres.cost \in PlanCosts[ctx.state]
  BY <1>2 DEF TreeInv, SolutionSound
<1>6. /\ sol'.ops = trace.path /\ sol'.at = ctx.state
      /\ trace.after = "learned" => sol'.suffix = lres.cost
  BY DEF PlanTraced, Traced
<1> QED
  BY <1>2, <1>3, <1>4, <1>5, <1>6 DEF PlanIsValid

LEMMA SolutionSoundStep ==
  ASSUME TypeInv, TypeInv', TreeInv, [Next]_vars
  PROVE  SolutionSound'
<1> DEFINE Pending ==
             /\ pc = "trace" /\ trace.after = "solved" => ctx.state \in Goals
             /\ pc = "trace" /\ trace.after = "learned" => lres.cost \in PlanCosts[ctx.state]
<1>1. Pending /\ PlanIsValid /\ trace \in TraceType
  BY DEF TreeInv, SolutionSound, TypeInv, PhaseInv
<1>2. PlanIsValid'
  <2>1. CASE UNCHANGED sol
    BY <1>1, <2>1 DEF PlanIsValid
  <2> QED
    BY <2>1, SolutionChanges, PlanTracedValid
<1>3. Pending'
  <2> USE DEF TracePath, Goto
  <2>1. CASE pc' # "trace"
    BY <2>1
  <2>2. CASE UNCHANGED vars
    BY <1>1, <2>2 DEF vars
  <2>3. CASE StepSolved
    BY <2>3 DEF StepSolved, engineVars
  <2>4. CASE LearnSolved /\ pc' = "trace"
    BY <2>4, ContextStateStays DEF LearnSolved
  <2>5. CASE Proceed /\ pc' = "trace"
    BY <2>5 DEF Proceed
  <2>6. CASE TraceBack
    BY <1>1, <2>6 DEF TraceBack, TraceType, engineVars, outputVars
  <2>7. CASE ReplayStart \/ Replay
    BY <2>7 DEF ReplayStart, Replay
  <2>8. CASE \E e \in open : VisitBetter(e)
    BY <2>8 DEF VisitBetter
  <2> QED
    BY <2>1, <2>2, <2>3, <2>4, <2>5, <2>6, <2>7, <2>8, TracingOnly
<1> QED
  BY <1>2, <1>3 DEF SolutionSound

-----------------------------------------------------------------------------
(* The theorems. *)

LEMMA TreeInit == Init => TreeInv
<1> SUFFICES ASSUME Init PROVE TreeInv
  OBVIOUS
<1> QED
  BY DEF Init, TreeInv, GlobalTree, CurrentOnTree, PreferredApplicable, LocalTree, InPhase,
     TraceSound, SolutionSound, PlanIsValid, Replaying, NoResult, EmptySpace

LEMMA TreeNext == TypeInv /\ TypeInv' /\ TreeInv /\ [Next]_vars => TreeInv'
<1> SUFFICES ASSUME TypeInv, TypeInv', TreeInv, [Next]_vars PROVE TreeInv'
  OBVIOUS
<1>1. PreferredApplicable'
  BY PreferredStep DEF TreeInv
<1> QED
  BY <1>1, GlobalTreeStep, CurrentStep, LocalStep, TraceSoundStep, SolutionSoundStep DEF TreeInv

\* For every task and every setting of the options, the global space, the phase's
\* own space, the traces through them and the plan fit together as TreeInv says
\* (step, ehc, trace_path and the replays, lines 262-449 and 630-676).
THEOREM TreeInvariant == Spec => []TreeInv
<1>1. Spec => []TypeInv
  BY TypeInvariant
<1> QED
  BY <1>1, TreeInit, TreeNext, PTL DEF Spec

\* The global space is a tree of real paths below the initial state.
THEOREM SearchTreeCorrect == Spec => []SearchTree
<1>1. TypeInv /\ TreeInv => SearchTree
  <2> SUFFICES ASSUME TypeInv, TreeInv PROVE SearchTree
    OBVIOUS
  <2>1. CASE pc = "init"
    BY <2>1 DEF TreeInv, GlobalTree, SearchTree, EmptySpace, NewNode, Opened
  <2>2. CASE pc # "init"
    <3>1. IsTree(node)
      BY <2>2 DEF TreeInv, GlobalTree
    <3> QED
      BY <3>1 DEF IsTree, SearchTree, OpenedIn, Opened, ParentOf
  <2> QED
    BY <2>1, <2>2
<1> QED
  BY <1>1, TypeInvariant, TreeInvariant, PTL

\* Whenever a phase runs, current_real_g is the cost of the path to its root.
THEOREM CurrentCostCorrect == Spec => []CurrentCostIsPathCost
<1>1. TreeInv => CurrentCostIsPathCost
  BY DEF TreeInv, CurrentOnTree, CurrentCostIsPathCost, Replaying
<1> QED
  BY <1>1, TreeInvariant, PTL

\* A solution is a path from the initial state to a goal, or to the state whose
\* relaxed plan executes.
THEOREM PlanCorrect == Spec => []PlanIsValid
<1>1. TreeInv => PlanIsValid
  BY DEF TreeInv, SolutionSound
<1> QED
  BY <1>1, TreeInvariant, PTL

\* No step revises a path of the global space or takes a dead end back.
THEOREM NodesNeverRevised == Spec => NodesAreNeverRevised
<1> DEFINE Kept == \A s \in States :
                     /\ Opened(s) => node'[s].op = node[s].op /\ node'[s].real_g = node[s].real_g
                     /\ IsDeadEnd(node, s) => IsDeadEnd(node', s)
<1>1. TypeInv /\ TreeInv /\ [Next]_vars => [Kept]_node
  <2> SUFFICES ASSUME TypeInv, TreeInv, [Next]_vars PROVE Kept
    OBVIOUS
  <2>1. CASE pc = "init"
    <3>1. \A s \in States : ~Opened(s) /\ ~IsDeadEnd(node, s)
      BY <2>1 DEF TreeInv, GlobalTree, EmptySpace, NewNode, Opened, IsDeadEnd
    <3> QED
      BY <3>1
  <2>2. CASE pc # "init"
    <3>1. ASSUME NEW s \in States, Opened(s)
          PROVE  node'[s].op = node[s].op /\ node'[s].real_g = node[s].real_g
      BY <2>2, <3>1, OpenedStays
    <3>2. ASSUME NEW s \in States, IsDeadEnd(node, s)
          PROVE  IsDeadEnd(node', s)
      <4>1. CASE SamePaths(node, node')
        BY <3>2, <4>1 DEF SamePaths, IsDeadEnd
      <4>2. CASE ReplayOpens
        <5>1. s # Target[Head(trace.path)]
          BY <3>2, <4>2 DEF ReplayOpens, IsNew, IsDeadEnd
        <5> QED
          BY <3>2, <4>2, <5>1, ReplayOpensTree DEF IsDeadEnd
      <4> QED
        BY <2>2, <4>1, <4>2, NodeChange
    <3> QED
      BY <3>1, <3>2
  <2> QED
    BY <2>1, <2>2
<1> QED
  BY <1>1, TypeInvariant, TreeInvariant, PTL DEF Spec, NodesAreNeverRevised

-----------------------------------------------------------------------------
(* What a step does to the heuristic, the cache and the current state. *)

\* Nothing; the engine only moves on.
Quiet ==
  /\ UNCHANGED <<heur, cache>>
  /\ ctx'.state = ctx.state /\ ctx'.res = ctx.res
  /\ pc \in {"init", "done"} => pc' \in {"init", "done"}
  /\ Leaving => Leaving'
  /\ Generated => Generated' \/ pc' = "done"
  /\ Generated' => Generated /\ UNCHANGED lres
  /\ CacheOutdated => CacheOutdated'

\* A state is evaluated if that is necessary; it may become the current one.
Evaluates ==
  /\ ~Generated /\ ~Generated'
  /\ \E s \in States : \E r \in ResultsOf(s) :
       /\ EvaluateIfNecessary(s, r)
       /\ \/ UNCHANGED ctx /\ pc \notin {"init", "done"} /\ (Leaving => Leaving')
          \/ ctx'.state = s /\ ctx'.res = r /\ (r.h = Infty => Leaving')

LEMMA EngineStep ==
  ASSUME TypeInv, [Next]_vars
  PROVE  \/ Quiet \/ Evaluates
         \/ LearnDeadEnd \/ LearnSolved \/ LearnConjunction
         \/ LearnedDeadEnd \/ LearnedFiniteValue
<1> USE DEF engineVars, phaseVars, outputVars, Goto, Halt
<1>1. ctx \in Context /\ ctx.state \in States /\ InitialState \in States
  BY TaskAssumption DEF TypeInv, EngineInv, Context
<1>2. UNCHANGED vars => Quiet
  BY DEF vars, Quiet, Leaving, Generated, TracingLearned, CacheOutdated, Modified
<1>3. CASE \/ StepSolved \/ StepGrowthExceeded \/ Timeout \/ Terminated \/ UNCHANGED vars
           \/ EndPhase \/ StagnationPrunes \/ StagnationLeaves \/ BeginLearning
           \/ LearnFailed \/ LearnedSolution
  <2> USE DEF Quiet, Leaving, Generated, TracingLearned, CacheOutdated, Modified
  <2>1. CASE StepSolved \/ StepGrowthExceeded \/ Timeout \/ Terminated \/ UNCHANGED vars
    BY <1>2, <2>1 DEF StepSolved, TracePath, StepGrowthExceeded, Timeout, Terminated
  <2>2. CASE EndPhase
    BY <2>2 DEF EndPhase
  <2>3. CASE StagnationPrunes \/ StagnationLeaves \/ BeginLearning
    BY <2>3, OptionAssumption DEF StagnationPrunes, StagnationLeaves, BeginLearning
  <2>4. CASE LearnFailed \/ LearnedSolution
    BY <2>4 DEF LearnFailed, LearnedSolution, SolvedInBound
  <2> QED
    BY <1>3, <2>1, <2>2, <2>3, <2>4
<1>4. CASE Tracing
  <2> USE DEF Quiet, Leaving, Generated, TracingLearned, CacheOutdated, Modified
  <2>1. CASE TraceBack
    BY <2>1 DEF TraceBack, TypeInv, PhaseInv, TraceType
  <2>2. CASE PlanTraced
    BY <2>2 DEF PlanTraced, Traced
  <2>3. CASE ReplayStart \/ Replay \/ ReplayEnd
    BY <2>3 DEF ReplayStart, Replay, ReplayEnd, Traced
  <2> QED
    BY <1>4, <2>1, <2>2, <2>3 DEF Tracing
<1>5. CASE ProceedExhausted \/ HandleSafeDeadEnd \/ ContinueOnExhaustion \/ LeaveOnExhaustion
  BY <1>5 DEF ProceedExhausted, HandleSafeDeadEnd, ContinueOnExhaustion, LeaveOnExhaustion,
     Quiet, Leaving, Generated, TracingLearned, CacheOutdated
<1>6. CASE StartPhase
  BY <1>1, <1>6 DEF StartPhase, Quiet, Leaving, Generated, TracingLearned, CacheOutdated, Context
<1>7. CASE Initialize \/ Restart
  BY <1>1, <1>7 DEF Initialize, Restart, Evaluates, FreshContext, Leaving, Generated, TracingLearned
<1>8. ASSUME NEW e \in open,
             Skip(e) \/ PruneByNovelty(e) \/ VisitDeadEnd(e) \/ VisitNotBetter(e) \/ VisitBetter(e)
      PROVE  Quiet \/ Evaluates
  <2> USE DEF Leaving, Generated, TracingLearned
  <2>1. CASE Skip(e) \/ PruneByNovelty(e)
    BY <2>1 DEF Skip, PruneByNovelty, Pop, Quiet, CacheOutdated
  <2>2. CASE VisitDeadEnd(e) \/ VisitNotBetter(e)
    <3> DEFINE s == Target[e.t]
    <3>1. s \in States
      BY TypePop
    <3>2. PICK r \in ResultsOf(s) : EvaluateIfNecessary(s, r)
      BY <2>2 DEF VisitDeadEnd, VisitNotBetter
    <3>3. pc = "loop" /\ pc' = "loop" /\ UNCHANGED ctx
      BY <2>2 DEF VisitDeadEnd, VisitNotBetter, Visit, Pop
    <3> HIDE DEF s
    <3> QED
      BY <3>1, <3>2, <3>3 DEF Evaluates
  <2>3. CASE VisitBetter(e)
    <3> DEFINE s == Target[e.t]
    <3>1. s \in States
      BY TypePop
    <3>2. PICK r \in ResultsOf(s) :
            /\ r.h # Infty /\ EvaluateIfNecessary(s, r)
            /\ ctx' = [state |-> s, res |-> r, nov |-> ~CacheHit(s)]
      BY <2>3 DEF VisitBetter
    <3>3. pc = "loop" /\ ~TracingLearned' /\ pc' = "trace"
      BY <2>3 DEF VisitBetter, Visit, Pop, TracePath
    <3> HIDE DEF s
    <3> QED
      BY <3>1, <3>2, <3>3 DEF Evaluates
  <2> QED
    BY <1>8, <2>1, <2>2, <2>3
<1>9. CASE Proceed
  <2>1. phase.nextBest \in States
    BY <1>9 DEF TypeInv, ControlInv, PhaseInv, PhaseType, Proceed
  <2>2. PICK r \in ResultsOf(phase.nextBest) :
          /\ EvaluateIfNecessary(phase.nextBest, r)
          /\ IF r.h = Infty
               THEN Goto("safe_dead_end") /\ UNCHANGED <<ctx, open, trace>>
               ELSE /\ ctx' = FreshContext(phase.nextBest, r)
                    /\ open' = {}
                    /\ TracePath(phase.nextBest, "replay")
    BY <1>9 DEF Proceed
  <2>3. ~Generated /\ ~Generated' /\ pc = "proceed"
    BY <1>9, <2>2 DEF Proceed, TracePath, Generated, TracingLearned
  <2> QED
    BY <2>1, <2>2, <2>3 DEF Evaluates, FreshContext, Leaving
<1>10. CASE EscapeDeadEnd \/ EscapePotentialDeadEnd \/ RestartInParent
  <2>1. CASE ~HasParent(node, ctx.state)
    BY <1>10, <2>1 DEF EscapeDeadEnd, EscapePotentialDeadEnd, RestartInParent,
       Quiet, Leaving, Generated, TracingLearned, CacheOutdated
  <2>2. CASE HasParent(node, ctx.state)
    <3>1. Parent \in States
      BY <1>1, <2>2, ParentType DEF Parent, TypeInv, EngineInv
    <3>2. PICK r \in ResultsOf(Parent) :
            /\ EvaluateIfNecessary(Parent, r) /\ ctx' = FreshContext(Parent, r)
            /\ r.h = Infty => pc' \in {"safe_dead_end", "escape_dead_end"}
      BY <1>10, <2>2 DEF EscapeDeadEnd, EscapePotentialDeadEnd, RestartInParent
    <3>3. ~Generated /\ ~Generated'
      BY <1>10, <2>2 DEF EscapeDeadEnd, EscapePotentialDeadEnd, RestartInParent, Generated,
         TracingLearned
    <3> QED
      BY <3>1, <3>2, <3>3 DEF Evaluates, FreshContext, Leaving
  <2> QED
    BY <2>1, <2>2
<1> QED
  BY <1>3, <1>4, <1>5, <1>6, <1>7, <1>8, <1>9, <1>10
     DEF Next, Run, PhaseLoop, Learning, Escaping

-----------------------------------------------------------------------------
(* The outcome. *)

\* The solution is set, and the status decided, at the end of a trace only.
LEMMA OutcomeStep ==
  ASSUME TypeInv, OutcomeInv, BoundIsDistinct, [Next]_vars
  PROVE  OutcomeInv'
<1> USE DEF Generated, TracingLearned, SolvedMeansPlan, Goto, Halt
<1>1. real_g \in Int /\ lres \in ResultSort /\ Bound \in Nat \cup {NoBound} /\ sol \in SolutionType
  BY OptionAssumption DEF TypeInv, EngineInv, OutputInv
<1>2. ASSUME UNCHANGED sol, pc # "done", pc = "learned" => ~SolvedInBound,
             pc' # "learned", ~TracingLearned', pc' = "done" => status' # "SOLVED"
      PROVE  OutcomeInv'
  BY <1>2 DEF OutcomeInv
<1>3. \A c \in Nat : WithinRemainingBound(c) <=> ~ExceedsBound(real_g + c)
  BY <1>1, OptionAssumption DEF WithinRemainingBound, ExceedsBound, BoundIsDistinct
<1>4. CASE Terminated \/ UNCHANGED vars
  BY <1>4 DEF Terminated, vars, OutcomeInv, SolvedInBound
<1>5. CASE Initialize \/ StepSolved \/ StepGrowthExceeded \/ StartPhase \/ Timeout
  BY <1>2, <1>5 DEF Initialize, StepSolved, StepGrowthExceeded, StartPhase, Timeout,
     TracePath, outputVars
<1>6. CASE PhaseLoop
  <2>1. UNCHANGED sol /\ pc = "loop"
    BY <1>6 DEF PhaseLoop, Skip, PruneByNovelty, VisitDeadEnd, VisitBetter, VisitNotBetter,
       Visit, Pop, EndPhase, outputVars
  <2>2. pc' # "learned" /\ pc' # "done" /\ ~TracingLearned'
    <3>1. CASE EndPhase
      BY <3>1 DEF EndPhase
    <3>2. ASSUME NEW e \in open, VisitBetter(e)
          PROVE  pc' = "trace" /\ trace'.after = "replay"
      BY <3>2 DEF VisitBetter, TracePath
    <3>3. ASSUME NEW e \in open,
                 Skip(e) \/ PruneByNovelty(e) \/ VisitDeadEnd(e) \/ VisitNotBetter(e)
          PROVE  UNCHANGED pc
      BY <3>3 DEF Skip, PruneByNovelty, VisitDeadEnd, VisitNotBetter
    <3> QED
      BY <1>6, <2>1, <3>1, <3>2, <3>3 DEF PhaseLoop
  <2> QED
    BY <1>2, <2>1, <2>2
<1>7. CASE Tracing
  <2>1. CASE TraceBack
    <3>1. /\ UNCHANGED <<sol, lres, real_g>> /\ pc = "trace" /\ pc' = "trace"
          /\ trace'.after = trace.after
      BY <2>1 DEF TraceBack, engineVars, outputVars, TypeInv, PhaseInv, TraceType
    <3> QED
      BY <3>1 DEF OutcomeInv, SolvedInBound
  <2>2. CASE PlanTraced
    BY <2>2 DEF PlanTraced, Traced, engineVars, OutcomeInv, SolvedInBound
  <2>3. CASE ReplayStart \/ Replay \/ ReplayEnd
    BY <1>2, <2>3 DEF ReplayStart, Replay, ReplayEnd, Traced, outputVars
  <2> QED
    BY <1>7, <2>1, <2>2, <2>3 DEF Tracing
<1>8. CASE StagnationPrunes \/ StagnationLeaves \/ BeginLearning \/ LearnFailed
  BY <1>2, <1>8, OptionAssumption DEF StagnationPrunes, StagnationLeaves, BeginLearning,
     LearnFailed, outputVars
<1>9. CASE LearnDeadEnd \/ LearnConjunction
  BY <1>9 DEF LearnDeadEnd, LearnConjunction, OutcomeInv, SolvedInBound
<1>10. CASE LearnSolved
  <2>1. PICK c \in PlanCosts[ctx.state] :
          /\ lres' = [result |-> "SOLVED", cost |-> c]
          /\ IF WithinRemainingBound(c)
               THEN TracePath(ctx.state, "learned")
               ELSE Goto("learned") /\ UNCHANGED trace
    BY <1>10 DEF LearnSolved
  <2>2. c \in Nat /\ pc = "learn" /\ UNCHANGED <<real_g, sol>>
    BY <1>10, OptionAssumption DEF LearnSolved, TypeInv, EngineInv, Context
  <2>3. SolvedInBound' <=> WithinRemainingBound(c)
    BY <1>3, <2>1, <2>2 DEF SolvedInBound, ExceedsBound
  <2>4. /\ WithinRemainingBound(c) => pc' = "trace" /\ trace'.after = "learned"
        /\ ~WithinRemainingBound(c) => pc' = "learned"
    BY <2>1 DEF TracePath
  <2> QED
    BY <2>2, <2>3, <2>4 DEF OutcomeInv
<1>11. CASE LearnedSolution
  BY <1>11 DEF LearnedSolution, OutcomeInv, outputVars
<1>12. CASE LearnedDeadEnd \/ LearnedFiniteValue
  BY <1>2, <1>12 DEF LearnedDeadEnd, LearnedFiniteValue, outputVars
<1>13. CASE Escaping
  <2>1. UNCHANGED sol
    BY <1>13 DEF Escaping, ProceedExhausted, Proceed, HandleSafeDeadEnd, ContinueOnExhaustion,
       LeaveOnExhaustion, EscapeDeadEnd, EscapePotentialDeadEnd, Restart, RestartInParent, outputVars
  <2>2. pc \notin {"learned", "done"} /\ pc' # "learned" /\ (pc' = "done" => status' # "SOLVED")
    BY <1>13 DEF Escaping, ProceedExhausted, Proceed, HandleSafeDeadEnd, ContinueOnExhaustion,
       LeaveOnExhaustion, EscapeDeadEnd, EscapePotentialDeadEnd, Restart, RestartInParent, TracePath
  <2>3. ~TracingLearned'
    BY <1>13 DEF Escaping, ProceedExhausted, Proceed, HandleSafeDeadEnd, ContinueOnExhaustion,
       LeaveOnExhaustion, EscapeDeadEnd, EscapePotentialDeadEnd, Restart, RestartInParent, TracePath
  <2> QED
    BY <1>2, <2>1, <2>2, <2>3
<1> QED
  BY <1>4, <1>5, <1>6, <1>7, <1>8, <1>9, <1>10, <1>11, <1>12, <1>13 DEF Next, Run, Learning

\* The engine reports SOLVED exactly when it has set a plan, as long as the cost
\* of the current path is not the bound plus one, where the remaining bound is
\* the number that stands for none (check_goal_and_set_plan, ehc, lines 583-597).
THEOREM SolvedMeansPlanFound == Spec /\ []BoundIsDistinct => []SolvedMeansPlan
<1>1. Init => OutcomeInv
  BY DEF Init, OutcomeInv, TracingLearned, SolvedMeansPlan
<1>2. TypeInv /\ OutcomeInv /\ BoundIsDistinct /\ [Next]_vars => OutcomeInv'
  BY OutcomeStep
<1>3. OutcomeInv => SolvedMeansPlan
  BY DEF OutcomeInv
<1> QED
  BY <1>1, <1>2, <1>3, TypeInvariant, PTL DEF Spec

\* With no bound on the cost nothing more is needed.
COROLLARY UnboundedSolvedMeansPlan == Bound = NoBound => (Spec => []SolvedMeansPlan)
<1> SUFFICES ASSUME Bound = NoBound PROVE Spec => []SolvedMeansPlan
  OBVIOUS
<1>1. BoundIsDistinct
  BY DEF BoundIsDistinct
<1> QED
  BY <1>1, SolvedMeansPlanFound, PTL

-----------------------------------------------------------------------------
(* Values. *)

LEMMA GoalsSolvable == Goals \subseteq Solvable
BY TaskAssumption DEF Solvable, BackwardClosed

LEMMA SolvablePredecessor ==
  ASSUME NEW t \in Transitions, Target[t] \in Solvable
  PROVE  Source[t] \in Solvable
BY TaskAssumption DEF Solvable, BackwardClosed

\* What an evaluation does to the heuristic (evaluate_if_neccessary).
LEMMA AfterEvaluationFacts ==
  ASSUME TypeInv, NEW s \in States, NEW r \in EvaluationsOf(s)
  PROVE  LET hs == AfterEvaluation(s, r) IN
         /\ hs.learned = heur.learned
         /\ heur.finite \subseteq hs.finite /\ heur.inf \subseteq hs.inf
         /\ heur.bsg = s => hs = heur
         /\ heur.bsg # s /\ r.h = Infty =>
              hs.bsg = heur.bsg /\ hs.h = heur.h /\ hs.finite = heur.finite /\ s \in hs.inf
         /\ heur.bsg # s /\ r.h # Infty =>
              hs.bsg = s /\ hs.h = r.h /\ s \in hs.finite /\ hs.inf = heur.inf
<1>1. heur \in HeurType
  BY DEF TypeInv, EngineInv, HeurInv
<1>2. CASE heur.bsg = s
  BY <1>2 DEF AfterEvaluation
<1>3. CASE heur.bsg # s /\ r.h = Infty
  BY <1>1, <1>3 DEF AfterEvaluation, HeurType
<1>4. CASE heur.bsg # s /\ r.h # Infty
  BY <1>1, <1>4 DEF AfterEvaluation, HeurType
<1> QED
  BY <1>2, <1>3, <1>4

\* Infinity is the value of states without a plan only, 0 that of goals.
LEMMA ResultValues ==
  ASSUME TypeInv, ValueInv, NEW s \in States
  PROVE  /\ \A r \in EvaluationsOf(s) :
              /\ r.h = Infty => s \notin Solvable /\ s \notin heur.finite /\ heur.bsg # s
              /\ s \in Goals => r.h = 0
         /\ \A r \in ResultsOf(s) :
              /\ r.h = Infty => s \notin Solvable /\ s \notin heur.finite /\ ~CacheHit(s)
              /\ s \in Goals => r.h = 0
<1>1. s # NoState /\ 0 # Infty /\ MaxH \in Nat \ {0}
  BY OptionAssumption DEF Infty
<1>2. ASSUME NEW r \in FiniteResults(s)
      PROVE  r.h # Infty /\ (s \in Goals => r.h = 0)
  <2>1. r.h \in 0 .. MaxH
    BY ResultTypes
  <2>2. s \in Goals => r.h = 0
    BY <1>1 DEF FiniteResults, ValueInv
  <2> QED
    BY <1>1, <2>1, <2>2 DEF Infty
<1>3. ASSUME NEW r \in InfiniteResults(s)
      PROVE  s \notin Solvable /\ s \notin heur.finite /\ heur.bsg # s /\ s \notin Goals
  BY GoalsSolvable DEF InfiniteResults
<1>4. ASSUME CacheHit(s)
      PROVE  cache[s].h # Infty /\ (s \in Goals => cache[s].h = 0)
  <2>1. cache[s].h \in -1 .. Infty
    BY DEF TypeInv, EngineInv, Result
  <2> QED
    BY <1>1, <1>4, <2>1 DEF CacheHit, ValueInv, Infty
<1> QED
  BY <1>2, <1>3, <1>4 DEF EvaluationsOf, ResultsOf

GraphValue(hs) ==
  hs.bsg # NoState => hs.bsg \in hs.finite /\ (hs.bsg \in Goals => hs.h = 0)

LEMMA AfterEvaluationValue ==
  ASSUME TypeInv, ValueInv, NEW s \in States, NEW r \in EvaluationsOf(s)
  PROVE  GraphValue(AfterEvaluation(s, r))
<1>1. r.h # Infty /\ s \in Goals => r.h = 0
  BY ResultValues
<1>2. GraphValue(heur)
  BY DEF ValueInv, GraphValue
<1> DEFINE hs == AfterEvaluation(s, r)
<1>3. /\ heur.bsg = s => hs = heur
      /\ heur.bsg # s /\ r.h = Infty =>
           hs.bsg = heur.bsg /\ hs.h = heur.h /\ hs.finite = heur.finite /\ s \in hs.inf
      /\ heur.bsg # s /\ r.h # Infty =>
           hs.bsg = s /\ hs.h = r.h /\ s \in hs.finite /\ hs.inf = heur.inf
  BY AfterEvaluationFacts
<1> HIDE DEF hs
<1> QED
  BY <1>1, <1>2, <1>3 DEF GraphValue, hs

\* The cached value of a state is kept, or it is the one just computed.
CacheValue(c) == \A s \in States : c[s].h # Infty /\ (s \in Goals => c[s].h <= 0)

LEMMA EvaluationValue ==
  ASSUME TypeInv, ValueInv, NEW s \in States, NEW r \in ResultsOf(s), EvaluateIfNecessary(s, r)
  PROVE  GraphValue(heur') /\ CacheValue(cache')
<1>1. GraphValue(heur')
  BY AfterEvaluationValue DEF EvaluateIfNecessary, ResultsOf, ValueInv, GraphValue
<1>2. r \in Result /\ (s \in Goals => r.h = 0) /\ cache \in [States -> Result]
  BY ResultTypes, ResultValues DEF TypeInv, EngineInv
<1>3. CacheValue(cache')
  BY <1>2 DEF EvaluateIfNecessary, Store, CacheValue, ValueInv
<1> QED
  BY <1>1, <1>3

\* The value of the result of generate_conjunctions or of the context.
LEMMA ContextValue ==
  ASSUME TypeInv, ValueInv, NEW r, EvaluateContext(r)
  PROVE  /\ GraphValue(heur')
         /\ ctx'.state = ctx.state /\ ctx'.res = r
         /\ r.h = Infty => ctx.state \notin Solvable
         /\ ctx.state \in Goals => r.h <= 0
<1>1. ctx \in Context /\ ctx.state \in States /\ r \in ContextResults /\ 0 <= 0
  BY DEF TypeInv, EngineInv, Context, EvaluateContext
<1>2. (r.h = Infty => ctx.state \notin Solvable) /\ (ctx.state \in Goals => r.h <= 0)
  BY <1>1, ResultValues DEF ContextResults, ValueInv
<1>3. GraphValue(heur')
  BY <1>1, AfterEvaluationValue DEF EvaluateContext, ContextResults, ValueInv, GraphValue
<1> QED
  BY <1>1, <1>2, <1>3 DEF EvaluateContext, Context

LEMMA ValueStep == TypeInv /\ ValueInv /\ [Next]_vars => ValueInv'
<1> SUFFICES ASSUME TypeInv, ValueInv, [Next]_vars PROVE ValueInv'
  OBVIOUS
<1>1. /\ ctx \in Context /\ ctx.state \in States /\ InitialState \in States
      /\ -1 # Infty /\ -1 <= 0 /\ 0 <= 0
  BY TaskAssumption, OptionAssumption DEF TypeInv, EngineInv, Context, Infty
<1>2. ASSUME GraphValue(heur'), CacheValue(cache'),
             ctx'.res.h = Infty => ctx'.state \notin Solvable,
             ctx'.state \in Goals => ctx'.res.h <= 0
      PROVE  ValueInv'
  BY <1>2 DEF ValueInv, GraphValue, CacheValue
<1>3. CASE Quiet
  BY <1>3 DEF Quiet, ValueInv
<1>4. CASE Evaluates
  <2>s. PICK s \in States : \E r \in ResultsOf(s) :
          /\ EvaluateIfNecessary(s, r)
          /\ UNCHANGED ctx \/ (ctx'.state = s /\ ctx'.res = r)
    BY <1>4 DEF Evaluates
  <2>1. PICK r \in ResultsOf(s) :
          /\ EvaluateIfNecessary(s, r)
          /\ UNCHANGED ctx \/ (ctx'.state = s /\ ctx'.res = r)
    BY <2>s
  <2>2. (r.h = Infty => s \notin Solvable) /\ (s \in Goals => r.h <= 0)
    BY <1>1, ResultValues
  <2>3. GraphValue(heur') /\ CacheValue(cache')
    BY <2>1, EvaluationValue
  <2> QED
    BY <1>2, <2>1, <2>2, <2>3 DEF ValueInv
<1>5. CASE LearnDeadEnd \/ LearnSolved \/ LearnConjunction
  <2>1. PICK r \in EvaluationsOf(ctx.state) :
          /\ \/ heur' = AfterEvaluation(ctx.state, r)
             \/ \E c \in Conjunctions : heur' = WithConjunction(c, AfterEvaluation(ctx.state, r))
          /\ \/ ctx' = FreshContext(ctx.state, r)
             \/ ctx' = FreshContext(ctx.state, EvaluatedForLearning(r))
    BY <1>5 DEF LearnDeadEnd, LearnSolved, LearnConjunction, EvaluationsOf
  <2>2. UNCHANGED cache
    BY <1>5 DEF LearnDeadEnd, LearnSolved, LearnConjunction
  <2>3. ASSUME NEW c, NEW hs, HeurInv(hs) PROVE GraphValue(WithConjunction(c, hs))
    BY <2>3 DEF WithConjunction, GraphValue, HeurInv, HeurType
  <2>4. GraphValue(heur')
    <3>1. HeurInv(AfterEvaluation(ctx.state, r))
      BY <1>1, ResultTypes, AfterEvaluationType
    <3> QED
      BY <1>1, <2>1, <2>3, <3>1, AfterEvaluationValue
  <2>5. (r.h = Infty => ctx.state \notin Solvable) /\ (ctx.state \in Goals => r.h <= 0)
    BY <1>1, ResultValues
  <2>6. ctx'.state = ctx.state /\ (ctx'.res = r \/ ctx'.res.h = -1)
    BY <2>1 DEF FreshContext, EvaluatedForLearning, NoResult
  <2>7. CacheValue(cache')
    BY <2>2 DEF ValueInv, CacheValue
  <2> QED
    BY <1>1, <1>2, <2>4, <2>5, <2>6, <2>7
<1>6. CASE LearnedDeadEnd \/ LearnedFiniteValue
  <2>1. PICK r : /\ EvaluateContext(r)
                 /\ cache' = KeptCache \/ (r.h # Infty /\ cache' = CacheAfterLearning(r))
    BY <1>6 DEF LearnedDeadEnd, LearnedFiniteValue
  <2>2. r \in Result /\ KeptCache \in [States -> Result]
    BY <2>1, ContextResultType, KeptCacheType
  <2>3. CacheValue(KeptCache)
    BY <1>1 DEF KeptCache, NoResult, CacheValue, ValueInv
  <2>4. /\ GraphValue(heur') /\ ctx'.state = ctx.state /\ ctx'.res = r
        /\ (r.h = Infty => ctx.state \notin Solvable) /\ (ctx.state \in Goals => r.h <= 0)
    BY <2>1, ContextValue
  <2>5. CacheValue(cache')
    BY <1>1, <2>1, <2>2, <2>3, <2>4 DEF CacheValue, CacheAfterLearning
  <2> QED
    BY <1>2, <2>4, <2>5
<1> QED
  BY <1>3, <1>4, <1>5, <1>6, EngineStep

LEMMA ValueInit == Init => ValueInv
BY OptionAssumption DEF Init, ValueInv, NoResult, Infty

\* Infinity is the value of dead ends and never cached; goals have value 0.
THEOREM ValueInvariant == Spec => []ValueInv
BY TypeInvariant, ValueInit, ValueStep, PTL DEF Spec

-----------------------------------------------------------------------------
(* Freshness. *)

\* A result lacks at most one of the learned conjunctions; a cache holds such
\* results, and but for one state they lack none.
Recent(r, learned) ==
  r.ver = learned \/ \E c \in Conjunctions : learned \subseteq r.ver \cup {c}

RecentCache(c, learned) ==
  \E z \in States : \A s \in States :
    c[s].h # -1 => Recent(c[s], learned) /\ (s # z => c[s].ver = learned)

LEMMA FreshForm ==
  /\ ContextFresh <=>
       /\ pc \notin {"init", "done"} /\ ~Generated => ctx.res.h # -1
       /\ ctx.res.h # -1 => Recent(ctx.res, heur.learned)
       /\ Generated /\ ~Modified /\ ctx.res.h # -1 => ctx.res.ver = heur.learned
       /\ TracingLearned => ~Modified
  /\ CacheFresh <=> (~CacheOutdated => RecentCache(cache, heur.learned))
<1>1. CacheFresh <=> (~CacheOutdated => RecentCache(cache, heur.learned))
  BY DEF CacheFresh, RecentCache, CachedFresh, AtMostOneBehind, Recent
<1> QED
  BY <1>1 DEF ContextFresh, AtMostOneBehind, Recent

\* What is computed now has the learned conjunctions, what is cached is recent.
LEMMA ResultVersions ==
  ASSUME TypeInv, NEW s \in States
  PROVE  /\ \A r \in EvaluationsOf(s) : r.h # -1 /\ r.ver = heur.learned
         /\ \A r \in ResultsOf(s) : r.h # -1
<1>1. \A h \in 0 .. Infty : h # -1
  BY OptionAssumption DEF Infty
<1>2. \A r \in EvaluationsOf(s) : r.ver = heur.learned
  BY DEF EvaluationsOf, FiniteResults, InfiniteResults
<1> QED
  BY <1>1, <1>2, ResultTypes

LEMMA EvaluationFresh ==
  ASSUME TypeInv, RecentCache(cache, heur.learned), NEW s \in States, NEW r \in ResultsOf(s),
         EvaluateIfNecessary(s, r)
  PROVE  /\ heur'.learned = heur.learned
         /\ Recent(r, heur.learned) /\ r.h # -1
         /\ RecentCache(cache', heur.learned)
         /\ \A q \in States : CacheHit(q) => CacheHit(q)'
         /\ EnableCache /\ r.h # Infty => CacheHit(s)'
<1>1. r \in Result /\ r.h # -1 /\ cache \in [States -> Result]
  BY ResultTypes, ResultVersions DEF TypeInv, EngineInv
<1>2. CASE CacheHit(s)
  <2>1. UNCHANGED <<heur, cache>> /\ r = cache[s]
    BY <1>2 DEF EvaluateIfNecessary, ResultsOf
  <2> QED
    BY <1>1, <1>2, <2>1 DEF RecentCache, CacheHit
<1>3. CASE ~CacheHit(s)
  <2>1. r \in EvaluationsOf(s) /\ heur' = AfterEvaluation(s, r) /\ r.ver = heur.learned
    BY <1>3, ResultVersions DEF EvaluateIfNecessary, ResultsOf
  <2>2. heur'.learned = heur.learned
    BY <2>1, AfterEvaluationFacts
  <2>3. Recent(r, heur.learned)
    BY <2>1 DEF Recent
  <2>4. CASE UNCHANGED cache
    BY <1>1, <1>3, <2>2, <2>3, <2>4 DEF EvaluateIfNecessary, Store, CacheHit
  <2>5. CASE r.h # Infty /\ EnableCache /\ cache' = [cache EXCEPT ![s] = r]
    <3>1. RecentCache(cache', heur.learned)
      <4>1. PICK z \in States : \A q \in States :
              cache[q].h # -1 =>
                Recent(cache[q], heur.learned) /\ (q # z => cache[q].ver = heur.learned)
        BY DEF RecentCache
      <4>2. \A q \in States : cache'[q] = IF q = s THEN r ELSE cache[q]
        BY <1>1, <2>5
      <4> QED
        BY <2>1, <2>3, <4>1, <4>2 DEF RecentCache
    <3> QED
      BY <1>1, <2>2, <2>3, <2>5, <3>1 DEF CacheHit
  <2> QED
    BY <1>3, <2>4, <2>5 DEF EvaluateIfNecessary, Store
<1> QED
  BY <1>2, <1>3

\* The result of the context, or the one computed because it holds none.
LEMMA ContextVersion ==
  ASSUME TypeInv, ContextFresh, NEW r, EvaluateContext(r)
  PROVE  /\ heur'.learned = heur.learned
         /\ ctx'.state = ctx.state /\ ctx'.res = r
         /\ r.h # -1 /\ Recent(r, heur.learned)
         /\ Generated /\ ~Modified => r.ver = heur.learned
<1>1. ctx \in Context /\ ctx.state \in States
  BY DEF TypeInv, EngineInv, Context
<1>2. ctx'.state = ctx.state /\ ctx'.res = r
  BY <1>1 DEF EvaluateContext, Context
<1>3. CASE ctx.res.h = -1
  <2>1. r \in EvaluationsOf(ctx.state) /\ heur' = AfterEvaluation(ctx.state, r)
    BY <1>3 DEF EvaluateContext, ContextResults
  <2> QED
    BY <1>1, <1>2, <2>1, AfterEvaluationFacts, ResultVersions DEF Recent
<1>4. CASE ctx.res.h # -1
  BY <1>2, <1>4, FreshForm DEF EvaluateContext, ContextResults
<1> QED
  BY <1>3, <1>4

LEMMA FreshQuiet == TypeInv /\ FreshInv /\ Quiet => FreshInv'
<1> SUFFICES ASSUME TypeInv, FreshInv, Quiet PROVE FreshInv'
  OBVIOUS
<1>1. ContextFresh'
  BY FreshForm DEF FreshInv, Quiet, ContextFresh, AtMostOneBehind, Generated, TracingLearned,
     CacheOutdated, Modified
<1>2. ~CacheOutdated' => ~CacheOutdated
  BY DEF Quiet
<1>3. CacheFresh'
  BY <1>2 DEF FreshInv, CacheFresh, CachedFresh, AtMostOneBehind, Quiet
<1>4. CurrentCached'
  BY <1>2 DEF FreshInv, CurrentCached, CacheHit, Quiet
<1> QED
  BY <1>1, <1>3, <1>4 DEF FreshInv

LEMMA FreshEvaluates == TypeInv /\ FreshInv /\ Evaluates => FreshInv'
<1> SUFFICES ASSUME TypeInv, FreshInv, Evaluates PROVE FreshInv'
  OBVIOUS
<1>1. ctx.state \in States /\ ~CacheOutdated /\ ~CacheOutdated'
  BY DEF TypeInv, EngineInv, Context, Evaluates, Generated, CacheOutdated
<1>2. RecentCache(cache, heur.learned) /\ ContextFresh /\ CurrentCached
  BY <1>1, FreshForm DEF FreshInv
<1>3. PICK s \in States : \E r \in ResultsOf(s) :
        /\ EvaluateIfNecessary(s, r)
        /\ \/ UNCHANGED ctx /\ pc \notin {"init", "done"} /\ (Leaving => Leaving')
           \/ ctx'.state = s /\ ctx'.res = r /\ (r.h = Infty => Leaving')
  BY DEF Evaluates
<1>4. PICK r \in ResultsOf(s) :
        /\ EvaluateIfNecessary(s, r)
        /\ \/ UNCHANGED ctx /\ pc \notin {"init", "done"} /\ (Leaving => Leaving')
           \/ ctx'.state = s /\ ctx'.res = r /\ (r.h = Infty => Leaving')
  BY <1>3
<1>5. /\ heur'.learned = heur.learned
      /\ Recent(r, heur.learned) /\ r.h # -1
      /\ RecentCache(cache', heur.learned)
      /\ \A q \in States : CacheHit(q) => CacheHit(q)'
      /\ EnableCache /\ r.h # Infty => CacheHit(s)'
  BY <1>2, <1>4, EvaluationFresh
<1>6. CacheFresh'
  <2>1. RecentCache(cache', heur'.learned)
    BY <1>5
  <2> QED
    BY <2>1 DEF CacheFresh, RecentCache, CachedFresh, AtMostOneBehind, Recent
<1>7. ContextFresh'
  <2>1. ctx'.res.h # -1 /\ Recent(ctx'.res, heur'.learned)
    BY <1>2, <1>4, <1>5, FreshForm DEF Evaluates
  <2> QED
    BY <2>1 DEF ContextFresh, Evaluates, Generated, Recent, AtMostOneBehind
<1>8. CurrentCached'
  BY <1>1, <1>2, <1>4, <1>5 DEF CurrentCached, CacheHit
<1> QED
  BY <1>6, <1>7, <1>8 DEF FreshInv

\* generate_conjunctions: the context holds a fresh result or none at all.
LEMMA FreshGenerates ==
  TypeInv /\ FreshInv /\ (LearnDeadEnd \/ LearnSolved \/ LearnConjunction) => FreshInv'
<1> SUFFICES ASSUME TypeInv, FreshInv, LearnDeadEnd \/ LearnSolved \/ LearnConjunction
             PROVE  FreshInv'
  OBVIOUS
<1>1. /\ ctx.state \in States /\ pc = "learn" /\ UNCHANGED cache
      /\ ~Leaving /\ ~CacheOutdated
  BY DEF TypeInv, EngineInv, Context, LearnDeadEnd, LearnSolved, LearnConjunction, Leaving,
     CacheOutdated
<1>2. RecentCache(cache, heur.learned) /\ (EnableCache => CacheHit(ctx.state))
  BY <1>1, FreshForm DEF FreshInv, CurrentCached
<1>3. PICK r \in EvaluationsOf(ctx.state) :
        /\ \/ ~LearnConjunction /\ heur' = AfterEvaluation(ctx.state, r)
           \/ /\ LearnConjunction
              /\ \E c \in Conjunctions : heur' = WithConjunction(c, AfterEvaluation(ctx.state, r))
        /\ \/ ctx' = FreshContext(ctx.state, r)
           \/ ctx' = FreshContext(ctx.state, EvaluatedForLearning(r))
  <2> USE DEF EvaluationsOf
  <2>1. ~LearnConjunction \/ ~LearnDeadEnd
    BY DEF LearnConjunction, LearnDeadEnd
  <2>2. ~LearnConjunction \/ ~LearnSolved
    BY DEF LearnConjunction, LearnSolved
  <2> QED
    BY <2>1, <2>2 DEF LearnDeadEnd, LearnSolved, LearnConjunction
<1>4. /\ r.h # -1 /\ r.ver = heur.learned
      /\ AfterEvaluation(ctx.state, r).learned = heur.learned
  BY <1>1, ResultVersions, AfterEvaluationFacts
<1>5. ctx'.state = ctx.state /\ (ctx'.res.h # -1 => ctx'.res.ver = heur.learned)
  BY <1>3, <1>4 DEF FreshContext, EvaluatedForLearning, NoResult
<1>6. Generated' /\ pc' \in {"learned", "trace"}
  BY DEF LearnDeadEnd, LearnSolved, LearnConjunction, Goto, TracePath, Generated, TracingLearned
<1>7. CASE LearnConjunction
  <2>1. pc' = "learned" /\ Modified'
    BY <1>7 DEF LearnConjunction, Goto, Modified
  <2>2. CacheOutdated' /\ ~TracingLearned'
    BY <2>1 DEF CacheOutdated, TracingLearned
  <2>3. PICK c \in Conjunctions : heur' = WithConjunction(c, AfterEvaluation(ctx.state, r))
    BY <1>3, <1>7
  <2>4. HeurInv(AfterEvaluation(ctx.state, r))
    BY <1>1, ResultTypes, AfterEvaluationType
  <2>5. heur'.learned = heur.learned \cup {c}
    BY <1>4, <2>3, <2>4 DEF WithConjunction, HeurInv, HeurType
  <2>6. ctx'.res.h # -1 => AtMostOneBehind(ctx.res)'
    BY <1>5, <2>5 DEF AtMostOneBehind
  <2> QED
    BY <1>6, <2>1, <2>2, <2>6 DEF FreshInv, ContextFresh, CacheFresh, CurrentCached
<1>8. CASE LearnDeadEnd \/ LearnSolved
  <2>1. heur'.learned = heur.learned
    BY <1>3, <1>4, <1>8 DEF LearnConjunction, LearnDeadEnd, LearnSolved
  <2>2. ~Modified'
    BY <1>8 DEF LearnDeadEnd, LearnSolved, Modified
  <2>3. CacheFresh'
    BY <1>1, <1>2, <2>1 DEF CacheFresh, RecentCache, CachedFresh, AtMostOneBehind, Recent
  <2>4. ContextFresh'
    BY <1>5, <1>6, <2>1, <2>2 DEF ContextFresh
  <2>5. CurrentCached'
    BY <1>1, <1>2, <1>5 DEF CurrentCached, CacheHit
  <2> QED
    BY <2>3, <2>4, <2>5 DEF FreshInv
<1> QED
  BY <1>7, <1>8

\* Acting on its result: a new conjunction clears the cache, and the value stored
\* then may lack that conjunction.
LEMMA FreshLearned == TypeInv /\ FreshInv /\ (LearnedDeadEnd \/ LearnedFiniteValue) => FreshInv'
<1> SUFFICES ASSUME TypeInv, FreshInv, LearnedDeadEnd \/ LearnedFiniteValue PROVE FreshInv'
  OBVIOUS
<1>1. /\ ctx.state \in States /\ cache \in [States -> Result] /\ pc = "learned" /\ Generated
      /\ pc' # "learned" /\ pc' # "init" /\ pc' # "trace"
      /\ LearnedDeadEnd => pc' = "safe_dead_end"
  BY DEF TypeInv, EngineInv, Context, LearnedDeadEnd, LearnedFiniteValue, Generated, Goto, Halt
<1>2. PICK r : /\ EvaluateContext(r)
               /\ \/ LearnedDeadEnd /\ cache' = KeptCache
                  \/ cache' = CacheAfterLearning(r)
  BY DEF LearnedDeadEnd, LearnedFiniteValue
<1>3. /\ heur'.learned = heur.learned
      /\ ctx'.state = ctx.state /\ ctx'.res = r
      /\ r.h # -1 /\ Recent(r, heur.learned)
      /\ Generated /\ ~Modified => r.ver = heur.learned
  BY <1>2, ContextVersion DEF FreshInv
<1>4. ~CacheOutdated' /\ ~Generated' /\ ~TracingLearned'
  BY <1>1 DEF CacheOutdated, Generated, TracingLearned
<1>5. KeptCache \in [States -> Result] /\ (~Modified => KeptCache = cache)
      /\ (Modified => \A s \in States : KeptCache[s].h = -1)
  BY KeptCacheType DEF KeptCache, NoResult
<1>6. RecentCache(cache', heur.learned)
  <2>1. RecentCache(KeptCache, heur.learned)
    BY <1>1, <1>5, FreshForm DEF FreshInv, CacheOutdated, RecentCache
  <2>2. CASE cache' = KeptCache
    BY <2>1, <2>2
  <2>3. CASE cache' = [KeptCache EXCEPT ![ctx.state] = r]
    <3>1. \A q \in States : cache'[q] = IF q = ctx.state THEN r ELSE KeptCache[q]
      BY <1>1, <1>5, <2>3
    <3>2. CASE Modified
      BY <1>1, <1>3, <1>5, <3>1, <3>2 DEF RecentCache
    <3>3. CASE ~Modified
      <4>1. PICK z \in States : \A q \in States :
              KeptCache[q].h # -1 =>
                Recent(KeptCache[q], heur.learned) /\ (q # z => KeptCache[q].ver = heur.learned)
        BY <2>1 DEF RecentCache
      <4>2. r.ver = heur.learned
        BY <1>1, <1>3, <3>3
      <4> QED
        BY <1>3, <3>1, <4>1, <4>2 DEF RecentCache
    <3> QED
      BY <3>2, <3>3
  <2> QED
    BY <1>2, <2>2, <2>3 DEF CacheAfterLearning
<1>7. CacheFresh'
  <2>1. RecentCache(cache', heur'.learned)
    BY <1>3, <1>6
  <2> QED
    BY <2>1 DEF CacheFresh, RecentCache, CachedFresh, AtMostOneBehind, Recent
<1>8. ContextFresh'
  BY <1>3, <1>4 DEF ContextFresh, Recent, AtMostOneBehind
<1>9. CurrentCached'
  <2>1. LearnedDeadEnd => Leaving'
    BY <1>1 DEF Leaving
  <2>2. cache' = CacheAfterLearning(r) /\ EnableCache => CacheHit(ctx.state)'
    <3> SUFFICES ASSUME cache' = CacheAfterLearning(r), EnableCache PROVE cache'[ctx.state].h # -1 /\ ctx'.state = ctx.state
      BY DEF CacheHit
    <3>1. cache'[ctx.state] = r
      BY <1>1, <1>5 DEF CacheAfterLearning
    <3> QED
      BY <1>3, <3>1
  <2> QED
    BY <1>2, <1>3, <2>1, <2>2 DEF CurrentCached, CacheHit
<1> QED
  BY <1>7, <1>8, <1>9 DEF FreshInv

LEMMA FreshInit == Init => FreshInv
BY TaskAssumption DEF Init, FreshInv, ContextFresh, CacheFresh, CachedFresh, CurrentCached, Generated,
   TracingLearned, CacheOutdated, Leaving, NoResult

\* However often and in whatever order states are evaluated, cached and learned
\* from, the values lag behind by at most one conjunction.
THEOREM FreshInvariant == Spec => []FreshInv
<1>1. TypeInv /\ FreshInv /\ [Next]_vars => FreshInv'
  BY EngineStep, FreshQuiet, FreshEvaluates, FreshGenerates, FreshLearned
<1> QED
  BY <1>1, TypeInvariant, FreshInit, PTL DEF Spec

\* The value a phase compares with, and every cached one, lacks at most one of
\* the learned conjunctions, all but one cached value lack none, and the
\* current state is cached when a phase begins (lines 583-610).
THEOREM ValuesStayFresh == Spec => []ValuesAreFresh
<1>1. ASSUME NEW r, Recent(r, heur.learned), TypeInv
      PROVE  LagsByAtMostOne(r)
  <2>1. CASE r.ver = heur.learned
    <3>1. heur.learned \ r.ver = {}
      BY <2>1
    <3> QED
      BY <3>1, FS_EmptySet DEF LagsByAtMostOne
  <2>2. CASE r.ver # heur.learned
    <3>1. PICK c \in Conjunctions : heur.learned \subseteq r.ver \cup {c}
      BY <1>1, <2>2 DEF Recent
    <3>2. IsFiniteSet({c}) /\ Cardinality({c}) = 1 /\ heur.learned \ r.ver \subseteq {c}
      BY <3>1, FS_Singleton
    <3>3. /\ Cardinality(heur.learned \ r.ver) <= 1
      BY <3>2, FS_Subset
    <3> QED
      BY <3>3 DEF LagsByAtMostOne
  <2> QED
    BY <2>1, <2>2
<1>2. ASSUME TypeInv, FreshInv, pc \in {"step", "loop"}
      PROVE  LET stale == {s \in States : cache[s].h # -1 /\ cache[s].ver # heur.learned} IN
             /\ ctx.res.h # -1 /\ LagsByAtMostOne(ctx.res)
             /\ Cardinality(stale) <= 1
             /\ \A s \in stale : LagsByAtMostOne(cache[s])
  <2> DEFINE stale == {s \in States : cache[s].h # -1 /\ cache[s].ver # heur.learned}
  <2>1. ~Generated /\ ~CacheOutdated
    BY <1>2 DEF Generated, TracingLearned, CacheOutdated
  <2>2. ctx.res.h # -1 /\ Recent(ctx.res, heur.learned) /\ RecentCache(cache, heur.learned)
    BY <1>2, <2>1, FreshForm DEF FreshInv
  <2>3. PICK z \in States : \A s \in States :
          cache[s].h # -1 => Recent(cache[s], heur.learned) /\ (s # z => cache[s].ver = heur.learned)
    BY <2>2 DEF RecentCache
  <2>4. stale \subseteq {z} /\ \A s \in stale : Recent(cache[s], heur.learned)
    BY <2>3
  <2>5. IsFiniteSet({z}) /\ Cardinality({z}) = 1
    BY FS_Singleton
  <2> HIDE DEF stale
  <2>6. Cardinality(stale) <= 1
    BY <2>4, <2>5, FS_Subset
  <2> QED
    BY <1>1, <1>2, <2>2, <2>4, <2>6 DEF stale
<1>3. TypeInv /\ FreshInv => CurrentIsCached
  BY DEF FreshInv, CurrentCached, CurrentIsCached, Leaving, CacheOutdated
<1>4. TypeInv /\ FreshInv => ValuesAreFresh
  BY <1>2, <1>3 DEF ValuesAreFresh
<1> QED
  BY <1>4, TypeInvariant, FreshInvariant, PTL

-----------------------------------------------------------------------------
(* Preferred operators. *)

\* A finite value comes with preferred operators unless it is that of a goal, or
\* of the state the last best supporter graph belongs to.
LEMMA ResultPreferred ==
  ASSUME TypeInv, NEW s \in States \ Goals, heur.bsg # s,
         NEW r \in EvaluationsOf(s), r.h # Infty
  PROVE  r.pref # {}
<1>1. r \in FiniteResults(s)
  BY ResultTypes DEF EvaluationsOf
<1> QED
  BY <1>1 DEF FiniteResults

LEMMA PreferredQuiet == TypeInv /\ FreshInv /\ PreferredInv /\ Quiet => PreferredInv'
<1> SUFFICES ASSUME TypeInv, FreshInv, PreferredInv, Quiet PROVE PreferredInv'
  OBVIOUS
<1>1. CacheOutdated' => CacheOutdated
  BY DEF Quiet, FreshInv, ContextFresh, CacheOutdated, Generated, Modified
<1> QED
  BY <1>1 DEF Quiet, PreferredInv, CacheHit

LEMMA PreferredEvaluates ==
  EnableCache /\ TypeInv /\ FreshInv /\ PreferredInv /\ Evaluates => PreferredInv'
<1> SUFFICES ASSUME EnableCache, TypeInv, FreshInv, PreferredInv, Evaluates PROVE PreferredInv'
  OBVIOUS
<1>1. ~CacheOutdated /\ ~CacheOutdated' /\ ~Generated' /\ cache \in [States -> Result]
      /\ heur.bsg \in States \cup {NoState} /\ NoState \notin States
  BY OptionAssumption DEF Evaluates, Generated, CacheOutdated, TypeInv, EngineInv, HeurInv, HeurType
<1>2. RecentCache(cache, heur.learned)
  BY <1>1, FreshForm DEF FreshInv
<1>3. PICK s \in States : \E r \in ResultsOf(s) :
        EvaluateIfNecessary(s, r) /\ (UNCHANGED ctx \/ (ctx'.state = s /\ ctx'.res = r))
  BY DEF Evaluates
<1>4. PICK r \in ResultsOf(s) :
        EvaluateIfNecessary(s, r) /\ (UNCHANGED ctx \/ (ctx'.state = s /\ ctx'.res = r))
  BY <1>3
<1>5. (\A q \in States : CacheHit(q) => CacheHit(q)') /\ (r.h # Infty => CacheHit(s)')
  BY <1>2, <1>4, EvaluationFresh
<1>6. CASE CacheHit(s)
  <2>1. UNCHANGED <<heur, cache>> /\ r = cache[s]
    BY <1>4, <1>6 DEF EvaluateIfNecessary, ResultsOf
  <2> QED
    BY <1>1, <1>4, <1>6, <2>1 DEF PreferredInv, CacheHit
<1>7. CASE ~CacheHit(s)
  <2>1. /\ r \in EvaluationsOf(s) /\ heur' = AfterEvaluation(s, r) /\ heur.bsg # s
        /\ cache' = IF r.h = Infty THEN cache ELSE [cache EXCEPT ![s] = r]
    BY <1>1, <1>4, <1>7 DEF EvaluateIfNecessary, ResultsOf, PreferredInv, Store
  <2>2. s \notin Goals /\ r.h # Infty => r.pref # {}
    BY <2>1, ResultPreferred
  <2>3. heur'.bsg = IF r.h = Infty THEN heur.bsg ELSE s
    BY <2>1, AfterEvaluationFacts
  <2>4. \A q \in States \ Goals : cache'[q].h # -1 => cache'[q].pref # {}
    BY <1>1, <2>1, <2>2 DEF PreferredInv
  <2>5. ctx'.state \notin Goals /\ ctx'.res.h \notin {-1, Infty} => ctx'.res.pref # {}
    BY <1>4, <2>2 DEF PreferredInv
  <2>6. heur'.bsg # NoState => CacheHit(heur.bsg)'
    <3>1. heur'.bsg # NoState => heur'.bsg \in States /\ cache'[heur'.bsg].h # -1
      BY <1>1, <1>5, <2>3 DEF PreferredInv, CacheHit
    <3> QED
      BY <3>1 DEF CacheHit
  <2> QED
    BY <1>1, <2>4, <2>5, <2>6 DEF PreferredInv
<1> QED
  BY <1>6, <1>7

\* generate_conjunctions is called for a state that is cached.
LEMMA PreferredGenerates ==
  EnableCache /\ TypeInv /\ FreshInv /\ PreferredInv /\ (LearnDeadEnd \/ LearnSolved \/ LearnConjunction)
    => PreferredInv'
<1> SUFFICES ASSUME EnableCache, TypeInv, FreshInv, PreferredInv,
                    LearnDeadEnd \/ LearnSolved \/ LearnConjunction
             PROVE  PreferredInv'
  OBVIOUS
<1>1. /\ ctx.state \in States /\ pc = "learn" /\ UNCHANGED cache
      /\ ~Leaving /\ ~CacheOutdated /\ InitialState \in States
      /\ heur.bsg \in States \cup {NoState} /\ NoState \notin States
  BY OptionAssumption, TaskAssumption DEF TypeInv, EngineInv, Context, HeurInv, HeurType, LearnDeadEnd,
     LearnSolved, LearnConjunction, Leaving, CacheOutdated
<1>2. CacheHit(ctx.state)
  BY <1>1 DEF FreshInv, CurrentCached
<1>3. ASSUME NEW r \in EvaluationsOf(ctx.state)
      PROVE  LET c == FreshContext(ctx.state, EvaluatedForLearning(r)) IN
             c.state \notin Goals /\ c.res.h \notin {-1, Infty} => c.res.pref # {}
  BY <1>1, <1>3, ResultPreferred DEF FreshContext, EvaluatedForLearning, NoResult
<1>4. CASE LearnDeadEnd
  <2>1. PICK r \in InfiniteResults(ctx.state) :
          heur' = AfterEvaluation(ctx.state, r) /\ ctx' = FreshContext(ctx.state, r)
    BY <1>4 DEF LearnDeadEnd
  <2>2. r.h = Infty /\ r \in EvaluationsOf(ctx.state) /\ heur.bsg # ctx.state
    BY <1>1, ResultTypes DEF EvaluationsOf, InfiniteResults
  <2>3. heur'.bsg = heur.bsg /\ ctx'.res.h = Infty
    BY <1>1, <2>1, <2>2, AfterEvaluationFacts DEF FreshContext
  <2>4. ~CacheOutdated'
    BY <1>4 DEF LearnDeadEnd, CacheOutdated, Modified
  <2> QED
    BY <1>1, <2>3, <2>4 DEF PreferredInv, CacheHit
<1>5. CASE LearnSolved
  <2>1. PICK r \in EvaluationsOf(ctx.state) :
          /\ heur' = AfterEvaluation(ctx.state, r)
          /\ ctx' = FreshContext(ctx.state, EvaluatedForLearning(r))
    BY <1>5 DEF LearnSolved, EvaluationsOf
  <2>2. heur'.bsg \in {heur.bsg, ctx.state}
    BY <1>1, <2>1, AfterEvaluationFacts
  <2>3. ~CacheOutdated' /\ lres'.result = "SOLVED"
    BY <1>5 DEF LearnSolved, CacheOutdated, Modified
  <2> QED
    BY <1>1, <1>2, <1>3, <2>1, <2>2, <2>3 DEF PreferredInv, CacheHit
<1>6. CASE LearnConjunction
  <2>1. PICK r \in EvaluationsOf(ctx.state) :
          /\ \E c \in Conjunctions : heur' = WithConjunction(c, AfterEvaluation(ctx.state, r))
          /\ ctx' = FreshContext(ctx.state, EvaluatedForLearning(r))
    BY <1>6 DEF LearnConjunction, EvaluationsOf
  <2>2. HeurInv(AfterEvaluation(ctx.state, r))
    BY <1>1, ResultTypes, AfterEvaluationType
  <2>3. heur'.bsg = NoState /\ lres'.result = "MODIFIED"
    BY <1>6, <2>1, <2>2 DEF WithConjunction, HeurInv, HeurType, LearnConjunction
  <2> QED
    BY <1>1, <1>3, <2>1, <2>3 DEF PreferredInv, CacheHit
<1> QED
  BY <1>4, <1>5, <1>6

\* Without a bound the relaxed plan that executes is the solution, so the context
\* is evaluated only after a conjunction was learned, when no graph is left.
LEMMA PreferredLearned ==
  EnableCache /\ Bound = NoBound /\ TypeInv /\ FreshInv /\ PreferredInv
  /\ (LearnedDeadEnd \/ LearnedFiniteValue)
    => PreferredInv'
<1> SUFFICES ASSUME EnableCache, Bound = NoBound, TypeInv, FreshInv, PreferredInv,
                    LearnedDeadEnd \/ LearnedFiniteValue
             PROVE  PreferredInv'
  OBVIOUS
<1>1. /\ ctx.state \in States /\ pc = "learned" /\ pc' # "learned" /\ pc' # "trace"
      /\ lres.result \in {"MODIFIED", "DEAD_END"} /\ Infty # -1
      /\ heur.bsg \in States \cup {NoState} /\ NoState \notin States
  BY OptionAssumption DEF TypeInv, EngineInv, OutputInv, ResultSort, Context, HeurInv, HeurType, LearnedDeadEnd,
     LearnedFiniteValue, SolvedInBound, ExceedsBound, Goto, Halt, Infty
<1>2. ~CacheOutdated' /\ ~Generated' /\ Generated /\ (Modified => heur.bsg = NoState)
  BY <1>1 DEF CacheOutdated, Generated, TracingLearned, PreferredInv
<1>3. PICK r : /\ EvaluateContext(r)
               /\ \/ r.h = Infty /\ cache' = KeptCache
                  \/ r.h # Infty /\ cache' = [KeptCache EXCEPT ![ctx.state] = r]
  BY DEF LearnedDeadEnd, LearnedFiniteValue, CacheAfterLearning
<1>4. r.h # -1 /\ ctx'.state = ctx.state /\ ctx'.res = r
  BY <1>3, ContextVersion DEF FreshInv
<1>5. /\ KeptCache \in [States -> Result] /\ (~Modified => KeptCache = cache)
      /\ (Modified => \A s \in States : KeptCache[s].h = -1)
  BY KeptCacheType DEF KeptCache, NoResult
<1>6. heur'.bsg = IF r.h = Infty \/ ctx.res.h # -1 THEN heur.bsg ELSE ctx.state
  <2>1. CASE ctx.res.h = -1
    <3>1. r \in EvaluationsOf(ctx.state) /\ heur' = AfterEvaluation(ctx.state, r)
      BY <1>3, <2>1 DEF EvaluateContext, ContextResults
    <3> QED
      BY <1>1, <2>1, <3>1, AfterEvaluationFacts
  <2>2. CASE ctx.res.h # -1
    BY <1>3, <2>2 DEF EvaluateContext
  <2> QED
    BY <2>1, <2>2
<1>7. CASE r.h = Infty
  <2>1. \A q \in States \ Goals : cache'[q].h # -1 => cache'[q].pref # {}
    BY <1>1, <1>3, <1>5, <1>7 DEF PreferredInv
  <2>2. heur'.bsg # NoState => CacheHit(heur.bsg)'
    BY <1>2, <1>3, <1>5, <1>6, <1>7 DEF PreferredInv, CacheHit
  <2> QED
    BY <1>2, <1>4, <1>7, <2>1, <2>2 DEF PreferredInv
<1>8. CASE r.h # Infty
  <2>1. Modified
    <3> SUFFICES ASSUME ~Modified PROVE FALSE
      OBVIOUS
    <3>1. ctx.res.h = Infty
      BY <1>1, <1>2 DEF PreferredInv, Modified
    <3> QED
      BY <1>1, <1>3, <1>8, <3>1 DEF EvaluateContext, ContextResults
  <2>2. ctx.state \notin Goals => r.pref # {}
    <3>1. CASE ctx.res.h = -1
      BY <1>1, <1>2, <1>3, <1>8, <2>1, <3>1, ResultPreferred DEF EvaluateContext, ContextResults
    <3>2. CASE ctx.res.h # -1
      BY <1>3, <1>8, <3>2 DEF EvaluateContext, ContextResults, PreferredInv
    <3> QED
      BY <3>1, <3>2
  <2>3. \A q \in States : cache'[q] = IF q = ctx.state THEN r ELSE KeptCache[q]
    BY <1>3, <1>5, <1>8
  <2>4. heur'.bsg # NoState => CacheHit(heur.bsg)'
    BY <1>1, <1>2, <1>4, <1>6, <2>1, <2>3 DEF CacheHit
  <2> QED
    BY <1>2, <1>4, <1>5, <2>1, <2>2, <2>3, <2>4 DEF PreferredInv
<1> QED
  BY <1>7, <1>8

LEMMA PreferredInit == Init => PreferredInv
BY DEF Init, PreferredInv, CacheOutdated, Generated, TracingLearned, NoResult

\* With the heuristic's values cached, as the planner's second phase has them, and
\* no bound on the cost, a state that is expanded under pruning by preferred
\* operators has one: although a dead end clears the operators remembered with
\* the last best supporter graph, they are asked for no more (the assertions at
\* lines 221 and 231).
THEOREM SomethingStaysPreferred ==
  EnableCache /\ Bound = NoBound => (Spec => []SomethingIsPreferred)
<1> SUFFICES ASSUME EnableCache, Bound = NoBound PROVE Spec => []SomethingIsPreferred
  OBVIOUS
<1>1. TypeInv /\ FreshInv /\ PreferredInv /\ [Next]_vars => PreferredInv'
  BY EngineStep, PreferredQuiet, PreferredEvaluates, PreferredGenerates, PreferredLearned
<1>2. TypeInv /\ FreshInv /\ PreferredInv => SomethingIsPreferred
  <2> SUFFICES ASSUME TypeInv, FreshInv, PreferredInv, pc = "step", ctx.state \notin Goals
               PROVE  Preferred(ctx.state, ctx.res) # {}
    BY DEF SomethingIsPreferred
  <2>1. ctx.state \in States /\ CacheHit(ctx.state)
    BY DEF TypeInv, EngineInv, Context, FreshInv, CurrentCached, Leaving, CacheOutdated
  <2> QED
    BY <2>1 DEF PreferredInv, Preferred, CacheHit
<1> QED
  BY <1>1, <1>2, TypeInvariant, FreshInvariant, PreferredInit, PTL DEF Spec

-----------------------------------------------------------------------------
(* Dead ends: what a phase has seen. *)

\* What evaluate_if_neccessary knows, it does not forget.
LEMMA EvaluationKnows ==
  ASSUME TypeInv, ValueInv, NEW s \in States, NEW r \in ResultsOf(s), EvaluateIfNecessary(s, r)
  PROVE  /\ heur.finite \subseteq heur'.finite
         /\ \A q \in States : CacheHit(q) => CacheHit(q)'
         /\ r.h # Infty => s \in heur'.finite \/ CacheHit(s)'
<1>1. r \in Result /\ r.h # -1 /\ cache \in [States -> Result] /\ s # NoState
  BY OptionAssumption, ResultTypes, ResultVersions DEF TypeInv, EngineInv
<1>2. CASE CacheHit(s)
  BY <1>2 DEF EvaluateIfNecessary, CacheHit
<1>3. CASE ~CacheHit(s)
  <2>1. r \in EvaluationsOf(s) /\ heur' = AfterEvaluation(s, r)
    BY <1>3 DEF EvaluateIfNecessary, ResultsOf
  <2>2. \A q \in States : CacheHit(q) => CacheHit(q)'
    BY <1>1, <1>3 DEF EvaluateIfNecessary, Store, CacheHit
  <2>3. heur.finite \subseteq heur'.finite /\ (r.h # Infty => s \in heur'.finite)
    BY <1>1, <2>1, AfterEvaluationFacts DEF ValueInv
  <2> QED
    BY <2>2, <2>3
<1> QED
  BY <1>2, <1>3

\* The steps that change what is marked.
LEMMA MarksChange ==
  ASSUME [Next]_vars
  PROVE  \/ UNCHANGED marks
         \/ \E e \in open : VisitBetter(e)
         \/ EndPhase \/ LearnedDeadEnd \/ LearnedFiniteValue \/ HandleSafeDeadEnd
         \/ EscapePotentialDeadEnd \/ StagnationLeaves \/ BeginLearning \/ LeaveOnExhaustion
         \/ RestartInParent
<1> USE DEF engineVars
<1>1. CASE \/ Initialize \/ StepSolved \/ StepGrowthExceeded \/ StartPhase \/ Timeout \/ Terminated
           \/ UNCHANGED vars
  BY <1>1 DEF Initialize, StepSolved, StepGrowthExceeded, StartPhase, Timeout, Terminated, vars
<1>2. CASE PhaseLoop
  BY <1>2 DEF PhaseLoop, Skip, PruneByNovelty, VisitDeadEnd, VisitNotBetter
<1>3. CASE Tracing
  BY <1>3 DEF Tracing, TraceBack, PlanTraced, ReplayStart, Replay, ReplayEnd
<1>4. CASE Learning
  BY <1>4 DEF Learning, StagnationPrunes, LearnDeadEnd, LearnSolved, LearnConjunction, LearnFailed,
     LearnedSolution
<1>5. CASE Escaping
  BY <1>5 DEF Escaping, ProceedExhausted, Proceed, ContinueOnExhaustion, EscapeDeadEnd, Restart
<1> QED
  BY <1>1, <1>2, <1>3, <1>4, <1>5 DEF Next, Run

LEMMA ExcludedStep ==
  ASSUME TypeInv, ExcludedByBackjumps, [Next]_vars
  PROVE  ExcludedByBackjumps'
<1> USE DEF engineVars, phaseVars, outputVars, Goto, Halt
<1> SUFFICES ASSUME Stagnation # "BACKJUMP"
             PROVE  marks'.excluded = {} /\ pc' # "restart_in_parent"
  BY DEF ExcludedByBackjumps
<1>1. marks \in MarksType /\ marks.excluded = {} /\ pc # "restart_in_parent"
  BY DEF TypeInv, EngineInv, ExcludedByBackjumps
<1>2. marks'.excluded = {}
  <2>1. CASE UNCHANGED marks
    BY <1>1, <2>1
  <2>2. ASSUME NEW e \in open, VisitBetter(e) PROVE marks'.excluded = {}
    BY <1>1, <2>2 DEF VisitBetter, MarksType
  <2>3. CASE EndPhase \/ LearnedDeadEnd \/ LearnedFiniteValue \/ HandleSafeDeadEnd \/ EscapePotentialDeadEnd
    BY <1>1, <2>3 DEF EndPhase, LearnedDeadEnd, LearnedFiniteValue, HandleSafeDeadEnd,
       EscapePotentialDeadEnd, MarksType
  <2>4. CASE StagnationLeaves \/ BeginLearning \/ LeaveOnExhaustion
    BY <1>1, <2>4, ContextStateStays DEF StagnationLeaves, BeginLearning, LeaveOnExhaustion
  <2>5. UNCHANGED marks \/ (\E e \in open : VisitBetter(e)) \/ EndPhase \/ LearnedDeadEnd
        \/ LearnedFiniteValue \/ HandleSafeDeadEnd \/ EscapePotentialDeadEnd \/ StagnationLeaves
        \/ BeginLearning \/ LeaveOnExhaustion
    BY <1>1, MarksChange DEF RestartInParent
  <2> QED
    BY <2>1, <2>2, <2>3, <2>4, <2>5
<1>3. pc' # "restart_in_parent"
  <2>1. CASE \/ Initialize \/ StepSolved \/ StepGrowthExceeded \/ StartPhase \/ PhaseLoop \/ Timeout
             \/ Terminated \/ UNCHANGED vars
    BY <1>1, <2>1 DEF Initialize, StepSolved, StepGrowthExceeded, StartPhase, PhaseLoop, Skip,
       PruneByNovelty, VisitDeadEnd, VisitBetter, VisitNotBetter, EndPhase, TracePath, Timeout,
       Terminated, vars
  <2>2. CASE Tracing
    BY <1>1, <2>2 DEF Tracing, TraceBack, PlanTraced, ReplayStart, Replay, ReplayEnd
  <2>3. CASE Learning
    BY <1>1, <2>3, OptionAssumption DEF Learning, StagnationPrunes, StagnationLeaves, BeginLearning,
       LearnDeadEnd, LearnSolved, LearnConjunction, LearnFailed, LearnedSolution, LearnedDeadEnd,
       LearnedFiniteValue, TracePath
  <2>4. CASE Escaping
    BY <1>1, <2>4 DEF Escaping, ProceedExhausted, Proceed, HandleSafeDeadEnd, ContinueOnExhaustion,
       LeaveOnExhaustion, EscapeDeadEnd, EscapePotentialDeadEnd, Restart, RestartInParent, TracePath
  <2> QED
    BY <2>1, <2>2, <2>3, <2>4 DEF Next, Run
<1> QED
  BY <1>2, <1>3

LEMMA MarksStep ==
  ASSUME NoUnsafePruning, TypeInv, MarksUnused, [Next]_vars
  PROVE  MarksUnused'
<1> USE DEF engineVars
<1>1. marks \in MarksType /\ ~UnsafeSse /\ ~UnsafeLs /\ marks.unsafe = {} /\ marks.current = {}
  BY DEF TypeInv, EngineInv, NoUnsafePruning, MarksUnused
<1>2. marks'.unsafe = {} /\ marks'.current = {}
  <2>1. CASE UNCHANGED marks
    BY <1>1, <2>1
  <2>2. ASSUME NEW e \in open, VisitBetter(e) PROVE marks'.unsafe = {} /\ marks'.current = {}
    BY <1>1, <2>2 DEF VisitBetter, MarksType
  <2>3. CASE EndPhase \/ LearnedDeadEnd \/ LearnedFiniteValue \/ HandleSafeDeadEnd \/ EscapePotentialDeadEnd
    BY <1>1, <2>3 DEF EndPhase, LearnedDeadEnd, LearnedFiniteValue, HandleSafeDeadEnd,
       EscapePotentialDeadEnd, MarksType
  <2>4. CASE StagnationLeaves \/ BeginLearning \/ LeaveOnExhaustion \/ RestartInParent
    BY <1>1, <2>4 DEF StagnationLeaves, BeginLearning, LeaveOnExhaustion, RestartInParent,
       MarksOnStagnation, MarksOnBackjump, MarksType
  <2> QED
    BY <2>1, <2>2, <2>3, <2>4, MarksChange
<1>3. ExcludedByBackjumps'
  BY ExcludedStep DEF MarksUnused
<1> QED
  BY <1>2, <1>3 DEF MarksUnused

LEMMA NextBestStep ==
  ASSUME TypeInv, ValueInv, NextBestFinite, [Next]_vars
  PROVE  NextBestFinite'
<1> USE DEF engineVars, phaseVars, outputVars, Goto, Halt
<1> DEFINE Here == pc \in {"loop", "escape_local_minimum", "proceed"}
<1>1. phase \in PhaseType
  BY DEF TypeInv, PhaseInv
<1>2. UNCHANGED vars \/ UNCHANGED <<pc, heur, cache, phase>> => NextBestFinite'
  BY DEF NextBestFinite, CacheHit, vars
<1>3. ASSUME Here, UNCHANGED <<heur, cache>>, phase'.nextBest = phase.nextBest PROVE NextBestFinite'
  BY <1>3 DEF NextBestFinite, CacheHit
<1>4. ASSUME NEW e \in open,
             Skip(e) \/ PruneByNovelty(e) \/ VisitDeadEnd(e) \/ VisitBetter(e) \/ VisitNotBetter(e)
      PROVE  NextBestFinite'
  <2>1. CASE Skip(e) \/ PruneByNovelty(e)
    BY <1>1, <1>3, <2>1 DEF Skip, PruneByNovelty, Pop, PhaseType
  <2>2. CASE VisitBetter(e)
    BY <2>2 DEF VisitBetter, TracePath, NextBestFinite
  <2>3. CASE VisitDeadEnd(e) \/ VisitNotBetter(e)
    <3> DEFINE s == Target[e.t]
    <3>1. s \in States
      BY TypePop
    <3>2. PICK r \in ResultsOf(s) :
            /\ EvaluateIfNecessary(s, r)
            /\ \/ phase'.nextBest = phase.nextBest
               \/ phase'.nextBest = s /\ r.h # Infty
      BY <1>1, <2>3 DEF VisitDeadEnd, VisitNotBetter, PhaseType
    <3>3. pc = "loop" /\ pc' = "loop"
      BY <2>3 DEF VisitDeadEnd, VisitNotBetter, Visit, Pop
    <3>4. phase.nextBest \in States \cup {NoState}
      BY <1>1 DEF PhaseType
    <3> HIDE DEF s
    <3>5. /\ heur.finite \subseteq heur'.finite
          /\ \A q \in States : CacheHit(q) => CacheHit(q)'
          /\ r.h # Infty => s \in heur'.finite \/ CacheHit(s)'
      BY <3>1, <3>2, EvaluationKnows
    <3> QED
      BY <3>2, <3>3, <3>4, <3>5 DEF NextBestFinite, CacheHit
  <2> QED
    BY <1>4, <2>1, <2>2, <2>3
<1>5. CASE StartPhase
  <2>1. phase'.nextBest = NoState
    BY <1>5 DEF StartPhase, NoPhase
  <2> QED
    BY <2>1 DEF NextBestFinite
<1>6. CASE EndPhase \/ StagnationLeaves
  BY <1>3, <1>6 DEF EndPhase, StagnationLeaves
<1>7. ASSUME pc' \in {"loop", "escape_local_minimum", "proceed"}
      PROVE  \/ UNCHANGED vars \/ PhaseLoop \/ StartPhase \/ StagnationLeaves
  <2>1. CASE \/ Initialize \/ StepSolved \/ StepGrowthExceeded \/ Timeout \/ Terminated
    BY <1>7, <2>1 DEF Initialize, StepSolved, StepGrowthExceeded, TracePath, Timeout, Terminated
  <2>2. CASE Tracing
    BY <1>7, <2>2 DEF Tracing, TraceBack, PlanTraced, ReplayStart, Replay, ReplayEnd
  <2>3. CASE Learning
    BY <1>7, <2>3 DEF Learning, StagnationPrunes, BeginLearning, LearnDeadEnd, LearnSolved,
       LearnConjunction, LearnFailed, LearnedSolution, LearnedDeadEnd, LearnedFiniteValue, TracePath
  <2>4. CASE Escaping
    BY <1>7, <2>4 DEF Escaping, ProceedExhausted, Proceed, HandleSafeDeadEnd, ContinueOnExhaustion,
       LeaveOnExhaustion, EscapeDeadEnd, EscapePotentialDeadEnd, Restart, RestartInParent, TracePath
  <2> QED
    BY <2>1, <2>2, <2>3, <2>4 DEF Next, Run
<1> QED
  BY <1>2, <1>4, <1>5, <1>6, <1>7 DEF PhaseLoop, NextBestFinite

LEMMA NodeStatuses ==
  ASSUME NEW space \in [States -> Node], NEW s \in States
  PROVE  /\ \A q \in States : Close(space, s)[q].status
                                = IF q = s THEN "CLOSED" ELSE space[q].status
         /\ \A q \in States : MarkDeadEnd(space, s)[q].status
                                = IF q = s THEN "DEAD_END" ELSE space[q].status
         /\ \A q \in States : OpenInitial(space, s)[q].status
                                = IF q = s THEN "OPEN" ELSE space[q].status
         /\ \A t \in Transitions, q \in States : OpenFrom(space, t)[q].status
                                = IF q = Target[t] THEN "OPEN" ELSE space[q].status
         /\ \A S, q \in States : MarkAllDeadEnd(space, S)[q].status
                                = IF q \in S THEN "DEAD_END" ELSE space[q].status
         /\ space[s].status \in {"NEW", "OPEN", "CLOSED", "DEAD_END"}
<1>1. \A q \in States : space[q] \in Node
  OBVIOUS
<1>2. \A q \in States : [space[q] EXCEPT !.status = "CLOSED"].status = "CLOSED"
                     /\ [space[q] EXCEPT !.status = "DEAD_END"].status = "DEAD_END"
  BY <1>1 DEF Node
<1> QED
  BY <1>1, <1>2 DEF Close, MarkDeadEnd, MarkAllDeadEnd, OpenInitial, RootNode, OpenFrom, ChildNode,
     Node, Status

\* The entries of an expansion that prunes nothing.
LEMMA EntriesOfAll ==
  ASSUME PreferredUsage = "RANK_PREFERRED_FIRST", NEW space, NEW s, NEW pref,
         ~CutoffByDepth(space, s, pref)
  PROVE  \A t \in Transitions :
           Source[t] = s =>
             WithinDepth(space, s) /\ \A h : \E e \in Entries(space, s, h, pref) : e.t = t
<1> TAKE t \in Transitions
<1> HAVE Source[t] = s
<1>1. t \in Successors(s, pref)
  BY DEF Successors, OpsOf
<1>2. WithinDepth(space, s)
  BY <1>1 DEF CutoffByDepth
<1>3. ASSUME NEW h PROVE \E e \in Entries(space, s, h, pref) : e.t = t
  <2> DEFINE e == [t |-> t, g |-> space[s].g + AdjustedCost(t), pref |-> RankOf(t, pref), h |-> h,
                   batch |-> Batch(space)]
  <2>1. e \in Entries(space, s, h, pref) /\ e.t = t
    BY <1>1 DEF Entries
  <2> QED
    BY <2>1
<1> QED
  BY <1>2, <1>3

\* The options that make exhaustion safe where preferred operators only rank.
LEMMA SafeOptions ==
  ASSUME ExhaustionIsSafe, PreferredUsage = "RANK_PREFERRED_FIRST", ExcludedByBackjumps
  PROVE  Bound = NoBound /\ Stagnation # "BACKJUMP" /\ marks.excluded = {}
         /\ \A c : ~ExceedsBound(c)
BY DEF ExhaustionIsSafe, ExcludedByBackjumps, ExceedsBound

LEMMA CoversStart ==
  ASSUME ExhaustionIsSafe, PreferredUsage = "RANK_PREFERRED_FIRST", TypeInv, ExcludedByBackjumps,
         StartPhase
  PROVE  PhaseCovers'
<1> DEFINE pref == Preferred(ctx.state, ctx.res)
           roots == PhaseRoots
<1>1. ctx \in Context /\ ctx.state \in States /\ ctx'.state = ctx.state /\ ctx.state \notin Goals
  BY DEF TypeInv, EngineInv, Context, StartPhase
<1>2. roots \in [States -> Node]
      /\ \A s \in States : roots[s].status = IF s = ctx.state THEN "OPEN" ELSE "NEW"
  BY SafeOptions DEF PhaseRoots, RootNode, NewNode, Node, Status
<1>3. /\ open' = IF WithinDepth(roots, ctx.state)
                   THEN open \cup Entries(roots, ctx.state, ctx.res.h, pref) ELSE open
      /\ loc' = Close(roots, ctx.state)
      /\ phase'.cutoff = CutoffByDepth(roots, ctx.state, pref)
  BY DEF StartPhase, Expand, NoPhase
<1> HIDE DEF roots, pref
<1>4. \A s \in States : loc'[s].status = IF s = ctx.state THEN "CLOSED" ELSE "NEW"
  BY <1>1, <1>2, <1>3, NodeStatuses
<1>5. ASSUME ~phase'.cutoff, ~phase'.deadEndUnsafe, NEW t \in Transitions, loc'[Source[t]].status = "CLOSED"
      PROVE  Covered(t)'
  <2>1. Source[t] = ctx.state
    BY <1>4, <1>5, TaskAssumption
  <2>2. WithinDepth(roots, ctx.state) /\ \E e \in Entries(roots, ctx.state, ctx.res.h, pref) : e.t = t
    BY <1>3, <1>5, <2>1, EntriesOfAll
  <2> QED
    BY <1>3, <2>2 DEF Covered
<1> QED
  BY <1>1, <1>4, <1>5 DEF PhaseCovers

LEMMA CoversSkip ==
  ASSUME ExhaustionIsSafe, PreferredUsage = "RANK_PREFERRED_FIRST", TypeInv, DeadEndInv,
         NEW e \in open, Skip(e) \/ PruneByNovelty(e)
  PROVE  PhaseCovers'
<1>1. PhaseCovers /\ UNCHANGED <<loc, ctx>> /\ open' = open \ {e} /\ phase \in PhaseType
  BY DEF DeadEndInv, LoopCovers, Skip, PruneByNovelty, Pop, engineVars, TypeInv, PhaseInv
<1>2. loc \in [States -> Node] /\ Target[e.t] \in States
  BY TypePop DEF TypeInv, PhaseInv
<1>3. ASSUME ~phase'.cutoff, ~phase'.deadEndUnsafe, NEW t \in Transitions, loc'[Source[t]].status = "CLOSED"
      PROVE  Covered(t)'
  <2>1. ~phase.cutoff /\ ~phase.deadEndUnsafe /\ ~UnsafelySkipped(e) /\ Skip(e)
    BY <1>1, <1>3 DEF Skip, PruneByNovelty, PhaseType, UnsafelySkipped
  <2>2. Covered(t)
    BY <1>1, <1>3, <2>1 DEF PhaseCovers
  <2>3. CASE \E f \in open : f.t = t /\ f # e
    BY <1>1, <2>3 DEF Covered
  <2>4. CASE loc[Target[t]].status = "CLOSED" \/ Target[t] \notin Solvable
    BY <1>1, <2>4 DEF Covered
  <2>5. CASE e.t = t
    <3>1. IsDeadEnd(node, Target[t]) \/ ~IsNew(loc, Target[t])
      BY <2>1, <2>5, SafeOptions DEF Skip, Pruned, UnsafelySkipped, DeadEndInv
    <3>2. IsDeadEnd(node, Target[t]) => Target[t] \notin Solvable
      BY <1>2, <2>5 DEF DeadEndInv, DeadEndsAreSound
    <3>3. loc[Target[t]].status \in {"NEW", "OPEN", "CLOSED", "DEAD_END"}
      BY <1>2, <2>5, NodeStatuses
    <3>4. loc[Target[t]].status # "OPEN"
          /\ (loc[Target[t]].status = "DEAD_END" => Target[t] \notin Solvable)
      BY <1>1, <1>2, <2>5 DEF PhaseCovers
    <3> QED
      BY <1>1, <3>1, <3>2, <3>3, <3>4 DEF Covered, IsNew
  <2> QED
    BY <2>2, <2>3, <2>4, <2>5 DEF Covered
<1> QED
  BY <1>1, <1>3 DEF PhaseCovers

LEMMA CoversDeadEnd ==
  ASSUME PreferredUsage = "RANK_PREFERRED_FIRST", TypeInv, ValueInv, DeadEndInv,
         NEW e \in open, VisitDeadEnd(e)
  PROVE  PhaseCovers' /\ Target[e.t] \notin Solvable
<1> DEFINE s == Target[e.t]
<1>1. s \in States /\ loc \in [States -> Node] /\ phase' = phase /\ ctx' = ctx /\ ctx.state \in States
  BY TypePop DEF VisitDeadEnd, TypeInv, PhaseInv, EngineInv, Context
<1>2. PhaseCovers /\ IsNew(loc, s) /\ open' = open \ {e} /\ loc' = MarkDeadEnd(loc, s)
  BY DEF DeadEndInv, LoopCovers, VisitDeadEnd, Visit, Pop, Pruned
<1>3. PICK r \in ResultsOf(s) : r.h = Infty
  BY DEF VisitDeadEnd
<1> HIDE DEF s
<1>4. s \notin Solvable
  BY <1>1, <1>3, ResultValues
<1>5. \A q \in States : loc'[q].status = IF q = s THEN "DEAD_END" ELSE loc[q].status
  BY <1>1, <1>2, NodeStatuses
<1>6. ASSUME ~phase'.cutoff, ~phase'.deadEndUnsafe, NEW t \in Transitions, loc'[Source[t]].status = "CLOSED"
      PROVE  Covered(t)'
  <2>1. Source[t] \in States /\ Target[t] \in States
    BY TaskAssumption
  <2>2. Covered(t)
    BY <1>1, <1>2, <1>5, <1>6, <2>1 DEF PhaseCovers
  <2>3. CASE \E f \in open : f.t = t /\ f # e
    BY <1>2, <2>3 DEF Covered
  <2>4. CASE e.t = t
    BY <1>4, <2>4 DEF Covered, s
  <2>5. CASE loc[Target[t]].status = "CLOSED"
    BY <1>2, <1>5, <2>1, <2>5 DEF Covered, IsNew
  <2> QED
    BY <2>2, <2>3, <2>4, <2>5 DEF Covered
<1>7. loc'[ctx.state].status = "CLOSED"
  BY <1>1, <1>2, <1>5 DEF PhaseCovers, IsNew
<1>8. \A q \in States :
        /\ loc'[q].status # "OPEN"
        /\ loc'[q].status = "CLOSED" => q \notin Goals
        /\ loc'[q].status = "DEAD_END" => q \notin Solvable
  BY <1>2, <1>4, <1>5 DEF PhaseCovers
<1> QED
  BY <1>1, <1>4, <1>6, <1>7, <1>8 DEF PhaseCovers, s

\* A goal would have been better: what is expanded is none.
LEMMA CoversNotBetter ==
  ASSUME PreferredUsage = "RANK_PREFERRED_FIRST", TypeInv, ValueInv, DeadEndInv,
         NEW e \in open, VisitNotBetter(e)
  PROVE  PhaseCovers'
<1> DEFINE s == Target[e.t]
           opened == OpenFrom(loc, e.t)
<1>1. s \in States /\ e.t \in Transitions /\ loc \in [States -> Node] /\ phase \in PhaseType
      /\ ctx' = ctx /\ ctx.state \in States
  BY TypePop DEF VisitNotBetter, TypeInv, PhaseInv, EngineInv, Context
<1>2. PhaseCovers /\ IsNew(loc, s)
  BY DEF DeadEndInv, LoopCovers, VisitNotBetter, Visit, Pop, Pruned
<1>3. PICK r \in ResultsOf(s) :
        /\ ~Improves(s, r)
        /\ LET pref == IF EnableCache THEN cache'[s].pref ELSE r.pref
               lowest == r.h < phase.lowestH
           IN
           /\ open' = (open \ {e}) \cup
                        IF WithinDepth(opened, s) THEN Entries(opened, s, r.h, pref) ELSE {}
           /\ loc' = Close(opened, s)
           /\ phase' = [phase EXCEPT
                          !.cutoff = @ \/ CutoffByDepth(opened, s, pref),
                          !.nextBest = IF lowest THEN s ELSE @,
                          !.lowestH = IF lowest THEN r.h ELSE @]
  BY DEF VisitNotBetter
<1> DEFINE pref == IF EnableCache THEN cache'[s].pref ELSE r.pref
<1>4. /\ phase'.cutoff <=> (phase.cutoff \/ CutoffByDepth(opened, s, pref))
      /\ phase'.deadEndUnsafe = phase.deadEndUnsafe
  <2>1. CutoffByDepth(opened, s, pref) \in BOOLEAN /\ phase.cutoff \in BOOLEAN
    BY <1>1 DEF CutoffByDepth, PhaseType
  <2>2. phase'.cutoff = (phase.cutoff \/ CutoffByDepth(opened, s, pref))
    BY <1>1, <1>3 DEF PhaseType
  <2>3. phase'.deadEndUnsafe = phase.deadEndUnsafe
    BY <1>1, <1>3 DEF PhaseType
  <2> QED
    BY <2>1, <2>2, <2>3
<1>5. opened \in [States -> Node] /\ loc' = Close(opened, s)
  BY <1>1, <1>3, OpenFromType
<1>6. \A q \in States : loc'[q].status = IF q = s THEN "CLOSED" ELSE loc[q].status
  <2>1. \A q \in States : opened[q].status = IF q = s THEN "OPEN" ELSE loc[q].status
    BY <1>1, NodeStatuses
  <2> HIDE DEF opened, s
  <2> QED
    BY <1>1, <1>5, <2>1, NodeStatuses
<1>7. s \notin Goals
  <2>1. s \in Goals => r.h = 0
    BY <1>1, ResultValues
  <2> QED
    BY <1>3, <2>1 DEF Improves
<1>8. /\ open \ {e} \subseteq open'
      /\ WithinDepth(opened, s) => Entries(opened, s, r.h, pref) \subseteq open'
  BY <1>3
<1> HIDE DEF s, opened, pref
<1>9. ASSUME ~phase'.cutoff, ~phase'.deadEndUnsafe, NEW t \in Transitions, loc'[Source[t]].status = "CLOSED"
      PROVE  Covered(t)'
  <2>1. Source[t] \in States /\ Target[t] \in States
    BY TaskAssumption
  <2>2. CASE Source[t] = s
    <3>1. WithinDepth(opened, s) /\ \E f \in Entries(opened, s, r.h, pref) : f.t = t
      BY <1>4, <1>9, <2>2, EntriesOfAll
    <3> QED
      BY <1>8, <3>1 DEF Covered
  <2>3. CASE Source[t] # s
    <3>1. Covered(t)
      BY <1>2, <1>4, <1>6, <1>9, <2>1, <2>3 DEF PhaseCovers
    <3>2. CASE loc[Target[t]].status = "CLOSED" \/ Target[t] = s
      BY <1>6, <2>1, <3>2 DEF Covered
    <3>3. CASE \E f \in open : f.t = t /\ f # e
      BY <1>8, <3>3 DEF Covered
    <3> QED
      BY <3>1, <3>2, <3>3 DEF Covered, s
  <2> QED
    BY <2>2, <2>3
<1>10. loc'[ctx.state].status = "CLOSED"
  BY <1>1, <1>2, <1>6 DEF PhaseCovers
<1>11. \A q \in States :
        /\ loc'[q].status # "OPEN"
        /\ loc'[q].status = "CLOSED" => q \notin Goals
        /\ loc'[q].status = "DEAD_END" => q \notin Solvable
  BY <1>2, <1>6, <1>7 DEF PhaseCovers
<1> QED
  BY <1>1, <1>9, <1>10, <1>11 DEF PhaseCovers

\* When nothing is left to look at and nothing was cut off, the states that were
\* expanded have no plan: the others are closed under predecessors.
LEMMA ExhaustedIsDeadEnd ==
  ASSUME TypeInv, PhaseCovers, open = {}, ~phase.cutoff, ~phase.deadEndUnsafe
  PROVE  ctx.state \notin Solvable
<1> DEFINE T == {s \in Solvable : loc[s].status # "CLOSED"}
<1>1. T \in SUBSET States /\ ctx.state \in States /\ ctx.state \notin T
  BY DEF TypeInv, EngineInv, Context, PhaseCovers, Solvable
<1>2. BackwardClosed(T)
  <2>1. Goals \subseteq T
    BY GoalsSolvable, TaskAssumption DEF PhaseCovers
  <2>2. ASSUME NEW t \in Transitions, Target[t] \in T PROVE Source[t] \in T
    <3>1. Source[t] \in Solvable
      BY <2>2, SolvablePredecessor
    <3>2. ~Covered(t)
      BY <2>2 DEF Covered
    <3> QED
      BY <3>1, <3>2 DEF PhaseCovers
  <2> QED
    BY <2>1, <2>2 DEF BackwardClosed
<1> HIDE DEF T
<1> QED
  BY <1>1, <1>2 DEF Solvable

-----------------------------------------------------------------------------
(* Dead ends are real. *)

\* Where the current state has a parent in the global space, a dead end at the
\* parent is one at the current state; where it has none it is the initial state.
LEMMA ParentSound ==
  ASSUME TypeInv, TreeInv, pc # "init", ~Replaying
  PROVE  /\ HasParent(node, ctx.state) =>
              Parent \in States /\ (ctx.state \in Solvable => Parent \in Solvable)
         /\ ~HasParent(node, ctx.state) => ctx.state = InitialState
<1>1. ctx.state \in States /\ node \in [States -> Node] /\ NoTransition \notin Transitions
  BY TaskAssumption DEF TypeInv, EngineInv, Context
<1>2. IsTree(node) /\ OpenedIn(node, ctx.state)
  BY DEF TreeInv, GlobalTree, CurrentOnTree, Opened, OpenedIn
<1>3. \/ ctx.state = InitialState
      \/ node[ctx.state].op \in Transitions /\ Target[node[ctx.state].op] = ctx.state
  BY <1>1, <1>2 DEF IsTree
<1>4. HasParent(node, ctx.state) => ctx.state # InitialState
  BY <1>2 DEF IsTree, HasParent
<1>5. ASSUME HasParent(node, ctx.state)
      PROVE  Parent \in States /\ (ctx.state \in Solvable => Parent \in Solvable)
  <2>1. Parent \in States /\ Parent = Source[node[ctx.state].op]
    BY <1>1, <1>5, ParentType DEF Parent, ParentOf
  <2> QED
    BY <1>3, <1>4, <1>5, <2>1, SolvablePredecessor
<1> QED
  BY <1>1, <1>3, <1>5 DEF HasParent

\* What is marked since the last improvement lies behind the current state.
LEMMA MarkedStep ==
  ASSUME UnsafePruningIsUndone, TypeInv, TreeInv, MarkedBehind, InitialIsFirst, [Next]_vars
  PROVE  MarkedBehind'
<1> USE DEF engineVars, phaseVars, outputVars, Goto, Halt
<1> DEFINE None == pc \in {"init", "escape_local_minimum", "proceed"}
<1>1. /\ ctx \in Context /\ ctx.state \in States /\ marks \in MarksType
      /\ \A s \in marks.current : s \in Solvable => ctx.state \in Solvable
      /\ None => marks.current = {}
  BY DEF TypeInv, EngineInv, Context, MarkedBehind
<1>2. ASSUME marks'.current = {} PROVE MarkedBehind'
  BY <1>2 DEF MarkedBehind
<1>3. ASSUME marks'.current \subseteq marks.current \cup {ctx.state}, ~None',
             ctx.state \in Solvable => ctx'.state \in Solvable
      PROVE  MarkedBehind'
  BY <1>1, <1>3 DEF MarkedBehind
<1>4. ASSUME marks'.current = marks.current, None' => None, ctx'.state = ctx.state
      PROVE  MarkedBehind'
  BY <1>1, <1>4 DEF MarkedBehind
<1>5. CASE \/ Initialize \/ StepSolved \/ StepGrowthExceeded \/ StartPhase \/ Timeout \/ Terminated
           \/ UNCHANGED vars
  <2>1. CASE Initialize
    BY <1>1, <1>2, <2>1 DEF Initialize
  <2>2. CASE \/ StepSolved \/ StepGrowthExceeded \/ StartPhase \/ Timeout \/ Terminated \/ UNCHANGED vars
    <3>1. ctx'.state = ctx.state
      BY <1>1, <2>2 DEF StepSolved, StepGrowthExceeded, StartPhase, Timeout, Terminated, vars, Context
    <3> QED
      BY <1>4, <2>2, <3>1 DEF StepSolved, StepGrowthExceeded, StartPhase, Timeout, Terminated, vars,
         TracePath
  <2> QED
    BY <1>5, <2>1, <2>2
<1>6. CASE PhaseLoop
  <2>1. ASSUME NEW e \in open,
               Skip(e) \/ PruneByNovelty(e) \/ VisitDeadEnd(e) \/ VisitNotBetter(e)
        PROVE  MarkedBehind'
    BY <1>4, <2>1 DEF Skip, PruneByNovelty, VisitDeadEnd, VisitNotBetter
  <2>2. ASSUME NEW e \in open, VisitBetter(e) PROVE MarkedBehind'
    BY <1>1, <1>2, <2>2 DEF VisitBetter, MarksType
  <2>3. CASE EndPhase
    <3>1. CASE pc' # "escape_local_minimum"
      <4>1. pc' \in {"safe_dead_end", "exhaustion", "escape_potential"} /\ marks' = marks
        BY <2>3, <3>1 DEF EndPhase
      <4> QED
        BY <1>4, <2>3, <4>1 DEF EndPhase
    <3>2. CASE pc' = "escape_local_minimum"
      <4>1. marks' = [marks EXCEPT !.current = {}]
        BY <2>3, <3>2 DEF EndPhase
      <4> QED
        BY <1>1, <1>2, <4>1 DEF MarksType
    <3> QED
      BY <3>1, <3>2
  <2> QED
    BY <1>6, <2>1, <2>2, <2>3 DEF PhaseLoop
<1>7. CASE Tracing
  BY <1>4, <1>7 DEF Tracing, TraceBack, PlanTraced, ReplayStart, Replay, ReplayEnd
<1>8. CASE Learning
  <2>1. CASE StagnationPrunes
    BY <1>4, <2>1 DEF StagnationPrunes
  <2>2. MarksOnStagnation.current = IF UnsafeLs THEN marks.current \cup {ctx.state} ELSE marks.current
    BY <1>1 DEF MarksOnStagnation, MarkCurrentUnsafe, MarksType
  <2>3. CASE StagnationLeaves
    <3>1. CASE pc' = "proceed"
      BY <1>1, <1>2, <2>2, <2>3, <3>1, OptionAssumption DEF StagnationLeaves, UnsafePruningIsUndone
    <3>2. CASE pc' # "proceed"
      BY <1>3, <2>2, <2>3, <3>2, OptionAssumption DEF StagnationLeaves
    <3> QED
      BY <3>1, <3>2
  <2>4. CASE BeginLearning
    BY <1>3, <2>2, <2>4 DEF BeginLearning
  <2>5. CASE LearnDeadEnd \/ LearnSolved \/ LearnConjunction \/ LearnFailed \/ LearnedSolution
    <3>1. ctx'.state = ctx.state
      BY <2>5, ContextStateStays DEF LearnDeadEnd, LearnSolved, LearnConjunction, LearnFailed,
         LearnedSolution
    <3> QED
      BY <1>4, <2>5, <3>1 DEF LearnDeadEnd, LearnSolved, LearnConjunction, LearnFailed,
         LearnedSolution, TracePath
  <2>6. CASE LearnedDeadEnd \/ LearnedFiniteValue
    <3>1. ctx'.state = ctx.state
      BY <2>6, ContextStateStays DEF LearnedDeadEnd, LearnedFiniteValue
    <3>2. marks'.current = marks.current
      BY <1>1, <2>6 DEF LearnedDeadEnd, LearnedFiniteValue, MarksType
    <3> QED
      BY <1>4, <2>6, <3>1, <3>2 DEF LearnedDeadEnd, LearnedFiniteValue
  <2> QED
    BY <1>8, <2>1, <2>3, <2>4, <2>5, <2>6 DEF Learning
<1>9. CASE Proceed
  BY <1>1, <1>2, <1>9 DEF Proceed
<1>10. CASE ProceedExhausted \/ ContinueOnExhaustion
  BY <1>4, <1>10 DEF ProceedExhausted, ContinueOnExhaustion
<1>11. CASE HandleSafeDeadEnd
  BY <1>1, <1>2, <1>11 DEF HandleSafeDeadEnd, MarksType
<1>12. CASE LeaveOnExhaustion
  <2>1. marks'.current \subseteq marks.current \cup {ctx.state}
    BY <1>1, <1>12 DEF LeaveOnExhaustion, MarkCurrentUnsafe, MarksType
  <2> QED
    BY <1>3, <1>12, <2>1 DEF LeaveOnExhaustion
<1>13. ASSUME pc \in {"restart", "escape_dead_end", "escape_potential", "restart_in_parent"}
       PROVE  Opened(ctx.state) /\ pc # "init" /\ ~Replaying
  BY <1>13 DEF TreeInv, CurrentOnTree, Replaying
<1>14. CASE EscapeDeadEnd \/ EscapePotentialDeadEnd
  <2>1. pc \in {"escape_dead_end", "escape_potential"}
    BY <1>14 DEF EscapeDeadEnd, EscapePotentialDeadEnd
  <2>2. HasParent(node, ctx.state) => (ctx.state \in Solvable => Parent \in Solvable)
    BY <1>13, <2>1, ParentSound
  <2>3. CASE ~HasParent(node, ctx.state)
    BY <1>1, <1>2, <1>4, <1>14, <2>3 DEF EscapeDeadEnd, EscapePotentialDeadEnd, MarksType
  <2>4. CASE HasParent(node, ctx.state)
    BY <1>3, <1>14, <2>2, <2>4 DEF EscapeDeadEnd, EscapePotentialDeadEnd, FreshContext
  <2> QED
    BY <2>3, <2>4
<1>15. CASE Restart
  <2>1. ctx.state \in Solvable => InitialState \in Solvable
    BY <1>1, <1>13, <1>15 DEF Restart, InitialIsFirst
  <2> QED
    BY <1>3, <1>15, <2>1 DEF Restart, FreshContext
<1>16. CASE RestartInParent
  <2>1. ctx.state \in Solvable => Parent \in Solvable
    BY <1>13, <1>16, ParentSound DEF RestartInParent
  <2>2. marks'.current = marks.current
    BY <1>1, <1>16 DEF RestartInParent, MarksOnBackjump, MarksType
  <2> QED
    BY <1>3, <1>16, <2>1, <2>2 DEF RestartInParent, FreshContext
<1> HIDE DEF None
<1> QED
  BY <1>5, <1>6, <1>7, <1>8, <1>9, <1>10, <1>11, <1>12, <1>14, <1>15, <1>16 DEF Next, Run, Escaping

\* Whatever gets a node hangs below a state that has one.
LEMMA InitialFirstStep ==
  ASSUME TypeInv, TreeInv, InitialIsFirst, [Next]_vars
  PROVE  InitialIsFirst'
<1>1. CASE pc = "init"
  <2>1. CASE Initialize
    <3>1. node' = OpenInitial(EmptySpace, InitialState)
      BY <1>1, <2>1 DEF Initialize, TreeInv, GlobalTree
    <3>2. \A s \in States : s # InitialState => node'[s] = NewNode
      BY <3>1 DEF OpenInitial, EmptySpace
    <3> QED
      BY <3>2 DEF InitialIsFirst, Opened, NewNode
  <2>2. CASE UNCHANGED vars
    BY <2>2 DEF vars, InitialIsFirst, Opened
  <2> QED
    BY <1>1, <2>1, <2>2, InitOnly
<1>2. CASE SamePaths(node, node')
  BY <1>2 DEF SamePaths, InitialIsFirst, Opened
<1>3. CASE ReplayOpens
  <2> DEFINE t == Head(trace.path)
  <2>1. trace.path \in Seq(Transitions) /\ trace.path # <<>> /\ trace.at \in States
    BY <1>3 DEF TypeInv, PhaseInv, TraceType, ReplayOpens, Replay
  <2>2. IsPath(trace.path, trace.at, ctx.state) /\ Opened(trace.at)
    BY <1>3 DEF TreeInv, TraceSound, ReplayOpens, Replay
  <2>3. t \in Transitions /\ Source[t] = trace.at
    BY <2>1, <2>2, PathTail
  <2>4. Target[t] \in Solvable => InitialState \in Solvable
    BY <2>1, <2>2, <2>3, SolvablePredecessor DEF InitialIsFirst
  <2>5. \A s \in States : s # Target[t] => node'[s] = node[s]
    BY <1>3, ReplayOpensTree
  <2> QED
    BY <2>4, <2>5 DEF InitialIsFirst, Opened
<1> QED
  BY <1>1, <1>2, <1>3, NodeChange

LEMMA DeadEndsStep ==
  ASSUME UnsafePruningIsUndone, ExhaustionIsSafe, TypeInv, TreeInv, ValueInv, DeadEndInv, [Next]_vars
  PROVE  /\ DeadEndsAreSound'
         /\ pc' \in {"safe_dead_end", "escape_dead_end"} => ctx'.state \notin Solvable
<1> USE DEF engineVars, phaseVars, outputVars, Goto, Halt
<1>1. /\ ctx \in Context /\ ctx.state \in States /\ node \in [States -> Node]
      /\ InitialState \in States
      /\ UnsafeSse \/ UnsafeLs => ForceComplete
      /\ \A s \in marks.current : s \in Solvable => ctx.state \in Solvable
      /\ DeadEndsAreSound
      /\ pc \in {"safe_dead_end", "escape_dead_end"} => ctx.state \notin Solvable
  BY TaskAssumption DEF TypeInv, EngineInv, Context, UnsafePruningIsUndone, DeadEndInv, MarkedBehind
<1>2. ASSUME \A s \in States : IsDeadEnd(node', s) => IsDeadEnd(node, s) \/ s \notin Solvable,
             status' = "UNSOLVABLE" => status = "UNSOLVABLE" \/ InitialState \notin Solvable,
             pc' \in {"safe_dead_end", "escape_dead_end"} => ctx'.state \notin Solvable
      PROVE  /\ DeadEndsAreSound'
             /\ pc' \in {"safe_dead_end", "escape_dead_end"} => ctx'.state \notin Solvable
  BY <1>1, <1>2 DEF DeadEndsAreSound
<1>3. ASSUME NEW s \in States, NEW r \in ResultsOf(s), r.h = Infty PROVE s \notin Solvable
  BY <1>3, ResultValues
<1>4. ASSUME UNCHANGED node, status' # "UNSOLVABLE" \/ UNCHANGED status,
             pc' \notin {"safe_dead_end", "escape_dead_end"}
      PROVE  /\ DeadEndsAreSound'
             /\ pc' \in {"safe_dead_end", "escape_dead_end"} => ctx'.state \notin Solvable
  BY <1>2, <1>4
<1>5. CASE Terminated \/ UNCHANGED vars
  BY <1>1, <1>5 DEF Terminated, vars, DeadEndsAreSound
<1>6. CASE Initialize \/ Restart
  <2>1. PICK r \in ResultsOf(InitialState) :
          IF r.h = Infty THEN Halt("UNSOLVABLE") ELSE Goto("step")
    BY <1>6 DEF Initialize, Restart
  <2>2. \A s \in States : IsDeadEnd(node', s) => IsDeadEnd(node, s)
    BY <1>1, <1>6, NodeStatuses DEF Initialize, Restart, IsDeadEnd
  <2> QED
    BY <1>1, <1>2, <1>3, <2>1, <2>2
<1>7. CASE StepSolved \/ StepGrowthExceeded \/ StartPhase \/ Timeout
  BY <1>4, <1>7 DEF StepSolved, StepGrowthExceeded, StartPhase, Timeout, TracePath
<1>8. ASSUME NEW e \in open,
             Skip(e) \/ PruneByNovelty(e) \/ VisitDeadEnd(e) \/ VisitNotBetter(e) \/ VisitBetter(e)
      PROVE  /\ DeadEndsAreSound'
             /\ pc' \in {"safe_dead_end", "escape_dead_end"} => ctx'.state \notin Solvable
  <2>0. pc = "loop"
    BY <1>8 DEF Skip, PruneByNovelty, VisitDeadEnd, VisitNotBetter, VisitBetter, Visit, Pop
  <2>1. CASE Skip(e) \/ PruneByNovelty(e) \/ VisitNotBetter(e)
    BY <1>4, <2>0, <2>1 DEF Skip, PruneByNovelty, VisitNotBetter
  <2>2. CASE VisitBetter(e)
    BY <1>4, <2>2 DEF VisitBetter, TracePath
  <2>3. CASE VisitDeadEnd(e)
    <3>1. PICK r \in ResultsOf(Target[e.t]) : r.h = Infty
      BY <2>3 DEF VisitDeadEnd
    <3>2. Target[e.t] \in States /\ Target[e.t] \notin Solvable
      BY <1>3, <3>1, TypePop
    <3>3. node' = MarkDeadEnd(node, Target[e.t]) /\ UNCHANGED <<pc, status>>
      BY <2>3 DEF VisitDeadEnd
    <3>4. \A s \in States : IsDeadEnd(node', s) => IsDeadEnd(node, s) \/ s \notin Solvable
      BY <1>1, <3>2, <3>3, NodeStatuses DEF IsDeadEnd
    <3> QED
      BY <1>2, <2>0, <3>3, <3>4
  <2> QED
    BY <1>8, <2>1, <2>2, <2>3
<1>9. CASE EndPhase
  <2>1. UNCHANGED <<node, ctx, status>> /\ pc' # "escape_dead_end"
        /\ (pc' = "safe_dead_end" => SafelyExhausted /\ pc = "loop" /\ open = {})
    BY <1>9 DEF EndPhase
  <2>2. pc' = "safe_dead_end" => ctx.state \notin Solvable
    BY <2>1, ExhaustedIsDeadEnd DEF SafelyExhausted, DeadEndInv, LoopCovers
  <2> QED
    BY <1>2, <2>1, <2>2
<1>10. CASE Tracing
  <2>1. CASE TraceBack \/ PlanTraced \/ ReplayStart \/ ReplayEnd
    BY <1>4, <2>1 DEF TraceBack, PlanTraced, ReplayStart, ReplayEnd, Traced
  <2>2. CASE Replay
    <3>1. trace.path \in Seq(Transitions) /\ trace.path # <<>>
      BY <2>2 DEF Replay, TypeInv, PhaseInv, TraceType
    <3>2. Head(trace.path) \in Transitions
      BY <3>1
    <3>3. \A s \in States : IsDeadEnd(node', s) => IsDeadEnd(node, s)
      BY <1>1, <2>2, <3>2, NodeStatuses DEF Replay, IsDeadEnd
    <3>4. UNCHANGED <<pc, status>> /\ pc = "replay"
      BY <2>2 DEF Replay
    <3> QED
      BY <1>2, <3>3, <3>4
  <2> QED
    BY <1>10, <2>1, <2>2 DEF Tracing
<1>11. CASE StagnationPrunes \/ StagnationLeaves \/ BeginLearning
  BY <1>1, <1>4, <1>11, OptionAssumption DEF StagnationPrunes, StagnationLeaves, BeginLearning
<1>12. CASE LearnDeadEnd \/ LearnSolved \/ LearnConjunction \/ LearnFailed \/ LearnedSolution
  BY <1>4, <1>12 DEF LearnDeadEnd, LearnSolved, LearnConjunction, LearnFailed, LearnedSolution, TracePath
<1>13. CASE LearnedDeadEnd
  <2>1. PICK r : EvaluateContext(r) /\ r.h = Infty
    BY <1>13 DEF LearnedDeadEnd
  <2>2. ctx'.state = ctx.state /\ ctx.state \notin Solvable
    BY <2>1, ContextValue
  <2>3. UNCHANGED <<node, status>>
    BY <1>13 DEF LearnedDeadEnd
  <2> QED
    BY <1>2, <2>2, <2>3
<1>14. CASE LearnedFiniteValue
  <2>1. UNCHANGED node /\ (status' # "UNSOLVABLE" \/ UNCHANGED status)
    BY <1>14 DEF LearnedFiniteValue
  <2>2. pc' \notin {"safe_dead_end", "escape_dead_end"}
    BY <1>14 DEF LearnedFiniteValue
  <2> QED
    BY <1>4, <2>1, <2>2
<1>15. CASE Proceed
  <2>1. phase.nextBest \in States
    BY <1>15 DEF TypeInv, ControlInv, PhaseInv, PhaseType, Proceed
  <2>2. PICK r \in ResultsOf(phase.nextBest) :
          IF r.h = Infty THEN Goto("safe_dead_end")
          ELSE TracePath(phase.nextBest, "replay")
    BY <1>15 DEF Proceed
  <2>3. phase.nextBest \in heur.finite \/ CacheHit(phase.nextBest)
    BY <1>15, <2>1, OptionAssumption DEF DeadEndInv, NextBestFinite, Proceed
  <2>4. r.h # Infty
    BY <2>1, <2>3, ResultValues
  <2>5. UNCHANGED <<node, status>> /\ pc' = "trace"
    BY <1>15, <2>2, <2>4 DEF Proceed, TracePath
  <2> QED
    BY <1>4, <2>5
<1>16. CASE ProceedExhausted \/ ContinueOnExhaustion \/ LeaveOnExhaustion
  BY <1>1, <1>4, <1>16 DEF ProceedExhausted, ContinueOnExhaustion, LeaveOnExhaustion
<1>17. CASE HandleSafeDeadEnd
  <2>1. /\ \A s \in marks.current \cup {ctx.state} : s \notin Solvable
        /\ node' = MarkAllDeadEnd(node, marks.current \cup {ctx.state}) /\ UNCHANGED ctx
    BY <1>1, <1>17 DEF HandleSafeDeadEnd, FollowingDeadEnds
  <2>2. \A s \in States : IsDeadEnd(node', s) => IsDeadEnd(node, s) \/ s \notin Solvable
    BY <1>1, <2>1 DEF IsDeadEnd, MarkAllDeadEnd
  <2>3. status' = "UNSOLVABLE" => status = "UNSOLVABLE" \/ InitialState \notin Solvable
    BY <1>17, <2>1 DEF HandleSafeDeadEnd, AtInitialState
  <2> QED
    BY <1>2, <2>1, <2>2, <2>3
<1>18. CASE EscapeDeadEnd
  <2>1. ctx.state \notin Solvable /\ pc # "init" /\ ~Replaying
    BY <1>1, <1>18 DEF EscapeDeadEnd, Replaying
  <2>2. CASE ~HasParent(node, ctx.state)
    <3>1. InitialState \notin Solvable
      BY <2>1, <2>2, ParentSound
    <3>2. UNCHANGED <<node, ctx>> /\ pc' = "done"
      BY <1>18, <2>2 DEF EscapeDeadEnd
    <3> QED
      BY <1>2, <3>1, <3>2
  <2>3. CASE HasParent(node, ctx.state)
    <3>1. Parent \in States
      BY <2>1, <2>3, ParentSound
    <3>2. PICK r \in ResultsOf(Parent) :
            /\ ctx' = FreshContext(Parent, r)
            /\ node' = IF r.h = Infty THEN MarkDeadEnd(node, Parent) ELSE node
            /\ Goto(IF r.h = Infty THEN "escape_dead_end" ELSE "step")
      BY <1>18, <2>3 DEF EscapeDeadEnd
    <3>3. r.h = Infty => Parent \notin Solvable
      BY <1>3, <3>1
    <3>4. \A s \in States : IsDeadEnd(node', s) => IsDeadEnd(node, s) \/ s \notin Solvable
      BY <1>1, <3>1, <3>2, <3>3, NodeStatuses DEF IsDeadEnd
    <3> QED
      BY <1>2, <3>2, <3>3, <3>4 DEF FreshContext
  <2> QED
    BY <2>2, <2>3
<1>19. CASE EscapePotentialDeadEnd
  <2>1. pc # "init" /\ ~Replaying
    BY <1>19 DEF EscapePotentialDeadEnd, Replaying
  <2>2. CASE ~HasParent(node, ctx.state)
    BY <1>4, <1>19, <2>2 DEF EscapePotentialDeadEnd
  <2>3. CASE HasParent(node, ctx.state)
    <3>1. Parent \in States /\ (ctx.state \in Solvable => Parent \in Solvable)
      BY <2>1, <2>3, ParentSound
    <3>2. PICK r \in ResultsOf(Parent) :
            /\ ctx' = FreshContext(Parent, r)
            /\ node' = IF r.h = Infty THEN MarkDeadEnd(node, ctx.state) ELSE node
            /\ Goto(IF r.h = Infty THEN "safe_dead_end" ELSE "step")
      BY <1>19, <2>3 DEF EscapePotentialDeadEnd
    <3>3. r.h = Infty => Parent \notin Solvable /\ ctx.state \notin Solvable
      BY <1>3, <3>1
    <3>4. \A s \in States : IsDeadEnd(node', s) => IsDeadEnd(node, s) \/ s \notin Solvable
      BY <1>1, <3>2, <3>3, NodeStatuses DEF IsDeadEnd
    <3> QED
      BY <1>2, <3>2, <3>3, <3>4 DEF FreshContext
  <2> QED
    BY <2>2, <2>3
<1>20. CASE RestartInParent
  <2>1. pc # "init" /\ ~Replaying /\ HasParent(node, ctx.state)
    BY <1>20 DEF RestartInParent, Replaying
  <2>2. Parent \in States
    BY <2>1, ParentSound
  <2>3. PICK r \in ResultsOf(Parent) :
          /\ ctx' = FreshContext(Parent, r)
          /\ Goto(IF r.h = Infty THEN "safe_dead_end" ELSE "step")
    BY <1>20 DEF RestartInParent
  <2>4. r.h = Infty => Parent \notin Solvable
    BY <1>3, <2>2
  <2>5. UNCHANGED node
    BY <1>20 DEF RestartInParent
  <2> QED
    BY <1>2, <2>3, <2>4, <2>5 DEF FreshContext
<1> QED
  BY <1>5, <1>6, <1>7, <1>8, <1>9, <1>10, <1>11, <1>12, <1>13, <1>14, <1>15, <1>16, <1>17, <1>18,
     <1>19, <1>20
     DEF Next, Run, PhaseLoop, Learning, Escaping

LEMMA CoversStep ==
  ASSUME ExhaustionIsSafe, TypeInv, ValueInv, DeadEndInv, [Next]_vars
  PROVE  LoopCovers'
<1> USE DEF Goto, Halt, engineVars, phaseVars
<1> SUFFICES ASSUME pc' = "loop", PreferredUsage = "RANK_PREFERRED_FIRST" PROVE PhaseCovers'
  BY DEF LoopCovers
<1>1. CASE UNCHANGED vars
  BY <1>1 DEF vars, DeadEndInv, LoopCovers, PhaseCovers, Covered
<1>2. CASE StartPhase
  BY <1>2, CoversStart DEF DeadEndInv
<1>3. CASE PhaseLoop
  <2>1. ASSUME NEW e \in open, VisitBetter(e) PROVE FALSE
    BY <2>1 DEF VisitBetter, TracePath
  <2>2. CASE EndPhase
    BY <2>2 DEF EndPhase
  <2> QED
    BY <1>3, <2>1, <2>2, CoversSkip, CoversDeadEnd, CoversNotBetter DEF PhaseLoop
<1>4. CASE \/ Initialize \/ StepSolved \/ StepGrowthExceeded \/ Timeout \/ Terminated
  BY <1>4 DEF Initialize, StepSolved, StepGrowthExceeded, TracePath, Timeout, Terminated, vars
<1>5. CASE Tracing
  BY <1>5 DEF Tracing, TraceBack, PlanTraced, ReplayStart, Replay, ReplayEnd
<1>6. CASE Learning
  BY <1>6, OptionAssumption DEF Learning, StagnationPrunes, StagnationLeaves, BeginLearning, LearnDeadEnd,
     LearnSolved, LearnConjunction, LearnFailed, LearnedSolution, LearnedDeadEnd,
     LearnedFiniteValue, TracePath
<1>7. CASE Escaping
  BY <1>7 DEF Escaping, ProceedExhausted, Proceed, HandleSafeDeadEnd, ContinueOnExhaustion,
     LeaveOnExhaustion, EscapeDeadEnd, EscapePotentialDeadEnd, Restart, RestartInParent, TracePath
<1> QED
  BY <1>1, <1>2, <1>3, <1>4, <1>5, <1>6, <1>7 DEF Next, Run

LEMMA DeadEndInit == Init => DeadEndInv
<1> SUFFICES ASSUME Init PROVE DeadEndInv
  OBVIOUS
<1>1. \A s \in States : ~IsDeadEnd(node, s)
  BY DEF Init, EmptySpace, NewNode, IsDeadEnd
<1>2. InitialIsFirst
  BY DEF Init, EmptySpace, NewNode, InitialIsFirst, Opened
<1> QED
  BY <1>1, <1>2 DEF Init, DeadEndInv, ExcludedByBackjumps, MarkedBehind, NextBestFinite, LoopCovers,
     DeadEndsAreSound

\* Unless unsafe pruning is left incomplete on purpose, a state marked as a dead
\* end has no plan, and neither has the task when it is reported unsolvable: the
\* heuristic is infinite only for dead ends; a phase that ends with nothing cut off
\* and nothing skipped as unsafe, where preferred operators only rank, without a
\* bound and without back jumps, has expanded every state it can reach; and what
\* was marked unsafe since the last improvement can be reached from the current
\* state, so it is a dead end if that is (lines 435-440, 678-699, 731-745).
THEOREM DeadEndsStaySound ==
  UnsafePruningIsUndone /\ ExhaustionIsSafe => (Spec => []DeadEndsAreSound)
<1> SUFFICES ASSUME UnsafePruningIsUndone, ExhaustionIsSafe PROVE Spec => []DeadEndsAreSound
  OBVIOUS
<1>1. TypeInv /\ TreeInv /\ ValueInv /\ DeadEndInv /\ [Next]_vars => DeadEndInv'
  <2> SUFFICES ASSUME TypeInv, TreeInv, ValueInv, DeadEndInv, [Next]_vars PROVE DeadEndInv'
    OBVIOUS
  <2>1. ExcludedByBackjumps' /\ NextBestFinite' /\ LoopCovers'
    BY ExcludedStep, NextBestStep, CoversStep DEF DeadEndInv
  <2>2. MarkedBehind' /\ InitialIsFirst'
    BY MarkedStep, InitialFirstStep DEF DeadEndInv
  <2> QED
    BY <2>1, <2>2, DeadEndsStep DEF DeadEndInv
<1>2. DeadEndInv => DeadEndsAreSound
  BY DEF DeadEndInv
<1> QED
  BY <1>1, <1>2, DeadEndInit, TypeInvariant, TreeInvariant, ValueInvariant, PTL DEF Spec

-----------------------------------------------------------------------------
(* Dead ends are not taken up again. *)

\* Once the initial state is known to be a dead end, its value is infinity
\* whenever it is evaluated again.
LEMMA LostIsInfinite ==
  ASSUME TypeInv, InitialIsLost, NEW r \in ResultsOf(InitialState)
  PROVE  r.h = Infty /\ r \in EvaluationsOf(InitialState)
<1>1. r \in InfiniteResults(InitialState)
  BY DEF InitialIsLost, ResultsOf, EvaluationsOf, FiniteResults
<1> QED
  BY <1>1, ResultTypes, TaskAssumption DEF EvaluationsOf

LEMMA LostStays ==
  ASSUME TypeInv, InitialIsLost, [Next]_vars, pc \in {"learn", "learned"} => ctx.state # InitialState
  PROVE  InitialIsLost'
<1>1. /\ ctx.state \in States /\ cache \in [States -> Result] /\ InitialState \in States
      /\ NoState \notin States
  BY TaskAssumption, OptionAssumption DEF TypeInv, EngineInv, Context
<1>2. CASE Quiet
  BY <1>2 DEF Quiet, InitialIsLost, CacheHit
<1>3. CASE Evaluates
  <2>1. PICK s \in States : \E r \in ResultsOf(s) : EvaluateIfNecessary(s, r)
    BY <1>3 DEF Evaluates
  <2>2. PICK r \in ResultsOf(s) : EvaluateIfNecessary(s, r)
    BY <2>1
  <2>3. CASE CacheHit(s)
    BY <2>2, <2>3 DEF EvaluateIfNecessary, InitialIsLost, CacheHit
  <2>4. CASE ~CacheHit(s)
    <3>1. r \in EvaluationsOf(s) /\ heur' = AfterEvaluation(s, r)
          /\ cache' = IF r.h = Infty THEN cache ELSE Store(s, r)
      BY <2>2, <2>4 DEF EvaluateIfNecessary, ResultsOf
    <3>2. s = InitialState => r.h = Infty
      BY <2>2, LostIsInfinite
    <3>3. heur.inf \subseteq heur'.inf /\ heur'.bsg # InitialState
      BY <3>1, <3>2, AfterEvaluationFacts DEF InitialIsLost
    <3>4. cache'[InitialState] = cache[InitialState]
      BY <1>1, <3>1, <3>2 DEF Store
    <3> QED
      BY <3>3, <3>4 DEF InitialIsLost, CacheHit
  <2> QED
    BY <2>3, <2>4
<1>4. CASE LearnDeadEnd \/ LearnSolved \/ LearnConjunction
  <2>1. PICK r \in EvaluationsOf(ctx.state) :
          \/ heur' = AfterEvaluation(ctx.state, r)
          \/ \E c \in Conjunctions : heur' = WithConjunction(c, AfterEvaluation(ctx.state, r))
    BY <1>4 DEF LearnDeadEnd, LearnSolved, LearnConjunction, EvaluationsOf
  <2>2. UNCHANGED cache /\ ctx.state # InitialState
    BY <1>4 DEF LearnDeadEnd, LearnSolved, LearnConjunction
  <2>3. HeurInv(AfterEvaluation(ctx.state, r))
    BY <1>1, ResultTypes, AfterEvaluationType
  <2>4. LET hs == AfterEvaluation(ctx.state, r) IN
        heur.inf \subseteq hs.inf /\ hs.bsg # InitialState
    BY <1>1, <2>2, AfterEvaluationFacts DEF InitialIsLost
  <2>5. heur.inf \subseteq heur'.inf /\ heur'.bsg # InitialState
    BY <1>1, <2>1, <2>3, <2>4 DEF WithConjunction, HeurInv, HeurType
  <2> QED
    BY <2>2, <2>5 DEF InitialIsLost, CacheHit
<1>5. CASE LearnedDeadEnd \/ LearnedFiniteValue
  <2>1. ctx.state # InitialState
    BY <1>5 DEF LearnedDeadEnd, LearnedFiniteValue
  <2>2. PICK r : EvaluateContext(r) /\ (cache' = KeptCache \/ cache' = CacheAfterLearning(r))
    BY <1>5 DEF LearnedDeadEnd, LearnedFiniteValue
  <2>3. KeptCache \in [States -> Result] /\ (KeptCache[InitialState].h = -1 \/ KeptCache = cache)
    BY <1>1, KeptCacheType DEF KeptCache, NoResult
  <2>4. ~CacheHit(InitialState)'
    BY <1>1, <2>1, <2>2, <2>3 DEF CacheAfterLearning, CacheHit, InitialIsLost
  <2>5. heur.inf \subseteq heur'.inf /\ heur'.bsg # InitialState
    BY <1>1, <2>1, <2>2, AfterEvaluationFacts DEF EvaluateContext, ContextResults, InitialIsLost
  <2> QED
    BY <2>4, <2>5 DEF InitialIsLost
<1> QED
  BY <1>2, <1>3, <1>4, <1>5, EngineStep

\* What a step other than those of the loop does to the dead ends.
KnowsNoMore == \A s \in States : IsDeadEnd(node', s) => IsDeadEnd(node, s)

LEMMA NotExpandedLoop ==
  ASSUME TypeInv, ValueInv, NotExpandedInv, [Next]_vars, NEW e \in open,
         Skip(e) \/ PruneByNovelty(e) \/ VisitDeadEnd(e) \/ VisitNotBetter(e) \/ VisitBetter(e)
  PROVE  NoDeadEndAhead' /\ (IsDeadEnd(node', InitialState) => InitialIsLost')
         /\ pc' \notin {"escape_dead_end", "escape_potential", "restart_in_parent"}
<1> USE DEF engineVars, phaseVars, outputVars, Goto
<1> DEFINE s == Target[e.t]
<1>1. /\ s \in States /\ e.t \in Transitions /\ ctx.state \in States
      /\ node \in [States -> Node] /\ loc \in [States -> Node] /\ phase \in PhaseType
      /\ phase.nextBest \in States \cup {NoState} /\ InitialState \in States
  BY TaskAssumption, TypePop DEF TypeInv, EngineInv, PhaseInv, PhaseType, Context
<1>2. /\ pc = "loop" /\ ~IsDeadEnd(node, ctx.state) /\ ~IsNew(loc, ctx.state)
      /\ phase.nextBest # NoState => ~IsDeadEnd(node, phase.nextBest) /\ ~IsNew(loc, phase.nextBest)
  BY DEF NotExpandedInv, NoDeadEndAhead, Skip, PruneByNovelty, VisitDeadEnd, VisitNotBetter,
     VisitBetter, Visit, Pop
<1>3. IsDeadEnd(node, InitialState) => InitialIsLost'
  BY <1>2, LostStays DEF NotExpandedInv
<1>4. CASE Skip(e) \/ PruneByNovelty(e)
  BY <1>1, <1>2, <1>3, <1>4 DEF Skip, PruneByNovelty, NoDeadEndAhead, PhaseType
<1>5. CASE VisitDeadEnd(e)
  <2>1. PICK r \in ResultsOf(s) : r.h = Infty /\ EvaluateIfNecessary(s, r)
    BY <1>5 DEF VisitDeadEnd
  <2>2. /\ loc' = MarkDeadEnd(loc, s) /\ node' = MarkDeadEnd(node, s) /\ IsNew(loc, s)
        /\ UNCHANGED <<pc, ctx, phase>>
    BY <1>5 DEF VisitDeadEnd, Visit, Pruned
  <2> HIDE DEF s
  <2>3. /\ \A q \in States : node'[q].status = IF q = s THEN "DEAD_END" ELSE node[q].status
        /\ \A q \in States : loc'[q].status = IF q = s THEN "DEAD_END" ELSE loc[q].status
    BY <1>1, <2>2, NodeStatuses
  <2>4. NoDeadEndAhead'
    BY <1>1, <1>2, <2>2, <2>3 DEF NoDeadEndAhead, IsDeadEnd, IsNew
  <2>5. s = InitialState => InitialIsLost'
    <3> SUFFICES ASSUME s = InitialState PROVE InitialIsLost'
      OBVIOUS
    <3>1. ~CacheHit(s)
      BY <1>1, <2>1, ResultValues
    <3>2. r \in EvaluationsOf(s) /\ heur' = AfterEvaluation(s, r) /\ UNCHANGED cache
      BY <2>1, <3>1 DEF EvaluateIfNecessary, ResultsOf
    <3>3. heur.bsg # s
      BY <1>1, <2>1, <3>2, ResultValues
    <3>4. s \in heur'.inf /\ heur'.bsg = heur.bsg
      BY <1>1, <2>1, <3>2, <3>3, AfterEvaluationFacts
    <3> QED
      BY <3>1, <3>2, <3>3, <3>4 DEF InitialIsLost, CacheHit
  <2>6. IsDeadEnd(node', InitialState) => InitialIsLost'
    BY <1>1, <1>3, <2>3, <2>5 DEF IsDeadEnd
  <2> QED
    BY <1>2, <2>2, <2>4, <2>6
<1>6. CASE VisitBetter(e)
  <2>1. ctx'.state = s /\ pc' = "trace" /\ UNCHANGED node /\ ~IsDeadEnd(node, s)
    BY <1>6 DEF VisitBetter, TracePath, Visit, Pruned
  <2> QED
    BY <1>3, <2>1 DEF NoDeadEndAhead
<1>7. CASE VisitNotBetter(e)
  <2>1. /\ ~IsDeadEnd(node, s) /\ UNCHANGED <<pc, node, ctx>>
        /\ phase'.nextBest \in {s, phase.nextBest}
        /\ loc' = Close(OpenFrom(loc, e.t), s)
    BY <1>1, <1>7 DEF VisitNotBetter, Visit, Pruned, PhaseType
  <2>2. \A q \in States : loc'[q].status = IF q = s THEN "CLOSED" ELSE loc[q].status
    <3> DEFINE opened == OpenFrom(loc, e.t)
    <3>1. opened \in [States -> Node]
      BY <1>1, OpenFromType
    <3>2. \A q \in States : opened[q].status = IF q = s THEN "OPEN" ELSE loc[q].status
      BY <1>1, NodeStatuses
    <3>3. loc' = Close(opened, s)
      BY <2>1
    <3> HIDE DEF opened, s
    <3> QED
      BY <1>1, <3>1, <3>2, <3>3, NodeStatuses
  <2> HIDE DEF s
  <2> QED
    BY <1>1, <1>2, <1>3, <2>1, <2>2 DEF NoDeadEndAhead, IsNew
<1> QED
  BY <1>4, <1>5, <1>6, <1>7

LEMMA NotExpandedStep ==
  ASSUME OnlyRestarts, TypeInv, TreeInv, ValueInv, NotExpandedInv, [Next]_vars
  PROVE  NotExpandedInv'
<1> USE DEF engineVars, phaseVars, outputVars, Goto, Halt
<1> DEFINE Known == pc \notin {"init", "safe_dead_end", "restart", "done"}
           InLoop == pc \in {"loop", "escape_local_minimum", "proceed"}
           Unused == pc \notin {"escape_dead_end", "escape_potential", "restart_in_parent"}
<1>1. /\ ctx \in Context /\ ctx.state \in States /\ node \in [States -> Node]
      /\ InitialState \in States /\ ~UnsafeSse /\ ~UnsafeLs /\ RestartInDeadEnds
      /\ marks.current = {} /\ Stagnation \in {"RESTART", "PROCEED"}
      /\ Exhaustion \in {"CONTINUE", "RESTART"} /\ phase \in PhaseType
  BY TaskAssumption, OptionAssumption DEF TypeInv, EngineInv, PhaseInv, Context, OnlyRestarts,
     NoUnsafePruning, NotExpandedInv, MarksUnused
<1>2. MarksUnused'
  BY MarksStep DEF OnlyRestarts, NotExpandedInv
<1>3. pc # "done" /\ IsDeadEnd(node, InitialState) => InitialIsLost'
  <2>1. pc \in {"learn", "learned"} => ~IsDeadEnd(node, ctx.state)
    BY DEF NotExpandedInv, NoDeadEndAhead
  <2> QED
    BY <2>1, LostStays DEF NotExpandedInv
<1>4. ASSUME pc # "done", KnowsNoMore, Unused', Known' => ~IsDeadEnd(node', ctx'.state),
             InLoop' => InLoop /\ UNCHANGED loc /\ phase'.nextBest = phase.nextBest,
             pc' = "loop" => pc = "loop" /\ ctx'.state = ctx.state
      PROVE  NotExpandedInv'
  <2>1. IsDeadEnd(node', InitialState) => InitialIsLost'
    BY <1>1, <1>3, <1>4 DEF KnowsNoMore
  <2>2. NoDeadEndAhead'
    BY <1>1, <1>4 DEF NoDeadEndAhead, NotExpandedInv, KnowsNoMore, PhaseType, IsNew
  <2> QED
    BY <1>2, <1>4, <2>1, <2>2 DEF NotExpandedInv
<1>5. ASSUME UNCHANGED node, ctx'.state = ctx.state, Known' => Known, pc # "done",
             Unused', pc' # "loop",
             InLoop' => InLoop /\ UNCHANGED loc /\ phase'.nextBest = phase.nextBest
      PROVE  NotExpandedInv'
  BY <1>4, <1>5 DEF KnowsNoMore, NotExpandedInv, NoDeadEndAhead
<1>6. CASE Terminated \/ UNCHANGED vars
  BY <1>6 DEF Terminated, vars, NotExpandedInv, MarksUnused, ExcludedByBackjumps, NoDeadEndAhead,
     InitialIsLost, CacheHit, IsDeadEnd, IsNew
<1>7. CASE Initialize
  <2>1. PICK r \in ResultsOf(InitialState) :
          /\ ctx' = FreshContext(InitialState, r)
          /\ IF r.h = Infty THEN Halt("UNSOLVABLE") ELSE Goto("step")
    BY <1>7 DEF Initialize
  <2>2. node' = OpenInitial(node, InitialState) /\ pc = "init"
    BY <1>7 DEF Initialize
  <2>3. KnowsNoMore /\ ~IsDeadEnd(node', InitialState)
    BY <1>1, <2>2, NodeStatuses DEF KnowsNoMore, IsDeadEnd
  <2>4. ctx'.state = InitialState /\ pc' \in {"step", "done"}
    BY <2>1 DEF FreshContext
  <2> HIDE DEF Known, InLoop, Unused
  <2>5. Unused' /\ ~InLoop'
    BY <2>4 DEF Unused, InLoop
  <2> QED
    BY <1>4, <2>2, <2>3, <2>4, <2>5
<1>8. CASE Restart
  <2>1. PICK r \in ResultsOf(InitialState) :
          /\ ctx' = FreshContext(InitialState, r)
          /\ IF r.h = Infty THEN Halt("UNSOLVABLE") ELSE Goto("step")
    BY <1>8 DEF Restart
  <2>2. UNCHANGED node /\ pc = "restart"
    BY <1>8 DEF Restart
  <2>3. IsDeadEnd(node, InitialState) => r.h = Infty
    BY <2>1, <2>2, LostIsInfinite DEF NotExpandedInv
  <2>4. ctx'.state = InitialState /\ pc' \in {"step", "done"}
        /\ (pc' = "step" => ~IsDeadEnd(node', InitialState))
    BY <2>1, <2>2, <2>3 DEF FreshContext
  <2>5. Unused' /\ ~InLoop' /\ KnowsNoMore
    BY <2>2, <2>4 DEF KnowsNoMore
  <2> HIDE DEF InLoop, Unused
  <2> QED
    BY <1>4, <2>2, <2>4, <2>5
<1>9. CASE StepSolved \/ StepGrowthExceeded \/ Timeout
  <2>1. /\ UNCHANGED <<node, ctx, phase, loc>> /\ pc \in {"step", "loop", "learn"}
        /\ pc' \in {"trace", "done"}
    BY <1>9 DEF StepSolved, StepGrowthExceeded, Timeout, TracePath
  <2> QED
    BY <1>5, <2>1
<1>10. CASE StartPhase
  <2>1. /\ pc = "step" /\ pc' = "loop" /\ UNCHANGED <<node, heur, cache>>
        /\ ctx' = [ctx EXCEPT !.nov = TRUE]
        /\ loc' = Close(PhaseRoots, ctx.state)
        /\ phase' = [NoPhase EXCEPT !.cutoff =
                       CutoffByDepth(PhaseRoots, ctx.state, Preferred(ctx.state, ctx.res))]
    BY <1>10 DEF StartPhase, Expand
  <2>2. ctx'.state = ctx.state /\ phase'.nextBest = NoState
    BY <1>1, <2>1 DEF Context, NoPhase
  <2>3. loc'[ctx.state].status = "CLOSED"
    BY <1>1, <2>1 DEF Close, PhaseRoots, RootNode
  <2>4. ~IsDeadEnd(node, ctx.state) /\ (IsDeadEnd(node, InitialState) => InitialIsLost)
    BY <2>1 DEF NotExpandedInv, NoDeadEndAhead
  <2>5. NoDeadEndAhead'
    BY <2>1, <2>2, <2>3, <2>4 DEF NoDeadEndAhead, IsNew, IsDeadEnd
  <2>6. IsDeadEnd(node', InitialState) => InitialIsLost'
    BY <1>3, <2>1
  <2> QED
    BY <1>2, <2>1, <2>5, <2>6 DEF NotExpandedInv
<1>11. ASSUME NEW e \in open,
              Skip(e) \/ PruneByNovelty(e) \/ VisitDeadEnd(e) \/ VisitNotBetter(e) \/ VisitBetter(e)
       PROVE  NotExpandedInv'
  BY <1>2, <1>11, NotExpandedLoop DEF NotExpandedInv
<1>12. CASE EndPhase
  <2>1. /\ UNCHANGED <<node, ctx, phase, loc>> /\ pc = "loop"
        /\ pc' \in {"safe_dead_end", "exhaustion", "escape_local_minimum"}
    BY <1>1, <1>12 DEF EndPhase
  <2> QED
    BY <1>5, <2>1
<1>13. CASE TraceBack \/ PlanTraced \/ ReplayStart \/ ReplayEnd
  <2>1. /\ UNCHANGED <<node, ctx, phase, loc>> /\ pc \in {"trace", "replay"}
        /\ pc' \in {"trace", "replay", "step", "learned", "done"}
    BY <1>13 DEF TraceBack, PlanTraced, ReplayStart, ReplayEnd, Traced
  <2> QED
    BY <1>5, <2>1
<1>14. CASE Replay
  <2>1. trace.path \in Seq(Transitions) /\ trace.path # <<>> /\ pc = "replay"
    BY <1>14 DEF Replay, TypeInv, PhaseInv, TraceType
  <2>2. Head(trace.path) \in Transitions
    BY <2>1
  <2> DEFINE t == Head(trace.path)
  <2>3. node' = (IF IsNew(node, Target[t]) THEN OpenFrom(node, t) ELSE node)
        /\ UNCHANGED <<pc, ctx>>
    BY <1>14 DEF Replay
  <2>4. \A s \in States : IsDeadEnd(node', s) => IsDeadEnd(node, s)
    <3>1. OpenFrom(node, t) \in [States -> Node]
      BY <1>1, <2>2, OpenFromType
    <3> HIDE DEF t
    <3> QED
      BY <1>1, <2>2, <2>3, NodeStatuses DEF IsDeadEnd, t
  <2>5. ~IsDeadEnd(node', ctx'.state)
    BY <1>1, <2>1, <2>3, <2>4 DEF NotExpandedInv, NoDeadEndAhead
  <2>6. Unused' /\ ~InLoop' /\ KnowsNoMore /\ pc # "done" /\ pc' # "loop"
    BY <2>1, <2>3, <2>4 DEF KnowsNoMore
  <2> HIDE DEF t, InLoop, Unused
  <2> QED
    BY <1>4, <2>5, <2>6
<1>15. CASE StagnationPrunes \/ StagnationLeaves \/ BeginLearning
  <2>1. /\ UNCHANGED <<node, ctx, loc>> /\ phase'.nextBest = phase.nextBest
        /\ pc = "escape_local_minimum" /\ pc' \in {"restart", "proceed", "learn"}
    BY <1>1, <1>15 DEF StagnationPrunes, StagnationLeaves, BeginLearning, PhaseType
  <2> QED
    BY <1>5, <2>1
<1>16. CASE Learning /\ ~(StagnationPrunes \/ StagnationLeaves \/ BeginLearning)
  <2>1. UNCHANGED <<node, loc>> /\ pc \in {"learn", "learned"}
        /\ pc' \in {"learned", "trace", "done", "safe_dead_end", "exhaustion", "learn", "step"}
    BY <1>16 DEF Learning, LearnDeadEnd, LearnSolved, LearnConjunction, LearnFailed, LearnedSolution,
       LearnedDeadEnd, LearnedFiniteValue, TracePath
  <2>2. ctx'.state = ctx.state
    BY <1>16, ContextStateStays
       DEF Learning, LearnDeadEnd, LearnSolved, LearnConjunction, LearnFailed, LearnedSolution,
       LearnedDeadEnd, LearnedFiniteValue
  <2> QED
    BY <1>5, <2>1, <2>2
<1>17. CASE Proceed
  <2>1. phase.nextBest \in States /\ phase.nextBest # NoState /\ pc = "proceed" /\ UNCHANGED node
    BY <1>17, OptionAssumption DEF TypeInv, ControlInv, PhaseInv, PhaseType, Proceed
  <2>2. PICK r \in ResultsOf(phase.nextBest) :
          IF r.h = Infty THEN Goto("safe_dead_end")
          ELSE ctx' = FreshContext(phase.nextBest, r) /\ TracePath(phase.nextBest, "replay")
    BY <1>17 DEF Proceed
  <2>3. pc' \in {"safe_dead_end", "trace"} /\ (pc' = "trace" => ctx'.state = phase.nextBest)
    BY <2>2 DEF TracePath, FreshContext
  <2>4. ~IsDeadEnd(node, phase.nextBest)
    BY <2>1 DEF NotExpandedInv, NoDeadEndAhead
  <2>5. Unused' /\ ~InLoop' /\ KnowsNoMore /\ (Known' => ~IsDeadEnd(node', ctx'.state))
    BY <2>1, <2>3, <2>4 DEF KnowsNoMore, IsDeadEnd
  <2> HIDE DEF Known, InLoop, Unused
  <2> QED
    BY <1>4, <2>1, <2>3, <2>5
<1>18. CASE ProceedExhausted \/ ContinueOnExhaustion \/ LeaveOnExhaustion
  <2>1. /\ UNCHANGED <<node, ctx, phase, loc>> /\ pc \in {"proceed", "exhaustion"}
        /\ pc' \in {"exhaustion", "step", "restart", "done"}
    BY <1>1, <1>18 DEF ProceedExhausted, ContinueOnExhaustion, LeaveOnExhaustion
  <2> QED
    BY <1>5, <2>1
<1>19. CASE HandleSafeDeadEnd
  <2>1. /\ node' = MarkAllDeadEnd(node, {ctx.state}) /\ UNCHANGED ctx /\ pc = "safe_dead_end"
        /\ pc' = (IF AtInitialState THEN "done" ELSE "restart")
    BY <1>1, <1>19 DEF HandleSafeDeadEnd, FollowingDeadEnds
  <2>2. CASE AtInitialState
    BY <1>2, <2>1, <2>2 DEF NotExpandedInv, NoDeadEndAhead
  <2>3. CASE ~AtInitialState
    <3>1. IsDeadEnd(node', InitialState) => IsDeadEnd(node, InitialState)
      BY <1>1, <2>1, <2>3 DEF IsDeadEnd, MarkAllDeadEnd, AtInitialState
    <3> QED
      BY <1>2, <1>3, <2>1, <2>3, <3>1 DEF NotExpandedInv, NoDeadEndAhead
  <2> QED
    BY <2>2, <2>3
<1>20. CASE EscapeDeadEnd \/ EscapePotentialDeadEnd \/ RestartInParent
  BY <1>20 DEF EscapeDeadEnd, EscapePotentialDeadEnd, RestartInParent, NotExpandedInv
<1> HIDE DEF Known, InLoop, Unused
<1> QED
  BY <1>6, <1>7, <1>8, <1>9, <1>10, <1>11, <1>12, <1>13, <1>14, <1>15, <1>16, <1>17, <1>18, <1>19, <1>20
     DEF Next, Run, PhaseLoop, Tracing, Escaping

LEMMA NotExpandedInit == Init => NotExpandedInv
<1> SUFFICES ASSUME Init PROVE NotExpandedInv
  OBVIOUS
<1>1. ~IsDeadEnd(node, InitialState)
  BY TaskAssumption DEF Init, EmptySpace, NewNode, IsDeadEnd
<1> QED
  BY <1>1 DEF Init, NotExpandedInv, MarksUnused, ExcludedByBackjumps, NoDeadEndAhead

\* With the options of the planner's second phase no state that is known to be a
\* dead end becomes the current state of a phase again (the assertion at line
\* 246): the search always goes back to the initial state,
\* which infinity gives away, and the phase meets neither the current state nor
\* the next best one a second time.
THEOREM DeadEndsStayUnexpanded == OnlyRestarts => (Spec => []DeadEndsAreNotExpanded)
<1> SUFFICES ASSUME OnlyRestarts PROVE Spec => []DeadEndsAreNotExpanded
  OBVIOUS
<1>1. TypeInv /\ TreeInv /\ ValueInv /\ NotExpandedInv /\ [Next]_vars => NotExpandedInv'
  BY NotExpandedStep
<1>2. NotExpandedInv => DeadEndsAreNotExpanded
  BY DEF NotExpandedInv, NoDeadEndAhead, DeadEndsAreNotExpanded
<1> QED
  BY <1>1, <1>2, NotExpandedInit, TypeInvariant, TreeInvariant, ValueInvariant, PTL DEF Spec

=============================================================================
