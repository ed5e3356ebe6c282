\* The options of the planner's second phase (src/Singularity): successors pruned by
\* preferred operators, cached values, proceed on stagnation, restart on exhaustion;
\* with the stagnation threshold 1, as its second learning_stagnation probably means.
SPECIFICATION FairSpec
CONSTANTS
  States <- CorridorStates
  Transitions <- CorridorTransitions
  Source <- CorridorSource
  Target <- CorridorTarget
  Cost <- CorridorCost
  Facts <- CorridorFacts
  Conjunctions <- CorridorConjunctions
  Holds <- CorridorHolds
  PlanCosts <- CorridorPlanCosts
  InitialState = "i"
  Goals = {"g"}
  NoTransition = "none"
  CostType = "ONE"
  NoState = "nostate"
  NoBound = NoBound
  Bound = NoBound
  BfsBound = NoBound
  MinH = 1
  MaxH = 2
  PreferredUsage = "PRUNE_BY_PREFERRED"
  EnableCache = TRUE
  NoLearning = FALSE
  RestartInDeadEnds = TRUE
  AlwaysReevaluate = FALSE
  Threshold = 1
  StagnationRestart = FALSE
  Exhaustion = "RESTART"
  Stagnation = "PROCEED"
  UnsafeSse = FALSE
  UnsafeLs = FALSE
  ForceComplete = FALSE
  MaxGrowth = NoBound
INVARIANT TypeOK
INVARIANT SearchTree
INVARIANT CurrentCostIsPathCost
INVARIANT SomethingIsPreferred
INVARIANT ValuesAreFresh
INVARIANT PlanIsValid
INVARIANT DeadEndsAreNotExpanded
PROPERTY NodesAreNeverRevised
PROPERTY Termination
