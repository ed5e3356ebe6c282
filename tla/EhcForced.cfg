\* Unsafe pruning that is forced to be complete, with back jumps.
SPECIFICATION Spec
CONSTANTS
  States <- ForkStates
  Transitions <- ForkTransitions
  Source <- ForkSource
  Target <- ForkTarget
  Cost <- ForkCost
  Facts <- ForkFacts
  Conjunctions <- ForkConjunctions
  Holds <- ForkHolds
  PlanCosts <- ForkPlanCosts
  InitialState = "i"
  Goals = {"g"}
  NoTransition = "none"
  CostType = "ONE"
  NoState = "nostate"
  NoBound = NoBound
  Bound = NoBound
  BfsBound = NoBound
  MinH = 1
  MaxH = 2
  PreferredUsage = "PRUNE_BY_PREFERRED"
  EnableCache = TRUE
  NoLearning = FALSE
  RestartInDeadEnds = TRUE
  AlwaysReevaluate = TRUE
  Threshold = 1
  StagnationRestart = FALSE
  Exhaustion = "BACKJUMP"
  Stagnation = "BACKJUMP"
  UnsafeSse = TRUE
  UnsafeLs = TRUE
  ForceComplete = TRUE
  MaxGrowth = NoBound
INVARIANT DeadEndsAreSound
