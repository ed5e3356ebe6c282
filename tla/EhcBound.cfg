\* The bound on the plan's cost against the costs the engine adds up.
SPECIFICATION Spec
CONSTANTS
  States <- DiamondStates
  Transitions <- DiamondTransitions
  Source <- DiamondSource
  Target <- DiamondTarget
  Cost <- DiamondCost
  Facts <- DiamondFacts
  Conjunctions <- DiamondConjunctions
  Holds <- DiamondHolds
  PlanCosts <- DiamondPlanCosts
  InitialState = "i"
  Goals = {"g"}
  NoTransition = "none"
  CostType = "ONE"
  NoState = "nostate"
  NoBound = NoBound
  Bound = 3
  BfsBound = NoBound
  MinH = 0
  MaxH = 2
  PreferredUsage = "PRUNE_BY_PREFERRED"
  EnableCache = TRUE
  NoLearning = FALSE
  RestartInDeadEnds = TRUE
  AlwaysReevaluate = FALSE
  Threshold = 1
  StagnationRestart = FALSE
  Exhaustion = "RESTART"
  Stagnation = "PROCEED"
  UnsafeSse = FALSE
  UnsafeLs = FALSE
  ForceComplete = FALSE
  MaxGrowth = NoBound
INVARIANT PlanIsWithinBound
