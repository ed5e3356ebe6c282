\* A bound on the plan's cost, a limit on the growth of the heuristic, and unsafe
\* pruning on stagnation.
SPECIFICATION Spec
CONSTANTS
  States <- DearStates
  Transitions <- DearTransitions
  Source <- DearSource
  Target <- DearTarget
  Cost <- DearCost
  Facts <- DearFacts
  Conjunctions <- DearConjunctions
  Holds <- DearHolds
  PlanCosts <- DearPlanCosts
  InitialState = "i"
  Goals = {"g"}
  NoTransition = "none"
  CostType = "ONE"
  NoState = "nostate"
  NoBound = NoBound
  Bound = 3
  BfsBound = NoBound
  MinH = 0
  MaxH = 2
  PreferredUsage = "PRUNE_BY_PREFERRED"
  EnableCache = TRUE
  NoLearning = FALSE
  RestartInDeadEnds = FALSE
  AlwaysReevaluate = TRUE
  Threshold = 1
  StagnationRestart = FALSE
  Exhaustion = "CONTINUE"
  Stagnation = "PROCEED"
  UnsafeSse = FALSE
  UnsafeLs = TRUE
  ForceComplete = FALSE
  MaxGrowth = 0
INVARIANT SolvedMeansPlan
