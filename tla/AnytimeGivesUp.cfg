\* A greedy search, then lazy_iterated_weights_c under the bound its plan sets.
SPECIFICATION Spec
CONSTANTS
  States <- MCStates
  Transitions <- MCTransitions
  Source <- MCSource
  Target <- MCTarget
  Cost <- MCCost
  Plans <- MCPlans
  InitialState = "i"
  Goals = {"g"}
  NoTransition = "none"
  CostType = "NORMAL"
  EngineOptions <- MCEngineOptions
  EngineConfigs <- GreedyFirst
  MayTimeOut = FALSE
  Bound = 2147483647
  PassBound = TRUE
  RepeatLastPhase = TRUE
  ContinueOnFail = TRUE
  ContinueOnSolve = TRUE
  DecisionPoint = 0
  SkipIfSolved = {}
  SkipIfFailed = {}
INVARIANT ExhaustedMeansNothingBetter
