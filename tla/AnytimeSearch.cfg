\* The engine lists of MCIteratedSearch; phase 1 is skipped once phase 0 found a plan,
\* and any step may hit the time limit of its engine.
SPECIFICATION FairSpec
CONSTANTS
  States <- MCStates
  Transitions <- MCTransitions
  Source <- MCSource
  Target <- MCTarget
  Cost <- MCCost
  Plans <- MCPlans
  InitialState = "i"
  Goals = {"g"}
  NoTransition = "none"
  CostType = "NORMAL"
  EngineOptions <- MCEngineOptions
  EngineConfigs <- Improving
  MayTimeOut = TRUE
  Bound = 2147483647
  PassBound = TRUE
  RepeatLastPhase = TRUE
  ContinueOnFail = TRUE
  ContinueOnSolve = TRUE
  DecisionPoint = 0
  SkipIfSolved = {1}
  SkipIfFailed = {}
INVARIANT CostsAreUpperBounds
INVARIANT EveryPlanImproves
INVARIANT ExhaustedMeansNothingBetter
PROPERTY Termination
