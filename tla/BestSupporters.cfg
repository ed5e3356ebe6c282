SPECIFICATION Spec
CONSTANTS
  Facts <- TaskFacts
  Variable <- TaskVariable
  Inconsistent = {}
  Actions <- TaskActions
  Pre <- TaskPre
  Eff <- TaskEff
  ActionCost <- TaskCost
  GoalFacts <- TaskGoal
  Learnable <- TaskLearnable
  EvaluatedStates <- TaskStates
  Options <- TaskOptions
  MaxLearned = 4
INVARIANT BestSupporterFunctionIsExact
INVARIANT DeadEndsAreSafe
INVARIANT CmaxIsAdmissible
INVARIANT RelaxedPlanReachesGoal
INVARIANT SupportersComeLater
INVARIANT NodesAreApplicable
