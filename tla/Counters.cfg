\* Nested, overlapping, mutex and goal conjunctions, one at a time or together.
SPECIFICATION Spec
CONSTANTS
  Facts <- TaskFacts
  Variable <- TaskVariable
  Inconsistent <- TaskInconsistent
  Actions <- TaskActions
  Pre <- TaskPre
  Eff <- TaskEff
  ActionCost <- TaskCost
  GoalFacts <- TaskGoal
  Learnable <- TaskLearnable
  MaxLearned = 4
  MaxAtOnce = 2
INVARIANT SlotsAreConsistent
INVARIANT CountersAreAccounted
PROPERTY ImplementsConjunctionSet
