SPECIFICATION FairSpec
CONSTANTS
  Variables <- TaskVariables
  Values <- TaskValues
  Tasks <- PlainTasks
INVARIANT PrunedIsUseless
INVARIANT UnsolvableMeansNoPlan
INVARIANT NoPlanIsLost
INVARIANT OutputPlansArePlans
PROPERTY Termination
CHECK_DEADLOCK FALSE
