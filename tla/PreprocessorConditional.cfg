SPECIFICATION FairSpec
CONSTANTS
  Variables <- HandVariables
  Values <- HandValues
  Tasks <- HandTasks
INVARIANT UnsolvableMeansNoPlan
CHECK_DEADLOCK FALSE
