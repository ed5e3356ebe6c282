\* Every command line in each of two sessions; searches and sessions are killed anywhere but between two removals.
CONSTANTS
  Prefixes <- BothPrefixes
  MaxCost = 2
  MaxSessions = 2
  Options <- AllCommands
  StrictBound = TRUE
  InterruptedDeletion = FALSE
SPECIFICATION Spec
INVARIANT SuccessMeansAPlan
INVARIANT ManagerMatchesFiles
INVARIANT NoBogusPlan
INVARIANT SearchReadsThisTask
PROPERTY PlansAreKept
